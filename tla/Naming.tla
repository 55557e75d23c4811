------------------------------- MODULE Naming -------------------------------
(***************************************************************************)
(* How the values of a function get the names they are printed with:       *)
(* Function::set_instr_name of src/lightir/Function.cpp, which runs before *)
(* the passes, when ActiveVars starts and whenever the module is printed;  *)
(* in between, passes create and erase values.  All names of a function    *)
(* count from its seq_cnt_.                                                *)
(*                                                                         *)
(* A name is a pair of a word and a number; the entry block has got one by *)
(* the builder.                                                            *)
(***************************************************************************)
EXTENDS Integers, Sequences

CONSTANTS
  Value,        \* what arguments, blocks and instructions are stored at
  prefix        \* of each: "arg", "label", "op", or "void" for an
                \* instruction without a result, which has no name
Kinds == {"arg", "label", "op", "void"}
ASSUME PrefixAssumption == prefix \in [Value -> Kinds]

VARIABLES
  values,       \* the values of the function, in the order they are printed
  name_,
  seq_cnt_,
  at,           \* where set_instr_name is in values, 0 outside of it
  seq_size,     \* how many names it has given: seq.size()
  given         \* every name that was ever given: no part of the code

namingVars == <<values, name_, seq_cnt_, at, seq_size, given>>

NoName == <<"", 0>>
Entry == <<"entry", 0>>

NamingInit ==
  /\ values = <<>>
  /\ name_ = [v \in Value |-> NoName]
  /\ seq_cnt_ = 0 /\ at = 0 /\ seq_size = 0 /\ given = {Entry}

\* The parts of a sequence before and behind a place.
Insert(s, i, v) == SubSeq(s, 1, i) \o <<v>> \o SubSeq(s, i + 1, Len(s))
Without(s, i) == SubSeq(s, 1, i - 1) \o SubSeq(s, i + 1, Len(s))
Among(s, v) == \E i \in 1..Len(s) : s[i] = v

\* A new value, at a place that may have held another one; only the builder
\* gives a name, to the first block, which stays.
Create(v, i) ==
  /\ at = 0 /\ ~Among(values, v)
  /\ values' = Insert(values, i, v)
  /\ name_' = [name_ EXCEPT ![v] =
                 IF prefix[v] = "label" /\ ~\E j \in 1..Len(values) : prefix[values[j]] = "label"
                 THEN Entry ELSE NoName]
  /\ UNCHANGED <<seq_cnt_, at, seq_size, given>>

Erase(i) ==
  /\ at = 0 /\ name_[values[i]] # Entry
  /\ values' = Without(values, i)
  /\ UNCHANGED <<name_, seq_cnt_, at, seq_size, given>>

BeginNaming ==
  /\ at = 0
  /\ at' = 1 /\ seq_size' = 0
  /\ UNCHANGED <<values, name_, seq_cnt_, given>>

\* set_name refuses where there is a name, and then nothing is counted.
Nameless(v) == prefix[v] # "void" /\ name_[v] = NoName
NameNext ==
  /\ at \in 1..Len(values)
  /\ LET v   == values[at]
         new == <<prefix[v], seq_size + seq_cnt_>>
     IN  IF Nameless(v)
         THEN /\ name_' = [name_ EXCEPT ![v] = new]
              /\ seq_size' = seq_size + 1
              /\ given' = given \cup {new}
         ELSE UNCHANGED <<name_, seq_size, given>>
  /\ at' = at + 1
  /\ UNCHANGED <<values, seq_cnt_>>

EndNaming_StartsAgain ==
  /\ at = Len(values) + 1
  /\ at' = 0
  /\ UNCHANGED <<values, name_, seq_cnt_, seq_size, given>>
EndNaming_CountsValues ==
  /\ at = Len(values) + 1
  /\ seq_cnt_' = Len(values)
  /\ at' = 0
  /\ UNCHANGED <<values, name_, seq_size, given>>
EndNaming ==
  /\ at = Len(values) + 1
  /\ seq_cnt_' = seq_cnt_ + seq_size
  /\ at' = 0
  /\ UNCHANGED <<values, name_, seq_size, given>>

NamingNext ==
  \/ \E v \in Value, i \in 0..Len(values) : Create(v, i)
  \/ \E i \in 1..Len(values) : Erase(i)
  \/ BeginNaming
  \/ NameNext
  \/ EndNaming
NamingSpec == NamingInit /\ [][NamingNext]_namingVars

-----------------------------------------------------------------------------
\* No two values of a function are printed with the same name, however the
\* passes and the calls of set_instr_name alternate, and when it is through,
\* every value with a result has one.
NamesDistinct ==
  /\ \A i, j \in 1..Len(values) :
       i # j /\ name_[values[i]] # NoName => name_[values[i]] # name_[values[j]]
  /\ at = Len(values) + 1 =>
       \A i \in 1..Len(values) : prefix[values[i]] # "void" => name_[values[i]] # NoName

\* A name that active_vars.json or the output of a pass has shown is never
\* given to another value later, though its value may be erased.
NeverGivenAgain ==
  [][\A v \in Value : name_'[v] # name_[v] /\ name_'[v] \notin {NoName, Entry} =>
       name_'[v] \notin given]_namingVars
=============================================================================
