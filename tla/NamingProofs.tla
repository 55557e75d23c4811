---------------------------- MODULE NamingProofs ----------------------------
(***************************************************************************)
(* The names of the values of a function are distinct and never given      *)
(* again, for any values and any alternation of passes and calls of        *)
(* set_instr_name.  The invariant behind it: every number that was ever    *)
(* part of a name is below seq_cnt_ plus what the present call has counted.*)
(***************************************************************************)
EXTENDS Naming, SequenceTheorems, TLAPS

Names == (Kinds \cup {"", "entry"}) \X Nat

\* How far the numbers have come: the next one is this.
NextNumber == seq_cnt_ + (IF at = 0 THEN 0 ELSE seq_size)

NamingTypeOK ==
  /\ values \in Seq(Value)
  /\ name_ \in [Value -> Names]
  /\ seq_cnt_ \in Nat /\ seq_size \in Nat
  /\ at \in 0..(Len(values) + 1)
  /\ given \in SUBSET Names

\* A value is once in its function.
EachOnce == \A i, j \in 1..Len(values) : i # j => values[i] # values[j]
\* Names come from set_instr_name, but for the one of the first block.
NamesAreGiven == Entry \in given /\ \A v \in Value : name_[v] \in given \cup {NoName}
NumbersBelow == \A n \in given : n # Entry => n[2] < NextNumber
\* Only one block is called entry.
OneEntry ==
  \A i, j \in 1..Len(values) :
    name_[values[i]] = Entry =>
      /\ prefix[values[i]] = "label"
      /\ i # j => name_[values[j]] # Entry
Different ==
  \A i, j \in 1..Len(values) :
    i # j /\ name_[values[i]] # NoName => name_[values[i]] # name_[values[j]]
NamedSoFar ==
  \A i \in 1..Len(values) : i < at /\ prefix[values[i]] # "void" => name_[values[i]] # NoName

NamingInv ==
  /\ NamingTypeOK /\ EachOnce /\ NamesAreGiven /\ NumbersBelow /\ OneEntry /\ Different /\ NamedSoFar

-----------------------------------------------------------------------------
LEMMA InsertFacts ==
  ASSUME NEW s \in Seq(Value), NEW v \in Value, NEW k \in 0..Len(s)
  PROVE  /\ Insert(s, k, v) \in Seq(Value)
         /\ Len(Insert(s, k, v)) = Len(s) + 1
         /\ \A j \in 1..(Len(s) + 1) :
              Insert(s, k, v)[j] = IF j <= k THEN s[j] ELSE IF j = k + 1 THEN v ELSE s[j - 1]
<1> DEFINE front == SubSeq(s, 1, k)
           back  == SubSeq(s, k + 1, Len(s))
           begin == front \o <<v>>
<1>1. Len(s) \in Nat /\ \A j \in 1..Len(s) : s[j] \in Value
  OBVIOUS
<1>2. front \in Seq(Value) /\ Len(front) = k /\ \A j \in 1..k : front[j] = s[j]
  BY <1>1, SubSeqProperties
<1>3. /\ back \in Seq(Value) /\ Len(back) = Len(s) - k
      /\ \A j \in 1..(Len(s) - k) : back[j] = s[k + j]
  BY <1>1, SubSeqProperties
<1>4. <<v>> \in Seq(Value) /\ Len(<<v>>) = 1 /\ <<v>>[1] = v
  OBVIOUS
<1> HIDE DEF front, back
<1>5. /\ begin \in Seq(Value) /\ Len(begin) = k + 1
      /\ \A j \in 1..(k + 1) : begin[j] = IF j <= k THEN s[j] ELSE v
  BY <1>2, <1>4, ConcatProperties
<1> HIDE DEF begin
<1>6. /\ begin \o back \in Seq(Value) /\ Len(begin \o back) = Len(s) + 1
      /\ \A j \in 1..(Len(s) + 1) :
           (begin \o back)[j] = IF j <= k + 1 THEN begin[j] ELSE back[j - (k + 1)]
  BY <1>1, <1>3, <1>5, ConcatProperties
<1>7. ASSUME NEW j \in 1..(Len(s) + 1)
      PROVE  (begin \o back)[j] = IF j <= k THEN s[j] ELSE IF j = k + 1 THEN v ELSE s[j - 1]
  <2>1. CASE j <= k + 1
    BY <2>1, <1>5, <1>6
  <2>2. CASE j > k + 1
    <3>1. j - (k + 1) \in 1..(Len(s) - k) /\ k + (j - (k + 1)) = j - 1
      BY <2>2, <1>1
    <3> QED
      BY <2>2, <3>1, <1>3, <1>6
  <2>3. j <= k + 1 \/ j > k + 1
    BY <1>1
  <2> QED
    BY <2>1, <2>2, <2>3
<1>8. Insert(s, k, v) = begin \o back
  BY DEF Insert, begin, front, back
<1> QED
  BY <1>6, <1>7, <1>8

LEMMA WithoutFacts ==
  ASSUME NEW s \in Seq(Value), NEW k \in 1..Len(s)
  PROVE  /\ Without(s, k) \in Seq(Value)
         /\ Len(Without(s, k)) = Len(s) - 1
         /\ \A j \in 1..(Len(s) - 1) : Without(s, k)[j] = IF j < k THEN s[j] ELSE s[j + 1]
<1> DEFINE front == SubSeq(s, 1, k - 1)
           back  == SubSeq(s, k + 1, Len(s))
<1>1. Len(s) \in Nat /\ \A j \in 1..Len(s) : s[j] \in Value
  OBVIOUS
<1>2. front \in Seq(Value) /\ Len(front) = k - 1 /\ \A j \in 1..(k - 1) : front[j] = s[j]
  BY <1>1, SubSeqProperties
<1>3. /\ back \in Seq(Value) /\ Len(back) = Len(s) - k
      /\ \A j \in 1..(Len(s) - k) : back[j] = s[k + j]
  BY <1>1, SubSeqProperties
<1> HIDE DEF front, back
<1>4. /\ front \o back \in Seq(Value) /\ Len(front \o back) = Len(s) - 1
      /\ \A j \in 1..(Len(s) - 1) :
           (front \o back)[j] = IF j <= k - 1 THEN front[j] ELSE back[j - (k - 1)]
  <2>1. (k - 1) + (Len(s) - k) = Len(s) - 1
    BY <1>1
  <2>2. /\ front \o back \in Seq(Value) /\ Len(front \o back) = Len(front) + Len(back)
        /\ \A j \in 1..(Len(front) + Len(back)) :
             (front \o back)[j] = IF j <= Len(front) THEN front[j] ELSE back[j - Len(front)]
    BY <1>2, <1>3, ConcatProperties
  <2> QED
    BY <1>2, <1>3, <2>1, <2>2
<1>5. ASSUME NEW j \in 1..(Len(s) - 1)
      PROVE  (front \o back)[j] = IF j < k THEN s[j] ELSE s[j + 1]
  <2>1. CASE j < k
    BY <2>1, <1>2, <1>4
  <2>2. CASE j >= k
    <3>1. j - (k - 1) \in 1..(Len(s) - k) /\ k + (j - (k - 1)) = j + 1
      BY <2>2, <1>1
    <3> QED
      BY <2>2, <3>1, <1>3, <1>4
  <2>3. j < k \/ j >= k
    BY <1>1
  <2> QED
    BY <2>1, <2>2, <2>3
<1>6. Without(s, k) = front \o back
  BY DEF Without, front, back
<1> QED
  BY <1>4, <1>5, <1>6

-----------------------------------------------------------------------------
LEMMA NamingStarts == NamingInit => NamingInv
<1> SUFFICES ASSUME NamingInit PROVE NamingInv
  OBVIOUS
<1>1. Len(values) = 0 /\ values \in Seq(Value)
  BY DEF NamingInit
<1>2. NoName \in Names /\ Entry \in Names
  BY DEF NoName, Entry, Names
<1>3. NamingTypeOK
  BY <1>1, <1>2 DEF NamingInit, NamingTypeOK
<1> QED
  BY <1>1, <1>3 DEF NamingInit, NamingInv, EachOnce, NamesAreGiven, NumbersBelow, OneEntry,
         Different, NamedSoFar

\* A value at another place is still the same value; the new one is none of
\* the others and has no name, or the name of the first block.
LEMMA CreateKeeps ==
  ASSUME NamingInv, NEW v \in Value, NEW k \in 0..Len(values), Create(v, k)
  PROVE  NamingInv'
<1> DEFINE old(j) == IF j <= k THEN j ELSE j - 1
<1>1. /\ values \in Seq(Value) /\ Len(values) \in Nat
      /\ name_ \in [Value -> Names] /\ at = 0 /\ at' = 0
      /\ UNCHANGED <<seq_cnt_, seq_size, given>>
  BY DEF NamingInv, NamingTypeOK, Create
<1>2. /\ values' \in Seq(Value) /\ Len(values') = Len(values) + 1
      /\ \A j \in 1..Len(values') :
           values'[j] = IF j <= k THEN values[j] ELSE IF j = k + 1 THEN v ELSE values[j - 1]
  <2>1. values' = Insert(values, k, v)
    BY DEF Create
  <2>2. /\ Insert(values, k, v) \in Seq(Value) /\ Len(Insert(values, k, v)) = Len(values) + 1
        /\ \A j \in 1..(Len(values) + 1) :
             Insert(values, k, v)[j] = IF j <= k THEN values[j] ELSE IF j = k + 1 THEN v ELSE values[j - 1]
    BY <1>1, InsertFacts
  <2> QED
    BY <2>1, <2>2
<1>3. ASSUME NEW j \in 1..Len(values'), j # k + 1
      PROVE  /\ old(j) \in 1..Len(values) /\ values'[j] = values[old(j)]
             /\ values[old(j)] # v /\ values[old(j)] \in Value
             /\ name_'[values'[j]] = name_[values[old(j)]]
  <2>1. old(j) \in 1..Len(values) /\ values'[j] = values[old(j)]
    BY <1>1, <1>2, <1>3
  <2>2. values[old(j)] # v
    BY <2>1 DEF Create, Among
  <2> QED
    BY <1>1, <2>1, <2>2 DEF Create
<1>4. values'[k + 1] = v
  BY <1>1, <1>2
<1>5. name_'[v] \in {NoName, Entry}
  BY <1>1 DEF Create
<1>6. name_'[v] = Entry => prefix[v] = "label" /\ \A j \in 1..Len(values) : prefix[values[j]] # "label"
  BY <1>1 DEF Create, Entry, NoName
<1>7. NoName \in Names /\ Entry \in Names /\ NoName # Entry
  BY DEF NoName, Entry, Names
<1>8. \A j \in 1..Len(values) : name_[values[j]] = Entry => prefix[values[j]] = "label"
  BY DEF NamingInv, OneEntry
<1> HIDE DEF old
<1>9. \A i, j \in 1..Len(values') : i # j /\ i # k + 1 /\ j # k + 1 => old(i) # old(j)
  BY <1>1, <1>2 DEF old
<1>10. NamingTypeOK'
  <2>1. name_' \in [Value -> Names]
    BY <1>1, <1>7 DEF Create
  <2> QED
    BY <1>1, <1>2, <2>1 DEF NamingInv, NamingTypeOK
<1>11. EachOnce'
  <2> SUFFICES ASSUME NEW i \in 1..Len(values'), NEW j \in 1..Len(values'), i # j
               PROVE  values'[i] # values'[j]
    BY DEF EachOnce
  <2>1. CASE i = k + 1
    BY <2>1, <1>3, <1>4
  <2>2. CASE j = k + 1
    BY <2>2, <1>3, <1>4
  <2>3. CASE i # k + 1 /\ j # k + 1
    BY <2>3, <1>3, <1>9 DEF NamingInv, EachOnce
  <2> QED
    BY <2>1, <2>2, <2>3
<1>12. NamesAreGiven'
  BY <1>1, <1>5 DEF NamingInv, NamesAreGiven, Create
<1>13. NumbersBelow'
  BY <1>1 DEF NamingInv, NumbersBelow, NextNumber
<1>14. OneEntry'
  <2> SUFFICES ASSUME NEW i \in 1..Len(values'), NEW j \in 1..Len(values'), name_'[values'[i]] = Entry
               PROVE  prefix[values'[i]] = "label" /\ (i # j => name_'[values'[j]] # Entry)
    BY DEF OneEntry
  <2>1. CASE i = k + 1
    BY <2>1, <1>3, <1>4, <1>6, <1>8
  <2>2. CASE i # k + 1 /\ j = k + 1
    BY <2>2, <1>3, <1>4, <1>6, <1>8
  <2>3. CASE i # k + 1 /\ j # k + 1
    BY <2>3, <1>3, <1>9 DEF NamingInv, OneEntry
  <2> QED
    BY <2>1, <2>2, <2>3
<1>15. Different'
  <2> SUFFICES ASSUME NEW i \in 1..Len(values'), NEW j \in 1..Len(values'), i # j,
                      name_'[values'[i]] # NoName
               PROVE  name_'[values'[i]] # name_'[values'[j]]
    BY DEF Different
  <2>1. CASE i = k + 1
    BY <2>1, <1>3, <1>4, <1>5, <1>6, <1>8
  <2>2. CASE i # k + 1 /\ j = k + 1
    BY <2>2, <1>3, <1>4, <1>5, <1>6, <1>8
  <2>3. CASE i # k + 1 /\ j # k + 1
    BY <2>3, <1>3, <1>9 DEF NamingInv, Different
  <2> QED
    BY <2>1, <2>2, <2>3
<1>16. NamedSoFar'
  BY <1>1, <1>2 DEF NamedSoFar
<1> QED
  BY <1>10, <1>11, <1>12, <1>13, <1>14, <1>15, <1>16 DEF NamingInv

LEMMA EraseKeeps ==
  ASSUME NamingInv, NEW k \in 1..Len(values), Erase(k)
  PROVE  NamingInv'
<1> DEFINE old(j) == IF j < k THEN j ELSE j + 1
<1>1. /\ values \in Seq(Value) /\ Len(values) \in Nat /\ at = 0
      /\ UNCHANGED <<name_, seq_cnt_, at, seq_size, given>>
  BY DEF NamingInv, NamingTypeOK, Erase
<1>2. /\ values' \in Seq(Value) /\ Len(values') = Len(values) - 1
      /\ \A j \in 1..Len(values') : values'[j] = IF j < k THEN values[j] ELSE values[j + 1]
  BY <1>1, WithoutFacts DEF Erase
<1>3. \A j \in 1..Len(values') : old(j) \in 1..Len(values) /\ values'[j] = values[old(j)]
  BY <1>1, <1>2
<1>4. \A i, j \in 1..Len(values') : i # j => old(i) # old(j)
  BY <1>1, <1>2
<1> HIDE DEF old
<1>5. NamingTypeOK'
  BY <1>1, <1>2 DEF NamingInv, NamingTypeOK
<1>6. EachOnce' /\ OneEntry' /\ Different'
  <2>1. EachOnce'
    BY <1>1, <1>3, <1>4 DEF NamingInv, EachOnce
  <2>2. OneEntry'
    BY <1>1, <1>3, <1>4 DEF NamingInv, OneEntry
  <2>3. Different'
    BY <1>1, <1>3, <1>4 DEF NamingInv, Different
  <2> QED
    BY <2>1, <2>2, <2>3
<1>7. NamesAreGiven' /\ NumbersBelow'
  BY <1>1 DEF NamingInv, NamesAreGiven, NumbersBelow, NextNumber
<1>8. NamedSoFar'
  BY <1>1, <1>2 DEF NamedSoFar
<1> QED
  BY <1>5, <1>6, <1>7, <1>8 DEF NamingInv

\* The name a value gets now was never given.
LEMMA NewName ==
  ASSUME NamingInv, NEW v \in Value, Nameless(v), at # 0
  PROVE  LET new == <<prefix[v], seq_size + seq_cnt_>>
         IN  new \in Names /\ new \notin given /\ new \notin {NoName, Entry}
<1> DEFINE new == <<prefix[v], seq_size + seq_cnt_>>
<1>1. prefix[v] \in Kinds
  BY PrefixAssumption
<1>2. seq_size + seq_cnt_ \in Nat /\ NextNumber = seq_size + seq_cnt_
  BY DEF NamingInv, NamingTypeOK, NextNumber
<1>3. new \in Names /\ new \notin {NoName, Entry}
  BY <1>1, <1>2 DEF Names, Kinds, NoName, Entry
<1>4. new \notin given
  BY <1>2, <1>3 DEF NamingInv, NumbersBelow
<1> QED
  BY <1>3, <1>4

LEMMA NameNextKeeps ==
  ASSUME NamingInv, NameNext
  PROVE  NamingInv'
<1> DEFINE v == values[at]
           new == <<prefix[v], seq_size + seq_cnt_>>
<1>1. /\ values \in Seq(Value) /\ Len(values) \in Nat /\ at \in 1..Len(values) /\ at \in Nat
      /\ name_ \in [Value -> Names] /\ v \in Value /\ seq_size \in Nat /\ seq_cnt_ \in Nat
      /\ at' = at + 1 /\ UNCHANGED <<values, seq_cnt_>> /\ given \in SUBSET Names
  BY DEF NamingInv, NamingTypeOK, NameNext
<1>2. CASE Nameless(v)
  <2>1. name_' = [name_ EXCEPT ![v] = new] /\ seq_size' = seq_size + 1 /\ given' = given \cup {new}
    BY <1>2 DEF NameNext
  <2>2. new \in Names /\ new \notin given /\ new \notin {NoName, Entry}
    BY <1>1, <1>2, NewName
  <2>3. new[2] = seq_size + seq_cnt_ /\ NextNumber = seq_size + seq_cnt_
    BY <1>1 DEF NextNumber
  <2> HIDE DEF v, new
  <2>4. name_'[v] = new /\ \A w \in Value : w # v => name_'[w] = name_[w]
    BY <1>1, <2>1
  <2>5. \A i \in 1..Len(values) : values[i] \in Value /\ (i # at => values[i] # v)
    BY <1>1 DEF NamingInv, EachOnce, v
  <2>6. NamingTypeOK'
    BY <1>1, <2>1, <2>2 DEF NamingTypeOK
  <2>7. EachOnce'
    BY <1>1 DEF NamingInv, EachOnce
  <2>8. NamesAreGiven'
    BY <2>1, <2>4 DEF NamingInv, NamesAreGiven
  <2>9. NumbersBelow'
    <3>1. NextNumber' = NextNumber + 1
      BY <1>1, <2>1 DEF NextNumber
    <3> SUFFICES ASSUME NEW n \in given', n # Entry PROVE n[2] < NextNumber'
      BY DEF NumbersBelow
    <3>2. CASE n = new
      BY <3>1, <3>2, <2>3, <1>1
    <3>3. CASE n # new
      <4>1. n \in given /\ n[2] \in Nat /\ n[2] < NextNumber
        BY <3>3, <2>1, <1>1 DEF NamingInv, NumbersBelow, Names
      <4> QED
        BY <4>1, <3>1, <2>3, <1>1
    <3> QED
      BY <3>2, <3>3
  <2>10. \A w \in Value : name_[w] # new
    BY <2>2 DEF NamingInv, NamesAreGiven
  <2>11. OneEntry'
    <3> SUFFICES ASSUME NEW i \in 1..Len(values), NEW j \in 1..Len(values), name_'[values[i]] = Entry
                 PROVE  prefix[values[i]] = "label" /\ (i # j => name_'[values[j]] # Entry)
      BY <1>1 DEF OneEntry
    <3>1. values[i] # v
      BY <2>2, <2>4
    <3> QED
      BY <3>1, <2>2, <2>4, <2>5 DEF NamingInv, OneEntry
  <2>12. Different'
    <3> SUFFICES ASSUME NEW i \in 1..Len(values), NEW j \in 1..Len(values), i # j,
                        name_'[values[i]] # NoName
                 PROVE  name_'[values[i]] # name_'[values[j]]
      BY <1>1 DEF Different
    <3> QED
      BY <2>4, <2>5, <2>10 DEF NamingInv, Different, v
  <2>13. NamedSoFar'
    <3> SUFFICES ASSUME NEW i \in 1..Len(values), i < at + 1, prefix[values[i]] # "void"
                 PROVE  name_'[values[i]] # NoName
      BY <1>1 DEF NamedSoFar
    <3>1. CASE i = at
      BY <3>1, <2>2, <2>4 DEF v
    <3>2. CASE i < at
      BY <3>2, <2>4, <2>5, <1>1 DEF NamingInv, NamedSoFar
    <3> QED
      BY <3>1, <3>2, <1>1
  <2> QED
    BY <2>6, <2>7, <2>8, <2>9, <2>11, <2>12, <2>13 DEF NamingInv
<1>3. CASE ~Nameless(v)
  <2>1. UNCHANGED <<name_, seq_size, given>>
    BY <1>3 DEF NameNext
  <2>2. NextNumber' = NextNumber
    BY <1>1, <2>1 DEF NextNumber
  <2>3. NamingTypeOK'
    BY <1>1, <2>1 DEF NamingInv, NamingTypeOK
  <2>4. EachOnce' /\ NamesAreGiven' /\ OneEntry' /\ Different'
    BY <1>1, <2>1 DEF NamingInv, EachOnce, NamesAreGiven, OneEntry, Different
  <2>5. NumbersBelow'
    BY <2>1, <2>2 DEF NamingInv, NumbersBelow
  <2>6. NamedSoFar'
    <3> SUFFICES ASSUME NEW i \in 1..Len(values), i < at + 1, prefix[values[i]] # "void"
                 PROVE  name_[values[i]] # NoName
      BY <1>1, <2>1 DEF NamedSoFar
    <3>1. CASE i = at
      BY <3>1, <1>3 DEF Nameless
    <3>2. CASE i < at
      BY <3>2 DEF NamingInv, NamedSoFar
    <3> QED
      BY <3>1, <3>2, <1>1
  <2> QED
    BY <2>3, <2>4, <2>5, <2>6 DEF NamingInv
<1> QED
  BY <1>2, <1>3

LEMMA BeginAndEndKeep ==
  ASSUME NamingInv, BeginNaming \/ EndNaming
  PROVE  NamingInv'
<1>1. /\ values \in Seq(Value) /\ Len(values) \in Nat /\ seq_size \in Nat /\ seq_cnt_ \in Nat
      /\ UNCHANGED <<values, name_, given>> /\ given \in SUBSET Names
  BY DEF NamingInv, NamingTypeOK, BeginNaming, EndNaming
<1>2. NextNumber' = NextNumber
  BY <1>1 DEF BeginNaming, EndNaming, NextNumber
<1>3. NamingTypeOK'
  BY <1>1 DEF NamingInv, NamingTypeOK, BeginNaming, EndNaming
<1>4. EachOnce' /\ NamesAreGiven' /\ OneEntry' /\ Different'
  BY <1>1 DEF NamingInv, EachOnce, NamesAreGiven, OneEntry, Different
<1>5. NumbersBelow'
  BY <1>1, <1>2 DEF NamingInv, NumbersBelow
<1>6. NamedSoFar'
  BY <1>1 DEF NamedSoFar, BeginNaming, EndNaming
<1> QED
  BY <1>3, <1>4, <1>5, <1>6 DEF NamingInv

LEMMA NamingKeeps == NamingInv /\ [NamingNext]_namingVars => NamingInv'
<1> SUFFICES ASSUME NamingInv, [NamingNext]_namingVars PROVE NamingInv'
  OBVIOUS
<1>1. CASE \E v \in Value, k \in 0..Len(values) : Create(v, k)
  BY <1>1, CreateKeeps
<1>2. CASE \E k \in 1..Len(values) : Erase(k)
  BY <1>2, EraseKeeps
<1>3. CASE BeginNaming \/ EndNaming
  BY <1>3, BeginAndEndKeep
<1>4. CASE NameNext
  BY <1>4, NameNextKeeps
<1>5. CASE UNCHANGED namingVars
  BY <1>5 DEF namingVars, NamingInv, NamingTypeOK, EachOnce, NamesAreGiven, NumbersBelow, NextNumber,
              OneEntry, Different, NamedSoFar
<1> QED
  BY <1>1, <1>2, <1>3, <1>4, <1>5 DEF NamingNext

\* The numbers never meet: the invariant holds in every state.
THEOREM NumbersGrow == NamingSpec => []NamingInv
  BY NamingStarts, NamingKeeps, PTL DEF NamingSpec

\* Whatever the passes do between the calls of set_instr_name, the values of a
\* function are printed with different names, and none without.
THEOREM NamesAreDistinct == NamingSpec => []NamesDistinct
<1>1. NamingInv => NamesDistinct
  BY SMTT(30) DEF NamingInv, NamingTypeOK, Different, NamedSoFar, NamesDistinct
<1> QED
  BY <1>1, NumbersGrow, PTL

\* A name that was shown once is never given to another value.
THEOREM NamesAreNeverGivenAgain == NamingSpec => NeverGivenAgain
<1>1. NamingInv /\ [NamingNext]_namingVars =>
        [\A v \in Value : name_'[v] # name_[v] /\ name_'[v] \notin {NoName, Entry} =>
           name_'[v] \notin given]_namingVars
  <2> SUFFICES ASSUME NamingInv, NamingNext, NEW v \in Value,
                      name_'[v] # name_[v], name_'[v] \notin {NoName, Entry}
               PROVE  name_'[v] \notin given
    OBVIOUS
  <2>1. name_ \in [Value -> Names] /\ values \in Seq(Value)
    BY DEF NamingInv, NamingTypeOK
  <2>2. ASSUME NEW w \in Value, NEW k \in 0..Len(values), Create(w, k) PROVE FALSE
    BY <2>1, <2>2 DEF Create
  <2>3. ASSUME NEW k \in 1..Len(values), Erase(k) PROVE FALSE
    BY <2>3 DEF Erase
  <2>4. ~BeginNaming /\ ~EndNaming
    BY DEF BeginNaming, EndNaming
  <2>5. NameNext
    BY <2>2, <2>3, <2>4 DEF NamingNext
  <2>6. /\ values[at] = v /\ Nameless(v) /\ at # 0
        /\ name_'[v] = <<prefix[v], seq_size + seq_cnt_>>
    BY <2>1, <2>5 DEF NameNext
  <2> QED
    BY <2>6, NewName
<1> QED
  BY <1>1, NumbersGrow, PTL DEF NamingSpec, NeverGivenAgain
=============================================================================
