-------------------------- MODULE ConstPropagation --------------------------
(***************************************************************************)
(* ConstPropagation::run of src/optimization/ConstPropagation.cpp, up to   *)
(* the call of DeadCodeDeletion: one sweep over the blocks of a function   *)
(* folds instructions on constants and replaces loads by what the block    *)
(* stored.  The tables of what is known last for one block.  Another       *)
(* function of the module would be another such sweep.                     *)
(*                                                                         *)
(* A constant is a value that is not <<"v", k>>.  `slips' is a history     *)
(* variable: it collects the events after which what the pass knows may    *)
(* not be what the program computes, so that the properties can say that   *)
(* nothing else goes wrong.  pc = "crash" is a division that traps in the  *)
(* compiler.  Signed int arithmetic wraps: the Debug build compiles it to  *)
(* the machine's.                                                          *)
(***************************************************************************)
EXTENDS TypedIR

CONSTANTS
  Block,      \* basic blocks
  Functions   \* functions the pass may be given: see Function

\* What the builder makes, with or without mem2reg: blocks is the block list,
\* type the types of pointers (of the cell) and of values (the ids), cellOf the
\* cell of each pointer, mem the content of the cells on entry.
InstrsOf(c) == UNION {{c[b][k] : k \in 1..Len(c[b])} : b \in DOMAIN c}
Accessed(f, op) == {i.loc : i \in {x \in InstrsOf(f.code) : x.op = op}}
Defines(i) == i.op \notin {"store", "output", "call", "br", "ret"}
IsLiteral(x) == x[1] \in {"i32", "i1", "float"}
IsFloat(f, x) == (IF x[1] = "v" THEN f.type[x] ELSE x[1]) = "float"
Listed(s) == s \in Seq({s[k] : k \in DOMAIN s})

Typed(f, i) ==
  /\ DOMAIN i = {"id", "op", "loc", "args", "from"} /\ Listed(i.args)
  /\ Defines(i) => i.id \in f.ids
  /\ \A j \in 1..Len(i.args) : i.args[j] \in f.ids \/ IsLiteral(i.args[j])
  /\ i.op \in IntOp \cup FloatOp \cup CmpOp => Len(i.args) = 2
  /\ i.op \in CastOp \cup {"zext", "store", "output"} => Len(i.args) = 1
  /\ i.op \in IntOp \cup CmpOp \cup {"fptosi", "zext"} => ~IsFloat(f, i.id)
  /\ i.op \in FloatOp \cup {"sitofp"} => IsFloat(f, i.id)
  /\ i.op \in CastOp => IsFloat(f, i.args[1]) = (i.op = "fptosi")
  /\ i.op \in {"load", "store"} => i.loc \in DOMAIN f.cellOf
  /\ i.op = "load"  => IsFloat(f, i.id) = (f.type[i.loc] = "float")
  /\ i.op = "store" => IsFloat(f, i.args[1]) = (f.type[i.loc] = "float")
  /\ i.op = "phi" => Len(i.from) = Len(i.args)

\* The address of an element is computed for one access; a cell with several
\* pointers is such an element.
Pointers(f) ==
  /\ \A v \in f.ids : v[1] = "v"
  /\ \A p \in DOMAIN f.cellOf : f.cellOf[p] \in DOMAIN f.mem /\ f.type[p] \in {"i32", "float"}
  /\ \A p, q \in DOMAIN f.cellOf : p # q /\ f.cellOf[p] = f.cellOf[q] =>
       ~IsGlobal(p) /\ p \notin Accessed(f, "load") \cap Accessed(f, "store")

WellFormed(f) ==
  /\ f.blocks \in Seq(Block) \ {<<>>} /\ f.succ \in [Block -> SUBSET Block]
  /\ \A m, n \in 1..Len(f.blocks) : f.blocks[m] = f.blocks[n] => m = n
  /\ f.code \in [Block -> Seq(InstrsOf(f.code))]
  /\ \A b, d \in Block : \A k \in 1..Len(f.code[b]), j \in 1..Len(f.code[d]) :
       Defines(f.code[b][k]) /\ f.code[b][k].id = f.code[d][j].id => b = d /\ k = j
  /\ \A i \in InstrsOf(f.code) : Typed(f, i)
  /\ Pointers(f)

ASSUME FunctionsAssumption == \A f \in Functions : WellFormed(f)
ASSUME WidthAssumption == Width \in Nat \ {0} /\ Precision \in Nat \ {0}

VARIABLES
  func_,       \* the function before the pass
  pc,
  at, ip,      \* block and instruction looped over
  code,        \* the instructions of each block
  ConstantInt_var_list, ConstantFP_var_list,   \* pointer -> constant
  global_int_list, global_fp_list,             \* global -> constant
  wait_delete,
  slips

locals  == <<ConstantInt_var_list, ConstantFP_var_list>>
globals == <<global_int_list, global_fp_list>>
vars == <<func_, pc, at, ip, code, locals, globals, wait_delete, slips>>

Empty == [x \in {} |-> Undef]
With(list, x, c) == [y \in DOMAIN list \cup {x} |-> IF y = x THEN c ELSE list[y]]
Except(list, x)  == [y \in DOMAIN list \ {x} |-> list[y]]

bb    == func_.blocks[at]
instr == code[bb][ip]

IsInt(v) == v[1] \in {"i32", "i1"}     \* cast_constantint
IsFP(v)  == v[1] = "float"             \* cast_constantfp
AllInt == \A k \in 1..Len(instr.args) : IsInt(instr.args[k])
AllFP  == \A k \in 1..Len(instr.args) : IsFP(instr.args[k])

Init ==
  /\ func_ \in Functions
  /\ pc = "run" /\ at = 1 /\ ip = 1
  /\ code = func_.code
  /\ ConstantInt_var_list = Empty /\ ConstantFP_var_list = Empty
  /\ global_int_list = Empty /\ global_fp_list = Empty
  /\ wait_delete = {}
  /\ slips = {}

-----------------------------------------------------------------------------
\* ConstFolder: two constants of one type.
computeBinary(op, a, b) ==
  <<IF op \in IntOp THEN "i32" ELSE "float", Arithmetic(op, a[2], b[2])>>

\* The `?:' of an int and a float is a float: two ints are compared as floats.
computeCMP(op, a, b) == Bit(Compare(op, RoundFloat(a[2]), RoundFloat(b[2])))

\* float to int is undefined in C++ for a float too large: any int results.
Converted(op, a) ==
  IF IsInt(a) THEN {<<"float", RoundFloat(a[2])>>}
  ELSE IF a[2] \in IntRange THEN {<<"i32", a[2]>>}
  ELSE {<<"i32", n>> : n \in IntRange}

-----------------------------------------------------------------------------
Running == pc = "run" /\ at <= Len(func_.blocks) /\ ip <= Len(code[bb])

\* instr->replace_all_use_with(c) in every block; instr goes when bb is done.
Substitute_HereOnly(c) ==
  [code EXCEPT ![bb] = [k \in 1..Len(code[bb]) |->
     [code[bb][k] EXCEPT !.args = [j \in 1..Len(@) |-> IF @[j] = instr.id THEN c ELSE @[j]]]]]
Substitute(c) ==
  [b \in Block |-> [k \in 1..Len(code[b]) |->
     [code[b][k] EXCEPT !.args = [j \in 1..Len(@) |-> IF @[j] = instr.id THEN c ELSE @[j]]]]]
ReplaceBy(c) ==
  /\ code' = Substitute(c)
  /\ wait_delete' = wait_delete \cup {instr.id}
Keep == UNCHANGED <<code, wait_delete>>
Advance == ip' = ip + 1 /\ UNCHANGED <<func_, pc, at>>

FoldBinary ==
  /\ Running /\ instr.op \in IntOp \cup FloatOp /\ (AllInt \/ AllFP)
  /\ LET a == instr.args[1]  b == instr.args[2]
     IN  IF Traps(instr.op, a[2], b[2])
         THEN pc' = "crash" /\ Keep /\ UNCHANGED <<func_, at, ip>>
         ELSE ReplaceBy(computeBinary(instr.op, a, b)) /\ Advance
  /\ UNCHANGED <<locals, globals, slips>>

FoldCompare ==
  /\ Running /\ instr.op \in CmpOp /\ (AllInt \/ AllFP)
  /\ LET a == instr.args[1]  b == instr.args[2]
     IN  /\ ReplaceBy(computeCMP(instr.op, a, b))
         /\ slips' = IF Compare(instr.op, a[2], b[2])
                          # Compare(instr.op, RoundFloat(a[2]), RoundFloat(b[2]))
                     THEN slips \cup {"rounded"} ELSE slips
  /\ Advance
  /\ UNCHANGED <<locals, globals>>

FoldCast ==
  /\ Running /\ instr.op \in CastOp /\ (AllInt \/ AllFP)
  /\ \E c \in Converted(instr.op, instr.args[1]) : ReplaceBy(c)
  /\ Advance
  /\ UNCHANGED <<locals, globals, slips>>

FoldZext ==
  /\ Running /\ instr.op = "zext" /\ AllInt
  /\ ReplaceBy(<<"i32", instr.args[1][2]>>)
  /\ Advance
  /\ UNCHANGED <<locals, globals, slips>>

-----------------------------------------------------------------------------
IsStore(global) == Running /\ instr.op = "store" /\ IsGlobal(instr.loc) = global
IsLoad(global)  == Running /\ instr.op = "load" /\ IsGlobal(instr.loc) = global

\* A global gets the last constant stored, or is forgotten.
StoreGlobal ==
  /\ IsStore(TRUE)
  /\ LET v == instr.args[1]  g == instr.loc
     IN  /\ global_int_list' = IF IsInt(v) THEN With(global_int_list, g, v)
                               ELSE IF ~IsFP(v) /\ func_.type[g] = "i32"
                               THEN Except(global_int_list, g) ELSE global_int_list
         /\ global_fp_list'  = IF IsFP(v) THEN With(global_fp_list, g, v)
                               ELSE IF ~IsInt(v) /\ func_.type[g] = "float"
                               THEN Except(global_fp_list, g) ELSE global_fp_list
  /\ Keep /\ Advance
  /\ UNCHANGED <<locals, slips>>

\* std::map::insert: an entry that is there stays as it is.
Insert(list, p, c) == IF p \in DOMAIN list THEN list ELSE With(list, p, c)
Forget_Never(list, p) == list
Forget(list, p) == Except(list, p)
StoreLocal ==
  /\ IsStore(FALSE)
  /\ LET v == instr.args[1]  p == instr.loc
         stale(list) == p \in DOMAIN list /\ list[p] # v
     IN  /\ ConstantInt_var_list' = IF IsInt(v) THEN Insert(ConstantInt_var_list, p, v)
                                    ELSE IF IsFP(v) THEN ConstantInt_var_list
                                    ELSE Forget(ConstantInt_var_list, p)
         /\ ConstantFP_var_list'  = IF IsInt(v) THEN ConstantFP_var_list
                                    ELSE IF IsFP(v) THEN Insert(ConstantFP_var_list, p, v)
                                    ELSE Forget(ConstantFP_var_list, p)
         /\ slips' = IF \/ IsInt(v) /\ stale(ConstantInt_var_list)
                        \/ IsFP(v) /\ stale(ConstantFP_var_list)
                     THEN slips \cup {"kept"} ELSE slips
  /\ Keep /\ Advance
  /\ UNCHANGED globals

LoadGlobal ==
  /\ IsLoad(TRUE)
  /\ LET list == IF func_.type[instr.loc] = "i32" THEN global_int_list ELSE global_fp_list
     IN  IF instr.loc \in DOMAIN list THEN ReplaceBy(list[instr.loc]) ELSE Keep
  /\ Advance
  /\ UNCHANGED <<locals, globals, slips>>

LoadLocal ==
  /\ IsLoad(FALSE)
  /\ IF instr.loc \in DOMAIN ConstantInt_var_list
     THEN ReplaceBy(ConstantInt_var_list[instr.loc])
     ELSE IF instr.loc \in DOMAIN ConstantFP_var_list
     THEN ReplaceBy(ConstantFP_var_list[instr.loc])
     ELSE Keep
  /\ Advance
  /\ UNCHANGED <<locals, globals, slips>>

\* Whatever else: phis, inputs, outputs, and operations on unknown values.  A
\* call is passed over with the tables as they are.
Computes(op) == op \in IntOp \cup FloatOp \cup CmpOp \cup CastOp \cup {"zext"}
PassOver ==
  /\ Running /\ instr.op \notin {"store", "load"}
  /\ ~(Computes(instr.op) /\ (AllInt \/ AllFP))
  /\ slips' = IF instr.op = "call" /\ DOMAIN global_int_list \cup DOMAIN global_fp_list # {}
              THEN slips \cup {"called"} ELSE slips
  /\ Keep /\ Advance
  /\ UNCHANGED <<locals, globals>>

-----------------------------------------------------------------------------
\* The instructions that are not deleted.
Kept(s, ids) ==
  LET kept[k \in Nat] == IF k = 0 THEN <<>>
                         ELSE IF s[k].id \in ids THEN kept[k-1] ELSE Append(kept[k-1], s[k])
  IN  kept[Len(s)]

\* The next block begins with empty tables.
Fresh_KeepGlobals(list) == list
Fresh(list) == Empty
EndBlock ==
  /\ pc = "run" /\ at <= Len(func_.blocks) /\ ip > Len(code[bb])
  /\ code' = [code EXCEPT ![bb] = Kept(@, wait_delete)]
  /\ wait_delete' = {}
  /\ ConstantInt_var_list' = Empty /\ ConstantFP_var_list' = Empty
  /\ global_int_list' = Fresh(global_int_list) /\ global_fp_list' = Fresh(global_fp_list)
  /\ at' = at + 1 /\ ip' = 1
  /\ UNCHANGED <<func_, pc, slips>>

Finish ==
  /\ pc = "run" /\ at > Len(func_.blocks)
  /\ pc' = "done"
  /\ UNCHANGED <<func_, at, ip, code, locals, globals, wait_delete, slips>>

Next ==
  \/ FoldBinary \/ FoldCompare \/ FoldCast \/ FoldZext
  \/ StoreGlobal \/ StoreLocal \/ LoadGlobal \/ LoadLocal \/ PassOver
  \/ EndBlock \/ Finish

Spec == Init /\ [][Next]_vars

-----------------------------------------------------------------------------
CONSTANTS
  PathBound,   \* the longest path followed, in blocks
  Inputs       \* the sequences of numbers the program may read

ASSUME PathBoundAssumption == PathBound \in Nat

Entry == func_.blocks[1]
PathsTo(b) == {p \in PathsFrom(func_.succ, Entry, PathBound) : p[Len(p)] = b}

\* What the tables say of a pointer that is loaded from is what its cell holds,
\* whichever way and with whichever inputs the program comes to this instruction.
Holds(list, s) ==
  \A p \in DOMAIN list \cap Accessed(func_, "load") : Agrees(list[p], s.mem[func_.cellOf[p]])

TablesAreContents ==
  Running /\ slips = {} =>
    \A path \in PathsTo(bb), in \in Inputs :
      LET s == RunTo(func_, func_.code, in, path, ip - 1)
      IN  s.ub \/ /\ Holds(ConstantInt_var_list, s) /\ Holds(ConstantFP_var_list, s)
                  /\ Holds(global_int_list, s) /\ Holds(global_fp_list, s)

\* Unless something slipped, the program computes the same after the pass:
\* nothing it shows or leaves in globals depends on a value that is gone.
MeaningKept ==
  pc = "done" /\ slips = {} =>
    \A path \in PathsFrom(func_.succ, Entry, PathBound), in \in Inputs :
      SameAlong(func_, func_.code, code, in, path)

\* The compiler traps only on a division the program itself would trap at,
\* whenever it came there.
CrashIsUndefined ==
  pc = "crash" /\ slips = {} =>
    \A path \in PathsTo(bb), in \in Inputs : RunTo(func_, func_.code, in, path, ip).ub

\* A global is replaced by a constant where its value can be computed.
GlobalsAreContents ==
  Running =>
    \A path \in PathsTo(bb), in \in Inputs :
      LET s == RunTo(func_, func_.code, in, path, ip - 1)
      IN  s.ub \/ (Holds(global_int_list, s) /\ Holds(global_fp_list, s))
=============================================================================
