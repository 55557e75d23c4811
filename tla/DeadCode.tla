------------------------------ MODULE DeadCode ------------------------------
(***************************************************************************)
(* ConstPropagation::DeadCodeDeletion of                                   *)
(* src/optimization/ConstPropagation.cpp on the operands and use lists of  *)
(* src/lightir/User.cpp and Value.cpp.  First every conditional branch on  *)
(* a constant becomes a plain one, and the phis of the target it no longer *)
(* reaches lose their pair; then every phi with one pair left is replaced  *)
(* by its value.                                                           *)
(*                                                                         *)
(* A use list records who uses a value and at which position.              *)
(* remove_operands erases a pair and moves the later ones down, but the    *)
(* positions recorded for these stay.  Positions count from 1 here.  Use   *)
(* lists and the lists of predecessors and successors are sets: their      *)
(* order and repetitions change nothing.  No list of instructions is gone  *)
(* through again after delete_instr has shortened it, so code is constant  *)
(* and `deleted' says what is off the lists.  The state pc = "abort" is    *)
(* the assert of set_operand failing, "undefined" is operand 0 of a phi    *)
(* that has none.                                                          *)
(***************************************************************************)
EXTENDS IRSemantics, FiniteSets

CONSTANTS
  Block,       \* basic blocks
  Value,       \* instructions
  Literal,     \* constants and arguments
  NoValue,     \* no value, before the first phi is replaced
  True, False, \* the literals 1 and 0 of type i1
  Functions    \* the functions the pass may be given

Operand == Value \cup Literal \cup Block
Op == {"phi", "input", "output", "br", "ret"}

\* blocks is the function's block list; operands of a phi are pairs of a value
\* and a block, those of a branch the condition, if any, and the targets.
Function == [blocks: Seq(Block), pre: [Block -> SUBSET Block], succ: [Block -> SUBSET Block],
             code: [Block -> Seq(Value)], op: [Value -> Op], operands: [Value -> Seq(Operand)]]

ASSUME LiteralAssumption == {True, False} \subseteq Literal /\ True # False
ASSUME KindAssumption == (Value \cup Literal) \cap Block = {} /\ Value \cap Literal = {}

Image(s) == {s[i] : i \in 1..Len(s)}
Last(s) == s[Len(s)]

\* What the passes before leave: a function lists each of its blocks once, and
\* has no code but theirs; an instruction is in one place; a block ends in its
\* only terminator; the edges are those of the terminators; phis are as Mem2Reg
\* leaves them (its PhisMatchPredecessors).
Pairs(ops) == {k \in 1..Len(ops) : k % 2 = 0}     \* where the blocks of a phi are
OnePairFor(ops, blocks) ==
  /\ {ops[k] : k \in Pairs(ops)} = blocks
  /\ \A j, k \in Pairs(ops) : ops[j] = ops[k] => j = k
GoesTo(f, b) ==
  IF f.code[b] = <<>> THEN {} ELSE Image(f.operands[Last(f.code[b])]) \cap Block
Listed(f) ==
  /\ \A j, k \in 1..Len(f.blocks) : f.blocks[j] = f.blocks[k] => j = k
  /\ \A b \in Block \ Image(f.blocks) : f.code[b] = <<>>
Live(f) == Reach(f.succ, {f.blocks[1]})
\* Phi operands ops of block b are pairs of a value and a block, one at most for
\* each predecessor.  In a block the entry reaches there is one at least, all
\* predecessors are reached too (or Dominators never ends), and where a
\* predecessor has a value, those it dominates have one.  In others there is none.
FromMem2Reg(f, b, ops) ==
  LET given == {ops[k] : k \in Pairs(ops)}
  IN  /\ given \subseteq f.pre[b] /\ OnePairFor(ops, given)
      /\ b \notin Live(f) => ops = <<>>
      /\ b \in Live(f) =>
           /\ ops # <<>> /\ f.pre[b] \subseteq Live(f)
           /\ \A p \in given, q \in f.pre[b] : Dominates(f.succ, f.blocks[1], p, q) => q \in given
WellFormed(f) ==
  /\ Listed(f)
  /\ \A b, c \in Block : \A j \in 1..Len(f.code[b]), k \in 1..Len(f.code[c]) :
       f.code[b][j] = f.code[c][k] => b = c /\ j = k
  /\ \A b \in Block : f.code[b] # <<>> => f.op[Last(f.code[b])] \in {"br", "ret"}
  /\ \A u \in Value : f.op[u] = "br" =>
       \A k \in 1..Len(f.operands[u]) :
         f.operands[u][k] \in Block <=> k > 1 \/ Len(f.operands[u]) # 3
  /\ \A u \in Value : f.op[u] = "phi" =>
       /\ Len(f.operands[u]) % 2 = 0
       /\ \A k \in 1..Len(f.operands[u]) : f.operands[u][k] \in Block <=> k % 2 = 0
  /\ \A b \in Image(f.blocks) :
       /\ f.succ[b] = GoesTo(f, b)
       /\ \A p \in Image(f.blocks) : p \in f.pre[b] <=> b \in GoesTo(f, p)
       /\ \A u \in Image(f.code[b]) : f.op[u] = "phi" => FromMem2Reg(f, b, f.operands[u])
ASSUME FunctionsAssumption == Functions \subseteq {f \in Function : WellFormed(f)}

\* Two ways lead to a block with a phi, one from each part of an if or one into
\* a loop and one back.  At most one of them is a branch of two ways, past an if
\* without else: it dominates the other, the end of the part it skips, and the
\* block is no head of a loop, so its phis use none of each other.
TwoWays(f, b) == f.code[b] # <<>> /\ Len(f.operands[Last(f.code[b])]) = 3
JoinsOfTwo(f) ==
  \A b \in Image(f.blocks) : \A u \in Image(f.code[b]) : f.op[u] = "phi" =>
    /\ \E p, q \in Image(f.blocks) : p # q /\ f.pre[b] = {p, q}
    /\ \A p, q \in f.pre[b] : TwoWays(f, p) /\ TwoWays(f, q) => p = q
    /\ \A p, q \in f.pre[b] : TwoWays(f, p) => Dominates(f.succ, f.blocks[1], p, q)
    /\ (\E p \in f.pre[b] : TwoWays(f, p)) => Image(f.operands[u]) \cap Image(f.code[b]) = {}
ASSUME JoinsAssumption == \A f \in Functions : JoinsOfTwo(f)

VARIABLES
  func_,                          \* the function before the pass
  pc,
  at, ip,                         \* block and instruction looped over
  operands_, use_list_, deleted,
  pre_bbs_, succ_bbs_,
  instr, val, uses,               \* replace_all_use_with: old, new, uses left
  wait_delete

vars == <<func_, pc, at, ip, operands_, use_list_, deleted, pre_bbs_, succ_bbs_,
          instr, val, uses, wait_delete>>
graph == <<pre_bbs_, succ_bbs_>>
replacing == <<instr, val, uses>>

op     == func_.op
code   == func_.code
bb     == func_.blocks[at]
PhisOf(b) == {u \in Image(code[b]) : op[u] = "phi"}

\* The use lists add_use has made of a function's operands.
UsesIn(f, x) ==
  UNION {{<<u, k>> : k \in {j \in 1..Len(f.operands[u]) : f.operands[u][j] = x}} :
           u \in UNION {Image(f.code[b]) : b \in Block}}

Init ==
  /\ func_ \in Functions
  /\ pc = "fold"
  /\ at = 1 /\ ip = 1
  /\ operands_ = func_.operands
  /\ use_list_ = [x \in Operand |-> UsesIn(func_, x)]
  /\ pre_bbs_ = func_.pre /\ succ_bbs_ = func_.succ
  /\ instr = NoValue /\ val = NoValue /\ uses = {}
  /\ wait_delete = {} /\ deleted = {}

-----------------------------------------------------------------------------
Without2(s, k) == SubSeq(s, 1, k - 1) \o SubSeq(s, k + 2, Len(s))

brinstr == Last(code[bb])
OnConstant ==
  /\ code[bb] # <<>> /\ op[brinstr] = "br" /\ Len(operands_[brinstr]) = 3
  /\ operands_[brinstr][1] \in {True, False}

\* truebb for 1, falsebb for 0.
target_Swapped == operands_[brinstr][IF operands_[brinstr][1] = True THEN 3 ELSE 2]
target == operands_[brinstr][IF operands_[brinstr][1] = True THEN 2 ELSE 3]

KeepBranch ==
  /\ pc = "fold" /\ at <= Len(func_.blocks) /\ ~OnConstant
  /\ at' = at + 1
  /\ UNCHANGED <<func_, pc, ip, operands_, use_list_, graph, replacing, wait_delete, deleted>>

\* Position of the pair of phi u for the current block, 0 if it has none.
PairOf(u) ==
  LET at_ == {k \in 1..Len(operands_[u]) : k % 2 = 0 /\ operands_[u][k] = bb}
  IN  IF at_ = {} THEN 0 ELSE (CHOOSE k \in at_ : TRUE) - 1

\* The successors remove_pre_basic_block is called on.
Left_TargetOnly == {target}
Left == succ_bbs_[bb]

\* The successors whose phis lose the pair of bb.
GivenUp_Target == {target}
GivenUp == succ_bbs_[bb] \ {target}

\* remove_operands(i - 1, i): the use lists of the two operands drop the phi.
Erase_ValueOnly(s, k) == SubSeq(s, 1, k - 1) \o SubSeq(s, k + 1, Len(s))
Erase(s, k) == Without2(s, k)
Dropped_None(u, x) == FALSE
Dropped(u, x) == x \in {operands_[u][PairOf(u)], operands_[u][PairOf(u) + 1]}

\* The branch becomes a plain one: both successors forget bb, the phis of the
\* one given up lose their pair, the old instruction is deleted, and create_br
\* links bb with the target, which add_succ_basic_block records once more.
FoldBranch ==
  /\ pc = "fold" /\ at <= Len(func_.blocks) /\ OnConstant
  /\ LET lost == {u \in UNION {PhisOf(s) : s \in GivenUp} : PairOf(u) # 0}
         kept(x) == {p \in use_list_[x] : /\ ~(p[1] \in lost /\ Dropped(p[1], x))
                                          /\ p[1] # brinstr}
     IN  /\ operands_' = [u \in Value |->
              IF u = brinstr THEN <<target>>
              ELSE IF u \in lost THEN Erase(operands_[u], PairOf(u)) ELSE operands_[u]]
         /\ use_list_' = [x \in Operand |->
              kept(x) \cup (IF x = target THEN {<<brinstr, 1>>} ELSE {})]
  /\ pre_bbs_' = [b \in Block |->
       (IF b \in Left THEN pre_bbs_[b] \ {bb} ELSE pre_bbs_[b])
         \cup (IF b = target THEN {bb} ELSE {})]
  /\ succ_bbs_' = [succ_bbs_ EXCEPT ![bb] = {target}]
  /\ at' = at + 1
  /\ UNCHANGED <<func_, pc, ip, replacing, wait_delete, deleted>>

StartPhis ==
  /\ pc = "fold" /\ at > Len(func_.blocks)
  /\ pc' = "phis"
  /\ at' = 1 /\ ip' = 1
  /\ UNCHANGED <<func_, operands_, use_list_, graph, replacing, wait_delete, deleted>>

-----------------------------------------------------------------------------
Scanning == pc = "phis" /\ at <= Len(func_.blocks) /\ ip <= Len(code[bb])

\* A phi of one pair at most.
Single(u) == op[u] = "phi" /\ Len(operands_[u]) <= 2

SkipInstr ==
  /\ Scanning /\ ~Single(code[bb][ip])
  /\ ip' = ip + 1
  /\ UNCHANGED <<func_, pc, at, operands_, use_list_, graph, replacing, wait_delete, deleted>>

\* replace_all_use_with(operand 0) begins.
TakePhi ==
  /\ Scanning /\ Single(code[bb][ip])
  /\ LET u == code[bb][ip]
     IN  IF operands_[u] = <<>> THEN pc' = "undefined" /\ UNCHANGED <<replacing, wait_delete>>
         ELSE /\ instr' = u /\ val' = operands_[u][1]
              /\ uses' = use_list_[u]
              /\ wait_delete' = wait_delete \cup {u}
              /\ pc' = "replace"
  /\ UNCHANGED <<func_, at, ip, operands_, use_list_, graph, deleted>>

\* set_operand(arg_no, val) for one use.  A value that replaces itself appends
\* to the list the loop is going through.
ReplaceUse ==
  /\ pc = "replace"
  /\ \E use \in uses :
       IF use[2] > Len(operands_[use[1]])
       THEN pc' = "abort" /\ UNCHANGED <<operands_, use_list_, uses>>
       ELSE /\ operands_' = [operands_ EXCEPT ![use[1]][use[2]] = val]
            /\ use_list_' = [use_list_ EXCEPT ![val] = @ \cup {use}]
            /\ uses' = IF val = instr THEN uses ELSE uses \ {use}
            /\ UNCHANGED pc
  /\ UNCHANGED <<func_, at, ip, graph, instr, val, wait_delete, deleted>>

Replaced ==
  /\ pc = "replace" /\ uses = {}
  /\ ip' = ip + 1
  /\ pc' = "phis"
  /\ UNCHANGED <<func_, at, operands_, use_list_, graph, replacing, wait_delete, deleted>>

\* delete_instr for the block's phis that were replaced: off the list, and out
\* of the use lists of their operands.
Forgets_Nobody(u, x) == FALSE
Forgets(u, x) == u \in wait_delete /\ x \in Image(operands_[u])

EndOfBlock ==
  /\ pc = "phis" /\ at <= Len(func_.blocks) /\ ip > Len(code[bb])
  /\ deleted' = deleted \cup wait_delete
  /\ use_list_' = [x \in Operand |-> {p \in use_list_[x] : ~Forgets(p[1], x)}]
  /\ wait_delete' = {}
  /\ at' = at + 1 /\ ip' = 1
  /\ UNCHANGED <<func_, pc, operands_, graph, replacing>>

Finish ==
  /\ pc = "phis" /\ at > Len(func_.blocks)
  /\ pc' = "done"
  /\ UNCHANGED <<func_, at, ip, operands_, use_list_, graph, replacing, wait_delete, deleted>>

-----------------------------------------------------------------------------
Next ==
  \/ KeepBranch \/ FoldBranch \/ StartPhis
  \/ SkipInstr \/ TakePhi \/ ReplaceUse \/ Replaced \/ EndOfBlock \/ Finish

Spec == Init /\ [][Next]_vars

-----------------------------------------------------------------------------
(***************************************************************************)
(* The function as it was, and as it is.                                   *)
(***************************************************************************)
Entry == func_.blocks[1]
Targets(ops) == Image(ops) \cap Block
TargetsNow(b) == IF code[b] = <<>> THEN {} ELSE Targets(operands_[Last(code[b])])
Present == (UNION {Image(code[b]) : b \in Image(func_.blocks)}) \ deleted

\* Where block b can go: a branch on a constant has one way.
Feasible(b) ==
  IF func_.code[b] = <<>> THEN {}
  ELSE LET ops == func_.operands[Last(func_.code[b])]
       IN  CASE Len(ops) = 3 /\ ops[1] = True  -> {ops[2]}
             [] Len(ops) = 3 /\ ops[1] = False -> {ops[3]}
             [] OTHER                          -> Targets(ops)

\* The positions of the values of phi u that fold with an edge into block b.
LostAt(b, u) ==
  {k \in 1..Len(func_.operands[u]) :
     /\ k % 2 = 1
     /\ b \in func_.succ[func_.operands[u][k + 1]] \ Feasible(func_.operands[u][k + 1])}
Losing ==
  UNION {{<<n, u>> : u \in {v \in Image(func_.code[func_.blocks[n]]) :
                              op[v] = "phi" /\ LostAt(func_.blocks[n], v) # {}}} :
           n \in 1..Len(func_.blocks)}

\* Phi u is left one pair at most.
Reduced(b, u) ==
  \A j, k \in {i \in 1..Len(func_.operands[u]) : i % 2 = 1} \ LostAt(b, u) : j = k

\* Some phi u that loses a pair keeps a value w that is itself a phi, of one
\* pair and in an earlier block, and what the use list of w has of u is out of
\* date: the pair u lost was its first, or had the value w too.
StaleUse ==
  \E x \in Losing, n \in 1..Len(func_.blocks) :
    LET u == x[2]  lost == LostAt(func_.blocks[x[1]], u)
    IN  /\ n < x[1]
        /\ \E w \in PhisOf(func_.blocks[n]), k \in (1..Len(func_.operands[u])) \ lost :
             /\ Reduced(func_.blocks[n], w)
             /\ func_.operands[u][k] = w
             /\ \E j \in lost : j < k \/ func_.operands[u][j] = w

\* A phi that was replaced by the one value it had although its block has more
\* predecessors, those Mem2Reg found no value at: the value need not dominate
\* the block, nor be the one of the last time round a loop.  This shows if
\* anything but such a phi uses it.
Partial(u) ==
  u \in deleted /\ \E b \in Image(func_.blocks) : u \in PhisOf(b) /\ Cardinality(pre_bbs_[b]) > 1
PartialUse ==
  \E b, c \in Image(func_.blocks) : \E u \in PhisOf(b), r \in Image(code[c]) :
    Partial(u) /\ ~Partial(r) /\ u \in Image(func_.operands[r])

\* The code as instructions of IRSemantics; a branch shows its condition.
Record(u, ops) ==
  [id |-> u, loc |-> "none",
   op |-> IF op[u] = "br" /\ Len(ops[u]) = 3 /\ ops[u][1] \notin {True, False} THEN "output"
          ELSE op[u],
   args |-> IF op[u] = "phi" THEN [j \in 1..(Len(ops[u]) \div 2) |-> ops[u][2 * j - 1]]
            ELSE SelectSeq(ops[u], LAMBDA x : x \notin Block),
   from |-> IF op[u] = "phi" THEN [j \in 1..(Len(ops[u]) \div 2) |-> ops[u][2 * j]] ELSE <<>>]
Listing(ops, gone) ==
  [b \in Block |-> LET left == SelectSeq(code[b], LAMBDA u : u \notin gone)
                   IN  [k \in 1..Len(left) |-> Record(left[k], ops)]]
Was == Listing(func_.operands, {})
Is  == Listing(operands_, deleted)

-----------------------------------------------------------------------------
\* Types; a phi has pairs of a value and a block.
TypeOK ==
  /\ func_ \in Function
  /\ pc \in {"fold", "phis", "replace", "done", "abort", "undefined"}
  /\ at \in 1..(Len(func_.blocks) + 1) /\ ip \in Nat \ {0}
  /\ operands_ \in [Value -> Seq(Operand)]
  /\ \A u \in Value : op[u] = "phi" =>
       /\ Len(operands_[u]) % 2 = 0
       /\ \A k \in 1..Len(operands_[u]) : operands_[u][k] \in Block <=> k % 2 = 0
  /\ use_list_ \in [Operand -> SUBSET (Value \X (Nat \ {0}))]
  /\ pre_bbs_ \in [Block -> SUBSET Block] /\ succ_bbs_ \in [Block -> SUBSET Block]
  /\ instr \in Value \cup {NoValue} /\ val \in Operand \cup {NoValue}
  /\ uses \subseteq Value \X (Nat \ {0}) 
  /\ wait_delete \subseteq Value /\ deleted \subseteq Value

\* After each fold the predecessor and successor lists still say what the
\* terminators say, for dead blocks too.
EdgesMatchTerminators ==
  \A b \in Image(func_.blocks) :
    /\ succ_bbs_[b] = TargetsNow(b)
    /\ \A p \in Image(func_.blocks) : p \in pre_bbs_[b] <=> b \in TargetsNow(p)

\* A phi that is kept has exactly one pair for each predecessor its block still
\* has that Mem2Reg gave it a pair for.
Given(u) == {func_.operands[u][k] : k \in Pairs(func_.operands[u])}
PhisMatchPredecessors ==
  \A b \in Image(func_.blocks) : \A u \in PhisOf(b) :
    u \notin deleted => OnePairFor(operands_[u], pre_bbs_[b] \cap Given(u))

\* No pair was taken from u.
Whole(u) == Len(operands_[u]) = Len(func_.operands[u])

\* The use lists of the values the function keeps are exact for every
\* instruction that no pair was taken from: nothing is missing, and nothing is
\* recorded of an instruction that is gone.
UseListsExact ==
  pc \in {"fold", "phis"} =>
    LET present == Present
        whole   == {u \in present : Whole(u)}
    IN  \A x \in (present \ wait_delete) \cup Literal :
          /\ \A p \in use_list_[x] : p[1] \in present
          /\ \A u \in whole : \A k \in 1..Len(operands_[u]) :
               operands_[u][k] = x <=> <<u, k>> \in use_list_[x]

\* The graph is the old one without the ways a constant rules out.  Unless a use
\* is out of date or a phi without all its pairs is used, the pass keeps the
\* meaning: on the paths of the graph the same is shown and the same conditions
\* are met, and operands dominate their uses.
CONSTANT PathBound     \* the longest path compared, in blocks
MeaningKept ==
  pc = "done" =>
    /\ \A b \in Image(func_.blocks) : succ_bbs_[b] = Feasible(b)
    /\ ~StaleUse /\ ~PartialUse =>
         /\ OperandsDominate(Is, Literal, succ_bbs_, Entry)
         /\ \A path \in PathsFrom(succ_bbs_, Entry, PathBound) :
              SameOnPath(Was, Is, Value, {}, {}, path)

\* The assert of set_operand fails only on a use that is out of date, and a phi
\* has no operand 0 only in a block that the entry did not reach to begin with:
\* no fold takes the last pair of another.
FailsOnlyStaleOrUnreached ==
  /\ pc = "abort" => StaleUse
  /\ pc = "undefined" => bb \notin Live(func_)
=============================================================================
