--------------------------- MODULE Mem2RegProofs ---------------------------
(***************************************************************************)
(* What Mem2Reg does to the locals of a function, for every function the   *)
(* builder may make.                                                       *)
(***************************************************************************)
EXTENDS Mem2Reg, FlowGraphProofs, SequenceTheorems, TLAPS

Dom(d, b)   == Dominates(func_.succ, func_.entry, d, b)
Storing(v)  == {c \in func_.blocks : Stores(c, v, LastOf(c))}
PhiBlocks(v) == {b \in Block : <<b, v>> \in bb_has_var_phi}
Frontier(b) == DominanceFrontier(func_.succ, func_.entry, b)

\* The phis of b come first, one for each variable that has one there; its
\* code follows, as it was but for the operands.
PhiCount(b) == Len(code[b]) - LastOf(b)
Shaped(b) ==
  /\ PhiCount(b) \in Nat
  /\ \A k \in 1..PhiCount(b) :
       IsPhi(code[b][k]) /\ code[b][k].loc \in Var /\ <<b, code[b][k].loc>> \in bb_has_var_phi
  /\ \A k, l \in 1..PhiCount(b) : code[b][k].loc = code[b][l].loc => k = l
  /\ \A v \in Var : <<b, v>> \in bb_has_var_phi => \E k \in 1..PhiCount(b) : code[b][k].loc = v
  /\ \A k \in 1..LastOf(b) :
       LET i == code[b][PhiCount(b) + k]  was == func_.code[b][k]
       IN  i.op = was.op /\ i.loc = was.loc /\ (i.op = "load" => i = was)

\* The dominators are those of the graph.
DominatorsKnown ==
  pc # "start" => \A b \in Live : /\ dominators_.frontier[b] = Frontier(b)
                                  /\ dominators_.children[b] = DominatorChildren(func_.succ, func_.entry, b)
DominatorsDead ==
  \A b \in Block \ Live : dominators_.frontier[b] \cap Live = {} /\ dominators_.children[b] = {}

\* The phis of a variable that has been treated are closed under the dominance
\* frontier, those of `var' but for the work list.
Placed ==
  pc # "start" =>
  /\ live_vars \subseteq Var /\ \A v \in live_vars : PhiBlocks(v) = {}
  /\ var # NoVar => var \in Var /\ var \notin live_vars /\ work_list \subseteq Storing(var) \cup PhiBlocks(var)
  /\ \A v \in Var \ live_vars : \A q \in (Storing(v) \cup PhiBlocks(v)) \cap Live :
       Frontier(q) \subseteq PhiBlocks(v) \/ (v = var /\ q \in work_list)
  /\ \A v \in Var : \A s \in PhiBlocks(v) \cap Live :
       \E q \in (Storing(v) \cup PhiBlocks(v)) \cap Live : s \in Frontier(q)

Open    == {calls[n].bb : n \in 1..Len(calls)}
Waiting == {b \in Live : \E n \in 1..Len(calls) : \E x \in calls[n].left : Dom(x, b)}

\* The calls in progress are a path of the dominator tree.
Chain ==
  /\ \A n \in 1..Len(calls) : calls[n].bb \in Live /\ calls[n].left \subseteq DominatorChildren(func_.succ, func_.entry, calls[n].bb)
  /\ \A n \in 1..Len(calls) : \A d \in Live :
       Dom(d, calls[n].bb) <=> \E m \in 1..n : calls[m].bb = d
  /\ \A m, n \in 1..Len(calls) : calls[m].bb = calls[n].bb => m = n
  /\ \A m, n \in 1..Len(calls) : calls[m].bb \notin calls[n].left

Progress ==
  \A n \in 1..Len(calls) :
    LET c == calls[n]
    IN  /\ c.ip \in 1..(Len(code[c.bb]) + 1)
        /\ c.wait_delete \subseteq 1..(c.ip - 1)
        /\ c.at \in {"phis", "instrs", "children"}
        /\ c.at = "phis" => c.ip = 1
        /\ c.at = "children" => c.ip = Len(code[c.bb]) + 1
        /\ n < Len(calls) => c.at = "children"

\* The blocks that are not renamed yet have their shape.
FirstShapes == pc \in {"start", "phi"} => \A b \in Block : Shaped(b)
OpenShapes  == \A b \in Open \cup Waiting : Shaped(b)

\* An instruction that still refers to an alloca is a load that some path
\* reaches with the variable unassigned.
Unassigned(b, i) ==
  i.op \in {"load", "store"} /\ i.loc \in Var =>
    \E n \in 1..LastOf(b) : /\ func_.code[b][n] = i /\ i.op = "load" /\ ~AssignedAt(b, n, i.loc)

Renamed ==
  /\ \A n \in 1..Len(calls) : \A k \in (1..(calls[n].ip - 1)) \ calls[n].wait_delete : Unassigned(calls[n].bb, code[calls[n].bb][k])
  /\ pc \notin {"start", "phi"} =>
       \A b \in Live \ (Open \cup Waiting) : \A k \in 1..Len(code[b]) : Unassigned(b, code[b][k])

\* The places in the calls in progress that have pushed a value of v.
PushedBy(v) == UNION {{<<n, k>> : k \in Pushed(calls[n], v)} : n \in 1..Len(calls)}

\* The stacks have one value for each of those places.
StacksKnown ==
  /\ keys \subseteq Var
  /\ \A v \in Var \ keys : var_val_stack[v] = <<>>
  /\ \A v \in Var :
      Len(var_val_stack[v]) = Cardinality(PushedBy(v))

Failed ==
  /\ pc = "undefined" => Len(calls) > 0 /\ top.at = "instrs" /\ top.ip <= Len(code[top.bb])
                         /\ instr.op = "load" /\ instr.loc \in keys /\ var_val_stack[instr.loc] = <<>>
  /\ pc = "abort" => Len(calls) > 0 /\ top.at = "instrs" /\ top.ip = Len(code[top.bb]) + 1
                     /\ \E s \in func_.succ[top.bb] : \E k \in PhisOf(s) :
                          code[s][k].loc \in keys /\ var_val_stack[code[s][k].loc] = <<>>

\* No dominator of b gives v a value.
Unset(b, v) ==
  \A d \in Live : Dom(d, b) => d \notin Storing(v) /\ d \notin PhiBlocks(v)

Unfilled == Waiting \cup {calls[n].bb : n \in {m \in 1..Len(calls) : calls[m].at # "children"}}

\* A phi of b for v with the pairs `from': one for each predecessor that is
\* renamed and has a value of v.
PhiKnown(b, v, from) ==
  /\ v \in Var /\ <<b, v>> \in bb_has_var_phi
  /\ \A j, l \in 1..Len(from) : from[j] = from[l] => j = l
  /\ \A j \in 1..Len(from) : from[j] \in Live \ Unfilled /\ b \in func_.succ[from[j]] /\ ~Unset(from[j], v)
  /\ pc \in {"start", "phi"} => from = <<>>
  /\ pc \notin {"start", "phi"} =>
       \A p \in Live \ Unfilled : b \in func_.succ[p] => (\E j \in 1..Len(from) : from[j] = p) \/ Unset(p, v)
PhisKnown ==
  \A b \in Block : \A k \in PhisOf(b) : PhiKnown(b, code[b][k].loc, code[b][k].from)

Phases ==
  /\ pc = "start" => bb_has_var_phi = {} /\ code = func_.code /\ var = NoVar
  /\ pc \in {"start", "phi"} => calls = <<>>
  /\ pc \notin {"start", "phi"} => live_vars = {} /\ var = NoVar
  /\ pc = "done" => calls = <<>>
-----------------------------------------------------------------------------
\* A store has the one operand it stores.
KnownInstr == {i \in Instr : i.op = "store" => Len(i.args) = 1}
CallRecord == [bb: Block, at: {"phis", "instrs", "children"}, ip: Nat \ {0}, left: SUBSET Block,
               wait_delete: SUBSET Nat]

TypeOK ==
  /\ func_ \in Functions
  /\ code \in [Block -> Seq(KnownInstr)]
  /\ pc \in {"start", "phi", "rename", "done", "abort", "undefined"}
  /\ dominators_ \in [frontier: [Block -> SUBSET Block], children: [Block -> SUBSET Block]]
  /\ live_vars \subseteq Var /\ work_list \subseteq Block /\ var \in Var \cup {NoVar}
  /\ bb_has_var_phi \subseteq Block \X Var
  /\ var_val_stack \in [Var -> Seq(Operand)] /\ keys \subseteq Var
  /\ calls \in Seq(CallRecord)

\* The function is one of those the builder makes.
LEMMA FunctionParts ==
  ASSUME func_ \in Functions
  PROVE  /\ func_.entry \in func_.blocks /\ func_.blocks \in SUBSET Block
         /\ func_.succ \in [Block -> SUBSET Block] /\ func_.code \in [Block -> Seq(Instr)]
         /\ Graph(Block, func_.succ, func_.entry)
         /\ WellFormed(func_)
<1>1. func_ \in Function /\ WellFormed(func_) BY FunctionsAssumption
<1>2. func_.entry \in func_.blocks BY <1>1 DEF WellFormed
<1>3. func_.entry \in Block /\ func_.succ \in [Block -> SUBSET Block] BY <1>1 DEF Function
<1>4. func_.blocks \in SUBSET Block /\ func_.code \in [Block -> Seq(Instr)] BY <1>1 DEF Function
<1>5. Graph(Block, func_.succ, func_.entry) BY <1>3, BlockAssumption DEF Graph
<1> QED BY <1>1, <1>2, <1>3, <1>4, <1>5

LEMMA LiveBlocks ==
  ASSUME func_ \in Functions
  PROVE  /\ Live \subseteq func_.blocks /\ Live \in SUBSET Block /\ func_.entry \in Live
         /\ \A b \in Live : func_.succ[b] \subseteq Live
<1>1. Graph(Block, func_.succ, func_.entry) BY FunctionParts
<1>2. func_.entry \in func_.blocks /\ \A b \in func_.blocks \cap Block : func_.succ[b] \subseteq func_.blocks
  BY FunctionParts DEF WellFormed
<1>3. Live \subseteq func_.blocks BY <1>1, <1>2, ReachInside DEF Live
<1>4. /\ Reach(func_.succ, {func_.entry}) \in SUBSET Block
      /\ func_.entry \in Reach(func_.succ, {func_.entry})
      /\ \A b \in Reach(func_.succ, {func_.entry}) :
           func_.succ[b] \subseteq Reach(func_.succ, {func_.entry})
  BY <1>1, ReachFromEntry
<1> QED BY <1>3, <1>4 DEF Live

-----------------------------------------------------------------------------
\* One instruction with an operand replaced, or a phi with a pair more.
Replaced(i, old, v) == [i EXCEPT !.args = [j \in 1..Len(@) |-> Subst(@[j], old, v)]]

LEMMA ReplacedInstr ==
  ASSUME NEW i \in KnownInstr, NEW old, NEW v \in Operand
  PROVE  /\ Replaced(i, old, v) \in KnownInstr
         /\ Replaced(i, old, v).op = i.op /\ Replaced(i, old, v).loc = i.loc
         /\ Replaced(i, old, v).id = i.id /\ Replaced(i, old, v).from = i.from
         /\ i.args = <<>> => Replaced(i, old, v) = i
<1> DEFINE a == [j \in 1..Len(i.args) |-> Subst(i.args[j], old, v)]
<1>1. i.args \in Seq(Operand) /\ i.from \in Seq(Block) BY DEF Instr, KnownInstr
<1>2. a \in Seq(Operand)
  <2>1. \A j \in 1..Len(i.args) : Subst(i.args[j], old, v) \in Operand BY <1>1 DEF Subst
  <2> QED BY <1>1, <2>1
<1>3. i.args = <<>> => a = i.args BY <1>1
<1>4. Replaced(i, old, v) = [i EXCEPT !.args = a] BY DEF Replaced
<1>5. Len(a) = Len(i.args) BY <1>1
<1> HIDE DEF a
<1>6. /\ Replaced(i, old, v) \in Instr /\ Replaced(i, old, v).args = a
      /\ Replaced(i, old, v).op = i.op /\ Replaced(i, old, v).loc = i.loc
      /\ Replaced(i, old, v).id = i.id /\ Replaced(i, old, v).from = i.from
      /\ a = i.args => Replaced(i, old, v) = i
  BY <1>2, <1>4 DEF Instr, KnownInstr
<1> QED BY <1>3, <1>5, <1>6 DEF KnownInstr

LEMMA FilledInstr ==
  ASSUME TypeOK, NEW i \in KnownInstr, top.bb \in Block,
         IsPhi(i) /\ i.loc \in keys => var_val_stack[i.loc] # <<>>
  PROVE  /\ Filled(i) \in KnownInstr
         /\ Filled(i).op = i.op /\ Filled(i).loc = i.loc /\ Filled(i).id = i.id
         /\ ~(IsPhi(i) /\ i.loc \in keys) => Filled(i) = i
         /\ IsPhi(i) /\ i.loc \in keys => Filled(i).from = Append(i.from, top.bb)
<1> DEFINE v == Top(i.loc)  b == top.bb
           a == Append(i.args, v)  f == Append(i.from, b)
<1>1. CASE IsPhi(i) /\ i.loc \in keys
  <2>1. var_val_stack[i.loc] \in Seq(Operand) /\ var_val_stack[i.loc] # <<>> BY <1>1 DEF TypeOK
  <2>2. v \in Operand BY <2>1 DEF Top
  <2>3. i.args \in Seq(Operand) /\ i.from \in Seq(Block) BY DEF Instr, KnownInstr
  <2> HIDE DEF v
  <2>4. a \in Seq(Operand) BY <2>2, <2>3
  <2>5. b \in Block OBVIOUS
  <2> HIDE DEF b
  <2>6. f \in Seq(Block) BY <2>3, <2>5
  <2>7. Filled(i) = [i EXCEPT !.args = a, !.from = f] BY <1>1 DEF Filled, v, b
  <2> HIDE DEF a
  <2>8. Filled(i).from = f /\ Filled(i).op = i.op /\ Filled(i).loc = i.loc /\ Filled(i).id = i.id
    BY <2>7 DEF Instr, KnownInstr
  <2>9. Filled(i) \in Instr
    <3> HIDE DEF f
    <3> QED BY <2>4, <2>6, <2>7 DEF Instr, KnownInstr
  <2>10. Filled(i) \in KnownInstr BY <2>8, <2>9, <1>1 DEF KnownInstr, IsPhi
  <2> QED BY <2>8, <2>10, <1>1 DEF b
<1>2. CASE ~(IsPhi(i) /\ i.loc \in keys) BY <1>2 DEF Filled
<1> QED BY <1>1, <1>2

-----------------------------------------------------------------------------
\* What is kept of a list.
LEMMA RankExists ==
  ASSUME NEW m \in Nat, NEW S \in SUBSET (1..m), NEW n \in 1..Cardinality(S)
  PROVE  \E k \in S : Cardinality({j \in S : j <= k}) = n
<1> DEFINE Upto(k) == {j \in S : j <= k}
           Enough == {k \in 0..m : Cardinality(Upto(k)) >= n}
<1>0. \A j \in S : j \in Int /\ 1 <= j /\ j <= m OBVIOUS
<1>1. IsFiniteSet(S) /\ Cardinality(S) \in Nat
  <2>1. IsFiniteSet(1..m) BY FS_Interval
  <2>2. IsFiniteSet(S) BY <2>1, FS_Subset
  <2> QED BY <2>2, FS_CardinalityType
<1>2. \A k \in 0..m : Upto(k) \in SUBSET S /\ IsFiniteSet(Upto(k)) /\ Cardinality(Upto(k)) \in Nat
  <2>1. \A k \in 0..m : Upto(k) \in SUBSET S OBVIOUS
  <2> HIDE DEF Upto
  <2> QED BY <1>1, <2>1, FS_Subset, FS_CardinalityType
<1>3. m \in Enough
  <2>1. Upto(m) = S BY <1>0
  <2> HIDE DEF Upto
  <2> QED BY <1>1, <2>1
<1>4. PICK k \in Enough : \A l \in Enough : k <= l
  <2>1. Enough \in SUBSET Nat OBVIOUS
  <2> HIDE DEF Enough
  <2> QED BY <1>3, <2>1, LeastNat
<1>5. k # 0
  <2> SUFFICES ASSUME k = 0 PROVE FALSE OBVIOUS
  <2>1. \A j \in S : ~(j <= 0) BY <1>0
  <2>2. Upto(0) = {} BY <2>1
  <2>3. Cardinality(Upto(0)) >= n BY <1>4
  <2> HIDE DEF Upto
  <2> QED BY <2>2, <2>3, FS_EmptySet
<1>6. k \in 1..m /\ k - 1 \in 0..m /\ k - 1 \notin Enough
  <2>1. k \in 0..m BY <1>4
  <2>2. k \in 1..m /\ k - 1 \in 0..m /\ ~(k <= k - 1) BY <2>1, <1>5
  <2> HIDE DEF Enough
  <2> QED BY <2>2, <1>4
<1>7. Cardinality(Upto(k - 1)) < n /\ Cardinality(Upto(k)) >= n
  <2>1. Cardinality(Upto(k)) >= n BY <1>4
  <2>2. ~(Cardinality(Upto(k - 1)) >= n) BY <1>6
  <2>3. Cardinality(Upto(k - 1)) \in Nat BY <1>2, <1>6
  <2> HIDE DEF Upto
  <2> QED BY <2>1, <2>2, <2>3
<1>8. k \in S
  <2> SUFFICES ASSUME k \notin S PROVE FALSE OBVIOUS
  <2>1. \A j \in S : j <= k <=> j <= k - 1 BY <1>0, <1>6
  <2>2. Upto(k) = Upto(k - 1) BY <2>1
  <2> HIDE DEF Upto
  <2>3. Cardinality(Upto(k)) \in Nat BY <1>2, <1>6
  <2> QED BY <1>7, <2>2, <2>3
<1>9. Upto(k) = Upto(k - 1) \cup {k} /\ k \notin Upto(k - 1)
  <2>1. \A j \in S : j <= k <=> j <= k - 1 \/ j = k BY <1>0, <1>6
  <2>2. ~(k <= k - 1) /\ k <= k BY <1>6
  <2> QED BY <2>1, <2>2, <1>8
<1> HIDE DEF Upto
<1>10. Cardinality(Upto(k)) = Cardinality(Upto(k - 1)) + 1
  BY <1>2, <1>6, <1>9, FS_AddElement
<1>11. Cardinality(Upto(k - 1)) \in Nat BY <1>2, <1>6
<1>12. Cardinality(Upto(k)) = n BY <1>7, <1>10, <1>11
<1> QED BY <1>8, <1>12 DEF Upto

LEMMA KeepOnlyElements ==
  ASSUME NEW T, NEW list \in Seq(T), NEW S \in SUBSET (1..Len(list))
  PROVE  /\ KeepOnly(list, S) \in Seq(T)
         /\ \A n \in 1..Len(KeepOnly(list, S)) : \E k \in S : KeepOnly(list, S)[n] = list[k]
<1> DEFINE N == Cardinality(S)
           rank(k) == Cardinality({j \in S : j <= k})
           at(n) == CHOOSE k \in S : rank(k) = n
           kept == [n \in 1..N |-> list[at(n)]]
<1>1. N \in Nat
  <2>1. Len(list) \in Nat OBVIOUS
  <2>2. IsFiniteSet(1..Len(list)) BY <2>1, FS_Interval
  <2> QED BY <2>2, FS_Subset, FS_CardinalityType
<1>2. \A n \in 1..N : at(n) \in S
  <2> TAKE n \in 1..N
  <2>1. \E k \in S : rank(k) = n
    <3>1. Len(list) \in Nat OBVIOUS
    <3> QED BY <3>1, RankExists
  <2> HIDE DEF rank
  <2> QED BY <2>1
<1>3. KeepOnly(list, S) = kept BY DEF KeepOnly
<1> HIDE DEF at
<1>4. \A n \in 1..N : list[at(n)] \in T
  <2>1. \A k \in S : list[k] \in T OBVIOUS
  <2> QED BY <1>2, <2>1
<1>5. kept \in Seq(T) /\ Len(kept) = N BY <1>1, <1>4
<1> QED BY <1>2, <1>3, <1>5

-----------------------------------------------------------------------------
\* The innermost call.
LEMMA TopCall ==
  ASSUME calls \in Seq(CallRecord), calls # <<>>
  PROVE  /\ Len(calls) \in Nat /\ 1 <= Len(calls) /\ Len(calls) \in 1..Len(calls)
         /\ \A n \in 1..Len(calls) : calls[n] \in CallRecord
         /\ top \in CallRecord /\ top.bb \in Block /\ top.ip \in Nat \ {0} /\ top.left \in SUBSET Block
         /\ top.wait_delete \in SUBSET Nat
         /\ \A c \in CallRecord :
              /\ SetTop(c) \in Seq(CallRecord) /\ Len(SetTop(c)) = Len(calls)
              /\ SetTop(c)[Len(calls)] = c
              /\ \A n \in 1..Len(calls) : n # Len(calls) => SetTop(c)[n] = calls[n]
<1>1. Len(calls) \in Nat /\ 1 <= Len(calls) /\ Len(calls) \in 1..Len(calls) OBVIOUS
<1>2. \A n \in 1..Len(calls) : calls[n] \in CallRecord OBVIOUS
<1>3. top \in CallRecord BY <1>1, <1>2 DEF top
<1>4. top.bb \in Block /\ top.ip \in Nat \ {0} /\ top.left \in SUBSET Block /\ top.wait_delete \in SUBSET Nat
  BY <1>3 DEF CallRecord
<1>5. ASSUME NEW c \in CallRecord
      PROVE  /\ SetTop(c) \in Seq(CallRecord) /\ Len(SetTop(c)) = Len(calls)
             /\ SetTop(c)[Len(calls)] = c
             /\ \A n \in 1..Len(calls) : n # Len(calls) => SetTop(c)[n] = calls[n]
  BY <1>1 DEF SetTop
<1> QED BY <1>1, <1>2, <1>3, <1>4, <1>5

\* Where a call stands after the step of its loop.
LEMMA Advanced ==
  ASSUME calls \in Seq(CallRecord), calls # <<>>, NEW D \in SUBSET Nat
  PROVE  /\ [top EXCEPT !.ip = @ + 1, !.wait_delete = @ \cup D] \in CallRecord
         /\ [top EXCEPT !.at = "instrs"] \in CallRecord
         /\ [top EXCEPT !.at = "children"] \in CallRecord
         /\ \A b : [top EXCEPT !.left = @ \ {b}] \in CallRecord
<1>0. top \in CallRecord /\ top.ip \in Nat /\ top.wait_delete \in SUBSET Nat BY TopCall
<1>1. (top.wait_delete \cup D) \in SUBSET Nat BY <1>0
<1>3. top.ip + 1 \in Nat \ {0} BY <1>0
<1>2. \A b : top.left \ {b} \in SUBSET Block BY TopCall
<1> QED BY <1>0, <1>1, <1>2, <1>3 DEF CallRecord

LEMMA NewCall ==
  ASSUME TypeOK, NEW b \in Block
  PROVE  Call(b) \in CallRecord
<1>1. dominators_.children[b] \in SUBSET Block BY DEF TypeOK
<1> QED BY <1>1 DEF Call, CallRecord

\* The instruction a call is at.
LEMMA InstrType ==
  ASSUME TypeOK, calls # <<>>, top.ip \in 1..Len(code[top.bb])
  PROVE  instr \in KnownInstr
<1>1. code[top.bb] \in Seq(KnownInstr) BY TopCall DEF TypeOK
<1> QED BY <1>1 DEF instr

-----------------------------------------------------------------------------
\* The steps that only change operands: what code and code' have in common.
Alike ==
  \A b \in Block :
    /\ Len(code'[b]) = Len(code[b])
    /\ \A k \in 1..Len(code[b]) :
         /\ code'[b][k].op = code[b][k].op /\ code'[b][k].loc = code[b][k].loc
         /\ code'[b][k].id = code[b][k].id
         /\ code[b][k].op # "phi" /\ code[b][k].args = <<>> => code'[b][k] = code[b][k]

LEMMA ReplaceAllUseAlike ==
  ASSUME TypeOK, NEW old, NEW v \in Operand, code' = ReplaceAllUse(old, v)
  PROVE  /\ code' \in [Block -> Seq(KnownInstr)] /\ Alike
         /\ \A b \in Block : \A k \in 1..Len(code[b]) : code'[b][k].from = code[b][k].from
<1> DEFINE new(b) == [k \in 1..Len(code[b]) |-> Replaced(code[b][k], old, v)]
<1>1. code' = [b \in Block |-> new(b)] BY DEF ReplaceAllUse, Replaced
<1>2. ASSUME NEW b \in Block
      PROVE  /\ new(b) \in Seq(KnownInstr) /\ Len(new(b)) = Len(code[b])
             /\ \A k \in 1..Len(code[b]) : new(b)[k] = Replaced(code[b][k], old, v) /\ code[b][k] \in KnownInstr
  <2>1. code[b] \in Seq(KnownInstr) BY DEF TypeOK
  <2>2. \A k \in 1..Len(code[b]) : code[b][k] \in KnownInstr BY <2>1
  <2>3. \A k \in 1..Len(code[b]) : Replaced(code[b][k], old, v) \in KnownInstr BY <2>2, ReplacedInstr
  <2> QED BY <2>1, <2>2, <2>3
<1>3. \A b \in Block : code'[b] = new(b) BY <1>1
<1> HIDE DEF new
<1>4. code' \in [Block -> Seq(KnownInstr)] BY <1>1, <1>2
<1>5. ASSUME NEW b \in Block, NEW k \in 1..Len(code[b])
      PROVE  /\ code'[b][k].op = code[b][k].op /\ code'[b][k].loc = code[b][k].loc
             /\ code'[b][k].id = code[b][k].id
             /\ code[b][k].op # "phi" /\ code[b][k].args = <<>> => code'[b][k] = code[b][k]
             /\ code'[b][k].from = code[b][k].from
  <2>1. code[b][k] \in KnownInstr /\ code'[b][k] = Replaced(code[b][k], old, v) BY <1>2, <1>3
  <2> QED BY <2>1, ReplacedInstr
<1> QED BY <1>2, <1>3, <1>4, <1>5 DEF Alike

\* Whether some phi of a successor of the call's block finds no value.
NoValueFor(b) ==
  \E s \in func_.succ[b] : \E k \in PhisOf(s) :
    code[s][k].loc \in keys /\ var_val_stack[code[s][k].loc] = <<>>

LEMMA FillAlike ==
  ASSUME TypeOK, NEW p, p = top.bb, p \in Block, ~NoValueFor(p),
         code' = [b \in Block |-> IF b \in func_.succ[p]
                    THEN [k \in 1..Len(code[b]) |-> Filled(code[b][k])] ELSE code[b]]
  PROVE  /\ code' \in [Block -> Seq(KnownInstr)] /\ Alike
         /\ \A b \in Block : \A k \in 1..Len(code[b]) :
              code'[b][k].from = IF b \in func_.succ[p] /\ IsPhi(code[b][k]) /\ code[b][k].loc \in keys
                                 THEN Append(code[b][k].from, p) ELSE code[b][k].from
<1> DEFINE new(b) == [k \in 1..Len(code[b]) |-> Filled(code[b][k])]
<1>1. \A b \in Block : code'[b] = IF b \in func_.succ[p] THEN new(b) ELSE code[b]
  OBVIOUS
<1>2. ASSUME NEW b \in Block
      PROVE  code[b] \in Seq(KnownInstr) /\ \A k \in 1..Len(code[b]) : code[b][k] \in KnownInstr
  BY DEF TypeOK
<1>3. ASSUME NEW b \in Block, b \in func_.succ[p], NEW k \in 1..Len(code[b])
      PROVE  /\ Filled(code[b][k]) \in KnownInstr
             /\ Filled(code[b][k]).op = code[b][k].op /\ Filled(code[b][k]).loc = code[b][k].loc
             /\ Filled(code[b][k]).id = code[b][k].id
             /\ ~(IsPhi(code[b][k]) /\ code[b][k].loc \in keys) => Filled(code[b][k]) = code[b][k]
             /\ IsPhi(code[b][k]) /\ code[b][k].loc \in keys => Filled(code[b][k]).from = Append(code[b][k].from, p)
  <2>1. code[b][k] \in KnownInstr BY <1>2
  <2>2. IsPhi(code[b][k]) /\ code[b][k].loc \in keys => var_val_stack[code[b][k].loc] # <<>>
    BY <1>3 DEF NoValueFor, PhisOf
  <2> QED BY <2>1, <2>2, FilledInstr
<1>4. ASSUME NEW b \in Block, b \in func_.succ[p]
      PROVE  new(b) \in Seq(KnownInstr) /\ Len(new(b)) = Len(code[b])
             /\ \A k \in 1..Len(code[b]) : new(b)[k] = Filled(code[b][k])
  <2>1. \A k \in 1..Len(code[b]) : Filled(code[b][k]) \in KnownInstr BY <1>3, <1>4
  <2>2. Len(code[b]) \in Nat BY <1>2
  <2> QED BY <2>1, <2>2
<1> HIDE DEF new
<1>5. ASSUME NEW b \in Block PROVE code'[b] \in Seq(KnownInstr) /\ Len(code'[b]) = Len(code[b])
  BY <1>1, <1>2, <1>4
<1>6. code' \in [Block -> Seq(KnownInstr)] BY <1>5
<1>7. ASSUME NEW b \in Block, NEW k \in 1..Len(code[b])
      PROVE  /\ code'[b][k].op = code[b][k].op /\ code'[b][k].loc = code[b][k].loc
             /\ code'[b][k].id = code[b][k].id
             /\ code[b][k].op # "phi" => code'[b][k] = code[b][k]
             /\ code'[b][k].from = IF b \in func_.succ[p] /\ IsPhi(code[b][k]) /\ code[b][k].loc \in keys
                                   THEN Append(code[b][k].from, p) ELSE code[b][k].from
  <2>1. CASE b \in func_.succ[p]
    <3>1. code'[b][k] = Filled(code[b][k]) BY <1>1, <1>4, <2>1
    <3> QED BY <3>1, <2>1, <1>3 DEF IsPhi
  <2>2. CASE b \notin func_.succ[p] BY <1>1, <2>2
  <2> QED BY <2>1, <2>2
<1> QED BY <1>5, <1>6, <1>7 DEF Alike

-----------------------------------------------------------------------------
LEMMA StoreBlocksType ==
  ASSUME TypeOK, NEW v
  PROVE  StoreBlocks(v) \in SUBSET Block
BY FunctionParts DEF StoreBlocks, TypeOK

LEMMA NewPhiType ==
  ASSUME NEW b \in Block, NEW v \in Var
  PROVE  /\ NewPhi(b, v) \in KnownInstr
         /\ NewPhi(b, v).op = "phi" /\ NewPhi(b, v).loc = v /\ NewPhi(b, v).from = <<>>
         /\ NewPhi(b, v).args = <<>>
<1>1. PhiId(b, v) \in Value /\ v \in Location BY PhiIdAssumption DEF Location
<1>2. <<>> \in Seq(Operand) /\ <<>> \in Seq(Block) OBVIOUS
<1> QED BY <1>1, <1>2 DEF NewPhi, Instr, KnownInstr

\* The places in a block where something holds are finitely many.
LEMMA PlacesFinite ==
  ASSUME NEW b \in Block, code \in [Block -> Seq(KnownInstr)], NEW S \in SUBSET (1..Len(code[b]))
  PROVE  IsFiniteSet(S) /\ Cardinality(S) \in Nat
<1>1. Len(code[b]) \in Nat
  <2>1. code[b] \in Seq(KnownInstr) OBVIOUS
  <2> QED BY <2>1
<1>2. IsFiniteSet(1..Len(code[b])) BY <1>1, FS_Interval
<1>3. IsFiniteSet(S) BY <1>2, FS_Subset
<1> QED BY <1>3, FS_CardinalityType

LEMMA PopsNat ==
  ASSUME TypeOK, NEW b \in Block, NEW v
  PROVE  Pops(b, v) \in Nat
BY PlacesFinite DEF Pops, TypeOK

LEMMA TypeInit ==
  ASSUME Init PROVE TypeOK
<1>1. func_ \in Functions BY DEF Init
<1>2. func_.code \in [Block -> Seq(KnownInstr)]
  <2>1. func_.code \in [Block -> Seq(Instr)] BY <1>1, FunctionParts
  <2>2. \A b \in Block : \A k \in 1..Len(func_.code[b]) : func_.code[b][k] \in KnownInstr
    <3> TAKE b \in Block
    <3> TAKE k \in 1..Len(func_.code[b])
    <3>1. func_.code[b][k] \in Instr BY <2>1
    <3>2. func_.code[b][k].op = "store" => Len(func_.code[b][k].args) = 1
      BY <1>1, FunctionParts DEF WellFormed
    <3> QED BY <3>1, <3>2 DEF KnownInstr
  <2>3. \A b \in Block : func_.code[b] \in Seq(KnownInstr) BY <2>1, <2>2
  <2> QED BY <2>1, <2>3
<1>3. var_val_stack \in [Var -> Seq(Operand)] BY DEF Init
<1>4. calls \in Seq(CallRecord) BY DEF Init
<1>5. dominators_ \in [frontier: [Block -> SUBSET Block], children: [Block -> SUBSET Block]]
  BY DEF Init
<1> QED BY <1>1, <1>2, <1>3, <1>4, <1>5 DEF Init, TypeOK

LEMMA TypeNext ==
  ASSUME TypeOK, [Next]_vars PROVE TypeOK'
<1> USE DEF placing
<1>1. CASE FindLiveVars
  <2>1. Reach(func_.succ, {func_.entry}) \in SUBSET Block BY LiveBlocks DEF TypeOK, Live
  <2>2. \A b : DominanceFrontier(func_.succ, func_.entry, b) \in SUBSET Block
    BY <2>1 DEF DominanceFrontier
  <2>3. \A b : DominatorChildren(func_.succ, func_.entry, b) \in SUBSET Block
    BY <2>1 DEF DominatorChildren
  <2>4. \A live : \A b \in Block : DeadFrontier(live, b) \in SUBSET Block
    BY FunctionParts DEF DeadFrontier, TypeOK
  <2>5. dominators_' \in [frontier: [Block -> SUBSET Block], children: [Block -> SUBSET Block]]
    <3> HIDE DEF placing
    <3> QED BY <1>1, <2>2, <2>3, <2>4 DEF FindLiveVars
  <2>6. live_vars' \subseteq Var BY <1>1 DEF FindLiveVars, LiveVarNames
  <2> QED BY <1>1, <2>5, <2>6 DEF FindLiveVars, TypeOK
<1>2. CASE NextVar
  <2>1. \A v : StoreBlocks(v) \in SUBSET Block BY StoreBlocksType
  <2> QED BY <1>2, <2>1 DEF NextVar, TypeOK
<1>3. CASE PlacePhis
  <2>1. PICK b \in work_list :
          LET lacking == {d \in dominators_.frontier[b] : <<d, var>> \notin bb_has_var_phi}
          IN  /\ code' = [d \in Block |-> IF d \in lacking THEN <<NewPhi(d, var)>> \o code[d] ELSE code[d]]
              /\ bb_has_var_phi' = bb_has_var_phi \cup (lacking \X {var})
              /\ work_list' = (work_list \ {b}) \cup Requeue(b, lacking)
    BY <1>3 DEF PlacePhis
  <2> DEFINE lacking == {d \in dominators_.frontier[b] : <<d, var>> \notin bb_has_var_phi}
  <2>2. b \in Block /\ var \in Var BY <1>3 DEF PlacePhis, TypeOK
  <2>3. lacking \in SUBSET Block BY <2>2 DEF TypeOK
  <2>4. /\ code' = [d \in Block |-> IF d \in lacking THEN <<NewPhi(d, var)>> \o code[d] ELSE code[d]]
        /\ bb_has_var_phi' = bb_has_var_phi \cup (lacking \X {var})
        /\ work_list' = (work_list \ {b}) \cup lacking
    BY <2>1 DEF Requeue
  <2> HIDE DEF lacking
  <2>5. \A d \in Block : <<NewPhi(d, var)>> \o code[d] \in Seq(KnownInstr)
    <3> TAKE d \in Block
    <3>1. <<NewPhi(d, var)>> \in Seq(KnownInstr) BY <2>2, NewPhiType
    <3>2. code[d] \in Seq(KnownInstr) BY DEF TypeOK
    <3> QED BY <3>1, <3>2
  <2>6. code' \in [Block -> Seq(KnownInstr)] BY <2>4, <2>5 DEF TypeOK
  <2>7. bb_has_var_phi' \subseteq Block \X Var /\ work_list' \subseteq Block
    BY <2>2, <2>3, <2>4 DEF TypeOK
  <2> QED BY <1>3, <2>6, <2>7 DEF PlacePhis, TypeOK
<1>4. CASE VarDone BY <1>4 DEF VarDone, TypeOK
<1>5. CASE StartRename
  <2>1. func_.entry \in Block BY FunctionParts DEF TypeOK
  <2>2. Call(func_.entry) \in CallRecord BY <2>1, NewCall
  <2>3. calls' \in Seq(CallRecord) BY <1>5, <2>2 DEF StartRename
  <2> QED BY <1>5, <2>3 DEF StartRename, TypeOK
<1>6. CASE PushPhis
  <2>0. calls \in Seq(CallRecord) /\ calls # <<>> /\ top.bb \in Block BY <1>6, TopCall DEF PushPhis, TypeOK
  <2>1. calls' \in Seq(CallRecord) BY <1>6, <2>0, TopCall, Advanced DEF PushPhis
  <2>2. \A v \in Var : Append(var_val_stack[v], PhiId(top.bb, v)) \in Seq(Operand)
    <3> TAKE v \in Var
    <3>1. PhiId(top.bb, v) \in Operand BY <2>0, PhiIdAssumption DEF Operand
    <3>2. var_val_stack[v] \in Seq(Operand) BY DEF TypeOK
    <3> QED BY <3>1, <3>2
  <2>3. var_val_stack' \in [Var -> Seq(Operand)] BY <1>6, <2>2 DEF PushPhis, TypeOK
  <2>4. keys' \subseteq Var BY <1>6 DEF PushPhis, TypeOK
  <2> QED BY <1>6, <2>1, <2>3, <2>4 DEF PushPhis, TypeOK
<1>7. CASE RenameLoad
  <2>0. calls \in Seq(CallRecord) /\ calls # <<>> BY <1>7 DEF RenameLoad, Scanning, TypeOK
  <2>1. CASE var_val_stack[instr.loc] = <<>>
    BY <1>7, <2>1 DEF RenameLoad, TypeOK
  <2>2. CASE var_val_stack[instr.loc] # <<>>
    <3>1. code' = ReplaceAllUse(instr.id, Top(instr.loc)) /\ calls' = Advance({top.ip})
      BY <1>7, <2>2 DEF RenameLoad
    <3>2. instr.loc \in Var BY <1>7 DEF RenameLoad, TypeOK
    <3>3. var_val_stack[instr.loc] \in Seq(Operand) BY <3>2 DEF TypeOK
    <3>4. Top(instr.loc) \in Operand BY <2>2, <3>3 DEF Top
    <3>5. code' \in [Block -> Seq(KnownInstr)] BY <3>1, <3>4, ReplaceAllUseAlike
    <3>6. {top.ip} \in SUBSET Nat BY <2>0, TopCall
    <3>7. calls' \in Seq(CallRecord) BY <2>0, <3>1, <3>6, TopCall, Advanced DEF Advance
    <3> QED BY <1>7, <2>2, <3>5, <3>7 DEF RenameLoad, TypeOK
  <2> QED BY <2>1, <2>2
<1>8. CASE RenameStore
  <2>0. calls \in Seq(CallRecord) /\ calls # <<>> BY <1>8 DEF RenameStore, Scanning, TypeOK
  <2>6. {top.ip} \in SUBSET Nat BY <2>0, TopCall
  <2>7. calls' \in Seq(CallRecord) BY <1>8, <2>0, <2>6, TopCall, Advanced DEF Advance, RenameStore
  <2>8. instr \in KnownInstr
    <3>1. code[top.bb] \in Seq(KnownInstr) /\ top.ip \in Nat \ {0}
      BY <2>0, TopCall DEF TypeOK
    <3>2. top.ip <= Len(code[top.bb]) BY <1>8 DEF RenameStore, Scanning
    <3>3. top.ip \in 1..Len(code[top.bb]) BY <3>1, <3>2
    <3> QED BY <2>0, <3>3, InstrType
  <2>9. instr.args[1] \in Operand
    <3>1. instr.args \in Seq(Operand) /\ Len(instr.args) = 1 BY <1>8, <2>8 DEF RenameStore, KnownInstr, Instr
    <3> QED BY <3>1
  <2>10. var_val_stack' \in [Var -> Seq(Operand)]
    <3>1. instr.loc \in Var /\ var_val_stack[instr.loc] \in Seq(Operand) BY <1>8 DEF RenameStore, TypeOK
    <3>2. Append(var_val_stack[instr.loc], instr.args[1]) \in Seq(Operand) BY <2>9, <3>1
    <3> QED BY <1>8, <3>2 DEF RenameStore, TypeOK
  <2>11. keys' \subseteq Var BY <1>8 DEF RenameStore, TypeOK
  <2> QED BY <1>8, <2>7, <2>10, <2>11 DEF RenameStore, TypeOK
<1>9. CASE KeepInstr
  <2>0. calls \in Seq(CallRecord) /\ calls # <<>> BY <1>9 DEF KeepInstr, Scanning, TypeOK
  <2>7. calls' \in Seq(CallRecord) BY <1>9, <2>0, TopCall, Advanced DEF Advance, KeepInstr
  <2> QED BY <1>9, <2>7 DEF KeepInstr, TypeOK
<1>10. CASE FillPhis
  <2>0. calls \in Seq(CallRecord) /\ calls # <<>> /\ top.bb \in Block BY <1>10, TopCall DEF FillPhis, TypeOK
  <2>1. CASE NoValueFor(top.bb)
    BY <1>10, <2>1 DEF FillPhis, TypeOK, NoValueFor
  <2>2. CASE ~NoValueFor(top.bb)
    <3>1. /\ code' = [b \in Block |-> IF b \in func_.succ[top.bb]
                       THEN [k \in 1..Len(code[b]) |-> Filled(code[b][k])] ELSE code[b]]
          /\ calls' = SetTop([top EXCEPT !.at = "children"]) /\ pc' = pc
      BY <1>10, <2>2 DEF FillPhis, NoValueFor
    <3>2. code' \in [Block -> Seq(KnownInstr)] BY <2>0, <2>2, <3>1, FillAlike
    <3>3. calls' \in Seq(CallRecord) BY <2>0, <3>1, TopCall, Advanced
    <3> QED BY <1>10, <3>1, <3>2, <3>3 DEF FillPhis, TypeOK
  <2> QED BY <2>1, <2>2
<1>11. CASE Descend
  <2>0. calls \in Seq(CallRecord) /\ calls # <<>> BY <1>11 DEF Descend, TypeOK
  <2>1. PICK b \in top.left : calls' = Append(SetTop([top EXCEPT !.left = @ \ {b}]), Call(b))
    BY <1>11 DEF Descend
  <2>2. b \in Block BY <2>0, TopCall
  <2>3. SetTop([top EXCEPT !.left = @ \ {b}]) \in Seq(CallRecord) BY <2>0, TopCall, Advanced
  <2>4. calls' \in Seq(CallRecord) BY <2>1, <2>2, <2>3, NewCall
  <2> QED BY <1>11, <2>4 DEF Descend, TypeOK
<1>12. CASE Return
  <2>0. calls \in Seq(CallRecord) /\ calls # <<>> /\ top.bb \in Block BY <1>12, TopCall DEF Return, TypeOK
  <2>1. calls' \in Seq(CallRecord)
    <3>1. Len(calls) - 1 \in 0..Len(calls) BY <2>0
    <3> QED BY <1>12, <2>0, <3>1, SubSeqProperties DEF Return
  <2>2. code' \in [Block -> Seq(KnownInstr)]
    <3>1. code[top.bb] \in Seq(KnownInstr) BY <2>0 DEF TypeOK
    <3> DEFINE S == (1..Len(code[top.bb])) \ top.wait_delete
    <3>2. KeepOnly(code[top.bb], S) \in Seq(KnownInstr) BY <3>1, KeepOnlyElements
    <3> QED BY <1>12, <3>2 DEF Return, TypeOK
  <2>3. var_val_stack' \in [Var -> Seq(Operand)]
    <3>1. ASSUME NEW v \in Var, NEW n \in Nat
          PROVE  SubSeq(var_val_stack[v], 1, Len(var_val_stack[v]) - n) \in Seq(Operand)
      <4>1. var_val_stack[v] \in Seq(Operand) BY DEF TypeOK
      <4> QED BY <4>1
    <3>2. \A v \in Var : Pops(top.bb, v) \in Nat BY <2>0, PopsNat
    <3> QED BY <1>12, <3>1, <3>2 DEF Return
  <2> QED BY <1>12, <2>1, <2>2, <2>3 DEF Return, TypeOK
<1>13. CASE RemoveAlloca
  <2>1. ASSUME NEW b \in Block
        PROVE  KeepOnly(code[b], {k \in 1..Len(code[b]) : ~(code[b][k].op = "alloca" /\ code[b][k].loc \in Var)}) \in Seq(KnownInstr)
    <3>1. code[b] \in Seq(KnownInstr) BY DEF TypeOK
    <3> QED BY <3>1, KeepOnlyElements
  <2> QED BY <1>13, <2>1 DEF RemoveAlloca, TypeOK
<1>14. CASE UNCHANGED vars BY <1>14 DEF vars, TypeOK
<1> QED BY <1>1, <1>2, <1>3, <1>4, <1>5, <1>6, <1>7, <1>8, <1>9, <1>10, <1>11, <1>12, <1>13, <1>14 DEF Next

-----------------------------------------------------------------------------
\* The phis of a block that has its shape are the first instructions, and the
\* stores are those the function had.
LEMMA ShapedPlaces ==
  ASSUME TypeOK, NEW b \in Block, Shaped(b)
  PROVE  /\ PhiCount(b) \in Nat /\ LastOf(b) \in Nat /\ Len(code[b]) = PhiCount(b) + LastOf(b)
         /\ PhisOf(b) = 1..PhiCount(b)
         /\ \A k \in 1..Len(code[b]) : k \notin 1..PhiCount(b) =>
              /\ k - PhiCount(b) \in 1..LastOf(b) /\ PhiCount(b) + (k - PhiCount(b)) = k
              /\ code[b][k].op = func_.code[b][k - PhiCount(b)].op
              /\ code[b][k].loc = func_.code[b][k - PhiCount(b)].loc
              /\ code[b][k].op = "load" => code[b][k] = func_.code[b][k - PhiCount(b)]
              /\ code[b][k].op # "phi"
<1>1. func_.code[b] \in Seq(Instr) /\ code[b] \in Seq(KnownInstr) BY FunctionParts DEF TypeOK
<1>2. PhiCount(b) \in Nat /\ LastOf(b) \in Nat /\ Len(code[b]) = PhiCount(b) + LastOf(b)
  BY <1>1 DEF Shaped, PhiCount, LastOf
<1> DEFINE p == PhiCount(b)
           last == LastOf(b)
<1>3. \A k \in 1..last : /\ code[b][p + k].op = func_.code[b][k].op
                         /\ code[b][p + k].loc = func_.code[b][k].loc
                         /\ code[b][p + k].op = "load" => code[b][p + k] = func_.code[b][k]
                         /\ func_.code[b][k].op # "phi"
  BY FunctionParts DEF Shaped, WellFormed, LastOf, TypeOK
<1>4. ASSUME NEW k \in 1..Len(code[b]), k \notin 1..p
      PROVE  k - p \in 1..last /\ p + (k - p) = k
  <2> HIDE DEF p, last
  <2> QED BY <1>2, <1>4 DEF p, last
<1>5. ASSUME NEW k \in 1..Len(code[b]), k \notin 1..p
      PROVE  /\ code[b][k].op = func_.code[b][k - p].op
             /\ code[b][k].loc = func_.code[b][k - p].loc
             /\ code[b][k].op = "load" => code[b][k] = func_.code[b][k - p]
             /\ code[b][k].op # "phi"
  <2>1. k - p \in 1..last /\ p + (k - p) = k BY <1>4, <1>5
  <2> HIDE DEF p, last
  <2> QED BY <2>1, <1>3
<1>6. PhisOf(b) = 1..p
  <2>1. \A k \in 1..p : code[b][k].op = "phi" BY DEF Shaped, IsPhi
  <2>2. 1..p \subseteq 1..Len(code[b]) BY <1>2
  <2> QED BY <2>1, <2>2, <1>5 DEF PhisOf, IsPhi
<1> QED BY <1>2, <1>4, <1>5, <1>6

LEMMA ShapedStores ==
  ASSUME TypeOK, NEW b \in Block, Shaped(b), NEW v
  PROVE  (\E k \in 1..Len(code[b]) : code[b][k].op = "store" /\ code[b][k].loc = v)
           <=> Stores(b, v, LastOf(b))
<1>1. ASSUME NEW k \in 1..Len(code[b]), code[b][k].op = "store", code[b][k].loc = v
      PROVE  Stores(b, v, LastOf(b))
  <2>1. k \notin 1..PhiCount(b)
    BY <1>1 DEF Shaped, IsPhi
  <2> DEFINE l == k - PhiCount(b)
  <2>2. l \in 1..LastOf(b) /\ func_.code[b][l].op = "store" /\ func_.code[b][l].loc = v
    BY <1>1, <2>1, ShapedPlaces
  <2> HIDE DEF l
  <2> QED BY <2>2 DEF Stores
<1>2. ASSUME NEW k \in 1..LastOf(b), func_.code[b][k].op = "store", func_.code[b][k].loc = v
      PROVE  \E l \in 1..Len(code[b]) : code[b][l].op = "store" /\ code[b][l].loc = v
  <2>1. code[b][PhiCount(b) + k].op = "store" /\ code[b][PhiCount(b) + k].loc = v
    BY <1>2 DEF Shaped
  <2>2. PhiCount(b) + k \in 1..Len(code[b])
    BY ShapedPlaces
  <2> QED BY <2>1, <2>2
<1> QED BY <1>1, <1>2 DEF Stores

\* A step that only changes operands keeps the shape.
LEMMA AlikeShaped ==
  ASSUME TypeOK, Alike, NEW b \in Block, Shaped(b), UNCHANGED <<func_, bb_has_var_phi>>
  PROVE  Shaped(b)' /\ PhiCount(b)' = PhiCount(b) /\ PhisOf(b)' = PhisOf(b)
<1>1. PhiCount(b)' = PhiCount(b) /\ LastOf(b)' = LastOf(b)
  BY DEF PhiCount, LastOf, Alike
<1>2. /\ PhiCount(b) \in Nat /\ LastOf(b) \in Nat /\ Len(code[b]) = PhiCount(b) + LastOf(b)
  BY ShapedPlaces
<1>3. \A k \in 1..PhiCount(b) : k \in 1..Len(code[b]) BY <1>2
<1>4. \A k \in 1..LastOf(b) : PhiCount(b) + k \in 1..Len(code[b]) BY <1>2
<1>5. \A k \in 1..Len(code[b]) : code'[b][k].op = code[b][k].op /\ code'[b][k].loc = code[b][k].loc
  BY DEF Alike
<1>6. ASSUME NEW k \in 1..LastOf(b)
      PROVE  LET i == code'[b][PhiCount(b) + k]  was == func_.code[b][k]
             IN  i.op = was.op /\ i.loc = was.loc /\ (i.op = "load" => i = was)
  <2> DEFINE i == code[b][PhiCount(b) + k]  was == func_.code[b][k]
  <2>1. i.op = was.op /\ i.loc = was.loc /\ (i.op = "load" => i = was) BY DEF Shaped
  <2>2. i.op = "load" => was.args = <<>> BY <2>1, FunctionParts DEF WellFormed, LastOf, TypeOK
  <2>3. i.op = "load" => code'[b][PhiCount(b) + k] = i BY <1>4, <2>1, <2>2 DEF Alike
  <2> QED BY <1>4, <1>5, <2>1, <2>3
<1>7. Shaped(b)'
  <2>1. \A k \in 1..PhiCount(b) : code'[b][k].loc = code[b][k].loc BY <1>3, <1>5
  <2>2. \A k \in 1..PhiCount(b) :
          IsPhi(code'[b][k]) /\ code'[b][k].loc \in Var /\ <<b, code'[b][k].loc>> \in bb_has_var_phi'
    BY <1>3, <1>5, <2>1 DEF Shaped, IsPhi
  <2>3. \A k, l \in 1..PhiCount(b) : code'[b][k].loc = code'[b][l].loc => k = l
    BY <2>1 DEF Shaped
  <2>4. \A v \in Var : <<b, v>> \in bb_has_var_phi' => \E k \in 1..PhiCount(b) : code'[b][k].loc = v
    BY <2>1 DEF Shaped
  <2>5. func_' = func_ OBVIOUS
  <2> QED BY <1>1, <1>2, <1>6, <2>2, <2>3, <2>4, <2>5 DEF Shaped
<1>8. PhisOf(b)' = PhisOf(b) BY <1>5 DEF PhisOf, IsPhi, Alike
<1> QED BY <1>1, <1>7, <1>8

-----------------------------------------------------------------------------
(***************************************************************************)
(* The phis are closed under the dominance frontier once all are placed.   *)
(***************************************************************************)
PlaceInv == TypeOK /\ Phases /\ DominatorsKnown /\ DominatorsDead /\ Placed /\ FirstShapes

LEMMA PlaceInit ==
  ASSUME Init PROVE PlaceInv
<1>1. TypeOK BY TypeInit
<1>2. Phases BY DEF Init, Phases
<1>3. DominatorsKnown /\ DominatorsDead /\ Placed
  <2>1. Live \subseteq Block BY <1>1, LiveBlocks DEF TypeOK
  <2> QED BY <2>1 DEF Init, DominatorsKnown, DominatorsDead, Placed
<1>4. ASSUME NEW b \in Block PROVE Shaped(b)
  <2>1. code[b] \in Seq(KnownInstr) /\ code = func_.code /\ bb_has_var_phi = {}
    BY <1>1 DEF TypeOK, Init
  <2>2. PhiCount(b) = 0 /\ LastOf(b) = Len(code[b]) /\ LastOf(b) \in Nat BY <2>1 DEF PhiCount, LastOf
  <2>3. \A k \in 1..LastOf(b) : 0 + k = k BY <2>2
  <2>4. 1..0 = {} OBVIOUS
  <2> QED BY <2>1, <2>2, <2>3, <2>4 DEF Shaped
<1> QED BY <1>1, <1>2, <1>3, <1>4 DEF PlaceInv, FirstShapes

\* The store blocks of a variable, while every block has its shape.
LEMMA StoreBlocksStoring ==
  ASSUME TypeOK, FirstShapes, pc \in {"start", "phi"}, NEW v
  PROVE  StoreBlocks(v) = Storing(v)
<1>1. \A b \in func_.blocks : b \in Block BY FunctionParts DEF TypeOK
<1>2. \A b \in func_.blocks : (\E k \in 1..Len(code[b]) : code[b][k].op = "store" /\ code[b][k].loc = v)
                               <=> Stores(b, v, LastOf(b))
  BY <1>1, ShapedStores DEF FirstShapes
<1> QED BY <1>2 DEF StoreBlocks, Storing

LEMMA PlaceFindLiveVars ==
  ASSUME PlaceInv, FindLiveVars PROVE (DominatorsKnown /\ DominatorsDead /\ Placed)'
<1> USE DEF placing
<1>1. /\ func_' = func_ /\ code' = code /\ bb_has_var_phi' = {} /\ pc = "start"
      /\ live_vars' = LiveVarNames /\ var' = NoVar /\ Live' = Live
  BY DEF FindLiveVars, PlaceInv, Phases, Live
<1>2. dominators_' =
        [frontier |-> [b \in Block |-> IF b \in Live THEN DominanceFrontier(func_.succ, func_.entry, b)
                                                    ELSE DeadFrontier(Live, b)],
         children |-> [b \in Block |-> IF b \in Live THEN DominatorChildren(func_.succ, func_.entry, b) ELSE {}]]
  BY DEF FindLiveVars, Live
<1>3. Live \subseteq Block BY LiveBlocks DEF PlaceInv, TypeOK
<1>4. DominatorsKnown' /\ DominatorsDead'
  <2>1. \A b : DeadFrontier(Live, b) \cap Live = {} BY DEF DeadFrontier
  <2> QED BY <1>1, <1>2, <1>3, <2>1 DEF DominatorsKnown, DominatorsDead, Frontier
<1>5. \A v \in Var : PhiBlocks(v)' = {} BY <1>1 DEF PhiBlocks
<1>6. \A v \in Var : v \notin live_vars' => Storing(v)' = {}
  <2>1. \A v \in Var : StoreBlocks(v) = Storing(v) BY <1>1, StoreBlocksStoring DEF PlaceInv
  <2>2. \A v \in Var : Storing(v)' = Storing(v) BY <1>1 DEF Storing, Stores, LastOf
  <2> QED BY <1>1, <2>1, <2>2 DEF LiveVarNames
<1>7. live_vars' \subseteq Var BY <1>1 DEF LiveVarNames
<1>8. Placed'
  BY <1>1, <1>5, <1>6, <1>7 DEF Placed
<1> QED BY <1>4, <1>8

LEMMA PlaceNextVar ==
  ASSUME PlaceInv, NextVar PROVE Placed'
<1>1. PICK v \in live_vars : var' = v /\ live_vars' = live_vars \ {v} /\ work_list' = StoreBlocks(v)
  BY DEF NextVar
<1>2. func_' = func_ /\ bb_has_var_phi' = bb_has_var_phi /\ pc' = pc /\ pc = "phi" /\ var = NoVar
  BY DEF NextVar
<1>3. Placed /\ live_vars \subseteq Var /\ PhiBlocks(v) = {} BY <1>2 DEF PlaceInv, Placed
<1>4. StoreBlocks(v) = Storing(v) BY <1>2, StoreBlocksStoring DEF PlaceInv
<1>5. /\ Live' = Live /\ \A w : Storing(w)' = Storing(w) /\ PhiBlocks(w)' = PhiBlocks(w)
      /\ \A b : Frontier(b)' = Frontier(b)
  BY <1>2 DEF Live, Storing, Stores, LastOf, PhiBlocks, Frontier
<1>6. ASSUME NEW w \in Var \ live_vars', NEW q \in (Storing(w) \cup PhiBlocks(w)) \cap Live
      PROVE  Frontier(q) \subseteq PhiBlocks(w) \/ (w = var' /\ q \in work_list')
  <2>1. CASE w = v BY <1>1, <1>3, <1>4, <2>1
  <2>2. CASE w # v
    <3>1. w \in Var \ live_vars BY <1>1, <2>2
    <3>2. w # NoVar BY BlockAssumption DEF NoVar, Location
    <3> QED BY <1>2, <1>3, <3>1, <3>2 DEF Placed
  <2> QED BY <2>1, <2>2
<1> QED BY <1>1, <1>2, <1>3, <1>4, <1>5, <1>6 DEF Placed

\* A block of the work list that may be reached: what it does to the phis.
LEMMA PlacePhisParts ==
  ASSUME PlaceInv, PlacePhis
  PROVE  \E b \in work_list :
           LET lacking == {d \in dominators_.frontier[b] : <<d, var>> \notin bb_has_var_phi}
           IN  /\ code' = [d \in Block |-> IF d \in lacking THEN <<NewPhi(d, var)>> \o code[d] ELSE code[d]]
               /\ bb_has_var_phi' = bb_has_var_phi \cup (lacking \X {var})
               /\ work_list' = (work_list \ {b}) \cup lacking
               /\ lacking \subseteq Block /\ (lacking \cap Live # {} => b \in Live)
               /\ b \in Live => dominators_.frontier[b] = Frontier(b)
               /\ b \in Storing(var) \cup PhiBlocks(var)
<1>1. pc = "phi" /\ var # NoVar BY DEF PlacePhis
<1>2. PICK b \in work_list :
        LET lacking == {d \in dominators_.frontier[b] : <<d, var>> \notin bb_has_var_phi}
        IN  /\ code' = [d \in Block |-> IF d \in lacking THEN <<NewPhi(d, var)>> \o code[d] ELSE code[d]]
            /\ bb_has_var_phi' = bb_has_var_phi \cup (lacking \X {var})
            /\ work_list' = (work_list \ {b}) \cup lacking
  BY DEF PlacePhis, Requeue
<1>3. b \in Storing(var) \cup PhiBlocks(var) BY <1>1 DEF PlaceInv, Placed
<1>4. b \in Live => dominators_.frontier[b] = Frontier(b) BY <1>1 DEF PlaceInv, DominatorsKnown
<1>5. b \notin Live => dominators_.frontier[b] \cap Live = {} BY DEF PlaceInv, DominatorsDead, TypeOK
<1>6. dominators_.frontier[b] \subseteq Block BY DEF PlaceInv, TypeOK
<1> QED BY <1>2, <1>3, <1>4, <1>5, <1>6

LEMMA PlacePlacePhis ==
  ASSUME PlaceInv, PlacePhis PROVE Placed'
<1>1. PICK b \in work_list :
           LET lacking == {d \in dominators_.frontier[b] : <<d, var>> \notin bb_has_var_phi}
           IN  /\ bb_has_var_phi' = bb_has_var_phi \cup (lacking \X {var})
               /\ work_list' = (work_list \ {b}) \cup lacking
               /\ lacking \subseteq Block /\ (lacking \cap Live # {} => b \in Live)
               /\ b \in Live => dominators_.frontier[b] = Frontier(b)
               /\ b \in Storing(var) \cup PhiBlocks(var)
  BY PlacePhisParts
<1> DEFINE lacking == {d \in dominators_.frontier[b] : <<d, var>> \notin bb_has_var_phi}
<1>2. /\ func_' = func_ /\ pc' = pc /\ var' = var /\ live_vars' = live_vars
      /\ pc = "phi" /\ var # NoVar
  BY DEF PlacePhis
<1>3. Placed /\ bb_has_var_phi \subseteq Block \X Var /\ var \in Var /\ var \notin live_vars
      /\ work_list \subseteq Storing(var) \cup PhiBlocks(var)
  BY <1>2 DEF PlaceInv, Placed, TypeOK
<1>4. Live \subseteq Block BY LiveBlocks DEF PlaceInv, TypeOK
<1>5. /\ Live' = Live /\ \A w : Storing(w)' = Storing(w)
      /\ \A d : Frontier(d)' = Frontier(d)
  BY <1>2 DEF Live, Storing, Stores, LastOf, Frontier
<1>6. b \in Live => Frontier(b) \subseteq PhiBlocks(var) \cup lacking
  <2>1. b \in Live => Frontier(b) \subseteq Live BY DEF Frontier, DominanceFrontier, Live
  <2> QED BY <1>1, <1>4, <2>1 DEF PhiBlocks
<1>60. /\ bb_has_var_phi' = bb_has_var_phi \cup (lacking \X {var})
       /\ work_list' = (work_list \ {b}) \cup lacking
       /\ lacking \subseteq Block /\ \A d \in lacking \cap Live : b \in Live /\ d \in Frontier(b)
       /\ b \in Storing(var) \cup PhiBlocks(var)
  BY <1>1
<1> HIDE DEF lacking
<1>70. PICK v \in Var : v = var BY <1>3
<1>7. PhiBlocks(v)' = PhiBlocks(v) \cup lacking
  BY <1>2, <1>4, <1>60, <1>70 DEF PhiBlocks
<1>8. \A w : w # v => PhiBlocks(w)' = PhiBlocks(w)
  BY <1>60, <1>70 DEF PhiBlocks
<1>9. ASSUME NEW w \in Var \ live_vars, NEW q \in (Storing(w) \cup PhiBlocks(w)') \cap Live
      PROVE  Frontier(q) \subseteq PhiBlocks(w)' \/ (w = var /\ q \in work_list')
  <2>1. CASE w = v
    <3>1. CASE q = b BY <1>6, <1>7, <1>70, <2>1, <3>1
    <3>2. CASE q \in lacking BY <1>60, <1>70, <2>1, <3>2
    <3>3. CASE q # b /\ q \notin lacking
      <4>1. q \in (Storing(w) \cup PhiBlocks(w)) \cap Live BY <1>7, <1>70, <2>1, <3>3
      <4>2. Frontier(q) \subseteq PhiBlocks(w) \/ (w = var /\ q \in work_list)
        BY <1>2, <1>3, <4>1 DEF Placed
      <4> QED BY <1>7, <1>60, <1>70, <2>1, <3>3, <4>2
    <3> QED BY <3>1, <3>2, <3>3
  <2>2. CASE w # v
    BY <1>2, <1>3, <1>8, <1>70, <2>2 DEF Placed
  <2> QED BY <2>1, <2>2
<1>10. ASSUME NEW w \in Var, NEW s \in PhiBlocks(w)' \cap Live
       PROVE  \E q \in (Storing(w) \cup PhiBlocks(w)') \cap Live : s \in Frontier(q)
  <2>1. CASE w = v /\ s \in lacking
    <3>1. b \in Live /\ s \in Frontier(b) BY <1>60, <1>70, <2>1
    <3>2. b \in Storing(w) \cup PhiBlocks(w)' BY <1>7, <1>60, <1>70, <2>1
    <3> QED BY <3>1, <3>2
  <2>2. CASE s \in PhiBlocks(w)
    <3>1. PICK q \in (Storing(w) \cup PhiBlocks(w)) \cap Live : s \in Frontier(q)
      BY <1>2, <1>3, <2>2 DEF Placed
    <3>2. PhiBlocks(w) \subseteq PhiBlocks(w)' BY <1>7, <1>8
    <3> QED BY <3>1, <3>2
  <2>3. s \in PhiBlocks(w) \/ (w = v /\ s \in lacking) BY <1>7, <1>8
  <2> QED BY <2>1, <2>2, <2>3
<1>12. work_list' \subseteq Storing(v) \cup PhiBlocks(v)' BY <1>3, <1>7, <1>60, <1>70
<1>13. \A w \in live_vars : PhiBlocks(w)' = {} BY <1>2, <1>3, <1>8, <1>70 DEF Placed
<1>14. live_vars \subseteq Var BY <1>2, <1>3 DEF Placed
<1>15. Storing(v) = Storing(var)' /\ PhiBlocks(v)' = PhiBlocks(var)'
  BY <1>2, <1>70 DEF PhiBlocks, Storing, Stores, LastOf
<1>16. var' \in Var /\ var' \notin live_vars' /\ work_list' \subseteq (Storing(var) \cup PhiBlocks(var))'
  BY <1>2, <1>3, <1>12, <1>15
<1> QED BY <1>2, <1>5, <1>9, <1>10, <1>13, <1>14, <1>16 DEF Placed

\* A phi more in front.
LEMMA ShapesPlacePhis ==
  ASSUME PlaceInv, PlacePhis, NEW d \in Block PROVE Shaped(d)'
<1>1. PICK b \in work_list :
           LET lacking == {e \in dominators_.frontier[b] : <<e, var>> \notin bb_has_var_phi}
           IN  /\ code' = [e \in Block |-> IF e \in lacking THEN <<NewPhi(e, var)>> \o code[e] ELSE code[e]]
               /\ bb_has_var_phi' = bb_has_var_phi \cup (lacking \X {var})
  BY PlacePhisParts
<1> DEFINE lacking == {e \in dominators_.frontier[b] : <<e, var>> \notin bb_has_var_phi}
<1>2. func_' = func_ /\ pc = "phi" /\ var # NoVar /\ Shaped(d)
  BY DEF PlacePhis, PlaceInv, FirstShapes
<1>3. PICK v \in Var : v = var BY <1>2 DEF PlaceInv, Placed
<1>4. /\ code' = [e \in Block |-> IF e \in lacking THEN <<NewPhi(e, v)>> \o code[e] ELSE code[e]]
      /\ bb_has_var_phi' = bb_has_var_phi \cup (lacking \X {v})
      /\ d \in lacking => <<d, v>> \notin bb_has_var_phi
  BY <1>1, <1>3
<1> HIDE DEF lacking
<1>5. LastOf(d)' = LastOf(d) /\ func_'.code = func_.code BY <1>2 DEF LastOf
<1>6. PhiCount(d) \in Nat /\ LastOf(d) \in Nat /\ Len(code[d]) = PhiCount(d) + LastOf(d)
  BY <1>2, ShapedPlaces DEF PlaceInv
<1>7. CASE d \notin lacking
  <2>1. code'[d] = code[d] BY <1>4, <1>7
  <2>2. PhiCount(d)' = PhiCount(d) BY <1>5, <2>1 DEF PhiCount
  <2>3. \A w : <<d, w>> \in bb_has_var_phi' <=> <<d, w>> \in bb_has_var_phi BY <1>4, <1>7
  <2> QED BY <1>2, <1>5, <2>1, <2>2, <2>3 DEF Shaped
<1>8. CASE d \in lacking
  <2> DEFINE p == PhiCount(d)
  <2>1. code[d] \in Seq(KnownInstr) /\ NewPhi(d, v) \in KnownInstr
        /\ NewPhi(d, v).op = "phi" /\ NewPhi(d, v).loc = v
    BY NewPhiType DEF PlaceInv, TypeOK
  <2>2. code'[d] = <<NewPhi(d, v)>> \o code[d] BY <1>4, <1>8
  <2>3. /\ Len(code'[d]) = Len(code[d]) + 1 /\ code'[d][1] = NewPhi(d, v)
        /\ \A k \in 1..Len(code[d]) : code'[d][k + 1] = code[d][k]
    BY <2>1, <2>2
  <2>4. PhiCount(d)' = p + 1 /\ p \in Nat BY <1>5, <1>6, <2>3 DEF PhiCount
  <2>5. ASSUME NEW k \in 1..(p + 1)
        PROVE  (k = 1 /\ code'[d][k] = NewPhi(d, v))
               \/ (k - 1 \in 1..p /\ k - 1 \in 1..Len(code[d]) /\ code'[d][k] = code[d][k - 1])
    <3>1. CASE k = 1 BY <2>3, <3>1
    <3>2. CASE k # 1
      <4>1. k - 1 \in 1..p /\ k - 1 \in 1..Len(code[d]) /\ (k - 1) + 1 = k BY <1>6, <2>4, <3>2
      <4>2. code'[d][(k - 1) + 1] = code[d][k - 1] BY <2>3, <4>1
      <4> QED BY <4>1, <4>2
    <3> QED BY <3>1, <3>2
  <2>6. \A k \in 1..p : /\ IsPhi(code[d][k]) /\ code[d][k].loc \in Var /\ <<d, code[d][k].loc>> \in bb_has_var_phi
                        /\ code[d][k].loc # v
    BY <1>2, <1>4, <1>8 DEF Shaped
  <2>7. \A k \in 1..(p + 1) : /\ IsPhi(code'[d][k]) /\ code'[d][k].loc \in Var
                              /\ <<d, code'[d][k].loc>> \in bb_has_var_phi'
    <3> TAKE k \in 1..(p + 1)
    <3>1. CASE k = 1 /\ code'[d][k] = NewPhi(d, v) BY <3>1, <2>1, <1>4, <1>8 DEF IsPhi
    <3>2. CASE k - 1 \in 1..p /\ code'[d][k] = code[d][k - 1] BY <3>2, <2>6, <1>4
    <3> QED BY <2>5, <3>1, <3>2
  <2>8. ASSUME NEW k \in 1..(p + 1), NEW l \in 1..(p + 1), code'[d][k].loc = code'[d][l].loc
        PROVE  k = l
    <3>1. CASE k = 1 /\ l = 1 BY <3>1
    <3>2. CASE k - 1 \in 1..p /\ code'[d][k] = code[d][k - 1] /\ l = 1 /\ code'[d][l] = NewPhi(d, v)
      BY <3>2, <2>1, <2>6, <2>8
    <3>3. CASE l - 1 \in 1..p /\ code'[d][l] = code[d][l - 1] /\ k = 1 /\ code'[d][k] = NewPhi(d, v)
      BY <3>3, <2>1, <2>6, <2>8
    <3>4. CASE k - 1 \in 1..p /\ l - 1 \in 1..p /\ code'[d][k] = code[d][k - 1] /\ code'[d][l] = code[d][l - 1]
      <4>1. k - 1 = l - 1 BY <3>4, <2>8, <1>2 DEF Shaped
      <4> QED BY <4>1
    <3> QED BY <2>5, <3>1, <3>2, <3>3, <3>4
  <2>9. ASSUME NEW w \in Var, <<d, w>> \in bb_has_var_phi'
        PROVE  \E k \in 1..(p + 1) : code'[d][k].loc = w
    <3>1. CASE w = v
      <4>1. 1 \in 1..(p + 1) BY <2>4
      <4> QED BY <3>1, <4>1, <2>1, <2>3
    <3>2. CASE w # v
      <4>1. <<d, w>> \in bb_has_var_phi BY <2>9, <1>4, <3>2
      <4>2. PICK k \in 1..p : code[d][k].loc = w BY <4>1, <1>2 DEF Shaped
      <4>3. k + 1 \in 1..(p + 1) /\ k \in 1..Len(code[d]) BY <1>6, <2>4
      <4>4. code'[d][k + 1].loc = w BY <4>2, <4>3, <2>3
      <4> QED BY <4>3, <4>4
    <3> QED BY <3>1, <3>2
  <2>10. \A k \in 1..LastOf(d) : code'[d][(p + 1) + k] = code[d][p + k]
    <3> TAKE k \in 1..LastOf(d)
    <3>1. p + k \in 1..Len(code[d]) /\ (p + k) + 1 = (p + 1) + k BY <1>6, <2>4
    <3>2. code'[d][(p + k) + 1] = code[d][p + k] BY <2>3, <3>1
    <3> QED BY <3>1, <3>2
  <2>11. \A k \in 1..LastOf(d) :
           LET i == code'[d][(p + 1) + k]  was == func_.code[d][k]
           IN  i.op = was.op /\ i.loc = was.loc /\ (i.op = "load" => i = was)
    BY <1>2, <2>10 DEF Shaped
  <2>12. p + 1 \in Nat BY <2>4
  <2> HIDE DEF p
  <2> QED BY <1>5, <2>4, <2>7, <2>8, <2>9, <2>11, <2>12 DEF Shaped
<1> QED BY <1>7, <1>8

LEMMA SameShape ==
  ASSUME UNCHANGED <<func_, bb_has_var_phi>>, NEW b, code'[b] = code[b]
  PROVE  Shaped(b)' <=> Shaped(b)
<1>1. PhiCount(b)' = PhiCount(b) /\ LastOf(b)' = LastOf(b) BY DEF PhiCount, LastOf
<1> QED BY <1>1 DEF Shaped

LEMMA PlaceQuiet ==
  ASSUME PlaceInv, pc \notin {"start"}, pc' \notin {"start"},
         UNCHANGED <<func_, dominators_, live_vars, work_list, var, bb_has_var_phi>>
  PROVE  (DominatorsKnown /\ DominatorsDead /\ Placed)'
<1>1. /\ Live' = Live /\ \A w : Storing(w)' = Storing(w) /\ PhiBlocks(w)' = PhiBlocks(w)
      /\ \A b : Frontier(b)' = Frontier(b)
  BY DEF Live, Storing, Stores, LastOf, PhiBlocks, Frontier
<1>2. pc # "start" OBVIOUS
<1>3. DominatorsKnown' /\ DominatorsDead'
  BY <1>1, <1>2 DEF PlaceInv, DominatorsKnown, DominatorsDead
<1>4. Placed /\ pc # "start" BY <1>2 DEF PlaceInv
<1>5. Storing(var)' = Storing(var) /\ PhiBlocks(var)' = PhiBlocks(var)
  BY DEF Storing, Stores, LastOf, PhiBlocks
<1>6. Placed' BY <1>1, <1>4, <1>5 DEF Placed
<1> QED BY <1>3, <1>6

LEMMA PlaceNext ==
  ASSUME PlaceInv, [Next]_vars PROVE PlaceInv'
<1> USE DEF placing
<1>1. TypeOK' BY TypeNext DEF PlaceInv
<1>2. Phases'
  <2>1. Phases BY DEF PlaceInv
  <2>2. CASE FindLiveVars BY <2>1, <2>2 DEF FindLiveVars, Phases
  <2>3. CASE NextVar \/ PlacePhis \/ VarDone
    BY <2>1, <2>3 DEF NextVar, PlacePhis, VarDone, Phases
  <2>4. CASE StartRename BY <2>1, <2>4 DEF StartRename, Phases
  <2>5. CASE PushPhis \/ RenameLoad \/ RenameStore \/ KeepInstr \/ FillPhis \/ Descend \/ Return
    <3>1. pc = "rename" /\ pc' \in {"rename", "abort", "undefined"} /\ live_vars' = live_vars /\ var' = var
      BY <2>5 DEF PushPhis, RenameLoad, RenameStore, KeepInstr, FillPhis, Descend, Return, Scanning
    <3> QED BY <2>1, <3>1 DEF Phases
  <2>6. CASE RemoveAlloca BY <2>1, <2>6 DEF RemoveAlloca, Phases
  <2>7. CASE UNCHANGED vars BY <2>1, <2>7 DEF vars, Phases
  <2> QED BY <2>2, <2>3, <2>4, <2>5, <2>6, <2>7 DEF Next
<1>3. (DominatorsKnown /\ DominatorsDead /\ Placed)'
  <2>2. CASE FindLiveVars BY <2>2, PlaceFindLiveVars
  <2>3. CASE NextVar \/ PlacePhis \/ VarDone
    <3>1. Placed'
      <4>1. CASE VarDone
        <5>1. /\ func_' = func_ /\ bb_has_var_phi' = bb_has_var_phi /\ live_vars' = live_vars /\ var' = NoVar
              /\ pc = "phi" /\ work_list = {}
          BY <4>1 DEF VarDone
        <5>2. /\ Live' = Live /\ \A w : Storing(w)' = Storing(w) /\ PhiBlocks(w)' = PhiBlocks(w)
              /\ \A b : Frontier(b)' = Frontier(b)
          BY <5>1 DEF Live, Storing, Stores, LastOf, PhiBlocks, Frontier
        <5> QED BY <5>1, <5>2 DEF PlaceInv, Placed
      <4> QED BY <2>3, <4>1, PlaceNextVar, PlacePlacePhis
    <3>2. func_' = func_ /\ dominators_' = dominators_ /\ pc # "start"
      BY <2>3 DEF NextVar, PlacePhis, VarDone
    <3>3. DominatorsKnown' /\ DominatorsDead'
      BY <3>2 DEF PlaceInv, DominatorsKnown, DominatorsDead, Live, Frontier
    <3> QED BY <3>1, <3>3
  <2>5. CASE \/ StartRename \/ PushPhis \/ RenameLoad \/ RenameStore \/ KeepInstr \/ FillPhis \/ Descend
             \/ Return \/ RemoveAlloca
    <3>1. /\ pc \in {"phi", "rename"} /\ pc' \in {"rename", "abort", "undefined", "done"}
          /\ UNCHANGED <<func_, dominators_, live_vars, work_list, var, bb_has_var_phi>>
      BY <2>5 DEF StartRename, PushPhis, RenameLoad, RenameStore, KeepInstr, FillPhis, Descend, Return,
                  RemoveAlloca, Scanning
    <3>2. pc \notin {"start"} /\ pc' \notin {"start"} BY <3>1
    <3> QED BY <3>1, <3>2, PlaceQuiet
  <2>7. CASE UNCHANGED vars
    <3>1. pc' = pc /\ UNCHANGED <<func_, dominators_, live_vars, work_list, var, bb_has_var_phi>>
      BY <2>7 DEF vars
    <3>2. CASE pc = "start"
      BY <3>1, <3>2 DEF PlaceInv, DominatorsKnown, DominatorsDead, Placed, Live
    <3>3. CASE pc # "start"
      <4>1. pc \notin {"start"} /\ pc' \notin {"start"} BY <3>1, <3>3
      <4> QED BY <3>1, <4>1, PlaceQuiet
    <3> QED BY <3>2, <3>3
  <2> QED BY <2>2, <2>3, <2>5, <2>7 DEF Next
<1>4. FirstShapes'
  <2>1. CASE PlacePhis
    <3>1. \A b \in Block : Shaped(b)' BY <2>1, ShapesPlacePhis
    <3> QED BY <3>1 DEF FirstShapes
  <2>2. CASE FindLiveVars \/ NextVar \/ VarDone
    <3>1. pc \in {"start", "phi"} /\ UNCHANGED <<func_, code, bb_has_var_phi>>
      BY <2>2 DEF FindLiveVars, NextVar, VarDone
    <3>2. \A b : Shaped(b)' <=> Shaped(b) BY <3>1, SameShape
    <3> QED BY <3>1, <3>2 DEF FirstShapes, PlaceInv
  <2>3. CASE \/ StartRename \/ PushPhis \/ RenameLoad \/ RenameStore \/ KeepInstr \/ FillPhis \/ Descend
             \/ Return \/ RemoveAlloca
    <3>1. pc' \in {"rename", "abort", "undefined", "done"}
      BY <2>3 DEF StartRename, PushPhis, RenameLoad, RenameStore, KeepInstr, FillPhis, Descend, Return,
                  RemoveAlloca, Scanning
    <3> QED BY <3>1 DEF FirstShapes
  <2>4. CASE UNCHANGED vars
    <3>1. pc' = pc /\ UNCHANGED <<func_, code, bb_has_var_phi>> BY <2>4 DEF vars
    <3>2. \A b : Shaped(b)' <=> Shaped(b) BY <3>1, SameShape
    <3> QED BY <3>1, <3>2 DEF FirstShapes, PlaceInv
  <2> QED BY <2>1, <2>2, <2>3, <2>4 DEF Next
<1> QED BY <1>1, <1>2, <1>3, <1>4 DEF PlaceInv

-----------------------------------------------------------------------------
(***************************************************************************)
(* The calls in progress.                                                  *)
(***************************************************************************)
\* The children in the tree are dominated, and the parent is not one of them.
LEMMA ChildParts ==
  ASSUME func_ \in Functions, NEW a \in Live, NEW b \in DominatorChildren(func_.succ, func_.entry, a)
  PROVE  /\ b \in Live /\ b \in Block /\ a # b /\ Dom(a, b) /\ ~Dom(b, a)
         /\ \A d \in Live : Dom(d, b) <=> d = b \/ Dom(d, a)
         /\ \A c \in Live : b \in DominatorChildren(func_.succ, func_.entry, c) => c = a
<1>1. Graph(Block, func_.succ, func_.entry) BY FunctionParts
<1>2. /\ b \in Live /\ a # b /\ Dom(a, b)
      /\ \A d \in Live : d # b /\ Dom(d, b) => Dom(d, a)
  BY DEF DominatorChildren, IsImmediateDominator, StrictlyDominates, Live, Dom
<1>3. Live \subseteq Block BY LiveBlocks
<1>4. ~Dom(b, a)
  BY <1>1, <1>2, DominatesAntisymmetric DEF Dom, Live
<1>5. \A d \in Live : Dom(d, a) => Dom(d, b) BY <1>1, <1>2, DominatesTransitive DEF Dom
<1>6. Dom(b, b) BY DEF Dom, Dominates
<1>7. \A c \in Live : b \in DominatorChildren(func_.succ, func_.entry, c) => c = a
  BY <1>1, ImmediateDominatorUnique DEF DominatorChildren, Live
<1> QED BY <1>2, <1>3, <1>4, <1>5, <1>6, <1>7

\* A step inside the innermost call.
SamePath ==
  /\ Len(calls') = Len(calls) /\ func_' = func_
  /\ \A n \in 1..Len(calls) : calls'[n].bb = calls[n].bb /\ calls'[n].left = calls[n].left

LEMMA SamePathChain ==
  ASSUME Chain, SamePath
  PROVE  Chain' /\ Open' = Open /\ Waiting' = Waiting
<1>1. Live' = Live /\ \A d, b : Dom(d, b)' <=> Dom(d, b) BY DEF SamePath, Live, Dom
<1>2. Open' = Open BY DEF SamePath, Open
<1>3. Waiting' = Waiting BY <1>1 DEF SamePath, Waiting
<1>4. func_' = func_ /\ Len(calls') = Len(calls)
      /\ \A n \in 1..Len(calls) : calls'[n].bb = calls[n].bb /\ calls'[n].left = calls[n].left
  BY DEF SamePath
<1>5. \A n \in 1..Len(calls) : \A m \in 1..n : m \in 1..Len(calls) => calls'[m].bb = calls[m].bb
  BY <1>4
<1>6. \A n \in 1..Len(calls) : calls'[n].bb \in Live /\ calls'[n].left \subseteq DominatorChildren(func_.succ, func_.entry, calls'[n].bb)
  BY <1>4 DEF Chain
<1>7. ASSUME NEW n \in 1..Len(calls), NEW d \in Live
      PROVE  Dom(d, calls'[n].bb) <=> \E m \in 1..n : calls'[m].bb = d
  <2>1. \A m \in 1..n : m \in 1..Len(calls) OBVIOUS
  <2>2. Dom(d, calls[n].bb) <=> \E m \in 1..n : calls[m].bb = d BY DEF Chain
  <2> QED BY <1>4, <2>1, <2>2
<1>8. \A m, n \in 1..Len(calls) : calls'[m].bb = calls'[n].bb => m = n
  BY <1>4 DEF Chain
<1>9. \A m, n \in 1..Len(calls) : calls'[m].bb \notin calls'[n].left
  BY <1>4 DEF Chain
<1>10. \A n \in 1..Len(calls) : \A d : Dom(d, calls'[n].bb) <=> Dom(d, calls[n].bb)'
  BY <1>1, <1>4 DEF Dom
<1>11. Chain'
  BY <1>1, <1>4, <1>6, <1>7, <1>8, <1>9, <1>10 DEF Chain, Dom
<1> QED BY <1>2, <1>3, <1>11

\* A call more.
LEMMA DescendChain ==
  ASSUME PlaceInv, Chain, Descend
  PROVE  /\ Chain' /\ Open' \cup Waiting' \subseteq Open \cup Waiting
         /\ Open \cup Waiting \subseteq Open' \cup Waiting'
         /\ Waiting' \subseteq Waiting /\ Waiting \subseteq Waiting' \cup {calls'[Len(calls) + 1].bb}
         /\ calls'[Len(calls) + 1].bb \in Waiting
         /\ Len(calls') = Len(calls) + 1 /\ Len(calls) \in Nat /\ 1 <= Len(calls)
         /\ \A n \in 1..Len(calls) : /\ calls'[n].bb = calls[n].bb /\ calls'[n].at = calls[n].at
                                     /\ calls'[n].ip = calls[n].ip
                                     /\ calls'[n].wait_delete = calls[n].wait_delete
         /\ \E b \in Live : calls'[Len(calls) + 1] = Call(b) /\ b \in top.left
<1> DEFINE L == Len(calls)
           kids(a) == DominatorChildren(func_.succ, func_.entry, a)
<1>1. /\ calls # <<>> /\ calls \in Seq(CallRecord) /\ func_ \in Functions /\ func_' = func_
      /\ pc = "rename"
  BY DEF Descend, PlaceInv, TypeOK
<1>2. PICK b \in top.left : calls' = Append(SetTop([top EXCEPT !.left = @ \ {b}]), Call(b))
  BY DEF Descend
<1>3. L \in Nat /\ 1 <= L /\ L \in 1..L /\ top = calls[L] /\ top \in CallRecord
  BY <1>1, TopCall DEF top
<1>4. top.bb \in Live /\ top.left \subseteq kids(top.bb)
  BY <1>3 DEF Chain
<1>5. b \in Live /\ b \in Block /\ b \in kids(top.bb) BY <1>1, <1>4, ChildParts
<1>6. Call(b) \in CallRecord /\ Call(b).bb = b /\ Call(b).left = kids(b)
  <2>1. dominators_.children[b] = kids(b) BY <1>1, <1>5 DEF PlaceInv, DominatorsKnown
  <2> QED BY <1>5, <2>1, NewCall DEF Call, PlaceInv
<1> DEFINE t == [top EXCEPT !.left = @ \ {b}]
           s == SetTop(t)
<1>7. t \in CallRecord /\ t.bb = top.bb /\ t.left = top.left \ {b} /\ t.at = top.at /\ t.ip = top.ip
      /\ t.wait_delete = top.wait_delete
  BY <1>1, <1>3, Advanced DEF CallRecord
<1>8. s \in Seq(CallRecord) /\ Len(s) = L /\ s[L] = t /\ \A n \in 1..L : n # L => s[n] = calls[n]
  BY <1>1, <1>7, TopCall
<1>9. /\ Len(calls') = L + 1 /\ calls'[L + 1] = Call(b)
      /\ \A n \in 1..L : calls'[n] = s[n]
  <2> HIDE DEF t, s
  <2>1. calls' = Append(s, Call(b)) BY <1>2 DEF s, t
  <2> HIDE DEF L
  <2> QED BY <1>3, <1>8, <2>1
<1>10. \A n \in 1..L : /\ calls'[n].bb = calls[n].bb /\ calls'[n].at = calls[n].at
                       /\ calls'[n].ip = calls[n].ip /\ calls'[n].wait_delete = calls[n].wait_delete
                       /\ calls'[n].left = IF n = L THEN calls[n].left \ {b} ELSE calls[n].left
  <2> TAKE n \in 1..L
  <2>1. calls'[n] = s[n] BY <1>9
  <2>2. CASE n = L
    <3>1. calls'[n] = t /\ calls[n] = top BY <1>3, <1>8, <2>1, <2>2
    <3> HIDE DEF t, s
    <3> QED BY <1>7, <2>2, <3>1
  <2>3. CASE n # L
    <3>1. calls'[n] = calls[n] BY <1>8, <2>1, <2>3
    <3> QED BY <2>3, <3>1
  <2> QED BY <2>2, <2>3
<1>11. calls'[L + 1].bb = b /\ calls'[L + 1].left = kids(b) BY <1>6, <1>9
<1>12. Live' = Live /\ \A d, c : Dom(d, c)' <=> Dom(d, c) BY <1>1 DEF Live, Dom
<1> HIDE DEF t, s, kids
<1>13. /\ \A d \in Live : Dom(d, b) <=> d = b \/ Dom(d, top.bb)
       /\ \A c \in Live : b \in kids(c) => c = top.bb
  BY <1>1, <1>4, <1>5, ChildParts DEF kids
<1>14. \A n \in 1..(L + 1) : n \in 1..L \/ n = L + 1 BY <1>3
<1>15. ASSUME NEW n \in 1..(L + 1) PROVE calls'[n].bb \in Live /\ calls'[n].left \subseteq kids(calls'[n].bb)
  <2>1. CASE n \in 1..L BY <2>1, <1>10 DEF Chain, kids
  <2>2. CASE n = L + 1 BY <2>2, <1>5, <1>11
  <2> QED BY <1>14, <2>1, <2>2
<1>16. ASSUME NEW n \in 1..(L + 1), NEW d \in Live
       PROVE  Dom(d, calls'[n].bb) <=> \E m \in 1..n : calls'[m].bb = d
  <2>1. CASE n \in 1..L
    <3>1. \A m \in 1..n : m \in 1..L BY <1>3, <2>1
    <3>2. Dom(d, calls[n].bb) <=> \E m \in 1..n : calls[m].bb = d BY <2>1 DEF Chain
    <3> QED BY <1>10, <2>1, <3>1, <3>2
  <2>2. CASE n = L + 1
    <3>1. Dom(d, top.bb) <=> \E m \in 1..L : calls[m].bb = d BY <1>3 DEF Chain
    <3>2. (\E m \in 1..(L + 1) : calls'[m].bb = d) <=> d = b \/ \E m \in 1..L : calls'[m].bb = d
      <4>1. L + 1 \in 1..(L + 1) /\ 1..L \subseteq 1..(L + 1) BY <1>3
      <4> QED BY <4>1, <1>11, <1>14
    <3> QED BY <1>10, <1>11, <1>13, <2>2, <3>1, <3>2
  <2> QED BY <1>14, <2>1, <2>2
<1>17. \A m \in 1..L : calls[m].bb # b
  BY <1>3, <1>2 DEF Chain
<1>18. ASSUME NEW m \in 1..(L + 1), NEW n \in 1..(L + 1), calls'[m].bb = calls'[n].bb PROVE m = n
  <2>1. CASE m \in 1..L /\ n \in 1..L BY <2>1, <1>10, <1>18 DEF Chain
  <2>2. CASE m \in 1..L /\ n = L + 1 BY <2>2, <1>10, <1>11, <1>17, <1>18
  <2>3. CASE n \in 1..L /\ m = L + 1 BY <2>3, <1>10, <1>11, <1>17, <1>18
  <2> QED BY <1>14, <2>1, <2>2, <2>3
<1>19. ASSUME NEW m \in 1..(L + 1), NEW n \in 1..(L + 1) PROVE calls'[m].bb \notin calls'[n].left
  <2>1. CASE m \in 1..L /\ n \in 1..L
    <3>1. calls[m].bb \notin calls[n].left BY <2>1 DEF Chain
    <3> QED BY <1>10, <2>1, <3>1
  <2>2. CASE m = L + 1 /\ n \in 1..L
    <3> SUFFICES ASSUME b \in calls'[n].left PROVE FALSE BY <1>11, <2>2
    <3>1. n # L /\ b \in calls[n].left BY <1>10, <2>2
    <3>2. calls[n].bb \in Live /\ b \in kids(calls[n].bb) BY <2>2, <3>1 DEF Chain, kids
    <3>3. calls[n].bb = calls[L].bb BY <1>3, <1>13, <3>2
    <3> QED BY <1>3, <2>2, <3>1, <3>3 DEF Chain
  <2>3. CASE n = L + 1
    <3>0. L + 1 \in 1..(L + 1) /\ m \in 1..n BY <1>3, <2>3
    <3>1. calls'[m].bb \in Live BY <1>15
    <3>2. Dom(calls'[m].bb, b) BY <1>11, <1>16, <2>3, <3>0, <3>1
    <3>3. \A x \in kids(b) : ~Dom(x, b) BY <1>1, <1>5, ChildParts DEF kids
    <3> QED BY <1>11, <2>3, <3>2, <3>3
  <2> QED BY <1>14, <2>1, <2>2, <2>3
<1>20. \A n \in 1..(L + 1) : \A d : Dom(d, calls'[n].bb) <=> Dom(d, calls[n].bb)'
  BY <1>1 DEF Dom
<1>21. Chain'
  BY <1>1, <1>9, <1>12, <1>15, <1>16, <1>18, <1>19, <1>20 DEF Chain, kids, Dom
<1>22. b \in Waiting
  <2>1. Dom(b, b) BY DEF Dom, Dominates
  <2> QED BY <1>2, <1>3, <1>5, <2>1 DEF Waiting
<1>23. Open' \subseteq Open \cup Waiting
  <2>1. Open' = {calls'[n].bb : n \in 1..(L + 1)} BY <1>9 DEF Open
  <2>2. \A n \in 1..L : calls'[n].bb \in Open BY <1>10 DEF Open
  <2>3. \A n \in 1..(L + 1) : calls'[n].bb \in Open \cup Waiting BY <1>11, <1>14, <1>22, <2>2
  <2> QED BY <2>1, <2>3
<1>24. ASSUME NEW c \in Live, NEW n \in 1..(L + 1), NEW x \in calls'[n].left, Dom(x, c)
       PROVE  c \in Waiting
  <2>1. CASE n \in 1..L
    <3>1. x \in calls[n].left BY <1>10, <2>1
    <3> QED BY <1>24, <2>1, <3>1 DEF Waiting
  <2>2. CASE n = L + 1
    <3>1. x \in kids(b) BY <1>11, <2>2
    <3>2. Dom(b, x) BY <1>1, <1>5, <3>1, ChildParts DEF kids
    <3>3. Dom(b, c) BY <1>1, <1>24, <3>2, DominatesTransitive, FunctionParts DEF Dom
    <3> QED BY <1>2, <1>3, <3>3 DEF Waiting
  <2> QED BY <1>14, <2>1, <2>2
<1>25. Waiting' \subseteq Waiting
  BY <1>9, <1>12, <1>24 DEF Waiting
<1>26. Open \subseteq Open'
  <2>1. Open' = {calls'[n].bb : n \in 1..(L + 1)} BY <1>9 DEF Open
  <2>2. \A n \in 1..L : n \in 1..(L + 1) BY <1>3
  <2>3. \A n \in 1..L : calls[n].bb \in Open' BY <1>10, <2>1, <2>2
  <2> QED BY <2>3 DEF Open
<1>27. ASSUME NEW c \in Live, NEW n \in 1..L, NEW x \in calls[n].left, Dom(x, c)
       PROVE  c \in Waiting' \cup {b}
  <2>0. n \in 1..(L + 1) /\ L + 1 \in 1..(L + 1) BY <1>3
  <2>1. CASE x \in calls'[n].left
    BY <1>9, <1>12, <1>27, <2>0, <2>1 DEF Waiting
  <2>2. CASE x \notin calls'[n].left
    <3>1. x = b BY <1>3, <1>10, <2>2
    <3>2. CASE c = b BY <3>2
    <3>3. CASE c # b
      <4>1. StrictlyDominates(func_.succ, func_.entry, b, c) BY <1>27, <3>1, <3>3 DEF StrictlyDominates, Dom
      <4>2. Graph(Block, func_.succ, func_.entry) BY <1>1, FunctionParts
      <4>3. PICK y \in kids(b) : Dominates(func_.succ, func_.entry, y, c)
        BY <1>5, <4>1, <4>2, ChildTowards DEF Live, kids
      <4>4. Dom(y, c)' /\ y \in calls'[L + 1].left BY <1>11, <1>12, <4>3 DEF Dom
      <4> QED BY <1>9, <1>12, <2>0, <4>4 DEF Waiting
    <3> QED BY <3>2, <3>3
  <2> QED BY <2>1, <2>2
<1>28. Waiting \subseteq Waiting' \cup {b} BY <1>27 DEF Waiting
<1>29. b \in Open'
  <2>1. L + 1 \in 1..(L + 1) BY <1>3
  <2> QED BY <1>9, <1>11, <2>1 DEF Open
<1> QED BY <1>2, <1>3, <1>5, <1>9, <1>10, <1>11, <1>21, <1>22, <1>23, <1>25, <1>26, <1>28, <1>29

\* A call less: its block is neither open nor waiting any more.
LEMMA ReturnChain ==
  ASSUME PlaceInv, Chain, calls # <<>>, calls' = SubSeq(calls, 1, Len(calls) - 1), func_' = func_,
         top.left = {}
  PROVE  /\ Chain' /\ Open' \subseteq Open /\ Waiting' = Waiting
         /\ Open \cup Waiting \subseteq Open' \cup Waiting' \cup {top.bb}
         /\ top.bb \in Open /\ top.bb \in Live /\ top.bb \notin Open' /\ top.bb \notin Waiting'
         /\ Len(calls') = Len(calls) - 1 /\ Len(calls) \in Nat /\ 1 <= Len(calls)
         /\ \A n \in 1..(Len(calls) - 1) : calls'[n] = calls[n]
<1> DEFINE L == Len(calls)
<1>1. calls \in Seq(CallRecord) /\ func_ \in Functions BY DEF PlaceInv, TypeOK
<1>2. L \in Nat /\ 1 <= L /\ L \in 1..L /\ top = calls[L] BY <1>1, TopCall DEF top
<1>3. Len(calls') = L - 1 /\ \A n \in 1..(L - 1) : calls'[n] = calls[n]
  <2>1. L - 1 \in 0..L /\ 1 \in 1..(L + 1) /\ (L - 1) - 1 + 1 = L - 1 BY <1>2
  <2>2. \A n \in 1..(L - 1) : 1 + n - 1 = n BY <1>2
  <2> QED BY <1>1, <2>1, <2>2, SubSeqProperties
<1>4. \A n \in 1..(L - 1) : n \in 1..L /\ n # L BY <1>2
<1>5. \A n \in 1..L : n \in 1..(L - 1) \/ n = L BY <1>2
<1>6. Live' = Live /\ \A d, c : Dom(d, c)' <=> Dom(d, c) BY DEF Live, Dom
<1>7. \A n \in 1..(L - 1) : \A d : Dom(d, calls'[n].bb) <=> Dom(d, calls[n].bb)'
  BY DEF Dom
<1>8. \A n \in 1..(L - 1) : \A m \in 1..n : m \in 1..(L - 1) BY <1>2
<1>9. Chain'
  <2>1. \A n \in 1..(L - 1) : calls'[n].bb \in Live /\ calls'[n].left \subseteq DominatorChildren(func_.succ, func_.entry, calls'[n].bb)
    BY <1>3, <1>4 DEF Chain
  <2>2. \A n \in 1..(L - 1) : \A d \in Live : Dom(d, calls'[n].bb) <=> \E m \in 1..n : calls'[m].bb = d
    <3> TAKE n \in 1..(L - 1)
    <3> TAKE d \in Live
    <3>1. Dom(d, calls[n].bb) <=> \E m \in 1..n : calls[m].bb = d BY <1>4 DEF Chain
    <3> QED BY <1>3, <1>8, <3>1
  <2>3. \A m, n \in 1..(L - 1) : calls'[m].bb = calls'[n].bb => m = n
    <3> TAKE m, n \in 1..(L - 1)
    <3>1. m \in 1..L /\ n \in 1..L BY <1>4
    <3>2. calls[m].bb = calls[n].bb => m = n BY <3>1 DEF Chain
    <3> QED BY <1>3, <3>2
  <2>4. \A m, n \in 1..(L - 1) : calls'[m].bb \notin calls'[n].left
    <3> TAKE m, n \in 1..(L - 1)
    <3>1. m \in 1..L /\ n \in 1..L BY <1>4
    <3>2. calls[m].bb \notin calls[n].left BY <3>1 DEF Chain
    <3> QED BY <1>3, <3>2
  <2> QED BY <1>3, <1>6, <1>7, <2>1, <2>2, <2>3, <2>4 DEF Chain, Dom
<1>10. Open' \subseteq Open
  <2>1. Open' = {calls'[n].bb : n \in 1..(L - 1)} BY <1>3 DEF Open
  <2>2. \A n \in 1..(L - 1) : calls'[n].bb \in Open BY <1>3, <1>4 DEF Open
  <2> QED BY <2>1, <2>2
<1>11. Waiting' \subseteq Waiting
  <2>1. ASSUME NEW c \in Live, NEW n \in 1..(L - 1), NEW x \in calls'[n].left, Dom(x, c) PROVE c \in Waiting
    BY <1>3, <1>4, <2>1 DEF Waiting
  <2> QED BY <1>3, <1>6, <2>1 DEF Waiting
<1>12. Open \subseteq Open' \cup {top.bb}
  <2>1. \A n \in 1..(L - 1) : calls[n].bb \in Open' BY <1>3 DEF Open
  <2>2. \A n \in 1..L : calls[n].bb \in Open' \cup {top.bb} BY <1>2, <1>5, <2>1
  <2> QED BY <2>2 DEF Open
<1>13. Waiting \subseteq Waiting'
  <2>1. ASSUME NEW c \in Live, NEW n \in 1..L, NEW x \in calls[n].left, Dom(x, c)
        PROVE  c \in Waiting'
    <3>1. n \in 1..(L - 1) BY <1>2, <1>5
    <3>2. x \in calls'[n].left /\ n \in 1..Len(calls') BY <1>3, <3>1
    <3> QED BY <1>6, <2>1, <3>2 DEF Waiting
  <2> QED BY <2>1 DEF Waiting
<1>14. top.bb \in Open /\ top.bb \in Live BY <1>2 DEF Open, Chain
<1>15. top.bb \notin Open'
  <2>1. \A n \in 1..(L - 1) : calls'[n].bb # top.bb BY <1>2, <1>3, <1>4 DEF Chain
  <2>2. Open' = {calls'[n].bb : n \in 1..(L - 1)} BY <1>3 DEF Open
  <2> QED BY <2>1, <2>2
<1>16. top.bb \notin Waiting'
  <2> SUFFICES ASSUME NEW n \in 1..(L - 1), NEW x \in calls[n].left, Dom(x, top.bb) PROVE FALSE
    <3>1. Waiting' = {b \in Live : \E n \in 1..(L - 1) : \E x \in calls[n].left : Dom(x, b)}
      BY <1>3, <1>6 DEF Waiting
    <3> QED BY <3>1
  <2>1. n \in 1..L /\ calls[n].bb \in Live /\ x \in DominatorChildren(func_.succ, func_.entry, calls[n].bb)
    BY <1>4 DEF Chain
  <2>2. x \in Live BY <1>1, <2>1, ChildParts
  <2>3. PICK m \in 1..L : calls[m].bb = x BY <1>2, <2>2 DEF Chain
  <2> QED BY <2>1, <2>3 DEF Chain
<1> QED BY <1>2, <1>3, <1>9, <1>10, <1>11, <1>12, <1>13, <1>14, <1>15, <1>16

\* The first call.
LEMMA StartChain ==
  ASSUME PlaceInv, StartRename
  PROVE  /\ Chain' /\ Len(calls') = 1 /\ calls'[1] = Call(func_.entry)
         /\ Call(func_.entry).bb = func_.entry
         /\ Live \subseteq (Open \cup Waiting)'
<1>1. /\ calls' = <<Call(func_.entry)>> /\ func_' = func_ /\ func_ \in Functions /\ pc = "phi"
  BY DEF StartRename, PlaceInv, TypeOK
<1> DEFINE e == func_.entry
           kids == DominatorChildren(func_.succ, func_.entry, e)
<1>2. e \in Live /\ Live \subseteq Block BY <1>1, LiveBlocks
<1>3. Call(e).bb = e /\ Call(e).left = kids
  <2>1. dominators_.children[e] = kids BY <1>1, <1>2 DEF PlaceInv, DominatorsKnown
  <2> QED BY <2>1 DEF Call
<1>4. Len(calls') = 1 /\ calls'[1] = Call(e) /\ \A n \in 1..Len(calls') : n = 1 BY <1>1
<1>5. calls'[1].bb = e /\ calls'[1].left = kids BY <1>3, <1>4
<1>6. Live' = Live /\ \A d, c : Dom(d, c)' <=> Dom(d, c) BY <1>1 DEF Live, Dom
<1>7. Graph(Block, func_.succ, func_.entry) BY <1>1, FunctionParts
<1>8. \A d : Dom(d, e) <=> d = e
  BY <1>7, EntryDominated DEF Dom, Dominates
<1>9. e \notin kids BY <1>1, <1>2, ChildParts
<1>10. \A n \in 1..1 : \A d : Dom(d, calls'[n].bb) <=> Dom(d, calls[n].bb)'
  BY <1>1 DEF Dom
<1>11. \A m \in 1..1 : m = 1 OBVIOUS
<1>14. 1 \in 1..1 OBVIOUS
<1> HIDE DEF e, kids
<1>12. Chain'
  <2>1. \A n \in 1..1 : calls'[n].bb \in Live /\ calls'[n].left \subseteq kids /\ calls'[n].bb = e
    BY <1>2, <1>5, <1>11
  <2>2. \A n \in 1..1 : \A d \in Live : Dom(d, calls'[n].bb) <=> \E m \in 1..n : calls'[m].bb = d
    BY <1>5, <1>8, <1>11, <1>14
  <2>3. \A m, n \in 1..1 : (calls'[m].bb = calls'[n].bb => m = n) /\ calls'[m].bb \notin calls'[n].left
    BY <1>5, <1>9, <1>11
  <2> QED BY <1>1, <1>4, <1>6, <1>10, <2>1, <2>2, <2>3 DEF Chain, kids, Dom, e
<1>13. ASSUME NEW b \in Live PROVE b \in (Open \cup Waiting)'
  <2>1. CASE b = e BY <1>4, <1>5, <1>14, <2>1 DEF Open
  <2>2. CASE b # e
    <3>1. StrictlyDominates(func_.succ, func_.entry, e, b) BY <2>2 DEF StrictlyDominates, Dominates, e
    <3>2. PICK c \in kids : Dominates(func_.succ, func_.entry, c, b)
      BY <1>2, <1>7, <3>1, ChildTowards DEF Live, kids
    <3>3. Dom(c, b)' BY <1>6, <3>2 DEF Dom
    <3> QED BY <1>4, <1>5, <1>6, <1>14, <3>3 DEF Waiting
  <2> QED BY <2>1, <2>2
<1> QED BY <1>3, <1>4, <1>12, <1>13 DEF e

-----------------------------------------------------------------------------
\* A step of the innermost call alone, that changes no more than operands.
LEMMA SameAlike ==
  ASSUME code' = code PROVE Alike
BY DEF Alike

LEMMA InsideStep ==
  ASSUME TypeOK, Chain, Progress, OpenShapes, calls # <<>>, Alike,
         UNCHANGED <<func_, bb_has_var_phi>>,
         NEW c \in CallRecord, calls' = SetTop(c), c.bb = top.bb, c.left = top.left,
         c.ip \in 1..(Len(code[top.bb]) + 1), c.wait_delete \subseteq 1..(c.ip - 1),
         c.at = "phis" => c.ip = 1, c.at = "children" => c.ip = Len(code[top.bb]) + 1
  PROVE  /\ Chain' /\ Progress' /\ OpenShapes' /\ Open' = Open /\ Waiting' = Waiting
         /\ Len(calls') = Len(calls) /\ Len(calls) \in 1..Len(calls) /\ calls'[Len(calls)] = c
         /\ \A n \in 1..Len(calls) : n # Len(calls) => calls'[n] = calls[n]
<1> DEFINE L == Len(calls)
<1>0. calls \in Seq(CallRecord) BY DEF TypeOK
<1>1. L \in Nat /\ L \in 1..L /\ top = calls[L] BY <1>0, TopCall DEF top
<1>2. Len(calls') = L /\ calls'[L] = c /\ \A n \in 1..L : n # L => calls'[n] = calls[n]
  BY <1>0, TopCall
<1>3. SamePath BY <1>1, <1>2 DEF SamePath
<1>4. Chain' /\ Open' = Open /\ Waiting' = Waiting BY <1>3, SamePathChain
<1>5. \A n \in 1..L : calls[n].bb \in Block
  <2>1. \A n \in 1..L : calls[n] \in CallRecord BY <1>0
  <2> QED BY <2>1 DEF CallRecord
<1>6. \A n \in 1..L : Len(code'[calls[n].bb]) = Len(code[calls[n].bb]) BY <1>5 DEF Alike
<1>7. Progress'
  <2> SUFFICES ASSUME NEW n \in 1..L
               PROVE  LET d == calls'[n]
                      IN  /\ d.ip \in 1..(Len(code'[d.bb]) + 1)
                          /\ d.wait_delete \subseteq 1..(d.ip - 1)
                          /\ d.at \in {"phis", "instrs", "children"}
                          /\ d.at = "phis" => d.ip = 1
                          /\ d.at = "children" => d.ip = Len(code'[d.bb]) + 1
                          /\ n < Len(calls') => d.at = "children"
    BY <1>2 DEF Progress
  <2>1. CASE n = L
    <3>1. ~(n < Len(calls')) BY <1>1, <1>2, <2>1
    <3>2. c.at \in {"phis", "instrs", "children"} BY DEF CallRecord
    <3>3. Len(code'[c.bb]) = Len(code[top.bb]) BY <1>1, <1>6
    <3> QED BY <1>2, <2>1, <3>1, <3>2, <3>3
  <2>2. CASE n # L
    <3>1. calls'[n] = calls[n] BY <1>2, <2>2
    <3> QED BY <1>2, <1>6, <3>1 DEF Progress
  <2> QED BY <2>1, <2>2
<1>8. OpenShapes'
  <2>1. Open \cup Waiting \subseteq Block BY <1>5, LiveBlocks DEF Open, Waiting, TypeOK
  <2>2. \A b \in Open \cup Waiting : Shaped(b)' BY <2>1, AlikeShaped DEF OpenShapes
  <2> QED BY <1>4, <2>2 DEF OpenShapes
<1> QED BY <1>1, <1>2, <1>4, <1>7, <1>8

\* The places that have pushed, call by call.
PushedAt(n, v) == Pushed(calls[n], v)

LEMMA PushedPlaces ==
  ASSUME TypeOK, NEW v
  PROVE  /\ PushedBy(v) = UNION {{<<n, k>> : k \in PushedAt(n, v)} : n \in 1..Len(calls)}
         /\ \A n \in 1..Len(calls) : PushedAt(n, v) \subseteq 1..Len(code[calls[n].bb]) /\ calls[n].bb \in Block
         /\ IsFiniteSet(PushedBy(v)) /\ Cardinality(PushedBy(v)) \in Nat
<1> DEFINE Of(n) == {<<n, k>> : k \in PushedAt(n, v)}
           All == {Of(n) : n \in 1..Len(calls)}
<1>1. PushedBy(v) = UNION All BY DEF PushedBy, PushedAt
<1>2. \A n \in 1..Len(calls) : PushedAt(n, v) \subseteq 1..Len(code[calls[n].bb]) /\ calls[n].bb \in Block
  <2>1. \A n \in 1..Len(calls) : calls[n] \in CallRecord BY DEF TypeOK
  <2> QED BY <2>1 DEF PushedAt, Pushed, CallRecord
<1>3. \A n \in 1..Len(calls) : IsFiniteSet(PushedAt(n, v))
  BY <1>2, PlacesFinite DEF TypeOK
<1>4. \A n \in 1..Len(calls) : IsFiniteSet(Of(n)) 
  <2> TAKE n \in 1..Len(calls)
  <2> DEFINE f == [k \in PushedAt(n, v) |-> <<n, k>>]
  <2>1. f = [k \in PushedAt(n, v) |-> f[k]] /\ Of(n) = {f[k] : k \in PushedAt(n, v)} OBVIOUS
  <2> HIDE DEF f, Of
  <2> QED BY <1>3, <2>1, ImageFinite
<1>5. IsFiniteSet(1..Len(calls))
  <2>1. Len(calls) \in Nat BY DEF TypeOK
  <2> QED BY <2>1, FS_Interval
<1> HIDE DEF Of
<1>6. IsFiniteSet(All)
  <2> DEFINE f == [n \in 1..Len(calls) |-> Of(n)]
  <2>1. f = [n \in 1..Len(calls) |-> f[n]] /\ All = {f[n] : n \in 1..Len(calls)} OBVIOUS
  <2> HIDE DEF f, All
  <2> QED BY <1>5, <2>1, ImageFinite
<1>7. \A S \in All : IsFiniteSet(S) BY <1>4
<1>8. IsFiniteSet(UNION All)
  <2> HIDE DEF All
  <2> QED BY <1>6, <1>7, FS_UNION
<1>9. Cardinality(UNION All) \in Nat
  <2> HIDE DEF All
  <2> QED BY <1>8, FS_CardinalityType
<1> QED BY <1>1, <1>2, <1>8, <1>9 DEF Of

LEMMA PushedInside ==
  ASSUME TypeOK, calls # <<>>, NEW l, l = Len(calls), NEW v, NEW added,
         Len(calls') = l, \A n \in 1..l : n # l => PushedAt(n, v)' = PushedAt(n, v),
         PushedAt(l, v)' = PushedAt(l, v) \cup added
  PROVE  PushedBy(v)' = PushedBy(v) \cup {<<l, k>> : k \in added}
<1>1. l \in 1..l BY TopCall DEF TypeOK
<1>2. PushedBy(v) = UNION {{<<n, k>> : k \in PushedAt(n, v)} : n \in 1..l} BY PushedPlaces
<1>3. PushedBy(v)' = UNION {{<<n, k>> : k \in PushedAt(n, v)'} : n \in 1..l} BY DEF PushedBy, PushedAt
<1> DEFINE old(n) == PushedAt(n, v)  new(n) == PushedAt(n, v)'
<1>4. /\ \A n \in 1..l : n # l => new(n) = old(n)
      /\ new(l) = old(l) \cup added
  OBVIOUS
<1> HIDE DEF old, new
<1>5. UNION {{<<n, k>> : k \in new(n)} : n \in 1..l}
        = (UNION {{<<n, k>> : k \in old(n)} : n \in 1..l}) \cup {<<l, k>> : k \in added}
  BY <1>1, <1>4
<1> QED BY <1>2, <1>3, <1>5 DEF old, new

CallInv == Chain /\ Progress /\ OpenShapes /\ StacksKnown

LEMMA CallsQuiet ==
  ASSUME TypeOK, CallInv, UNCHANGED <<func_, code, bb_has_var_phi, calls, var_val_stack, keys>>
  PROVE  CallInv'
<1>1. /\ Live' = Live /\ Open' = Open /\ \A d, b : Dom(d, b)' <=> Dom(d, b) BY DEF Live, Open, Dom
<1>2. Waiting' = Waiting BY <1>1 DEF Waiting
<1>3. \A b : Shaped(b)' <=> Shaped(b) BY SameShape
<1>4. OpenShapes' BY <1>1, <1>2, <1>3 DEF CallInv, OpenShapes
<1>5. SamePath BY DEF SamePath
<1>6. Chain' BY <1>5, SamePathChain DEF CallInv
<1>7. Progress' BY DEF CallInv, Progress
<1>8. \A v : PushedBy(v)' = PushedBy(v) BY DEF PushedBy, Pushed
<1>9. StacksKnown' BY <1>8 DEF CallInv, StacksKnown
<1> QED BY <1>4, <1>6, <1>7, <1>9 DEF CallInv

LEMMA NoCalls ==
  ASSUME calls = <<>>, TypeOK
  PROVE  Chain /\ Progress /\ OpenShapes /\ \A v : Cardinality(PushedBy(v)) = 0
<1>1. Len(calls) = 0 /\ 1..0 = {} OBVIOUS
<1>2. Open = {} /\ Waiting = {} BY <1>1 DEF Open, Waiting
<1>3. \A v : PushedBy(v) = {} BY <1>1 DEF PushedBy
<1>4. Cardinality({}) = 0 BY FS_EmptySet
<1>5. \A n \in 1..Len(calls) : FALSE BY <1>1
<1>6. Chain BY <1>5 DEF Chain
<1>7. Progress BY <1>5 DEF Progress
<1> QED BY <1>2, <1>3, <1>4, <1>6, <1>7 DEF OpenShapes

LEMMA CallsNone ==
  ASSUME TypeOK, TypeOK', CallInv, calls = <<>>, calls' = <<>>, UNCHANGED <<var_val_stack, keys>>
  PROVE  CallInv'
<1>1. \A v : Cardinality(PushedBy(v)) = 0 BY NoCalls
<1>2. (Chain /\ Progress /\ OpenShapes)' /\ \A v : Cardinality(PushedBy(v)') = 0
  <2>1. Len(calls') = 0 /\ 1..0 = {} OBVIOUS
  <2>2. Open' = {} /\ Waiting' = {} BY <2>1 DEF Open, Waiting
  <2>3. \A v : PushedBy(v)' = {} BY <2>1 DEF PushedBy
  <2>4. \A v : Cardinality(PushedBy(v)') = 0 BY <2>3, FS_EmptySet
  <2>5. \A n \in 1..Len(calls') : FALSE BY <2>1
  <2>6. Chain' BY <2>5 DEF Chain
  <2>7. Progress' BY <2>5 DEF Progress
  <2> QED BY <2>2, <2>4, <2>6, <2>7 DEF OpenShapes
<1>3. StacksKnown'
  BY <1>1, <1>2 DEF CallInv, StacksKnown
<1> QED BY <1>2, <1>3 DEF CallInv

\* One stack, after a step of the innermost call.
Plus(places, n, k) == places \cup {<<n, k>>}

LEMMA StackKept ==
  ASSUME StacksKnown, NEW v \in Var, PushedBy(v)' = PushedBy(v),
         Len(var_val_stack'[v]) = Len(var_val_stack[v])
  PROVE  Len(var_val_stack'[v]) = Cardinality(PushedBy(v)')
BY DEF StacksKnown

LEMMA StackGrows ==
  ASSUME TypeOK, StacksKnown, NEW v \in Var, NEW l, l = Len(calls),
         NEW x, x \notin PushedAt(l, v), PushedBy(v)' = Plus(PushedBy(v), l, x),
         Len(var_val_stack'[v]) = Len(var_val_stack[v]) + 1
  PROVE  Len(var_val_stack'[v]) = Cardinality(PushedBy(v)')
<1>2. <<l, x>> \notin PushedBy(v)
  <2>1. PushedBy(v) = UNION {{<<n, k>> : k \in PushedAt(n, v)} : n \in 1..Len(calls)} BY PushedPlaces
  <2> DEFINE old(n) == PushedAt(n, v)
  <2>2. x \notin old(l) OBVIOUS
  <2> HIDE DEF old
  <2>3. <<l, x>> \notin UNION {{<<n, k>> : k \in old(n)} : n \in 1..Len(calls)} BY <2>2
  <2> QED BY <2>1, <2>3 DEF old
<1>3. IsFiniteSet(PushedBy(v)) /\ Cardinality(PushedBy(v)) \in Nat BY PushedPlaces
<1>4. Cardinality(PushedBy(v) \cup {<<l, x>>}) = Cardinality(PushedBy(v)) + 1
  BY <1>2, <1>3, FS_AddElement
<1> QED BY <1>4 DEF StacksKnown, Plus

\* What the other calls have pushed is what they had.
LEMMA OthersPushed ==
  ASSUME TypeOK, Alike, NEW n \in 1..Len(calls), calls'[n].bb = calls[n].bb,
         calls'[n].ip = calls[n].ip, (calls'[n].at = "phis") <=> (calls[n].at = "phis"), NEW v
  PROVE  PushedAt(n, v)' = PushedAt(n, v)
<1>1. calls[n].bb \in Block
  <2>1. calls[n] \in CallRecord BY DEF TypeOK
  <2> QED BY <2>1 DEF CallRecord
<1> DEFINE b == calls[n].bb
<1>2. /\ Len(code'[b]) = Len(code[b])
      /\ \A k \in 1..Len(code[b]) : code'[b][k].op = code[b][k].op /\ code'[b][k].loc = code[b][k].loc
  BY <1>1 DEF Alike
<1> QED BY <1>2 DEF PushedAt, Pushed

-----------------------------------------------------------------------------
\* What each step inside a call does to it.
LEMMA CallsPushPhis ==
  ASSUME PlaceInv, CallInv, PushPhis PROVE CallInv'
<1> USE DEF placing
<1>1. /\ calls # <<>> /\ calls \in Seq(CallRecord) /\ TypeOK /\ func_ \in Functions
      /\ code' = code /\ func_' = func_ /\ bb_has_var_phi' = bb_has_var_phi /\ top.at = "phis"
      /\ calls' = SetTop([top EXCEPT !.at = "instrs"])
      /\ Chain /\ Progress /\ OpenShapes /\ StacksKnown
  BY DEF PushPhis, PlaceInv, CallInv, TypeOK
<1> DEFINE c == [top EXCEPT !.at = "instrs"]
<1>2. PICK l : l = Len(calls) OBVIOUS
<1>3. l \in Nat /\ l \in 1..l /\ top = calls[l] /\ top \in CallRecord /\ top.bb \in Block
  BY <1>1, <1>2, TopCall DEF top
<1>4. c \in CallRecord /\ c.bb = top.bb /\ c.left = top.left /\ c.ip = top.ip /\ c.at = "instrs"
      /\ c.wait_delete = top.wait_delete
  BY <1>1, <1>3, Advanced DEF CallRecord
<1>5. /\ top.ip \in 1..(Len(code[top.bb]) + 1) /\ top.wait_delete \subseteq 1..(top.ip - 1)
      /\ top.ip = 1
  BY <1>1, <1>2, <1>3 DEF Progress
<1>6. Alike BY <1>1, SameAlike
<1>7. calls' = SetTop(c) BY <1>1
<1> HIDE DEF c
<1>8. /\ (Chain /\ Progress /\ OpenShapes)' /\ Len(calls') = l /\ calls'[l] = c
      /\ \A n \in 1..l : n # l => calls'[n] = calls[n]
  BY <1>1, <1>2, <1>4, <1>5, <1>6, <1>7, InsideStep
<1>9. Shaped(top.bb)
  <2>1. top.bb \in Open BY <1>2, <1>3 DEF Open
  <2> QED BY <1>1, <2>1 DEF OpenShapes
<1> DEFINE phi(v) == {k \in PhisOf(top.bb) : code[top.bb][k].loc = v}
<1>10. /\ var_val_stack' = [v \in Var |-> IF phi(v) = {} THEN var_val_stack[v]
                              ELSE Append(var_val_stack[v], PhiId(top.bb, v))]
       /\ keys' = keys \cup {v \in Var : phi(v) # {}}
  BY DEF PushPhis
<1>11. ASSUME NEW v \in Var PROVE PushedAt(l, v) = {} /\ PushedAt(l, v)' = phi(v)
  <2>1. \A k \in 1..Len(code[top.bb]) : ~(k < 1) /\ ~(k < top.ip) BY <1>5
  <2>2. PushedAt(l, v) = {} BY <1>1, <1>3, <2>1 DEF PushedAt, Pushed
  <2>3. PushedAt(l, v)' = {k \in 1..Len(code[top.bb]) : code[top.bb][k].loc = v /\ code[top.bb][k].op = "phi"}
    BY <1>1, <1>4, <1>5, <1>8, <2>1 DEF PushedAt, Pushed
  <2> QED BY <2>2, <2>3 DEF PhisOf, IsPhi
<1>12. ASSUME NEW v \in Var, NEW k \in phi(v) PROVE phi(v) = {k}
  <2>1. PhisOf(top.bb) = 1..PhiCount(top.bb) BY <1>1, <1>3, <1>9, ShapedPlaces
  <2>2. \A i, j \in PhisOf(top.bb) : code[top.bb][i].loc = code[top.bb][j].loc => i = j
    BY <1>9, <2>1 DEF Shaped
  <2> QED BY <1>12, <2>2
<1> HIDE DEF phi
<1>13. ASSUME NEW v \in Var PROVE PushedBy(v)' = PushedBy(v) \cup {<<l, k>> : k \in phi(v)}
  <2>1. PushedAt(l, v)' = PushedAt(l, v) \cup phi(v) BY <1>11
  <2>2. \A n \in 1..l : n # l => PushedAt(n, v)' = PushedAt(n, v)
    BY <1>1, <1>2, <1>6, <1>8, OthersPushed
  <2> QED BY <1>1, <1>2, <1>8, <2>1, <2>2, PushedInside
<1>14. ASSUME NEW v \in Var PROVE Len(var_val_stack'[v]) = Cardinality(PushedBy(v)')
  <2>1. CASE phi(v) = {}
    <3>1. var_val_stack'[v] = var_val_stack[v] BY <1>10, <2>1
    <3>2. PushedBy(v)' = PushedBy(v) BY <1>13, <2>1
    <3> QED BY <1>1, <3>1, <3>2, StackKept
  <2>2. CASE phi(v) # {}
    <3>1. PICK x \in phi(v) : phi(v) = {x} BY <1>12, <2>2
    <3>2. var_val_stack[v] \in Seq(Operand) BY <1>1 DEF TypeOK
    <3>3. var_val_stack'[v] = Append(var_val_stack[v], PhiId(top.bb, v)) BY <1>10, <2>2
    <3>4. Len(var_val_stack'[v]) = Len(var_val_stack[v]) + 1 BY <3>2, <3>3
    <3>5. x \notin PushedAt(l, v) BY <1>11
    <3>6. PushedBy(v)' = Plus(PushedBy(v), l, x) BY <1>13, <3>1 DEF Plus
    <3> QED BY <1>1, <1>2, <3>4, <3>5, <3>6, StackGrows
  <2> QED BY <2>1, <2>2
<1>15. keys' \subseteq Var /\ \A v \in Var \ keys' : var_val_stack'[v] = <<>>
  BY <1>1, <1>10 DEF StacksKnown
<1>16. StacksKnown' BY <1>14, <1>15 DEF StacksKnown
<1> QED BY <1>8, <1>16 DEF CallInv

\* The loop over the instructions: what `added' are the places that push.
LEMMA CallsAdvance ==
  ASSUME TypeOK, CallInv, Scanning, NEW D, D \subseteq {top.ip}, calls' = Advance(D), Alike,
         UNCHANGED <<func_, bb_has_var_phi>>
  PROVE  /\ (Chain /\ Progress /\ OpenShapes)' /\ Open' = Open /\ Waiting' = Waiting
         /\ Len(calls') = Len(calls) /\ Len(calls) \in 1..Len(calls)
         /\ \A n \in 1..Len(calls) : n # Len(calls) => calls'[n] = calls[n]
         /\ calls'[Len(calls)] = [top EXCEPT !.ip = @ + 1, !.wait_delete = @ \cup D]
         /\ top.bb \in Block /\ top.ip \in 1..Len(code[top.bb]) /\ instr \in KnownInstr /\ Shaped(top.bb)
         /\ \A v \in Var :
              PushedBy(v)' = IF instr.op = "store" /\ instr.loc = v
                             THEN Plus(PushedBy(v), Len(calls), top.ip) ELSE PushedBy(v)
<1>1. /\ calls # <<>> /\ calls \in Seq(CallRecord) /\ TypeOK
      /\ Chain /\ Progress /\ OpenShapes /\ StacksKnown
      /\ top.at = "instrs" /\ top.ip <= Len(code[top.bb])
  BY DEF CallInv, TypeOK, Scanning
<1> DEFINE c == [top EXCEPT !.ip = @ + 1, !.wait_delete = @ \cup D]
<1>2. PICK l : l = Len(calls) OBVIOUS
<1>3. l \in Nat /\ l \in 1..l /\ top = calls[l] /\ top \in CallRecord /\ top.bb \in Block
      /\ top.ip \in Nat \ {0} /\ top.wait_delete \in SUBSET Nat
  BY <1>1, <1>2, TopCall DEF top
<1>30. D \in SUBSET Nat BY <1>3
<1>4. c \in CallRecord /\ c.bb = top.bb /\ c.left = top.left /\ c.ip = top.ip + 1 /\ c.at = "instrs"
      /\ c.wait_delete = top.wait_delete \cup D
  BY <1>1, <1>3, <1>30, Advanced DEF CallRecord
<1>5. /\ top.ip \in 1..(Len(code[top.bb]) + 1) /\ top.wait_delete \subseteq 1..(top.ip - 1)
  BY <1>1, <1>2, <1>3 DEF Progress
<1>6. top.ip \in 1..Len(code[top.bb]) /\ Len(code[top.bb]) \in Nat
  <2>1. code[top.bb] \in Seq(KnownInstr) BY <1>3 DEF TypeOK
  <2> QED BY <1>1, <1>3, <2>1
<1>7. calls' = SetTop(c) BY DEF Advance
<1>70. c.ip \in 1..(Len(code[top.bb]) + 1) BY <1>4, <1>6
<1>71. c.wait_delete \subseteq 1..(c.ip - 1)
  <2>1. \A k \in 1..(top.ip - 1) : k \in 1..((top.ip + 1) - 1) BY <1>3
  <2>2. top.ip \in 1..((top.ip + 1) - 1) BY <1>3
  <2> HIDE DEF c
  <2> QED BY <1>4, <1>5, <2>1, <2>2
<1> HIDE DEF c
<1>8. /\ (Chain /\ Progress /\ OpenShapes)' /\ Len(calls') = l /\ calls'[l] = c
      /\ \A n \in 1..l : n # l => calls'[n] = calls[n]
      /\ Open' = Open /\ Waiting' = Waiting
  BY <1>1, <1>2, <1>4, <1>70, <1>71, <1>7, InsideStep
<1>9. Shaped(top.bb)
  <2>1. top.bb \in Open BY <1>2, <1>3 DEF Open
  <2> QED BY <1>1, <2>1 DEF OpenShapes
<1>10. instr \in KnownInstr BY <1>1, <1>6, InstrType
<1>11. ASSUME NEW v \in Var
       PROVE  PushedBy(v)' = IF instr.op = "store" /\ instr.loc = v
                             THEN Plus(PushedBy(v), l, top.ip) ELSE PushedBy(v)
  <2> DEFINE added == {k \in {top.ip} : instr.op = "store" /\ instr.loc = v}
             b == top.bb
             ip == top.ip
             Stored(k) == code[b][k].op = "store" /\ code[b][k].loc = v
             Phied(k) == code[b][k].op = "phi" /\ code[b][k].loc = v
             N == Len(code[b])
  <2>1. PushedAt(l, v) = {k \in 1..N : Phied(k) \/ (Stored(k) /\ k < ip)}
    BY <1>1, <1>3 DEF PushedAt, Pushed
  <2>2. /\ Len(code'[b]) = N
        /\ \A k \in 1..N : code'[b][k].op = code[b][k].op /\ code'[b][k].loc = code[b][k].loc
    BY <1>3 DEF Alike
  <2>3. PushedAt(l, v)' = {k \in 1..N : Phied(k) \/ (Stored(k) /\ k < ip + 1)}
    BY <1>4, <1>8, <2>2 DEF PushedAt, Pushed
  <2>4. added = {k \in {ip} : Stored(k)} BY DEF instr
  <2> HIDE DEF Phied, Stored, added
  <2>5. {k \in 1..N : Phied(k) \/ (Stored(k) /\ k < ip + 1)}
          = {k \in 1..N : Phied(k) \/ (Stored(k) /\ k < ip)} \cup {k \in {ip} : Stored(k)}
    <3>1. \A k \in 1..N : k < ip + 1 <=> k < ip \/ k = ip BY <1>6
    <3>2. ip \in 1..N BY <1>6
    <3> QED BY <3>1, <3>2
  <2>6. PushedAt(l, v)' = PushedAt(l, v) \cup added BY <2>1, <2>3, <2>4, <2>5
  <2>7. \A n \in 1..l : n # l => PushedAt(n, v)' = PushedAt(n, v)
    BY <1>1, <1>2, <1>8, OthersPushed
  <2>8. PushedBy(v)' = PushedBy(v) \cup {<<l, k>> : k \in added}
    BY <1>1, <1>2, <1>8, <2>6, <2>7, PushedInside
  <2>9. CASE instr.op = "store" /\ instr.loc = v
    <3>1. added = {ip} BY <2>9 DEF added
    <3> QED BY <2>8, <2>9, <3>1 DEF Plus
  <2>10. CASE ~(instr.op = "store" /\ instr.loc = v)
    <3>1. added = {} BY <2>10 DEF added
    <3> QED BY <2>8, <2>10, <3>1
  <2> QED BY <2>9, <2>10
<1> QED BY <1>2, <1>3, <1>6, <1>8, <1>9, <1>10, <1>11 DEF c

LEMMA CallsKept ==
  ASSUME TypeOK, CallInv, Scanning, NEW D, D \subseteq {top.ip}, calls' = Advance(D), Alike,
         UNCHANGED <<func_, bb_has_var_phi, var_val_stack, keys>>,
         ~(instr.op = "store" /\ instr.loc \in Var)
  PROVE  CallInv'
<1>1. PICK l : l = Len(calls) OBVIOUS
<1>2. /\ (Chain /\ Progress /\ OpenShapes)'
      /\ \A v \in Var : PushedBy(v)' = IF instr.op = "store" /\ instr.loc = v
                                       THEN Plus(PushedBy(v), l, top.ip) ELSE PushedBy(v)
  BY <1>1, CallsAdvance
<1>3. StacksKnown BY DEF CallInv
<1>4. ASSUME NEW v \in Var PROVE Len(var_val_stack'[v]) = Cardinality(PushedBy(v)')
  <2>1. PushedBy(v)' = PushedBy(v) BY <1>2
  <2> QED BY <1>3, <2>1, StackKept
<1>5. StacksKnown' BY <1>3, <1>4 DEF StacksKnown
<1> QED BY <1>2, <1>5 DEF CallInv

LEMMA CallsRenameLoad ==
  ASSUME PlaceInv, CallInv, RenameLoad PROVE CallInv'
<1> USE DEF placing
<1>1. TypeOK BY DEF PlaceInv
<1>2. Scanning /\ instr.op = "load" /\ instr.loc \in keys
      /\ UNCHANGED <<func_, bb_has_var_phi, var_val_stack, keys>>
  BY DEF RenameLoad
<1>3. CASE var_val_stack[instr.loc] = <<>>
  <2>1. UNCHANGED <<code, calls>> BY <1>3 DEF RenameLoad
  <2> QED BY <1>1, <1>2, <2>1, CallsQuiet
<1>4. CASE var_val_stack[instr.loc] # <<>>
  <2>1. code' = ReplaceAllUse(instr.id, Top(instr.loc)) /\ calls' = Advance({top.ip})
    BY <1>4 DEF RenameLoad
  <2>2. var_val_stack[instr.loc] \in Seq(Operand) BY <1>1, <1>2 DEF TypeOK
  <2>3. Top(instr.loc) \in Operand BY <1>4, <2>2 DEF Top
  <2>4. Alike BY <1>1, <2>1, <2>3, ReplaceAllUseAlike
  <2>5. PICK D : D = {top.ip} OBVIOUS
  <2>6. calls' = Advance(D) /\ D \subseteq {top.ip} BY <2>1, <2>5
  <2> QED BY <1>1, <1>2, <2>4, <2>6, CallsKept
<1> QED BY <1>3, <1>4

LEMMA CallsKeepInstr ==
  ASSUME PlaceInv, CallInv, KeepInstr PROVE CallInv'
<1> USE DEF placing
<1>1. TypeOK BY DEF PlaceInv
<1>2. Scanning /\ ~(instr.op = "store" /\ instr.loc \in Var) /\ calls' = Advance({})
      /\ UNCHANGED <<func_, code, bb_has_var_phi, var_val_stack, keys>>
  BY DEF KeepInstr
<1>3. Alike BY <1>2, SameAlike
<1>4. PICK D : D = {} OBVIOUS
<1>5. calls' = Advance(D) /\ D \subseteq {top.ip} BY <1>2, <1>4
<1> QED BY <1>1, <1>2, <1>3, <1>5, CallsKept

LEMMA CallsRenameStore ==
  ASSUME PlaceInv, CallInv, RenameStore PROVE CallInv'
<1> USE DEF placing
<1>1. TypeOK /\ StacksKnown BY DEF PlaceInv, CallInv
<1>2. /\ Scanning /\ instr.op = "store" /\ instr.loc \in Var /\ calls' = Advance({top.ip})
      /\ var_val_stack' = [var_val_stack EXCEPT ![instr.loc] = Append(@, instr.args[1])]
      /\ keys' = keys \cup {instr.loc}
      /\ UNCHANGED <<func_, code, bb_has_var_phi>>
  BY DEF RenameStore
<1>3. Alike BY <1>2, SameAlike
<1>4. PICK D : D = {top.ip} OBVIOUS
<1>5. calls' = Advance(D) /\ D \subseteq {top.ip} BY <1>2, <1>4
<1>6. PICK l : l = Len(calls) OBVIOUS
<1>7. /\ (Chain /\ Progress /\ OpenShapes)'
      /\ \A v \in Var : PushedBy(v)' = IF instr.op = "store" /\ instr.loc = v
                                       THEN Plus(PushedBy(v), l, top.ip) ELSE PushedBy(v)
  BY <1>1, <1>2, <1>3, <1>5, <1>6, CallsAdvance
<1>8. ASSUME NEW v \in Var PROVE Len(var_val_stack'[v]) = Cardinality(PushedBy(v)')
  <2>3. var_val_stack \in [Var -> Seq(Operand)] BY <1>1 DEF TypeOK
  <2>4. CASE v # instr.loc
    <3>1. PushedBy(v)' = PushedBy(v) BY <1>7, <2>4
    <3>2. var_val_stack'[v] = var_val_stack[v] BY <1>2, <2>3, <2>4
    <3> QED BY <1>1, <3>1, <3>2, StackKept
  <2>5. CASE v = instr.loc
    <3>1. PICK x : x = top.ip OBVIOUS
    <3>2. PushedBy(v)' = Plus(PushedBy(v), l, x) BY <1>2, <1>7, <2>5, <3>1
    <3>3. var_val_stack'[v] = Append(var_val_stack[v], instr.args[1]) /\ var_val_stack[v] \in Seq(Operand)
      BY <1>2, <2>3, <2>5
    <3>4. Len(var_val_stack'[v]) = Len(var_val_stack[v]) + 1 BY <3>3
    <3>5. calls # <<>> BY <1>2 DEF Scanning
    <3>6. x \notin PushedAt(l, v)
      <4>1. top = calls[l] BY <1>6 DEF top
      <4>2. top.ip \in Nat BY <1>1, <3>5, TopCall DEF TypeOK
      <4>3. ~(top.ip < top.ip) BY <4>2
      <4>4. code[top.bb][x].op = "store" BY <1>2, <3>1 DEF instr
      <4> QED BY <3>1, <4>1, <4>3, <4>4 DEF PushedAt, Pushed
    <3> QED BY <1>1, <1>6, <3>2, <3>4, <3>6, StackGrows
  <2> QED BY <2>4, <2>5
<1>9. keys' \subseteq Var /\ \A v \in Var \ keys' : var_val_stack'[v] = <<>>
  BY <1>1, <1>2 DEF StacksKnown, TypeOK
<1>10. StacksKnown' BY <1>8, <1>9 DEF StacksKnown
<1> QED BY <1>7, <1>10 DEF CallInv

\* A step that pushes nothing.
LEMMA PushedSame ==
  ASSUME TypeOK, Alike, Len(calls') = Len(calls), NEW v,
         \A n \in 1..Len(calls) : /\ calls'[n].bb = calls[n].bb /\ calls'[n].ip = calls[n].ip
                                  /\ (calls'[n].at = "phis") <=> (calls[n].at = "phis")
  PROVE  PushedBy(v)' = PushedBy(v)
<1>1. \A n \in 1..Len(calls) : PushedAt(n, v)' = PushedAt(n, v) BY OthersPushed
<1>2. PushedBy(v)' = UNION {{<<n, k>> : k \in PushedAt(n, v)'} : n \in 1..Len(calls)} BY DEF PushedBy, PushedAt
<1> DEFINE old(n) == PushedAt(n, v)  new(n) == PushedAt(n, v)'
<1>3. \A n \in 1..Len(calls) : new(n) = old(n) BY <1>1
<1> HIDE DEF old, new
<1>4. UNION {{<<n, k>> : k \in new(n)} : n \in 1..Len(calls)}
        = UNION {{<<n, k>> : k \in old(n)} : n \in 1..Len(calls)}
  BY <1>3
<1> QED BY <1>2, <1>4, PushedPlaces DEF old, new

LEMMA CallsFillPhis ==
  ASSUME PlaceInv, CallInv, FillPhis PROVE CallInv'
<1> USE DEF placing
<1>1. /\ calls # <<>> /\ calls \in Seq(CallRecord) /\ TypeOK
      /\ UNCHANGED <<func_, bb_has_var_phi, var_val_stack, keys>> /\ top.at = "instrs"
      /\ top.ip > Len(code[top.bb]) /\ Chain /\ Progress /\ OpenShapes /\ StacksKnown
  BY DEF FillPhis, PlaceInv, CallInv, TypeOK
<1>2. CASE NoValueFor(top.bb)
  <2>1. UNCHANGED <<code, calls>> BY <1>2 DEF FillPhis, NoValueFor
  <2> QED BY <1>1, <2>1, CallsQuiet
<1>3. CASE ~NoValueFor(top.bb)
  <2>1. /\ code' = [b \in Block |-> IF b \in func_.succ[top.bb]
                      THEN [k \in 1..Len(code[b]) |-> Filled(code[b][k])] ELSE code[b]]
        /\ calls' = SetTop([top EXCEPT !.at = "children"])
    BY <1>3 DEF FillPhis, NoValueFor
  <2> DEFINE c == [top EXCEPT !.at = "children"]
  <2>2. PICK l : l = Len(calls) OBVIOUS
  <2>3. l \in Nat /\ l \in 1..l /\ top = calls[l] /\ top \in CallRecord /\ top.bb \in Block
    BY <1>1, <2>2, TopCall DEF top
  <2>4. c \in CallRecord /\ c.bb = top.bb /\ c.left = top.left /\ c.ip = top.ip /\ c.at = "children"
        /\ c.wait_delete = top.wait_delete
    BY <1>1, <2>3, Advanced DEF CallRecord
  <2>5. /\ top.ip \in 1..(Len(code[top.bb]) + 1) /\ top.wait_delete \subseteq 1..(top.ip - 1)
    BY <1>1, <2>2, <2>3 DEF Progress
  <2>6. top.ip = Len(code[top.bb]) + 1
    <3>1. code[top.bb] \in Seq(KnownInstr) BY <1>1, <2>3 DEF TypeOK
    <3> QED BY <1>1, <2>5, <3>1
  <2>7. Alike BY <1>1, <1>3, <2>1, <2>3, FillAlike
  <2>8. calls' = SetTop(c) BY <2>1
  <2> HIDE DEF c
  <2>9. /\ (Chain /\ Progress /\ OpenShapes)' /\ Len(calls') = l /\ calls'[l] = c
        /\ \A n \in 1..l : n # l => calls'[n] = calls[n]
    BY <1>1, <2>2, <2>4, <2>5, <2>6, <2>7, <2>8, InsideStep
  <2>10. \A n \in 1..l : /\ calls'[n].bb = calls[n].bb /\ calls'[n].ip = calls[n].ip
                         /\ (calls'[n].at = "phis") <=> (calls[n].at = "phis")
    BY <1>1, <2>3, <2>4, <2>9
  <2>11. \A v \in Var : PushedBy(v)' = PushedBy(v) BY <1>1, <2>2, <2>7, <2>9, <2>10, PushedSame
  <2>12. StacksKnown' BY <1>1, <2>11, StackKept DEF StacksKnown
  <2> QED BY <2>9, <2>12 DEF CallInv
<1> QED BY <1>2, <1>3

\* What a new call is.
LEMMA CallFields ==
  ASSUME NEW b
  PROVE  Call(b).at = "phis" /\ Call(b).ip = 1 /\ Call(b).wait_delete = {} /\ Call(b).bb = b
BY DEF Call

LEMMA CallsDescend ==
  ASSUME PlaceInv, CallInv, Descend PROVE CallInv'
<1> USE DEF placing
<1>1. /\ TypeOK /\ UNCHANGED <<func_, code, bb_has_var_phi, var_val_stack, keys>> /\ top.at = "children"
      /\ Chain /\ Progress /\ OpenShapes /\ StacksKnown
  BY DEF Descend, PlaceInv, CallInv
<1>2. PICK l : l = Len(calls) OBVIOUS
<1>3. /\ Chain' /\ Open' \cup Waiting' \subseteq Open \cup Waiting
      /\ Len(calls') = l + 1 /\ l \in Nat /\ 1 <= l
      /\ \A n \in 1..l : /\ calls'[n].bb = calls[n].bb /\ calls'[n].at = calls[n].at
                         /\ calls'[n].ip = calls[n].ip
                         /\ calls'[n].wait_delete = calls[n].wait_delete
  BY <1>1, <1>2, DescendChain
<1>4. PICK b \in Live : calls'[l + 1] = Call(b) BY <1>1, <1>2, DescendChain
<1>5. b \in Block /\ calls'[l + 1].at = "phis" /\ calls'[l + 1].ip = 1 /\ calls'[l + 1].wait_delete = {}
      /\ calls'[l + 1].bb = b
  BY <1>1, <1>4, LiveBlocks, CallFields DEF TypeOK
<1>6. \A n \in 1..(l + 1) : n \in 1..l \/ n = l + 1 BY <1>3
<1>7. Progress'
  <2> SUFFICES ASSUME NEW n \in 1..(l + 1)
               PROVE  LET d == calls'[n]
                      IN  /\ d.ip \in 1..(Len(code'[d.bb]) + 1)
                          /\ d.wait_delete \subseteq 1..(d.ip - 1)
                          /\ d.at \in {"phis", "instrs", "children"}
                          /\ d.at = "phis" => d.ip = 1
                          /\ d.at = "children" => d.ip = Len(code'[d.bb]) + 1
                          /\ n < l + 1 => d.at = "children"
    BY <1>3 DEF Progress
  <2>1. CASE n = l + 1
    <3>1. Len(code[b]) \in Nat
      <4>1. code[b] \in Seq(KnownInstr) BY <1>1, <1>5 DEF TypeOK
      <4> QED BY <4>1
    <3>2. ~(n < l + 1) /\ 1 \in 1..(Len(code[b]) + 1) BY <1>3, <2>1, <3>1
    <3> QED BY <1>1, <1>5, <2>1, <3>2
  <2>2. CASE n \in 1..l
    <3>1. calls[n].at = "children"
      <4>1. n < l \/ n = l BY <1>3, <2>2
      <4> QED BY <1>1, <1>2, <2>2, <4>1 DEF Progress, top
    <3> QED BY <1>1, <1>2, <1>3, <2>2, <3>1 DEF Progress
  <2> QED BY <1>6, <2>1, <2>2
<1>8. OpenShapes'
  <2>1. \A c : Shaped(c)' <=> Shaped(c) BY <1>1, SameShape
  <2> QED BY <1>1, <1>3, <2>1 DEF OpenShapes
<1>9. ASSUME NEW v \in Var PROVE PushedBy(v)' = PushedBy(v)
  <2>1. Alike BY <1>1, SameAlike
  <2>2. \A n \in 1..l : PushedAt(n, v)' = PushedAt(n, v) BY <1>1, <1>2, <1>3, <2>1, OthersPushed
  <2>3. PushedAt(l + 1, v)' = {}
    <3>1. \A k \in 1..Len(code[b]) : ~(k < 1) OBVIOUS
    <3> QED BY <1>1, <1>5, <3>1 DEF PushedAt, Pushed
  <2>4. PushedBy(v)' = UNION {{<<n, k>> : k \in PushedAt(n, v)'} : n \in 1..(l + 1)}
    BY <1>3 DEF PushedBy, PushedAt
  <2>5. PushedBy(v) = UNION {{<<n, k>> : k \in PushedAt(n, v)} : n \in 1..l} BY <1>1, <1>2, PushedPlaces
  <2> DEFINE old(n) == PushedAt(n, v)  new(n) == PushedAt(n, v)'
  <2>6. new(l + 1) = {} /\ \A n \in 1..l : new(n) = old(n) BY <2>2, <2>3
  <2> HIDE DEF old, new
  <2>7. \A n \in 1..l : n \in 1..(l + 1) BY <1>3
  <2>8. UNION {{<<n, k>> : k \in new(n)} : n \in 1..(l + 1)}
          = UNION {{<<n, k>> : k \in old(n)} : n \in 1..l}
    BY <1>6, <2>6, <2>7
  <2> QED BY <2>4, <2>5, <2>8 DEF old, new
<1>10. StacksKnown' BY <1>1, <1>9, StackKept DEF StacksKnown
<1> QED BY <1>3, <1>7, <1>8, <1>10 DEF CallInv

\* A step that changes the code of blocks that are not open changes nothing of
\* what the calls have pushed.
LEMMA PushedPrefix ==
  ASSUME TypeOK, NEW l, l \in 0..Len(calls), Len(calls') = l, \A n \in 1..l : calls'[n] = calls[n],
         \A n \in 1..l : code'[calls[n].bb] = code[calls[n].bb], NEW v
  PROVE  PushedBy(v)' = UNION {{<<n, k>> : k \in PushedAt(n, v)} : n \in 1..l}
<1>1. \A n \in 1..l : PushedAt(n, v)' = PushedAt(n, v)
  <2> TAKE n \in 1..l
  <2>1. calls'[n] = calls[n] /\ code'[calls[n].bb] = code[calls[n].bb] OBVIOUS
  <2> QED BY <2>1 DEF PushedAt, Pushed
<1>2. PushedBy(v)' = UNION {{<<n, k>> : k \in PushedAt(n, v)'} : n \in 1..l} BY DEF PushedBy, PushedAt
<1> DEFINE old(n) == PushedAt(n, v)  new(n) == PushedAt(n, v)'
<1>3. \A n \in 1..l : new(n) = old(n) BY <1>1
<1> HIDE DEF old, new
<1>4. UNION {{<<n, k>> : k \in new(n)} : n \in 1..l} = UNION {{<<n, k>> : k \in old(n)} : n \in 1..l}
  BY <1>3
<1> QED BY <1>2, <1>4 DEF old, new

LEMMA CallsReturn ==
  ASSUME PlaceInv, TypeOK', CallInv, Return PROVE CallInv'
<1> USE DEF placing
<1>1. /\ TypeOK /\ UNCHANGED <<func_, bb_has_var_phi, keys>> /\ top.at = "children" /\ top.left = {}
      /\ calls # <<>> /\ calls' = SubSeq(calls, 1, Len(calls) - 1)
      /\ code' = [code EXCEPT ![top.bb] = KeepOnly(@, (1..Len(@)) \ top.wait_delete)]
      /\ var_val_stack' = [v \in Var |->
           SubSeq(var_val_stack[v], 1, Len(var_val_stack[v]) - Pops(top.bb, v))]
      /\ Chain /\ Progress /\ OpenShapes /\ StacksKnown /\ code \in [Block -> Seq(KnownInstr)]
  BY DEF Return, PlaceInv, CallInv, TypeOK
<1>2. PICK l : l = Len(calls) OBVIOUS
<1>3. /\ Chain' /\ Open' \subseteq Open /\ Waiting' \subseteq Waiting
      /\ top.bb \in Open /\ top.bb \in Live /\ top.bb \notin Open' /\ top.bb \notin Waiting'
      /\ Len(calls') = l - 1 /\ l \in Nat /\ 1 <= l
      /\ \A n \in 1..(l - 1) : calls'[n] = calls[n]
  BY <1>1, <1>2, ReturnChain
<1>4. \A b : b # top.bb /\ b \in Block => code'[b] = code[b] BY <1>1
<1>5. \A n \in 1..(l - 1) : n \in 1..l BY <1>3
<1>6. \A n \in 1..(l - 1) : code'[calls[n].bb] = code[calls[n].bb]
  <2> TAKE n \in 1..(l - 1)
  <2>1. calls[n].bb \in Block /\ calls'[n].bb = calls[n].bb
    <3>1. \A m \in 1..l : calls[m] \in CallRecord BY <1>1, <1>2 DEF TypeOK
    <3> QED BY <1>3, <1>5, <3>1 DEF CallRecord
  <2>2. calls'[n].bb \in Open' BY <1>3 DEF Open
  <2> QED BY <1>3, <1>4, <2>1, <2>2
<1>7. Progress'
  <2> SUFFICES ASSUME NEW n \in 1..(l - 1)
               PROVE  LET d == calls'[n]
                      IN  /\ d.ip \in 1..(Len(code'[d.bb]) + 1)
                          /\ d.wait_delete \subseteq 1..(d.ip - 1)
                          /\ d.at \in {"phis", "instrs", "children"}
                          /\ d.at = "phis" => d.ip = 1
                          /\ d.at = "children" => d.ip = Len(code'[d.bb]) + 1
                          /\ n < l - 1 => d.at = "children"
    BY <1>3 DEF Progress
  <2>1. n < l BY <1>3
  <2> QED BY <1>1, <1>2, <1>3, <1>5, <1>6, <2>1 DEF Progress
<1>8. OpenShapes'
  <2>1. ASSUME NEW b \in Open' \cup Waiting' PROVE Shaped(b)'
    <3>1. b \in Block /\ b # top.bb
      <4>1. Open' \cup Waiting' \subseteq Block
        <5>1. Open \subseteq Live BY <1>1 DEF Chain, Open
        <5> QED BY <1>1, <1>3, <5>1, LiveBlocks DEF Waiting, TypeOK
      <4> QED BY <1>3, <2>1, <4>1
    <3>2. code'[b] = code[b] BY <1>4, <3>1
    <3>3. Shaped(b) BY <1>1, <1>3, <2>1 DEF OpenShapes
    <3> QED BY <1>1, <3>2, <3>3, SameShape
  <2> QED BY <2>1 DEF OpenShapes
<1>9. ASSUME NEW v \in Var PROVE Len(var_val_stack'[v]) = Cardinality(PushedBy(v)')
  <2> DEFINE gone == {<<l, k>> : k \in PushedAt(l, v)}
  <2>1. l - 1 \in 0..l BY <1>3
  <2>2. PushedBy(v)' = UNION {{<<n, k>> : k \in PushedAt(n, v)} : n \in 1..(l - 1)}
    BY <1>1, <1>2, <1>3, <1>6, <2>1, PushedPrefix
  <2>3. PushedBy(v) = UNION {{<<n, k>> : k \in PushedAt(n, v)} : n \in 1..l}
        /\ IsFiniteSet(PushedBy(v)) /\ Cardinality(PushedBy(v)) \in Nat
    BY <1>1, <1>2, PushedPlaces
  <2>4. PushedBy(v) = PushedBy(v)' \cup gone /\ PushedBy(v)' \cap gone = {}
    <3> DEFINE old(n) == PushedAt(n, v)
    <3>1. \A n \in 1..l : n \in 1..(l - 1) \/ n = l BY <1>3
    <3>2. l \in 1..l /\ l \notin 1..(l - 1) BY <1>3
    <3> HIDE DEF old
    <3>3. /\ UNION {{<<n, k>> : k \in old(n)} : n \in 1..l}
               = (UNION {{<<n, k>> : k \in old(n)} : n \in 1..(l - 1)}) \cup {<<l, k>> : k \in old(l)}
          /\ (UNION {{<<n, k>> : k \in old(n)} : n \in 1..(l - 1)}) \cap {<<l, k>> : k \in old(l)} = {}
      BY <1>5, <3>1, <3>2
    <3> QED BY <2>2, <2>3, <3>3 DEF old
  <2>5. PushedAt(l, v) = {k \in 1..Len(code[top.bb]) : code[top.bb][k].op \in {"store", "phi"} /\ code[top.bb][k].loc = v}
    <3>1. top.ip = Len(code[top.bb]) + 1 /\ top = calls[l] /\ top.bb \in Block
      <4>1. l \in 1..l BY <1>3
      <4>2. top = calls[l] BY <1>2 DEF top
      <4> QED BY <1>1, <1>2, <4>1, <4>2, TopCall DEF Progress, TypeOK
    <3>2. code[top.bb] \in Seq(KnownInstr) BY <1>1, <3>1
    <3>3. \A k \in 1..Len(code[top.bb]) : k < top.ip BY <3>1, <3>2
    <3> QED BY <1>1, <3>1, <3>3 DEF PushedAt, Pushed
  <2>6. Pops(top.bb, v) = Cardinality(PushedAt(l, v)) BY <2>5 DEF Pops
  <2>7. IsFiniteSet(PushedAt(l, v)) /\ Cardinality(PushedAt(l, v)) \in Nat
    <3>1. PushedAt(l, v) \in SUBSET (1..Len(code[top.bb])) BY <2>5
    <3>2. top.bb \in Block BY <1>1, TopCall DEF TypeOK
    <3> QED BY <1>1, <3>1, <3>2, PlacesFinite
  <2>8. IsFiniteSet(gone) /\ Cardinality(gone) = Pops(top.bb, v) BY <2>6, <2>7, CountPairs
  <2>9. IsFiniteSet(PushedBy(v)') /\ Cardinality(PushedBy(v)') \in Nat
    <3>1. PushedBy(v)' \in SUBSET PushedBy(v) BY <2>4
    <3> HIDE DEF gone
    <3>2. IsFiniteSet(PushedBy(v)') BY <2>3, <3>1, FS_Subset
    <3> QED BY <3>2, FS_CardinalityType
  <2> HIDE DEF gone
  <2>10. Cardinality(PushedBy(v)) = Cardinality(PushedBy(v)') + Cardinality(gone)
    <3>1. Cardinality(PushedBy(v)' \cup gone) =
            Cardinality(PushedBy(v)') + Cardinality(gone) - Cardinality(PushedBy(v)' \cap gone)
      BY <2>8, <2>9, FS_Union
    <3>2. Cardinality(PushedBy(v)' \cap gone) = 0 BY <2>4, FS_EmptySet
    <3> QED BY <2>4, <2>6, <2>7, <2>8, <2>9, <3>1, <3>2
  <2>11. Len(var_val_stack[v]) = Cardinality(PushedBy(v)) BY <1>1 DEF StacksKnown
  <2>12. var_val_stack[v] \in Seq(Operand) BY <1>1 DEF TypeOK
  <2>13. PICK m \in Nat : m = Len(var_val_stack[v]) - Pops(top.bb, v)
    BY <2>6, <2>7, <2>8, <2>9, <2>10, <2>11
  <2>14. m <= Len(var_val_stack[v]) BY <2>6, <2>7, <2>12, <2>13
  <2>15. Len(SubSeq(var_val_stack[v], 1, m)) = m BY <2>12, <2>13, <2>14
  <2>16. var_val_stack'[v] = SubSeq(var_val_stack[v], 1, m) BY <1>1, <2>13
  <2> QED BY <2>6, <2>7, <2>8, <2>9, <2>10, <2>11, <2>13, <2>15, <2>16
<1>10. StacksKnown'
  <2>1. ASSUME NEW v \in Var \ keys PROVE var_val_stack'[v] = <<>>
    <3>1. var_val_stack[v] = <<>> BY <1>1 DEF StacksKnown
    <3>2. top.bb \in Block BY <1>1, TopCall DEF TypeOK
    <3>3. Pops(top.bb, v) \in Nat BY <1>1, <3>2, PopsNat
    <3>4. var_val_stack'[v] = SubSeq(var_val_stack[v], 1, Len(var_val_stack[v]) - Pops(top.bb, v))
      BY <1>1
    <3>5. 0 - Pops(top.bb, v) < 1 /\ 0 - Pops(top.bb, v) \in Int BY <3>3
    <3> QED BY <3>1, <3>4, <3>5, SubSeqEmpty
  <2> QED BY <1>1, <1>9, <2>1 DEF StacksKnown
<1> QED BY <1>3, <1>7, <1>8, <1>10 DEF CallInv

LEMMA CallsStartRename ==
  ASSUME PlaceInv, TypeOK', CallInv, StartRename PROVE CallInv'
<1> USE DEF placing
<1>1. /\ UNCHANGED <<func_, code, bb_has_var_phi, var_val_stack, keys>> /\ calls = <<>> /\ StacksKnown
      /\ TypeOK /\ FirstShapes /\ pc = "phi"
  BY DEF StartRename, PlaceInv, Phases, CallInv
<1>2. Chain' /\ Len(calls') = 1 /\ calls'[1] = Call(func_.entry)
  BY StartChain
<1>3. PICK c : c = calls'[1] OBVIOUS
<1>4. c.at = "phis" /\ c.ip = 1 /\ c.wait_delete = {} /\ c.bb = func_.entry /\ c.bb \in Block
  BY <1>1, <1>2, <1>3, CallFields, FunctionParts DEF TypeOK
<1>5. \A n \in 1..1 : n = 1 OBVIOUS
<1>6. Progress'
  <2>1. code[c.bb] \in Seq(KnownInstr) BY <1>1, <1>4 DEF TypeOK
  <2>2. 1 \in 1..(Len(code[c.bb]) + 1) BY <2>1
  <2> QED BY <1>1, <1>2, <1>3, <1>4, <1>5, <2>2 DEF Progress
<1>7. OpenShapes'
  <2>1. \A b \in Block : Shaped(b)' BY <1>1, SameShape DEF FirstShapes
  <2>2. Open' \cup Waiting' \subseteq Block
    <3>1. Open' \subseteq Block BY <1>2, <1>3, <1>4, <1>5 DEF Open
    <3>2. Live' = Live BY <1>1 DEF Live
    <3> QED BY <1>1, <3>1, <3>2, LiveBlocks DEF Waiting, TypeOK
  <2> QED BY <2>1, <2>2 DEF OpenShapes
<1>8. ASSUME NEW v \in Var PROVE Len(var_val_stack'[v]) = Cardinality(PushedBy(v)')
  <2>1. \A k \in 1..Len(code'[c.bb]) : ~(k < 1) OBVIOUS
  <2>2. Pushed(c, v)' = {} BY <1>4, <2>1 DEF Pushed
  <2>3. PushedBy(v)' = {}
    <3>1. PushedBy(v)' = UNION {{<<n, k>> : k \in PushedAt(n, v)'} : n \in 1..1}
      BY <1>2 DEF PushedBy, PushedAt
    <3>2. PushedAt(1, v)' = {} BY <1>3, <1>4, <2>1 DEF PushedAt, Pushed
    <3> DEFINE new(n) == PushedAt(n, v)'
    <3>3. new(1) = {} BY <3>2
    <3> HIDE DEF new
    <3>4. UNION {{<<n, k>> : k \in new(n)} : n \in 1..1} = {} BY <1>5, <3>3
    <3> QED BY <3>1, <3>4 DEF new
  <2>4. Cardinality(PushedBy(v)') = 0 BY <2>3, FS_EmptySet
  <2>5. Cardinality(PushedBy(v)) = 0 BY <1>1, NoCalls
  <2> QED BY <1>1, <2>4, <2>5 DEF StacksKnown
<1>9. StacksKnown' BY <1>1, <1>8 DEF StacksKnown
<1> QED BY <1>2, <1>6, <1>7, <1>9 DEF CallInv

LEMMA CallsInit ==
  ASSUME Init PROVE CallInv
<1>1. TypeOK /\ calls = <<>> BY TypeInit DEF Init
<1>2. Chain /\ Progress /\ OpenShapes /\ \A v : Cardinality(PushedBy(v)) = 0 BY <1>1, NoCalls
<1>3. keys = {} /\ \A v \in Var : var_val_stack[v] = <<>> BY DEF Init
<1>4. StacksKnown BY <1>2, <1>3 DEF StacksKnown
<1> QED BY <1>2, <1>4 DEF CallInv

LEMMA CallsNext ==
  ASSUME PlaceInv, CallInv, [Next]_vars PROVE CallInv'
<1> USE DEF placing
<1>1. TypeOK /\ TypeOK' BY TypeNext DEF PlaceInv
<1>2. CASE FindLiveVars \/ NextVar \/ PlacePhis \/ VarDone \/ RemoveAlloca
  <2>1. calls = <<>> /\ calls' = <<>> /\ UNCHANGED <<var_val_stack, keys>>
    BY <1>2 DEF PlaceInv, Phases, FindLiveVars, NextVar, PlacePhis, VarDone, RemoveAlloca
  <2> QED BY <1>1, <2>1, CallsNone
<1>3. CASE StartRename BY <1>1, <1>3, CallsStartRename
<1>4. CASE PushPhis BY <1>4, CallsPushPhis
<1>5. CASE RenameLoad BY <1>5, CallsRenameLoad
<1>6. CASE RenameStore BY <1>6, CallsRenameStore
<1>7. CASE KeepInstr BY <1>7, CallsKeepInstr
<1>8. CASE FillPhis BY <1>8, CallsFillPhis
<1>9. CASE Descend BY <1>9, CallsDescend
<1>10. CASE Return BY <1>1, <1>10, CallsReturn
<1>11. CASE UNCHANGED vars
  <2>1. UNCHANGED <<func_, code, bb_has_var_phi, calls, var_val_stack, keys>> BY <1>11 DEF vars
  <2> QED BY <1>1, <2>1, CallsQuiet
<1> QED BY <1>2, <1>3, <1>4, <1>5, <1>6, <1>7, <1>8, <1>9, <1>10, <1>11 DEF Next

\* Where the phis are, where the renaming is, and what it has pushed.
THEOREM RenamingInvariant == Spec => [](PlaceInv /\ CallInv)
<1>1. Init => PlaceInv /\ CallInv BY PlaceInit, CallsInit
<1>2. PlaceInv /\ CallInv /\ [Next]_vars => PlaceInv' /\ CallInv' BY PlaceNext, CallsNext
<1> QED BY <1>1, <1>2, PTL DEF Spec

\* Nothing a finished call has pushed is left on a stack: what re_name pops
\* when it returns is what its block has pushed.
THEOREM StacksAreTheOpenCalls == Spec => []StacksAreOpenCalls
<1>1. PlaceInv /\ CallInv => StacksAreOpenCalls
  BY DEF CallInv, StacksKnown, StacksAreOpenCalls, PushedBy
<1> QED BY <1>1, RenamingInvariant, PTL

-----------------------------------------------------------------------------
(***************************************************************************)
(* Where no value is found, some path leaves the variable unassigned.      *)
(***************************************************************************)
\* A block that no dominator gives a value is reached past no store.
LEMMA UnassignedThere ==
  ASSUME PlaceInv, pc \notin {"start", "phi"}, NEW b \in Live, NEW v \in Var, NEW n,
         \A d \in Live : Dom(d, b) => d \notin PhiBlocks(v),
         \A d \in Live : d # b /\ Dom(d, b) => d \notin Storing(v),
         ~Stores(b, v, n)
  PROVE  ~AssignedAt(b, n, v)
<1> DEFINE quiet == Silent(func_.succ, func_.entry, Storing(v))
<1>1. func_ \in Functions /\ live_vars = {} /\ var = NoVar /\ Placed /\ pc # "start"
  BY DEF PlaceInv, TypeOK, Phases
<1>2. Graph(Block, func_.succ, func_.entry) BY <1>1, FunctionParts
<1>3. v # NoVar BY BlockAssumption DEF NoVar, Location
<1>4. FrontierClosed(func_.succ, func_.entry, Storing(v), PhiBlocks(v))
  BY <1>1, <1>3 DEF Placed, FrontierClosed, Frontier, Live
<1>5. b \in quiet
  BY <1>2, <1>4, NoPhiNoStore DEF Dom, Live, StrictlyDominates
<1>6. b # func_.entry => \E p \in quiet \ Storing(v) : b \in func_.succ[p] /\ p \in Block
  BY <1>2, <1>5, SilentSteps
<1>7. b # func_.entry => Predecessors(func_.succ, b) \cap (quiet \ Storing(v)) # {}
  BY <1>1, <1>6, FunctionParts DEF Predecessors
<1>8. AssignedAt(b, n, v) <=> \/ Stores(b, v, n)
                              \/ b # func_.entry /\ Predecessors(func_.succ, b) \cap (quiet \ Storing(v)) = {}
  BY DEF AssignedAt, Silent, Storing
<1> QED BY <1>7, <1>8

\* An empty stack: nothing above in the tree has pushed a value.
LEMMA EmptyStack ==
  ASSUME PlaceInv, CallInv, calls # <<>>, top.at # "phis", NEW v \in Var, var_val_stack[v] = <<>>
  PROVE  /\ \A d \in Live : Dom(d, top.bb) => d \notin PhiBlocks(v)
         /\ \A d \in Live : d # top.bb /\ Dom(d, top.bb) => d \notin Storing(v)
         /\ \A k \in 1..Len(code[top.bb]) :
              k < top.ip => ~(code[top.bb][k].op = "store" /\ code[top.bb][k].loc = v)
<1>1. TypeOK /\ Chain /\ Progress /\ OpenShapes /\ StacksKnown /\ calls \in Seq(CallRecord)
  BY DEF PlaceInv, CallInv, TypeOK
<1>2. PICK l : l = Len(calls) OBVIOUS
<1>3. l \in Nat /\ l \in 1..l /\ top = calls[l] /\ top.bb \in Block BY <1>1, <1>2, TopCall DEF top
<1>4. PushedBy(v) = {}
  <2>1. Cardinality(PushedBy(v)) = 0 BY <1>1 DEF StacksKnown
  <2>2. IsFiniteSet(PushedBy(v)) BY <1>1, PushedPlaces
  <2> QED BY <2>1, <2>2, FS_EmptySet
<1>5. \A n \in 1..l : PushedAt(n, v) = {}
  <2>1. PushedBy(v) = UNION {{<<n, k>> : k \in PushedAt(n, v)} : n \in 1..l} BY <1>1, <1>2, PushedPlaces
  <2> DEFINE old(n) == PushedAt(n, v)
  <2> HIDE DEF old
  <2>2. ASSUME NEW n \in 1..l, NEW k \in old(n)
        PROVE  <<n, k>> \in UNION {{<<m, j>> : j \in old(m)} : m \in 1..l}
    OBVIOUS
  <2> QED BY <1>4, <2>1, <2>2 DEF old
<1>6. ASSUME NEW d \in Live, Dom(d, top.bb)
      PROVE  d \notin PhiBlocks(v) /\ (d # top.bb => d \notin Storing(v))
  <2>1. PICK m \in 1..l : calls[m].bb = d BY <1>1, <1>2, <1>3, <1>6 DEF Chain
  <2>2. d \in Open /\ d \in Block BY <1>1, <1>2, <2>1, LiveBlocks DEF Open, TypeOK
  <2>3. Shaped(d) BY <1>1, <2>2 DEF OpenShapes
  <2>4. PhisOf(d) = 1..PhiCount(d) BY <1>1, <2>2, <2>3, ShapedPlaces
  <2>5. calls[m].at # "phis"
    <3>1. m = l \/ m < l BY <1>3
    <3> QED BY <1>1, <1>2, <1>3, <3>1 DEF Progress
  <2>6. d \notin PhiBlocks(v)
    <3> SUFFICES ASSUME d \in PhiBlocks(v) PROVE FALSE OBVIOUS
    <3>1. PICK k \in PhisOf(d) : code[d][k].loc = v BY <2>3, <2>4 DEF Shaped, PhiBlocks
    <3>2. k \in PushedAt(m, v) BY <2>1, <2>5, <3>1 DEF PushedAt, Pushed, PhisOf, IsPhi
    <3> QED BY <1>5, <3>2
  <2>7. d # top.bb => d \notin Storing(v)
    <3> SUFFICES ASSUME d \in Storing(v), d # top.bb PROVE FALSE OBVIOUS
    <3>1. PICK k \in 1..Len(code[d]) : code[d][k].op = "store" /\ code[d][k].loc = v
      BY <1>1, <2>2, <2>3, ShapedStores DEF Storing
    <3>2. calls[m].ip = Len(code[d]) + 1
      <4>1. m # l BY <1>3, <2>1
      <4>2. m < l BY <1>3, <4>1
      <4> QED BY <1>1, <1>2, <2>1, <4>2 DEF Progress
    <3>3. k < calls[m].ip
      <4>1. code[d] \in Seq(KnownInstr) BY <1>1, <2>2 DEF TypeOK
      <4> QED BY <3>2, <4>1
    <3>4. k \in PushedAt(m, v) BY <2>1, <3>1, <3>3 DEF PushedAt, Pushed
    <3> QED BY <1>5, <3>4
  <2> QED BY <2>6, <2>7
<1>7. ASSUME NEW k \in 1..Len(code[top.bb]), k < top.ip, code[top.bb][k].op = "store", code[top.bb][k].loc = v
      PROVE  FALSE
  <2>1. k \in PushedAt(l, v) BY <1>3, <1>7 DEF PushedAt, Pushed
  <2> QED BY <1>3, <1>5, <2>1
<1> QED BY <1>6, <1>7

\* So the load or the phi that finds no value can be reached with the variable
\* unassigned.
LEMMA NoValueUnassigned ==
  ASSUME PlaceInv, CallInv, pc \notin {"start", "phi"}, calls # <<>>, top.at # "phis",
         NEW v \in Var, var_val_stack[v] = <<>>
  PROVE  /\ top.ip = Len(code[top.bb]) + 1 => ~AssignedAt(top.bb, LastOf(top.bb), v)
         /\ top.ip \in 1..Len(code[top.bb]) /\ instr.op # "store" =>
              ~AssignedAt(top.bb, top.ip - PhiCount(top.bb), v)
<1>1. TypeOK /\ Chain /\ OpenShapes /\ calls \in Seq(CallRecord) BY DEF PlaceInv, CallInv, TypeOK
<1>2. top.bb \in Block /\ Len(calls) \in 1..Len(calls) /\ top = calls[Len(calls)]
  BY <1>1, TopCall DEF top
<1>3. top.bb \in Live /\ Shaped(top.bb) BY <1>1, <1>2 DEF Chain, Open, OpenShapes
<1> DEFINE b == top.bb
           phis == PhiCount(b)
           last == LastOf(b)
<1>4. /\ \A d \in Live : Dom(d, b) => d \notin PhiBlocks(v)
      /\ \A d \in Live : d # b /\ Dom(d, b) => d \notin Storing(v)
      /\ \A k \in 1..Len(code[b]) : k < top.ip => ~(code[b][k].op = "store" /\ code[b][k].loc = v)
  BY EmptyStack
<1>5. phis \in Nat /\ last \in Nat /\ Len(code[b]) = phis + last
  BY <1>1, <1>2, <1>3, ShapedPlaces
<1>6. \A k \in 1..last : code[b][phis + k].op = func_.code[b][k].op /\ code[b][phis + k].loc = func_.code[b][k].loc
  BY <1>3 DEF Shaped
<1>7. ASSUME NEW n \in Int, n <= last, \A k \in 1..n : phis + k < top.ip \/ code[b][phis + k].op # "store"
      PROVE  ~AssignedAt(b, n, v)
  <2>1. ASSUME NEW k \in 1..n, func_.code[b][k].op = "store", func_.code[b][k].loc = v PROVE FALSE
    <3>1. k \in 1..last /\ phis + k \in 1..Len(code[b]) BY <1>5, <1>7
    <3>2. code[b][phis + k].op = "store" /\ code[b][phis + k].loc = v BY <1>6, <2>1, <3>1
    <3>3. phis + k < top.ip BY <1>7, <3>2
    <3> QED BY <1>4, <3>1, <3>2, <3>3
  <2>2. ~Stores(b, v, n) BY <2>1 DEF Stores
  <2> QED BY <1>3, <1>4, <2>2, UnassignedThere
<1>8. ASSUME top.ip = Len(code[b]) + 1 PROVE ~AssignedAt(b, last, v)
  <2>1. \A k \in 1..last : phis + k < top.ip BY <1>5, <1>8
  <2> QED BY <1>5, <1>7, <2>1
<1>9. ASSUME top.ip \in 1..Len(code[b]), instr.op # "store" PROVE ~AssignedAt(b, top.ip - phis, v)
  <2>1. top.ip - phis \in Int /\ top.ip - phis <= last BY <1>5, <1>9
  <2>2. ASSUME NEW k \in 1..(top.ip - phis) PROVE phis + k < top.ip \/ code[b][phis + k].op # "store"
    <3>1. phis + k < top.ip \/ phis + k = top.ip BY <1>5, <1>9
    <3> QED BY <1>9, <3>1 DEF instr
  <2> HIDE DEF phis, last
  <2> QED BY <1>7, <2>1, <2>2
<1> QED BY <1>8, <1>9

LEMMA FailedNext ==
  ASSUME PlaceInv, CallInv, Failed, [Next]_vars PROVE Failed'
<1> USE DEF placing
<1>1. TypeOK /\ Progress /\ calls \in Seq(CallRecord) BY DEF PlaceInv, CallInv, TypeOK
<1>2. CASE RenameLoad
  <2>1. CASE var_val_stack[instr.loc] = <<>>
    <3>1. UNCHANGED <<func_, code, calls, keys, var_val_stack>> /\ pc' = "undefined" /\ Scanning
          /\ instr.op = "load" /\ instr.loc \in keys
      BY <1>2, <2>1 DEF RenameLoad
    <3>2. top' = top /\ instr' = instr BY <3>1 DEF top, instr
    <3>3. Len(calls) > 0 BY <1>1, <3>1, TopCall DEF Scanning
    <3> QED BY <2>1, <3>1, <3>2, <3>3 DEF Failed, Scanning
  <2>2. CASE var_val_stack[instr.loc] # <<>>
    BY <1>2, <2>2 DEF RenameLoad, Scanning, Failed
  <2> QED BY <2>1, <2>2
<1>3. CASE FillPhis
  <2>1. CASE NoValueFor(top.bb)
    <3>1. UNCHANGED <<func_, code, calls, keys, var_val_stack>> /\ pc' = "abort" /\ top.at = "instrs"
          /\ calls # <<>> /\ top.ip > Len(code[top.bb])
      BY <1>3, <2>1 DEF FillPhis, NoValueFor
    <3>2. top' = top /\ \A s : PhisOf(s)' = PhisOf(s) BY <3>1 DEF top, PhisOf
    <3>3. Len(calls) \in 1..Len(calls) /\ top = calls[Len(calls)] /\ top.bb \in Block
      BY <1>1, <3>1, TopCall DEF top
    <3>4. Len(calls) > 0 /\ top.ip = Len(code[top.bb]) + 1
      <4>1. code[top.bb] \in Seq(KnownInstr) BY <1>1, <3>3 DEF TypeOK
      <4>2. top.ip \in 1..(Len(code[top.bb]) + 1) BY <1>1, <3>3 DEF Progress
      <4> QED BY <3>1, <3>3, <4>1, <4>2
    <3> QED BY <2>1, <3>1, <3>2, <3>4 DEF Failed, NoValueFor
  <2>2. CASE ~NoValueFor(top.bb)
    BY <1>3, <2>2 DEF FillPhis, NoValueFor, Failed
  <2> QED BY <2>1, <2>2
<1>4. CASE UNCHANGED vars
  <2>1. UNCHANGED <<func_, code, calls, keys, var_val_stack, pc>> BY <1>4 DEF vars
  <2>2. top' = top /\ instr' = instr /\ \A s : PhisOf(s)' = PhisOf(s) BY <2>1 DEF top, instr, PhisOf
  <2> QED BY <2>1, <2>2 DEF Failed
<1>5. CASE \/ FindLiveVars \/ NextVar \/ PlacePhis \/ VarDone \/ StartRename \/ PushPhis \/ RenameStore
           \/ KeepInstr \/ Descend \/ Return \/ RemoveAlloca
  <2>1. pc' \notin {"abort", "undefined"}
    BY <1>5 DEF FindLiveVars, NextVar, PlacePhis, VarDone, StartRename, PushPhis, RenameStore, KeepInstr,
                Descend, Return, RemoveAlloca, Scanning
  <2> QED BY <2>1 DEF Failed
<1> QED BY <1>2, <1>3, <1>4, <1>5 DEF Next

LEMMA FailedWhere ==
  ASSUME PlaceInv, CallInv, Failed PROVE FailsOnlyUnassigned
<1>1. TypeOK /\ OpenShapes /\ Chain /\ calls \in Seq(CallRecord) BY DEF PlaceInv, CallInv, TypeOK
<1>2. ASSUME pc = "abort"
      PROVE  \E s \in func_.succ[top.bb] : \E k \in PhisOf(s) :
               ~AssignedAt(top.bb, LastOf(top.bb), code[s][k].loc)
  <2>1. /\ Len(calls) > 0 /\ top.at = "instrs" /\ top.ip = Len(code[top.bb]) + 1
        /\ \E s \in func_.succ[top.bb] : \E k \in PhisOf(s) :
             code[s][k].loc \in keys /\ var_val_stack[code[s][k].loc] = <<>>
    BY <1>2 DEF Failed
  <2>2. calls # <<>> /\ pc \notin {"start", "phi"} /\ top.at # "phis" BY <1>2, <2>1
  <2>31. PICK s \in func_.succ[top.bb] : \E k \in PhisOf(s) :
          code[s][k].loc \in keys /\ var_val_stack[code[s][k].loc] = <<>>
    BY <2>1
  <2>3. PICK k \in PhisOf(s) : code[s][k].loc \in keys /\ var_val_stack[code[s][k].loc] = <<>>
    BY <2>31
  <2>4. PICK v \in Var : v = code[s][k].loc BY <1>1, <2>3 DEF TypeOK
  <2>5. ~AssignedAt(top.bb, LastOf(top.bb), v) BY <2>1, <2>2, <2>3, <2>4, NoValueUnassigned
  <2> QED BY <2>4, <2>5
<1>3. ASSUME pc = "undefined"
      PROVE  ~AssignedAt(top.bb, top.ip - Cardinality(PhisOf(top.bb)), instr.loc)
  <2>1. /\ Len(calls) > 0 /\ top.at = "instrs" /\ top.ip <= Len(code[top.bb])
        /\ instr.op = "load" /\ instr.loc \in keys /\ var_val_stack[instr.loc] = <<>>
    BY <1>3 DEF Failed
  <2>2. calls # <<>> /\ pc \notin {"start", "phi"} /\ top.at # "phis" BY <1>3, <2>1
  <2>3. top.bb \in Block /\ top.ip \in Nat \ {0} /\ Len(calls) \in 1..Len(calls) /\ top = calls[Len(calls)]
    BY <1>1, <2>2, TopCall DEF top
  <2>4. top.ip \in 1..Len(code[top.bb])
    <3>1. code[top.bb] \in Seq(KnownInstr) BY <1>1, <2>3 DEF TypeOK
    <3> QED BY <2>1, <2>3, <3>1
  <2>5. PICK v \in Var : v = instr.loc BY <1>1, <2>1 DEF TypeOK
  <2>6. ~AssignedAt(top.bb, top.ip - PhiCount(top.bb), v)
    BY <2>1, <2>2, <2>4, <2>5, NoValueUnassigned
  <2>7. Cardinality(PhisOf(top.bb)) = PhiCount(top.bb)
    <3>1. Shaped(top.bb) BY <1>1, <2>3 DEF Open, OpenShapes
    <3>2. PhisOf(top.bb) = 1..PhiCount(top.bb) /\ PhiCount(top.bb) \in Nat BY <1>1, <2>3, <3>1, ShapedPlaces
    <3>3. Cardinality(1..PhiCount(top.bb)) = PhiCount(top.bb) BY <3>2, FS_Interval
    <3> QED BY <3>2, <3>3
  <2> QED BY <2>5, <2>6, <2>7
<1> QED BY <1>2, <1>3 DEF FailsOnlyUnassigned

\* The assert on the values of the phis and the back() of an empty stack can
\* only be met where some path leaves the variable unassigned.
THEOREM FailuresAreUnassigned == Spec => []FailsOnlyUnassigned
<1>1. Init => Failed BY DEF Init, Failed
<1>2. PlaceInv /\ CallInv /\ Failed /\ [Next]_vars => Failed' BY FailedNext
<1>3. PlaceInv /\ CallInv /\ Failed => FailsOnlyUnassigned BY FailedWhere
<1> QED BY <1>1, <1>2, <1>3, RenamingInvariant, PTL DEF Spec

-----------------------------------------------------------------------------
(***************************************************************************)
(* What still refers to an alloca.                                         *)
(***************************************************************************)
\* An instruction that is left as it was, whatever is done to operands.
LEMMA UnassignedAlike ==
  ASSUME TypeOK, Alike, func_' = func_, NEW b \in Block, NEW k \in 1..Len(code[b]), Unassigned(b, code[b][k])
  PROVE  Unassigned(b, code[b][k])'
<1> DEFINE i == code[b][k]  j == code'[b][k]
<1>1. j.op = i.op /\ j.loc = i.loc /\ (i.op # "phi" /\ i.args = <<>> => j = i) BY DEF Alike
<1>2. \A n, v : AssignedAt(b, n, v)' <=> AssignedAt(b, n, v)
  BY DEF AssignedAt, Stores, LastOf
<1>3. ASSUME j.op \in {"load", "store"}, j.loc \in Var
      PROVE  \E n \in 1..LastOf(b) : func_.code[b][n] = j /\ j.op = "load" /\ ~AssignedAt(b, n, j.loc)
  <2>1. PICK n \in 1..LastOf(b) : func_.code[b][n] = i /\ i.op = "load" /\ ~AssignedAt(b, n, i.loc)
    BY <1>1, <1>3 DEF Unassigned
  <2>2. func_.code[b][n].args = <<>> BY <2>1, FunctionParts DEF WellFormed, LastOf, TypeOK
  <2>3. j = i BY <1>1, <2>1, <2>2
  <2> QED BY <2>1, <2>3
<1>4. LastOf(b)' = LastOf(b) BY DEF LastOf
<1>5. \A n \in 1..LastOf(b) : \A v : AssignedAt(b, n, v) <=> AssignedAt(b, n, v)' BY <1>2
<1> HIDE DEF i, j
<1>6. Unassigned(b, j)
  BY <1>3 DEF Unassigned
<1>7. Unassigned(b, code[b][k])' <=> Unassigned(b, j)
  <2>1. Unassigned(b, code[b][k])' <=>
          (j.op \in {"load", "store"} /\ j.loc \in Var =>
             \E n \in 1..LastOf(b)' : func_'.code[b][n] = j /\ j.op = "load" /\ ~AssignedAt(b, n, code[b][k].loc)')
    BY DEF Unassigned, j
  <2>2. \A n : AssignedAt(b, n, code[b][k].loc)' <=> AssignedAt(b, n, j.loc)
    BY DEF AssignedAt, Stores, LastOf, j
  <2> QED BY <1>4, <2>1, <2>2 DEF Unassigned
<1> QED BY <1>6, <1>7

RenamingPhase == pc \notin {"start", "phi"}

\* A step that only changes operands, or where a call is in its block.
LEMMA RenamedInside ==
  ASSUME TypeOK, Chain, Progress, Renamed, RenamingPhase, SamePath, Alike,
         \A n \in 1..Len(calls) :
           \A k \in (1..(calls'[n].ip - 1)) \ calls'[n].wait_delete :
             \/ k \in (1..(calls[n].ip - 1)) \ calls[n].wait_delete
             \/ k \in 1..Len(code[calls[n].bb]) /\ Unassigned(calls[n].bb, code[calls[n].bb][k])
  PROVE  Renamed'
<1>1. Open' = Open /\ Waiting' = Waiting /\ Live' = Live /\ func_' = func_ /\ Len(calls') = Len(calls)
      /\ \A n \in 1..Len(calls) : calls'[n].bb = calls[n].bb
  BY SamePathChain DEF SamePath, Live
<1>2. Live \subseteq Block /\ \A n \in 1..Len(calls) : calls[n].bb \in Block
  <2>1. Live \subseteq Block BY LiveBlocks DEF TypeOK
  <2> QED BY <2>1 DEF Chain
<1>3. ASSUME NEW n \in 1..Len(calls), NEW k \in (1..(calls'[n].ip - 1)) \ calls'[n].wait_delete
      PROVE  Unassigned(calls[n].bb, code[calls[n].bb][k])'
  <2>1. k \in 1..Len(code[calls[n].bb]) /\ Unassigned(calls[n].bb, code[calls[n].bb][k])
    <3>1. CASE k \in (1..(calls[n].ip - 1)) \ calls[n].wait_delete
      <4>1. calls[n].ip \in 1..(Len(code[calls[n].bb]) + 1) BY DEF Progress
      <4>2. code[calls[n].bb] \in Seq(KnownInstr) BY <1>2 DEF TypeOK
      <4> QED BY <3>1, <4>1, <4>2 DEF Renamed
    <3> QED BY <3>1
  <2>2. PICK b \in Block : b = calls[n].bb BY <1>2
  <2>3. Unassigned(b, code[b][k])' BY <1>1, <2>1, <2>2, UnassignedAlike
  <2>4. b = calls'[n].bb BY <1>1, <2>2
  <2>5. PICK i : i = code'[b][k] /\ i = code'[calls'[n].bb][k] BY <2>4
  <2>6. /\ LastOf(b)' = LastOf(calls[n].bb)'
        /\ \A m : AssignedAt(b, m, code[b][k].loc)' <=> AssignedAt(b, m, i.loc)
        /\ \A m : AssignedAt(calls[n].bb, m, code[calls[n].bb][k].loc)' <=> AssignedAt(b, m, i.loc)
    BY <1>1, <2>4, <2>5 DEF AssignedAt, Stores, LastOf
  <2> QED BY <1>1, <2>3, <2>4, <2>5, <2>6 DEF Unassigned
<1>4. ASSUME NEW b \in Live \ (Open \cup Waiting), NEW k \in 1..Len(code'[b])
      PROVE  Unassigned(b, code[b][k])'
  <2>1. b \in Block BY <1>2
  <2>2. k \in 1..Len(code[b]) BY <2>1 DEF Alike
  <2>3. Unassigned(b, code[b][k]) BY <2>2 DEF Renamed, RenamingPhase
  <2> QED BY <1>1, <2>1, <2>2, <2>3, UnassignedAlike
<1> QED BY <1>1, <1>3, <1>4 DEF Renamed

LEMMA RenamedAdvance ==
  ASSUME TypeOK, CallInv, Renamed, RenamingPhase, Scanning, NEW D, D \subseteq {top.ip}, calls' = Advance(D),
         Alike, func_' = func_, top.ip \in D \/ Unassigned(top.bb, instr)
  PROVE  Renamed'
<1>1. calls # <<>> /\ calls \in Seq(CallRecord) /\ Chain /\ Progress
  BY DEF Scanning, CallInv, TypeOK
<1>2. PICK l : l = Len(calls) OBVIOUS
<1>3. l \in 1..l /\ top = calls[l] /\ top \in CallRecord /\ top.bb \in Block /\ top.ip \in Nat \ {0}
      /\ D \in SUBSET Nat
  BY <1>1, <1>2, TopCall DEF top
<1> DEFINE c == [top EXCEPT !.ip = @ + 1, !.wait_delete = @ \cup D]
<1>4. c \in CallRecord /\ c.bb = top.bb /\ c.left = top.left /\ c.ip = top.ip + 1
      /\ c.wait_delete = top.wait_delete \cup D
  BY <1>1, <1>3, Advanced DEF CallRecord
<1>5. calls' = SetTop(c) BY DEF Advance
<1> HIDE DEF c
<1>6. Len(calls') = l /\ calls'[l] = c /\ \A n \in 1..l : n # l => calls'[n] = calls[n]
  BY <1>1, <1>2, <1>4, <1>5, TopCall
<1>7. SamePath BY <1>2, <1>3, <1>4, <1>6 DEF SamePath
<1>8. top.ip \in 1..Len(code[top.bb])
  <2>1. code[top.bb] \in Seq(KnownInstr) BY <1>3 DEF TypeOK
  <2> QED BY <1>3, <2>1 DEF Scanning
<1>9. ASSUME NEW n \in 1..l, NEW k \in (1..(calls'[n].ip - 1)) \ calls'[n].wait_delete
      PROVE  \/ k \in (1..(calls[n].ip - 1)) \ calls[n].wait_delete
             \/ k \in 1..Len(code[calls[n].bb]) /\ Unassigned(calls[n].bb, code[calls[n].bb][k])
  <2>1. CASE n # l BY <1>6, <2>1
  <2>2. CASE n = l
    <3>1. k \in 1..top.ip /\ k \notin top.wait_delete /\ k \notin D
      <4>1. (top.ip + 1) - 1 = top.ip BY <1>3
      <4> QED BY <1>4, <1>6, <2>2, <4>1
    <3>2. CASE k = top.ip BY <1>3, <1>8, <2>2, <3>1, <3>2 DEF instr
    <3>3. CASE k # top.ip
      <4>1. k \in 1..(top.ip - 1) BY <1>3, <3>1, <3>3
      <4> QED BY <1>3, <2>2, <3>1, <4>1
    <3> QED BY <3>2, <3>3
  <2> QED BY <2>1, <2>2
<1> QED BY <1>1, <1>2, <1>7, <1>9, RenamedInside

\* A step that leaves the calls where they are.
LEMMA RenamedStill ==
  ASSUME TypeOK, Chain, Progress, Renamed, RenamingPhase, SamePath, Alike,
         \A n \in 1..Len(calls) : calls'[n].ip = calls[n].ip /\ calls'[n].wait_delete = calls[n].wait_delete
  PROVE  Renamed'
BY RenamedInside

LEMMA RenamedQuiet ==
  ASSUME TypeOK, Chain, Progress, Renamed, RenamingPhase, UNCHANGED <<func_, code, calls>>
  PROVE  Renamed'
<1>1. SamePath /\ Alike BY SameAlike DEF SamePath
<1> QED BY <1>1, RenamedStill

LEMMA RenamedTop ==
  ASSUME TypeOK, Chain, Progress, Renamed, RenamingPhase, calls # <<>>, Alike, func_' = func_,
         NEW c \in CallRecord, calls' = SetTop(c), c.bb = top.bb, c.left = top.left, c.ip = top.ip,
         c.wait_delete = top.wait_delete
  PROVE  Renamed'
<1>1. calls \in Seq(CallRecord) BY DEF TypeOK
<1>2. PICK l : l = Len(calls) OBVIOUS
<1>3. l \in 1..l /\ top = calls[l] BY <1>1, <1>2, TopCall DEF top
<1>4. Len(calls') = l /\ calls'[l] = c /\ \A n \in 1..l : n # l => calls'[n] = calls[n]
  BY <1>1, <1>2, TopCall
<1>5. SamePath BY <1>2, <1>3, <1>4 DEF SamePath
<1>6. \A n \in 1..l : calls'[n].ip = calls[n].ip /\ calls'[n].wait_delete = calls[n].wait_delete
  BY <1>3, <1>4
<1> QED BY <1>2, <1>5, <1>6, RenamedStill

LEMMA RenamedLoad ==
  ASSUME PlaceInv, CallInv, Renamed, RenameLoad PROVE Renamed'
<1>1. /\ TypeOK /\ Chain /\ Progress /\ Scanning /\ instr.op = "load" /\ instr.loc \in keys /\ func_' = func_
      /\ RenamingPhase
  BY DEF PlaceInv, CallInv, RenameLoad, Scanning, RenamingPhase
<1>2. CASE var_val_stack[instr.loc] = <<>>
  <2>1. UNCHANGED <<func_, code, calls>> BY <1>2 DEF RenameLoad
  <2> QED BY <1>1, <2>1, RenamedQuiet
<1>3. CASE var_val_stack[instr.loc] # <<>>
  <2>1. code' = ReplaceAllUse(instr.id, Top(instr.loc)) /\ calls' = Advance({top.ip})
    BY <1>3 DEF RenameLoad
  <2>2. var_val_stack[instr.loc] \in Seq(Operand) BY <1>1 DEF TypeOK
  <2>3. Top(instr.loc) \in Operand BY <1>3, <2>2 DEF Top
  <2>4. Alike BY <1>1, <2>1, <2>3, ReplaceAllUseAlike
  <2>5. PICK D : D = {top.ip} OBVIOUS
  <2>6. calls' = Advance(D) /\ D \subseteq {top.ip} /\ top.ip \in D BY <2>1, <2>5
  <2> QED BY <1>1, <2>4, <2>6, RenamedAdvance
<1> QED BY <1>2, <1>3

LEMMA RenamedStore ==
  ASSUME PlaceInv, CallInv, Renamed, RenameStore PROVE Renamed'
<1>1. TypeOK /\ Scanning /\ func_' = func_ /\ code' = code /\ calls' = Advance({top.ip}) /\ RenamingPhase
  BY DEF PlaceInv, RenameStore, Scanning, RenamingPhase
<1>2. Alike BY <1>1, SameAlike
<1>3. PICK D : D = {top.ip} OBVIOUS
<1>4. calls' = Advance(D) /\ D \subseteq {top.ip} /\ top.ip \in D BY <1>1, <1>3
<1> QED BY <1>1, <1>2, <1>4, RenamedAdvance

\* A load that stays comes before any store seen on the way down the tree.
LEMMA RenamedKeep ==
  ASSUME PlaceInv, CallInv, Renamed, KeepInstr PROVE Renamed'
<1>1. /\ TypeOK /\ Scanning /\ func_' = func_ /\ code' = code /\ calls' = Advance({}) /\ RenamingPhase
      /\ ~(instr.op = "load" /\ instr.loc \in keys) /\ ~(instr.op = "store" /\ instr.loc \in Var)
      /\ pc = "rename" /\ calls # <<>> /\ top.at = "instrs" /\ top.ip <= Len(code[top.bb])
      /\ StacksKnown /\ OpenShapes /\ calls \in Seq(CallRecord)
  BY DEF PlaceInv, CallInv, KeepInstr, Scanning, RenamingPhase, TypeOK
<1>2. Alike BY <1>1, SameAlike
<1>3. PICK D : D = {} OBVIOUS
<1>4. calls' = Advance(D) /\ D \subseteq {top.ip} BY <1>1, <1>3
<1>5. /\ top.bb \in Block /\ top.ip \in Nat \ {0} /\ Len(calls) \in 1..Len(calls)
      /\ top = calls[Len(calls)]
  BY <1>1, TopCall DEF top
<1>6. top.ip \in 1..Len(code[top.bb])
  <2>1. code[top.bb] \in Seq(KnownInstr) BY <1>1, <1>5 DEF TypeOK
  <2> QED BY <1>1, <1>5, <2>1
<1>7. ASSUME instr.op \in {"load", "store"}, instr.loc \in Var
      PROVE  \E n \in 1..LastOf(top.bb) : func_.code[top.bb][n] = instr /\ instr.op = "load"
                                          /\ ~AssignedAt(top.bb, n, instr.loc)
  <2>1. instr.op = "load" /\ instr.loc \in Var \ keys BY <1>1, <1>7
  <2>2. var_val_stack[instr.loc] = <<>> BY <1>1, <2>1 DEF StacksKnown
  <2>3. Shaped(top.bb) BY <1>1, <1>5 DEF Open, OpenShapes
  <2> DEFINE n == top.ip - PhiCount(top.bb)
  <2>4. top.ip \notin 1..PhiCount(top.bb) BY <2>1, <2>3 DEF Shaped, IsPhi, instr
  <2>5. n \in 1..LastOf(top.bb) /\ func_.code[top.bb][n] = instr
    BY <1>1, <1>5, <1>6, <2>1, <2>3, <2>4, ShapedPlaces DEF instr
  <2>6. ~AssignedAt(top.bb, n, instr.loc)
    <3>1. PICK v \in Var : v = instr.loc BY <2>1
    <3>2. top.at # "phis" /\ pc \notin {"start", "phi"} /\ instr.op # "store" BY <1>1, <2>1
    <3>3. var_val_stack[v] = <<>> BY <2>2, <3>1
    <3>4. ~AssignedAt(top.bb, n, v) BY <1>1, <1>6, <3>2, <3>3, NoValueUnassigned
    <3> QED BY <3>1, <3>4
  <2> QED BY <2>1, <2>5, <2>6
<1>8. Unassigned(top.bb, instr) BY <1>7 DEF Unassigned
<1> QED BY <1>1, <1>2, <1>4, <1>8, RenamedAdvance

LEMMA RenamedPush ==
  ASSUME PlaceInv, CallInv, Renamed, PushPhis PROVE Renamed'
<1>1. /\ TypeOK /\ Chain /\ Progress /\ RenamingPhase /\ calls # <<>> /\ func_' = func_ /\ code' = code
      /\ calls' = SetTop([top EXCEPT !.at = "instrs"]) /\ calls \in Seq(CallRecord)
  BY DEF PlaceInv, CallInv, PushPhis, RenamingPhase, TypeOK
<1> DEFINE c == [top EXCEPT !.at = "instrs"]
<1>2. top \in CallRecord /\ c \in CallRecord BY <1>1, TopCall, Advanced
<1>3. c.bb = top.bb /\ c.left = top.left /\ c.ip = top.ip /\ c.wait_delete = top.wait_delete
  BY <1>2 DEF CallRecord
<1>4. calls' = SetTop(c) BY <1>1
<1> HIDE DEF c
<1>5. Alike BY <1>1, SameAlike
<1> QED BY <1>1, <1>2, <1>3, <1>4, <1>5, RenamedTop

LEMMA RenamedFill ==
  ASSUME PlaceInv, CallInv, Renamed, FillPhis PROVE Renamed'
<1>1. /\ TypeOK /\ Chain /\ Progress /\ RenamingPhase /\ calls # <<>> /\ func_' = func_
      /\ calls \in Seq(CallRecord)
  BY DEF PlaceInv, CallInv, FillPhis, RenamingPhase, TypeOK
<1>2. CASE NoValueFor(top.bb)
  <2>1. UNCHANGED <<code, calls>> BY <1>2 DEF FillPhis, NoValueFor
  <2> QED BY <1>1, <2>1, RenamedQuiet
<1>3. CASE ~NoValueFor(top.bb)
  <2>1. /\ code' = [b \in Block |-> IF b \in func_.succ[top.bb]
                      THEN [k \in 1..Len(code[b]) |-> Filled(code[b][k])] ELSE code[b]]
        /\ calls' = SetTop([top EXCEPT !.at = "children"])
    BY <1>3 DEF FillPhis, NoValueFor
  <2> DEFINE c == [top EXCEPT !.at = "children"]
  <2>2. top \in CallRecord /\ c \in CallRecord /\ top.bb \in Block BY <1>1, TopCall, Advanced
  <2>3. c.bb = top.bb /\ c.left = top.left /\ c.ip = top.ip /\ c.wait_delete = top.wait_delete
    BY <2>2 DEF CallRecord
  <2>4. calls' = SetTop(c) BY <2>1
  <2> HIDE DEF c
  <2>5. Alike BY <1>1, <1>3, <2>1, <2>2, FillAlike
  <2> QED BY <1>1, <2>2, <2>3, <2>4, <2>5, RenamedTop
<1> QED BY <1>2, <1>3

\* An instruction of a block whose code a step leaves alone.
LEMMA UnassignedSame ==
  ASSUME func_' = func_, NEW b, code'[b] = code[b], NEW k, Unassigned(b, code[b][k])
  PROVE  Unassigned(b, code[b][k])'
<1>1. PICK i : i = code[b][k] OBVIOUS
<1>2. i = code'[b][k] BY <1>1
<1>3. Unassigned(b, i)' <=> Unassigned(b, i) BY DEF Unassigned, AssignedAt, Stores, LastOf
<1>4. Unassigned(b, i) BY <1>1
<1> QED BY <1>2, <1>3, <1>4 DEF Unassigned

LEMMA RenamedDescend ==
  ASSUME PlaceInv, CallInv, Renamed, Descend PROVE Renamed'
<1>1. /\ func_' = func_ /\ code' = code /\ pc = "rename" /\ pc' = "rename" /\ Chain
  BY DEF Descend, CallInv
<1>2. PICK l : l = Len(calls) OBVIOUS
<1>3. /\ Open \cup Waiting \subseteq Open' \cup Waiting'
      /\ Len(calls') = l + 1 /\ l \in Nat /\ 1 <= l
      /\ \A n \in 1..l : /\ calls'[n].bb = calls[n].bb /\ calls'[n].ip = calls[n].ip
                         /\ calls'[n].wait_delete = calls[n].wait_delete
  BY <1>1, <1>2, DescendChain
<1>4. PICK b \in Live : calls'[l + 1] = Call(b) BY <1>1, <1>2, DescendChain
<1>5. calls'[l + 1].ip = 1 BY <1>4, CallFields
<1>6. ASSUME NEW n \in 1..(l + 1), NEW k \in (1..(calls'[n].ip - 1)) \ calls'[n].wait_delete
      PROVE  Unassigned(calls[n].bb, code[calls[n].bb][k])'
  <2>1. n \in 1..l \/ n = l + 1 BY <1>3
  <2>2. CASE n = l + 1
    <3>1. 1 - 1 = 0 /\ 1..0 = {} OBVIOUS
    <3> QED BY <1>5, <1>6, <2>2, <3>1
  <2>3. CASE n \in 1..l
    <3>1. Unassigned(calls[n].bb, code[calls[n].bb][k]) BY <1>2, <1>3, <2>3 DEF Renamed
    <3>2. PICK c : c = calls[n].bb OBVIOUS
    <3>3. Unassigned(c, code[c][k])' BY <1>1, <3>1, <3>2, UnassignedSame
    <3>4. c = calls'[n].bb BY <1>3, <2>3, <3>2
    <3> QED BY <3>3, <3>4 DEF Unassigned, AssignedAt, Stores, LastOf
  <2> QED BY <2>1, <2>2, <2>3
<1>7. ASSUME NEW c \in Live \ (Open' \cup Waiting'), NEW k \in 1..Len(code[c])
      PROVE  Unassigned(c, code[c][k])'
  <2>1. Unassigned(c, code[c][k]) BY <1>1, <1>3 DEF Renamed
  <2> QED BY <1>1, <2>1, UnassignedSame
<1>8. Live' = Live BY <1>1 DEF Live
<1> QED BY <1>1, <1>3, <1>6, <1>7, <1>8 DEF Renamed

LEMMA RenamedReturn ==
  ASSUME PlaceInv, CallInv, Renamed, Return PROVE Renamed'
<1>1. /\ func_' = func_ /\ pc = "rename" /\ pc' = "rename" /\ Chain /\ Progress /\ TypeOK
      /\ top.at = "children" /\ top.left = {} /\ calls # <<>>
      /\ calls' = SubSeq(calls, 1, Len(calls) - 1) /\ calls \in Seq(CallRecord)
      /\ code' = [code EXCEPT ![top.bb] = KeepOnly(@, (1..Len(@)) \ top.wait_delete)]
      /\ code \in [Block -> Seq(KnownInstr)]
  BY DEF Return, CallInv, PlaceInv, TypeOK
<1>2. PICK l : l = Len(calls) OBVIOUS
<1>3. /\ Open \cup Waiting \subseteq Open' \cup Waiting' \cup {top.bb}
      /\ top.bb \in Open /\ top.bb \in Live /\ top.bb \notin Open'
      /\ Len(calls') = l - 1 /\ l \in Nat /\ 1 <= l
      /\ \A n \in 1..(l - 1) : calls'[n] = calls[n]
  BY <1>1, <1>2, ReturnChain
<1>4. top.bb \in Block /\ top = calls[l] /\ l \in 1..l BY <1>1, <1>2, TopCall DEF top
<1>5. \A b \in Block : b # top.bb => code'[b] = code[b] BY <1>1
<1>6. \A n \in 1..(l - 1) : n \in 1..l BY <1>3
<1>7. \A n \in 1..l : calls[n].bb \in Block
  <2>1. \A n \in 1..l : calls[n] \in CallRecord BY <1>1, <1>2
  <2> QED BY <2>1 DEF CallRecord
<1>8. ASSUME NEW n \in 1..(l - 1), NEW k \in (1..(calls'[n].ip - 1)) \ calls'[n].wait_delete
      PROVE  Unassigned(calls[n].bb, code[calls[n].bb][k])'
  <2>1. Unassigned(calls[n].bb, code[calls[n].bb][k]) BY <1>2, <1>3, <1>6 DEF Renamed
  <2>2. PICK c \in Block : c = calls[n].bb BY <1>6, <1>7
  <2>3. calls'[n].bb = c BY <1>3, <2>2
  <2>4. c # top.bb
    <3>1. calls'[n].bb \in Open' BY <1>3 DEF Open
    <3> QED BY <1>3, <2>3, <3>1
  <2>5. Unassigned(c, code[c][k])' BY <1>1, <1>5, <2>1, <2>2, <2>4, UnassignedSame
  <2> QED BY <2>3, <2>5 DEF Unassigned, AssignedAt, Stores, LastOf
<1>9. ASSUME NEW b \in Live \ (Open' \cup Waiting'), NEW k \in 1..Len(code'[b])
      PROVE  Unassigned(b, code[b][k])'
  <2>1. CASE b # top.bb
    <3>0. Live \subseteq Block BY <1>1, LiveBlocks DEF TypeOK
    <3>1. b \in Block /\ b \notin Open \cup Waiting BY <1>3, <2>1, <3>0
    <3>2. code'[b] = code[b] BY <1>5, <2>1, <3>1
    <3>3. Unassigned(b, code[b][k]) BY <1>1, <3>1, <3>2 DEF Renamed
    <3> QED BY <1>1, <3>2, <3>3, UnassignedSame
  <2>2. CASE b = top.bb
    <3> DEFINE S == (1..Len(code[b])) \ top.wait_delete
    <3>1. code'[b] = KeepOnly(code[b], S) /\ code[b] \in Seq(KnownInstr) BY <1>1, <1>4, <2>2
    <3>2. S \in SUBSET (1..Len(code[b])) OBVIOUS
    <3> HIDE DEF S
    <3>3. PICK j \in S : code'[b][k] = code[b][j] BY <3>1, <3>2, KeepOnlyElements
    <3>4. top.ip = Len(code[b]) + 1 BY <1>1, <1>2, <1>4, <2>2 DEF Progress
    <3>5. j \in (1..(top.ip - 1)) \ top.wait_delete BY <3>1, <3>4 DEF S
    <3>6. Unassigned(b, code[b][j]) BY <1>2, <1>4, <2>2, <3>5 DEF Renamed
    <3>7. Unassigned(b, code[b][k])' <=> Unassigned(b, code'[b][k])
      BY <1>1 DEF Unassigned, AssignedAt, Stores, LastOf
    <3> QED BY <3>3, <3>6, <3>7
  <2> QED BY <2>1, <2>2
<1>10. Live' = Live BY <1>1 DEF Live
<1> QED BY <1>1, <1>3, <1>8, <1>9, <1>10 DEF Renamed

LEMMA RenamedRemoveAlloca ==
  ASSUME PlaceInv, CallInv, Renamed, RemoveAlloca PROVE Renamed'
<1>1. /\ func_' = func_ /\ pc = "rename" /\ calls = <<>> /\ calls' = <<>>
      /\ code' = [b \in Block |->
           KeepOnly(code[b], {k \in 1..Len(code[b]) : ~(code[b][k].op = "alloca" /\ code[b][k].loc \in Var)})]
      /\ code \in [Block -> Seq(KnownInstr)] /\ func_ \in Functions
  BY DEF RemoveAlloca, PlaceInv, TypeOK
<1>2. Len(calls) = 0 /\ Len(calls') = 0 /\ 1..0 = {} BY <1>1
<1>3. Open = {} /\ Waiting = {} BY <1>2 DEF Open, Waiting
<1>4. ASSUME NEW b \in Live, NEW k \in 1..Len(code'[b]) PROVE Unassigned(b, code[b][k])'
  <2> DEFINE S == {j \in 1..Len(code[b]) : ~(code[b][j].op = "alloca" /\ code[b][j].loc \in Var)}
  <2>1. b \in Block BY <1>1, LiveBlocks
  <2>2. code'[b] = KeepOnly(code[b], S) /\ code[b] \in Seq(KnownInstr) BY <1>1, <2>1
  <2>3. S \in SUBSET (1..Len(code[b])) OBVIOUS
  <2>4. \A j \in S : Unassigned(b, code[b][j]) BY <1>1, <1>3 DEF Renamed
  <2> HIDE DEF S
  <2>5. PICK j \in S : code'[b][k] = code[b][j] BY <2>2, <2>3, KeepOnlyElements
  <2>6. Unassigned(b, code[b][k])' <=> Unassigned(b, code'[b][k])
    BY <1>1 DEF Unassigned, AssignedAt, Stores, LastOf
  <2> QED BY <2>4, <2>5, <2>6
<1>5. Live' = Live BY <1>1 DEF Live
<1> QED BY <1>2, <1>4, <1>5 DEF Renamed

LEMMA RenamedNext ==
  ASSUME PlaceInv, CallInv, Renamed, [Next]_vars PROVE Renamed'
<1> USE DEF placing
<1>1. TypeOK /\ Chain /\ Progress BY DEF PlaceInv, CallInv
<1>2. CASE FindLiveVars \/ NextVar \/ PlacePhis \/ VarDone
  <2>1. pc' = "phi" /\ calls' = <<>>
    BY <1>2 DEF PlaceInv, Phases, FindLiveVars, NextVar, PlacePhis, VarDone
  <2>2. Len(calls') = 0 /\ 1..0 = {} BY <2>1
  <2> QED BY <2>1, <2>2 DEF Renamed
<1>3. CASE StartRename
  <2>1. Len(calls') = 1 /\ calls'[1] = Call(func_.entry) /\ Live \subseteq (Open \cup Waiting)' /\ func_' = func_
    BY <1>3, StartChain DEF StartRename
  <2>2. calls'[1].ip = 1 /\ \A n \in 1..1 : n = 1 BY <2>1, CallFields
  <2>3. 1 - 1 = 0 /\ 1..0 = {} OBVIOUS
  <2>4. \A n \in 1..Len(calls') : 1..(calls'[n].ip - 1) = {} BY <2>1, <2>2, <2>3
  <2>5. Live' = Live BY <2>1 DEF Live
  <2> QED BY <2>1, <2>4, <2>5 DEF Renamed
<1>4. CASE PushPhis BY <1>4, RenamedPush
<1>5. CASE RenameLoad BY <1>5, RenamedLoad
<1>6. CASE RenameStore BY <1>6, RenamedStore
<1>7. CASE KeepInstr BY <1>7, RenamedKeep
<1>8. CASE FillPhis BY <1>8, RenamedFill
<1>9. CASE Descend BY <1>9, RenamedDescend
<1>10. CASE Return BY <1>10, RenamedReturn
<1>11. CASE RemoveAlloca BY <1>11, RenamedRemoveAlloca
<1>12. CASE UNCHANGED vars
  <2>1. UNCHANGED <<func_, code, calls, pc>> BY <1>12 DEF vars
  <2>2. CASE RenamingPhase BY <1>1, <2>1, <2>2, RenamedQuiet
  <2>3. CASE ~RenamingPhase
    <3>1. calls = <<>> BY <2>3 DEF RenamingPhase, PlaceInv, Phases
    <3>2. Len(calls') = 0 /\ 1..0 = {} BY <2>1, <3>1
    <3> QED BY <2>1, <2>3, <3>2 DEF Renamed, RenamingPhase
  <2> QED BY <2>2, <2>3
<1> QED BY <1>2, <1>3, <1>4, <1>5, <1>6, <1>7, <1>8, <1>9, <1>10, <1>11, <1>12 DEF Next

\* What is left of a promoted variable are loads that some path reaches with
\* the variable unassigned: every other use is gone before its alloca is.
THEOREM UsesLeftAreUnassigned == Spec => []UsesLeft
<1>1. Init => Renamed
  <2> SUFFICES ASSUME Init PROVE Renamed OBVIOUS
  <2>1. calls = <<>> /\ pc = "start" BY DEF Init
  <2>2. Len(calls) = 0 /\ 1..0 = {} BY <2>1
  <2> QED BY <2>1, <2>2 DEF Renamed
<1>2. PlaceInv /\ CallInv /\ Renamed /\ [Next]_vars => Renamed' BY RenamedNext
<1>3. PlaceInv /\ Renamed => UsesLeft
  <2> SUFFICES ASSUME PlaceInv, Renamed, pc = "done", NEW b \in Live, NEW k \in 1..Len(code[b]),
                      code[b][k].op \in {"load", "store"}, code[b][k].loc \in Var
               PROVE  \E n \in 1..LastOf(b) : /\ func_.code[b][n] = code[b][k]
                                              /\ code[b][k].op = "load"
                                              /\ ~AssignedAt(b, n, code[b][k].loc)
    BY DEF UsesLeft
  <2>1. calls = <<>> BY DEF PlaceInv, Phases
  <2>2. Len(calls) = 0 /\ 1..0 = {} BY <2>1
  <2>3. Open = {} /\ Waiting = {} BY <2>2 DEF Open, Waiting
  <2>4. Unassigned(b, code[b][k]) BY <2>3 DEF Renamed
  <2> QED BY <2>4 DEF Unassigned
<1> QED BY <1>1, <1>2, <1>3, RenamingInvariant, PTL DEF Spec

-----------------------------------------------------------------------------
(***************************************************************************)
(* The pairs of the phis.                                                  *)
(***************************************************************************)
\* What is said of a phi speaks of nothing but these.
LEMMA PhiStill ==
  ASSUME UNCHANGED <<func_, bb_has_var_phi>>, Unfilled' = Unfilled, RenamingPhase, RenamingPhase',
         NEW b, NEW v, NEW f, PhiKnown(b, v, f)
  PROVE  PhiKnown(b, v, f)'
<1>1. Live' = Live /\ \A p : Unset(p, v)' <=> Unset(p, v)
  BY DEF Live, Unset, Dom, Storing, Stores, LastOf, PhiBlocks
<1> QED BY <1>1 DEF PhiKnown, RenamingPhase

\* A phi without pairs, before any block is renamed.
LEMMA PhiFresh ==
  ASSUME NEW b, NEW v \in Var, <<b, v>> \in bb_has_var_phi',
         pc' \in {"start", "phi"} \/ Live' \subseteq Unfilled', NEW f, f = <<>>
  PROVE  PhiKnown(b, v, f)'
<1>1. Len(f) = 0 /\ 1..0 = {} OBVIOUS
<1>2. ~(pc' \in {"start", "phi"}) => Live' \ Unfilled' = {} OBVIOUS
<1> QED BY <1>1, <1>2 DEF PhiKnown

\* A phi when the block p has been renamed and gives it its pair.
LEMMA PhiFilled ==
  ASSUME UNCHANGED <<func_, bb_has_var_phi>>, NEW p \in Live, p \in Unfilled, Unfilled' = Unfilled \ {p},
         RenamingPhase, RenamingPhase', NEW b, NEW v, NEW f \in Seq(Block), PhiKnown(b, v, f), p \in Block,
         NEW g, g = IF b \in func_.succ[p] /\ v \in keys THEN Append(f, p) ELSE f,
         b \in func_.succ[p] => (Unset(p, v) <=> v \notin keys)
  PROVE  PhiKnown(b, v, g)'
<1>1. Live' = Live /\ \A q : Unset(q, v)' <=> Unset(q, v)
  BY DEF Live, Unset, Dom, Storing, Stores, LastOf, PhiBlocks
<1>2. /\ v \in Var /\ <<b, v>> \in bb_has_var_phi
      /\ \A j, l \in 1..Len(f) : f[j] = f[l] => j = l
      /\ \A j \in 1..Len(f) : f[j] \in Live \ Unfilled /\ b \in func_.succ[f[j]] /\ f[j] # p /\ ~Unset(f[j], v)
      /\ \A q \in Live \ Unfilled : b \in func_.succ[q] => (\E j \in 1..Len(f) : f[j] = q) \/ Unset(q, v)
  BY DEF PhiKnown, RenamingPhase
<1>3. Len(f) \in Nat OBVIOUS
<1>4. CASE b \in func_.succ[p] /\ v \in keys
  <2>1. Len(g) = Len(f) + 1 /\ g[Len(f) + 1] = p /\ \A j \in 1..Len(f) : g[j] = f[j]
    BY <1>4
  <2>2. \A j \in 1..Len(g) : j \in 1..Len(f) \/ j = Len(f) + 1 BY <1>3, <2>1
  <2>3. \A j \in 1..Len(f) : j \in 1..Len(g) BY <1>3, <2>1
  <2>4. Len(f) + 1 \in 1..Len(g) BY <1>3, <2>1
  <2>5. \A j, l \in 1..Len(g) : g[j] = g[l] => j = l BY <1>2, <2>1, <2>2
  <2>6. \A j \in 1..Len(g) : g[j] \in Live \ Unfilled' /\ b \in func_.succ[g[j]] /\ ~Unset(g[j], v)
    BY <1>2, <1>4, <2>1, <2>2
  <2>7. \A q \in Live \ Unfilled' : b \in func_.succ[q] => (\E j \in 1..Len(g) : g[j] = q) \/ Unset(q, v)
    <3> TAKE q \in Live \ Unfilled'
    <3>1. CASE q = p BY <2>1, <2>4, <3>1
    <3>2. CASE q # p BY <1>2, <2>1, <2>3, <3>2
    <3> QED BY <3>1, <3>2
  <2> QED BY <1>1, <1>2, <2>5, <2>6, <2>7 DEF PhiKnown, RenamingPhase
<1>5. CASE ~(b \in func_.succ[p] /\ v \in keys)
  <2>1. g = f BY <1>5
  <2>2. \A q \in Live \ Unfilled' : b \in func_.succ[q] => (\E j \in 1..Len(f) : f[j] = q) \/ Unset(q, v)
    BY <1>2, <1>5
  <2> QED BY <1>1, <1>2, <2>1, <2>2 DEF PhiKnown, RenamingPhase
<1> QED BY <1>4, <1>5

\* A step that keeps the phis and their pairs, whatever else it drops.
LEMMA PhisCopied ==
  ASSUME PhisKnown, UNCHANGED <<func_, bb_has_var_phi>>, Unfilled' = Unfilled,
         RenamingPhase, RenamingPhase',
         \A b \in Block : \A k \in PhisOf(b)' : \E j \in PhisOf(b) :
           code'[b][k].loc = code[b][j].loc /\ code'[b][k].from = code[b][j].from
  PROVE  PhisKnown'
<1>2. ASSUME NEW b \in Block, NEW k \in PhisOf(b)'
      PROVE  PhiKnown(b, code[b][k].loc, code[b][k].from)'
  <2>1. PICK j \in PhisOf(b) : code'[b][k].loc = code[b][j].loc /\ code'[b][k].from = code[b][j].from
    OBVIOUS
  <2>2. PICK v, f : v = code[b][j].loc /\ f = code[b][j].from OBVIOUS
  <2>3. PhiKnown(b, v, f) BY <2>2 DEF PhisKnown
  <2>4. PhiKnown(b, v, f)' BY <2>3, PhiStill
  <2>5. v = code'[b][k].loc /\ f = code'[b][k].from BY <2>1, <2>2
  <2> QED BY <2>4, <2>5 DEF PhiKnown, Unset
<1> QED BY <1>2 DEF PhisKnown

\* No block in progress is under one that is still to be visited.
LEMMA OpenNotWaiting ==
  ASSUME TypeOK, Chain, NEW n \in 1..Len(calls)
  PROVE  calls[n].bb \notin Waiting
<1> SUFFICES ASSUME NEW m \in 1..Len(calls), NEW x \in calls[m].left, Dom(x, calls[n].bb) PROVE FALSE
  BY DEF Waiting
<1>1. calls[m].bb \in Live /\ x \in DominatorChildren(func_.succ, func_.entry, calls[m].bb) BY DEF Chain
<1>2. x \in Live BY <1>1, ChildParts DEF TypeOK
<1>3. PICK j \in 1..n : calls[j].bb = x BY <1>2 DEF Chain
<1>4. j \in 1..Len(calls)
  <2>1. Len(calls) \in Nat BY DEF TypeOK
  <2> QED BY <2>1
<1> QED BY <1>3, <1>4 DEF Chain

\* A step after which each call is as far as it was.
LEMMA UnfilledSame ==
  ASSUME TypeOK, Chain, SamePath,
         \A n \in 1..Len(calls) : (calls'[n].at = "children") <=> (calls[n].at = "children")
  PROVE  Unfilled' = Unfilled
<1>1. Waiting' = Waiting /\ Len(calls') = Len(calls) /\ \A n \in 1..Len(calls) : calls'[n].bb = calls[n].bb
  BY SamePathChain DEF SamePath
<1>2. {m \in 1..Len(calls) : calls'[m].at # "children"} = {m \in 1..Len(calls) : calls[m].at # "children"}
  OBVIOUS
<1>3. {calls'[n].bb : n \in {m \in 1..Len(calls) : calls'[m].at # "children"}}
        = {calls[n].bb : n \in {m \in 1..Len(calls) : calls[m].at # "children"}}
  BY <1>1, <1>2
<1> QED BY <1>1, <1>3 DEF Unfilled

LEMMA UnfilledTop ==
  ASSUME TypeOK, Chain, calls # <<>>, func_' = func_, NEW c \in CallRecord, calls' = SetTop(c),
         c.bb = top.bb, c.left = top.left
  PROVE  /\ (c.at = "children" <=> top.at = "children") => Unfilled' = Unfilled
         /\ c.at = "children" /\ top.at # "children" =>
              /\ top.bb \in Unfilled /\ Unfilled' = Unfilled \ {top.bb} /\ top.bb \in Live
<1>1. calls \in Seq(CallRecord) BY DEF TypeOK
<1>2. PICK l : l = Len(calls) OBVIOUS
<1>3. l \in 1..l /\ top = calls[l] BY <1>1, <1>2, TopCall DEF top
<1>4. Len(calls') = l /\ calls'[l] = c /\ \A n \in 1..l : n # l => calls'[n] = calls[n]
  BY <1>1, <1>2, TopCall
<1>5. SamePath BY <1>2, <1>3, <1>4 DEF SamePath
<1>6. ASSUME c.at = "children" <=> top.at = "children" PROVE Unfilled' = Unfilled
  <2>1. \A n \in 1..l : (calls'[n].at = "children") <=> (calls[n].at = "children") BY <1>3, <1>4, <1>6
  <2> QED BY <1>2, <1>5, <2>1, UnfilledSame
<1>7. ASSUME c.at = "children", top.at # "children"
      PROVE  top.bb \in Unfilled /\ Unfilled' = Unfilled \ {top.bb} /\ top.bb \in Live
  <2>1. Waiting' = Waiting BY <1>5, SamePathChain
  <2>2. top.bb \notin Waiting BY <1>2, <1>3, OpenNotWaiting
  <2>3. top.bb \in Unfilled BY <1>2, <1>3, <1>7 DEF Unfilled
  <2>4. \A n \in 1..l : calls[n].bb = top.bb => n = l BY <1>2, <1>3 DEF Chain
  <2>5. {calls'[n].bb : n \in {m \in 1..l : calls'[m].at # "children"}}
          = {calls[n].bb : n \in {m \in 1..l : calls[m].at # "children"}} \ {top.bb}
    <3>1. ASSUME NEW n \in 1..l, calls'[n].at # "children"
          PROVE  calls[n].at # "children" /\ calls'[n].bb = calls[n].bb /\ calls[n].bb # top.bb
      <4>1. n # l BY <1>4, <1>7, <3>1
      <4> QED BY <1>4, <2>4, <3>1, <4>1
    <3>2. ASSUME NEW n \in 1..l, calls[n].at # "children", calls[n].bb # top.bb
          PROVE  calls'[n].at # "children" /\ calls'[n].bb = calls[n].bb
      <4>1. n # l BY <1>3, <3>2
      <4> QED BY <1>4, <3>2, <4>1
    <3> QED BY <3>1, <3>2
  <2>6. Unfilled = Waiting \cup {calls[n].bb : n \in {m \in 1..l : calls[m].at # "children"}}
    BY <1>2 DEF Unfilled
  <2>7. Unfilled' = Waiting \cup {calls'[n].bb : n \in {m \in 1..l : calls'[m].at # "children"}}
    BY <1>4, <2>1 DEF Unfilled
  <2>8. Unfilled' = Unfilled \ {top.bb} BY <2>2, <2>5, <2>6, <2>7
  <2>9. top.bb \in Live BY <1>2, <1>3 DEF Chain
  <2> QED BY <2>3, <2>8, <2>9
<1> QED BY <1>6, <1>7

\* A phi taken over as it is.
LEMMA PhisAlike ==
  ASSUME TypeOK, PhisKnown, Alike, UNCHANGED <<func_, bb_has_var_phi>>, Unfilled' = Unfilled,
         RenamingPhase, RenamingPhase',
         \A b \in Block : \A k \in 1..Len(code[b]) : code'[b][k].from = code[b][k].from
  PROVE  PhisKnown'
<1>2. ASSUME NEW b \in Block, NEW k \in PhisOf(b)'
      PROVE  k \in PhisOf(b) /\ code'[b][k].loc = code[b][k].loc /\ code'[b][k].from = code[b][k].from
  <2>1. Len(code'[b]) = Len(code[b]) BY DEF Alike
  <2>2. k \in 1..Len(code[b]) BY <2>1 DEF PhisOf
  <2>3. code'[b][k].op = code[b][k].op /\ code'[b][k].loc = code[b][k].loc BY <2>2 DEF Alike
  <2>4. k \in PhisOf(b) BY <2>2, <2>3 DEF PhisOf, IsPhi
  <2> QED BY <2>2, <2>3, <2>4
<1> QED BY <1>2, PhisCopied

LEMMA PhisAdvance ==
  ASSUME TypeOK, CallInv, PhisKnown, Scanning, NEW D, D \subseteq {top.ip}, calls' = Advance(D), Alike,
         UNCHANGED <<func_, bb_has_var_phi, pc>>,
         \A b \in Block : \A k \in 1..Len(code[b]) : code'[b][k].from = code[b][k].from
  PROVE  PhisKnown'
<1>1. calls # <<>> /\ calls \in Seq(CallRecord) /\ Chain /\ RenamingPhase /\ RenamingPhase'
  BY DEF Scanning, CallInv, TypeOK, RenamingPhase
<1>2. top \in CallRecord /\ D \in SUBSET Nat BY <1>1, TopCall
<1> DEFINE c == [top EXCEPT !.ip = @ + 1, !.wait_delete = @ \cup D]
<1>3. c \in CallRecord /\ c.bb = top.bb /\ c.left = top.left /\ c.at = top.at
  BY <1>1, <1>2, Advanced DEF CallRecord
<1>4. calls' = SetTop(c) BY DEF Advance
<1> HIDE DEF c
<1>5. Unfilled' = Unfilled BY <1>1, <1>3, <1>4, UnfilledTop
<1> QED BY <1>1, <1>5, PhisAlike

LEMMA PhisQuiet ==
  ASSUME TypeOK, Chain, PhisKnown, UNCHANGED <<func_, code, calls, bb_has_var_phi>>,
         RenamingPhase, RenamingPhase'
  PROVE  PhisKnown'
<1>1. SamePath /\ Alike BY SameAlike DEF SamePath
<1>2. Unfilled' = Unfilled BY <1>1, UnfilledSame
<1> QED BY <1>1, <1>2, PhisAlike

-----------------------------------------------------------------------------
LEMMA PhisPlacePhis ==
  ASSUME PlaceInv, PhisKnown, PlacePhis PROVE PhisKnown'
<1>1. PICK p \in work_list :
        LET lacking == {d \in dominators_.frontier[p] : <<d, var>> \notin bb_has_var_phi}
        IN  /\ code' = [d \in Block |-> IF d \in lacking THEN <<NewPhi(d, var)>> \o code[d] ELSE code[d]]
            /\ bb_has_var_phi' = bb_has_var_phi \cup (lacking \X {var})
  BY PlacePhisParts
<1> DEFINE lacking == {d \in dominators_.frontier[p] : <<d, var>> \notin bb_has_var_phi}
<1>2. /\ code' = [d \in Block |-> IF d \in lacking THEN <<NewPhi(d, var)>> \o code[d] ELSE code[d]]
      /\ bb_has_var_phi' = bb_has_var_phi \cup (lacking \X {var})
  BY <1>1
<1> HIDE DEF lacking
<1>3. /\ pc = "phi" /\ pc' = "phi" /\ var \in Var /\ func_' = func_
      /\ code \in [Block -> Seq(KnownInstr)] /\ func_ \in Functions
  BY DEF PlacePhis, PlaceInv, TypeOK
<1>5. ASSUME NEW b \in Block, NEW k \in PhisOf(b) 
      PROVE  code[b][k].loc \in Var /\ code[b][k].from = <<>> /\ <<b, code[b][k].loc>> \in bb_has_var_phi'
  BY <1>2, <1>3 DEF PhisKnown, PhiKnown
<1>6. ASSUME NEW b \in Block, NEW k \in PhisOf(b)'
      PROVE  code'[b][k].loc \in Var /\ code'[b][k].from = <<>> /\ <<b, code'[b][k].loc>> \in bb_has_var_phi'
  <2>1. CASE b \notin lacking
    <3>1. code'[b] = code[b] BY <1>2, <2>1
    <3>2. k \in PhisOf(b) BY <3>1 DEF PhisOf
    <3> QED BY <1>5, <3>1, <3>2
  <2>2. CASE b \in lacking
    <3>1. code'[b] = <<NewPhi(b, var)>> \o code[b] BY <1>2, <2>2
    <3>2. code[b] \in Seq(KnownInstr) /\ NewPhi(b, var) \in KnownInstr BY <1>3, NewPhiType
    <3>3. /\ Len(code'[b]) = Len(code[b]) + 1 /\ code'[b][1] = NewPhi(b, var)
          /\ \A j \in 1..Len(code[b]) : code'[b][j + 1] = code[b][j]
      <4>1. PICK x \in KnownInstr, c \in Seq(KnownInstr) : x = NewPhi(b, var) /\ c = code[b] BY <3>2
      <4>2. code'[b] = <<x>> \o c BY <3>1, <4>1
      <4>3. /\ Len(code'[b]) = Len(c) + 1 /\ code'[b][1] = x
            /\ \A j \in 1..Len(c) : code'[b][j + 1] = c[j]
        BY <4>2
      <4> QED BY <4>1, <4>3
    <3>4. CASE k = 1
      <4>1. NewPhi(b, var).loc = var /\ NewPhi(b, var).from = <<>> BY <1>3, NewPhiType
      <4>2. <<b, var>> \in bb_has_var_phi' BY <1>2, <2>2
      <4>3. PICK i : i = NewPhi(b, var) OBVIOUS
      <4>4. code'[b][k] = i /\ i.loc = var /\ i.from = <<>> BY <3>3, <3>4, <4>1, <4>3
      <4> QED BY <1>3, <4>2, <4>4
    <3>5. CASE k # 1
      <4>1. k - 1 \in 1..Len(code[b]) /\ (k - 1) + 1 = k BY <3>2, <3>3, <3>5 DEF PhisOf
      <4>2. code'[b][k] = code[b][k - 1] BY <3>3, <4>1
      <4>3. k - 1 \in PhisOf(b) BY <4>1, <4>2 DEF PhisOf
      <4> QED BY <1>5, <4>2, <4>3
    <3> QED BY <3>4, <3>5
  <2> QED BY <2>1, <2>2
<1>7. ASSUME NEW b \in Block, NEW k \in PhisOf(b)'
      PROVE  PhiKnown(b, code[b][k].loc, code[b][k].from)'
  <2>1. PICK v, f : v = code'[b][k].loc /\ f = code'[b][k].from OBVIOUS
  <2>2. v \in Var /\ f = <<>> /\ <<b, v>> \in bb_has_var_phi' BY <1>6, <2>1
  <2>3. PhiKnown(b, v, f)' BY <1>3, <2>2, PhiFresh
  <2> QED BY <2>1, <2>3 DEF PhiKnown, Unset
<1> QED BY <1>7 DEF PhisKnown

\* Before the renaming, and when it starts: no phi has a pair.
LEMMA PhisBefore ==
  ASSUME TypeOK, PhisKnown, UNCHANGED <<func_, code, bb_has_var_phi>>, pc \in {"start", "phi"},
         pc' \in {"start", "phi"} \/ Live' \subseteq Unfilled'
  PROVE  PhisKnown'
<1>1. \A b : PhisOf(b)' = PhisOf(b) BY DEF PhisOf
<1>2. ASSUME NEW b \in Block, NEW k \in PhisOf(b)
      PROVE  PhiKnown(b, code[b][k].loc, code[b][k].from)'
  <2>1. PICK v, f : v = code[b][k].loc /\ f = code[b][k].from OBVIOUS
  <2>2. PhiKnown(b, v, f) BY <2>1 DEF PhisKnown
  <2>3. v \in Var /\ f = <<>> /\ <<b, v>> \in bb_has_var_phi' BY <2>2 DEF PhiKnown
  <2>4. PhiKnown(b, v, f)' BY <2>3, PhiFresh
  <2>5. v = code'[b][k].loc /\ f = code'[b][k].from BY <2>1
  <2> QED BY <2>4, <2>5 DEF PhiKnown, Unset
<1> QED BY <1>1, <1>2 DEF PhisKnown

LEMMA PhisPush ==
  ASSUME PlaceInv, CallInv, PhisKnown, PushPhis PROVE PhisKnown'
<1> USE DEF placing
<1>1. /\ TypeOK /\ Chain /\ RenamingPhase /\ RenamingPhase' /\ calls # <<>> /\ top.at = "phis"
      /\ UNCHANGED <<func_, code, bb_has_var_phi>>
      /\ calls' = SetTop([top EXCEPT !.at = "instrs"]) /\ calls \in Seq(CallRecord)
  BY DEF PlaceInv, CallInv, PushPhis, RenamingPhase, TypeOK
<1> DEFINE c == [top EXCEPT !.at = "instrs"]
<1>2. top \in CallRecord /\ c \in CallRecord BY <1>1, TopCall, Advanced
<1>3. c.bb = top.bb /\ c.left = top.left /\ c.at = "instrs" BY <1>2 DEF CallRecord
<1>4. calls' = SetTop(c) BY <1>1
<1> HIDE DEF c
<1>5. Unfilled' = Unfilled BY <1>1, <1>2, <1>3, <1>4, UnfilledTop
<1>6. Alike BY <1>1, SameAlike
<1> QED BY <1>1, <1>5, <1>6, PhisAlike

LEMMA PhisRenameLoad ==
  ASSUME PlaceInv, CallInv, PhisKnown, RenameLoad PROVE PhisKnown'
<1> USE DEF placing
<1>1. /\ TypeOK /\ Chain /\ Scanning /\ instr.op = "load" /\ instr.loc \in keys /\ RenamingPhase
      /\ UNCHANGED <<func_, bb_has_var_phi>>
  BY DEF PlaceInv, CallInv, RenameLoad, Scanning, RenamingPhase
<1>2. CASE var_val_stack[instr.loc] = <<>>
  <2>1. UNCHANGED <<code, calls>> /\ RenamingPhase' BY <1>2 DEF RenameLoad, RenamingPhase
  <2> QED BY <1>1, <2>1, PhisQuiet
<1>3. CASE var_val_stack[instr.loc] # <<>>
  <2>1. code' = ReplaceAllUse(instr.id, Top(instr.loc)) /\ calls' = Advance({top.ip}) /\ pc' = pc
    BY <1>3 DEF RenameLoad
  <2>2. var_val_stack[instr.loc] \in Seq(Operand) BY <1>1 DEF TypeOK
  <2>3. Top(instr.loc) \in Operand BY <1>3, <2>2 DEF Top
  <2>4. Alike /\ \A b \in Block : \A k \in 1..Len(code[b]) : code'[b][k].from = code[b][k].from
    BY <1>1, <2>1, <2>3, ReplaceAllUseAlike
  <2>5. PICK D : D = {top.ip} OBVIOUS
  <2>6. calls' = Advance(D) /\ D \subseteq {top.ip} BY <2>1, <2>5
  <2> QED BY <1>1, <2>1, <2>4, <2>6, PhisAdvance
<1> QED BY <1>2, <1>3

LEMMA PhisStoreOrKeep ==
  ASSUME PlaceInv, CallInv, PhisKnown, RenameStore \/ KeepInstr PROVE PhisKnown'
<1> USE DEF placing
<1>1. TypeOK /\ Scanning /\ UNCHANGED <<func_, code, bb_has_var_phi, pc>>
  BY DEF PlaceInv, RenameStore, KeepInstr
<1>2. PICK D : D \subseteq {top.ip} /\ calls' = Advance(D)
  <2>1. {top.ip} \subseteq {top.ip} /\ {} \subseteq {top.ip} OBVIOUS
  <2> QED BY <2>1 DEF RenameStore, KeepInstr
<1>3. Alike BY <1>1, SameAlike
<1> QED BY <1>1, <1>2, <1>3, PhisAdvance

\* A value on the stack comes from a call in progress, whose block dominates
\* the one in hand.
LEMMA ValueThere ==
  ASSUME PlaceInv, CallInv, calls # <<>>, NEW v \in Var, var_val_stack[v] # <<>>
  PROVE  ~Unset(top.bb, v)
<1>1. TypeOK /\ Chain /\ OpenShapes /\ StacksKnown /\ calls \in Seq(CallRecord)
      /\ var_val_stack[v] \in Seq(Operand)
  BY DEF PlaceInv, CallInv, TypeOK
<1>2. PushedBy(v) # {}
  <2>1. Cardinality(PushedBy(v)) # 0 BY <1>1 DEF StacksKnown
  <2> QED BY <2>1, FS_EmptySet
<1>3. PICK n \in 1..Len(calls) : \E k \in Pushed(calls[n], v) : TRUE BY <1>2 DEF PushedBy
<1>30. PICK k \in Pushed(calls[n], v) : TRUE BY <1>3
<1>4. PICK d : d = calls[n].bb OBVIOUS
<1>5. d \in Live /\ d \in Open /\ Dom(d, top.bb)
  <2>1. Len(calls) \in 1..Len(calls) /\ top = calls[Len(calls)] BY <1>1, TopCall DEF top
  <2>2. d \in Live /\ d \in Open BY <1>1, <1>4 DEF Chain, Open
  <2> QED BY <1>1, <1>4, <2>1, <2>2 DEF Chain
<1>6. d \in Block /\ d \in func_.blocks BY <1>1, <1>5, LiveBlocks DEF TypeOK
<1>7. Shaped(d) BY <1>1, <1>5 DEF OpenShapes
<1>8. k \in 1..Len(code[d]) /\ code[d][k].loc = v /\ code[d][k].op \in {"phi", "store"}
  BY <1>30, <1>4 DEF Pushed
<1>9. CASE code[d][k].op = "phi"
  <2>1. k \in 1..PhiCount(d) BY <1>1, <1>6, <1>7, <1>8, <1>9, ShapedPlaces
  <2>2. d \in PhiBlocks(v) BY <1>6, <1>7, <1>8, <2>1 DEF Shaped, PhiBlocks
  <2> QED BY <1>5, <2>2 DEF Unset
<1>10. CASE code[d][k].op = "store"
  <2>1. d \in Storing(v) BY <1>1, <1>6, <1>7, <1>8, <1>10, ShapedStores DEF Storing
  <2> QED BY <1>5, <2>1 DEF Unset
<1> QED BY <1>8, <1>9, <1>10

\* The block gives its pair to the phis of its successors, or has no value.
LEMMA PhisFill ==
  ASSUME PlaceInv, CallInv, PhisKnown, FillPhis PROVE PhisKnown'
<1> USE DEF placing
<1>1. /\ TypeOK /\ Chain /\ Progress /\ OpenShapes /\ StacksKnown /\ RenamingPhase /\ calls # <<>>
      /\ UNCHANGED <<func_, bb_has_var_phi>> /\ top.at = "instrs" /\ top.ip > Len(code[top.bb])
      /\ calls \in Seq(CallRecord) /\ pc = "rename"
  BY DEF PlaceInv, CallInv, FillPhis, RenamingPhase, TypeOK
<1>2. CASE NoValueFor(top.bb)
  <2>1. UNCHANGED <<code, calls>> /\ RenamingPhase' BY <1>2 DEF FillPhis, NoValueFor, RenamingPhase
  <2> QED BY <1>1, <2>1, PhisQuiet
<1>3. CASE ~NoValueFor(top.bb)
  <2>1. /\ code' = [b \in Block |-> IF b \in func_.succ[top.bb]
                      THEN [k \in 1..Len(code[b]) |-> Filled(code[b][k])] ELSE code[b]]
        /\ calls' = SetTop([top EXCEPT !.at = "children"]) /\ RenamingPhase'
    BY <1>1, <1>3 DEF FillPhis, NoValueFor, RenamingPhase
  <2> DEFINE c == [top EXCEPT !.at = "children"]
  <2>2. top \in CallRecord /\ c \in CallRecord /\ top.bb \in Block BY <1>1, TopCall, Advanced
  <2>3. c.bb = top.bb /\ c.left = top.left /\ c.at = "children" BY <2>2 DEF CallRecord
  <2>4. calls' = SetTop(c) BY <2>1
  <2> HIDE DEF c
  <2>5. top.at # "children" BY <1>1
  <2>6. top.bb \in Unfilled /\ Unfilled' = Unfilled \ {top.bb} /\ top.bb \in Live
    BY <1>1, <2>2, <2>3, <2>4, <2>5, UnfilledTop
  <2>7. PICK p \in Live : p = top.bb BY <2>6
  <2>8. /\ Alike
        /\ \A b \in Block : \A k \in 1..Len(code[b]) :
             code'[b][k].from = IF b \in func_.succ[p] /\ IsPhi(code[b][k]) /\ code[b][k].loc \in keys
                                THEN Append(code[b][k].from, p) ELSE code[b][k].from
    BY <1>1, <1>3, <2>1, <2>2, <2>7, FillAlike
  <2>9. Live \subseteq Block /\ Live' = Live BY <1>1, LiveBlocks DEF TypeOK, Live
  <2>10. top.ip = Len(code[p]) + 1 /\ Shaped(p) /\ code[p] \in Seq(KnownInstr)
    <3>1. Len(calls) \in 1..Len(calls) /\ top = calls[Len(calls)] BY <1>1, TopCall DEF top
    <3>2. top.ip \in 1..(Len(code[p]) + 1) BY <1>1, <2>7, <3>1 DEF Progress
    <3>3. p \in Open BY <2>7, <3>1 DEF Open
    <3>4. code[p] \in Seq(KnownInstr) BY <1>1, <2>9 DEF TypeOK
    <3> QED BY <1>1, <2>7, <3>2, <3>3, <3>4 DEF OpenShapes
  <2>11. ASSUME NEW v \in Var \ keys PROVE Unset(p, v)
    <3>1. var_val_stack[v] = <<>> /\ top.at # "phis" BY <1>1 DEF StacksKnown
    <3>2. /\ \A d \in Live : Dom(d, p) => d \notin PhiBlocks(v)
          /\ \A d \in Live : d # p /\ Dom(d, p) => d \notin Storing(v)
          /\ \A k \in 1..Len(code[p]) : k < top.ip => ~(code[p][k].op = "store" /\ code[p][k].loc = v)
      BY <1>1, <2>7, <3>1, EmptyStack
    <3>3. \A k \in 1..Len(code[p]) : k < top.ip BY <2>10
    <3>4. ~Stores(p, v, LastOf(p)) BY <1>1, <2>9, <2>10, <3>2, <3>3, ShapedStores
    <3>5. p \notin Storing(v) BY <3>4 DEF Storing
    <3> QED BY <3>2, <3>5 DEF Unset
  <2>12. ASSUME NEW b \in Block, NEW k \in PhisOf(b)'
         PROVE  PhiKnown(b, code[b][k].loc, code[b][k].from)'
    <3>1. k \in PhisOf(b) /\ code'[b][k].loc = code[b][k].loc
      <4>1. Len(code'[b]) = Len(code[b]) BY <2>8, <2>9 DEF Alike
      <4>2. k \in 1..Len(code[b]) BY <4>1 DEF PhisOf
      <4>3. code'[b][k].op = code[b][k].op /\ code'[b][k].loc = code[b][k].loc BY <2>8, <2>9, <4>2 DEF Alike
      <4> QED BY <4>2, <4>3 DEF PhisOf, IsPhi
    <3>2. PICK v, f, g : v = code[b][k].loc /\ f = code[b][k].from /\ g = code'[b][k].from OBVIOUS
    <3>3. PhiKnown(b, v, f) /\ v \in Var BY <3>1, <3>2 DEF PhisKnown, PhiKnown
    <3>4. f \in Seq(Block)
      <4>1. code[b] \in Seq(KnownInstr) /\ k \in 1..Len(code[b]) BY <1>1, <2>9, <3>1 DEF TypeOK, PhisOf
      <4>2. code[b][k] \in KnownInstr BY <4>1
      <4> QED BY <3>2, <4>2 DEF KnownInstr, Instr
    <3>5. g = IF b \in func_.succ[p] /\ v \in keys THEN Append(f, p) ELSE f
      <4>1. k \in 1..Len(code[b]) /\ IsPhi(code[b][k]) BY <3>1 DEF PhisOf
      <4> QED BY <2>8, <2>9, <3>2, <4>1
    <3>6. b \in func_.succ[p] => (Unset(p, v) <=> v \notin keys)
      <4>1. b \in func_.succ[p] /\ v \in keys => var_val_stack[v] # <<>>
        BY <1>3, <2>7, <3>1, <3>2 DEF NoValueFor
      <4>2. var_val_stack[v] # <<>> => ~Unset(p, v) BY <1>1, <2>7, <3>3, ValueThere
      <4> QED BY <2>11, <3>3, <4>1, <4>2
    <3>7. PhiKnown(b, v, g)'
      BY <1>1, <2>1, <2>2, <2>6, <2>7, <3>3, <3>4, <3>5, <3>6, PhiFilled
    <3>8. v = code'[b][k].loc BY <3>1, <3>2
    <3> QED BY <3>2, <3>7, <3>8 DEF PhiKnown, Unset
  <2> QED BY <2>9, <2>12 DEF PhisKnown
<1> QED BY <1>2, <1>3

LEMMA PhisDescend ==
  ASSUME PlaceInv, CallInv, PhisKnown, Descend PROVE PhisKnown'
<1> USE DEF placing
<1>1. /\ TypeOK /\ Chain /\ RenamingPhase /\ RenamingPhase' /\ top.at = "children"
      /\ UNCHANGED <<func_, code, bb_has_var_phi>>
  BY DEF PlaceInv, CallInv, Descend, RenamingPhase
<1>2. PICK l : l = Len(calls) OBVIOUS
<1>3. /\ Waiting' \subseteq Waiting /\ Waiting \subseteq Waiting' \cup {calls'[l + 1].bb}
      /\ calls'[l + 1].bb \in Waiting
      /\ Len(calls') = l + 1 /\ l \in Nat /\ 1 <= l
      /\ \A n \in 1..l : calls'[n].bb = calls[n].bb /\ calls'[n].at = calls[n].at
  BY <1>1, <1>2, DescendChain
<1>4. PICK b \in Live : calls'[l + 1] = Call(b) BY <1>1, <1>2, DescendChain
<1>5. calls'[l + 1].at = "phis" BY <1>4, CallFields
<1>6. Unfilled' = Unfilled
  <2>1. {m \in 1..(l + 1) : calls'[m].at # "children"} = {m \in 1..l : calls[m].at # "children"} \cup {l + 1}
    <3>1. \A m : m \in 1..(l + 1) <=> m \in 1..l \/ m = l + 1 BY <1>3
    <3> QED BY <1>3, <1>5, <3>1
  <2>2. {calls'[n].bb : n \in {m \in 1..(l + 1) : calls'[m].at # "children"}}
          = {calls[n].bb : n \in {m \in 1..l : calls[m].at # "children"}} \cup {calls'[l + 1].bb}
    BY <1>3, <2>1
  <2>3. Unfilled' = Waiting' \cup {calls'[n].bb : n \in {m \in 1..(l + 1) : calls'[m].at # "children"}}
    BY <1>3 DEF Unfilled
  <2>4. Unfilled = Waiting \cup {calls[n].bb : n \in {m \in 1..l : calls[m].at # "children"}}
    BY <1>2 DEF Unfilled
  <2> QED BY <1>3, <2>2, <2>3, <2>4
<1>7. Alike BY <1>1, SameAlike
<1> QED BY <1>1, <1>6, <1>7, PhisAlike

\* What is kept of a block keeps its phis as they are.
LEMMA PhisKept ==
  ASSUME TypeOK, NEW b \in Block, NEW S \in SUBSET (1..Len(code[b])), code'[b] = KeepOnly(code[b], S)
  PROVE  \A k \in PhisOf(b)' : \E j \in PhisOf(b) :
           code'[b][k].loc = code[b][j].loc /\ code'[b][k].from = code[b][j].from
<1>1. code[b] \in Seq(KnownInstr) BY DEF TypeOK
<1>2. \A n \in 1..Len(code'[b]) : \E j \in S : code'[b][n] = code[b][j] BY <1>1, KeepOnlyElements
<1> SUFFICES ASSUME NEW k \in PhisOf(b)'
             PROVE  \E j \in PhisOf(b) : code'[b][k].loc = code[b][j].loc /\ code'[b][k].from = code[b][j].from
  OBVIOUS
<1>3. k \in 1..Len(code'[b]) /\ IsPhi(code'[b][k]) BY DEF PhisOf
<1>4. PICK j \in S : code'[b][k] = code[b][j] BY <1>2, <1>3
<1>5. j \in PhisOf(b) BY <1>3, <1>4 DEF PhisOf
<1> QED BY <1>4, <1>5

LEMMA PhisReturn ==
  ASSUME PlaceInv, CallInv, PhisKnown, Return PROVE PhisKnown'
<1> USE DEF placing
<1>1. /\ TypeOK /\ Chain /\ Progress /\ RenamingPhase /\ RenamingPhase' /\ top.at = "children" /\ top.left = {}
      /\ calls # <<>> /\ UNCHANGED <<func_, bb_has_var_phi>> /\ calls \in Seq(CallRecord)
      /\ calls' = SubSeq(calls, 1, Len(calls) - 1)
      /\ code' = [code EXCEPT ![top.bb] = KeepOnly(@, (1..Len(@)) \ top.wait_delete)]
      /\ code \in [Block -> Seq(KnownInstr)]
  BY DEF PlaceInv, CallInv, Return, RenamingPhase, TypeOK
<1>2. PICK l : l = Len(calls) OBVIOUS
<1>3. /\ Waiting' = Waiting /\ Len(calls') = l - 1 /\ l \in Nat /\ 1 <= l
      /\ \A n \in 1..(l - 1) : calls'[n] = calls[n]
  BY <1>1, <1>2, ReturnChain
<1>4. Unfilled' = Unfilled
  <2>1. calls[l].at = "children" BY <1>1, <1>2 DEF top
  <2>2. {m \in 1..(l - 1) : calls'[m].at # "children"} = {m \in 1..l : calls[m].at # "children"}
    <3>1. \A m : m \in 1..l <=> m \in 1..(l - 1) \/ m = l BY <1>3
    <3> QED BY <1>3, <2>1, <3>1
  <2>3. {calls'[n].bb : n \in {m \in 1..(l - 1) : calls'[m].at # "children"}}
          = {calls[n].bb : n \in {m \in 1..l : calls[m].at # "children"}}
    BY <1>3, <2>2
  <2>4. Unfilled' = Waiting' \cup {calls'[n].bb : n \in {m \in 1..(l - 1) : calls'[m].at # "children"}}
    BY <1>3 DEF Unfilled
  <2>5. Unfilled = Waiting \cup {calls[n].bb : n \in {m \in 1..l : calls[m].at # "children"}}
    BY <1>2 DEF Unfilled
  <2> QED BY <1>3, <2>3, <2>4, <2>5
<1>5. ASSUME NEW b \in Block
      PROVE  \A k \in PhisOf(b)' : \E j \in PhisOf(b) :
               code'[b][k].loc = code[b][j].loc /\ code'[b][k].from = code[b][j].from
  <2>2. CASE b = top.bb
    <3> DEFINE S == (1..Len(code[b])) \ top.wait_delete
    <3>1. code'[b] = KeepOnly(code[b], S) BY <1>1, <2>2
    <3>2. S \in SUBSET (1..Len(code[b])) OBVIOUS
    <3> HIDE DEF S
    <3> QED BY <1>1, <3>1, <3>2, PhisKept
  <2>3. CASE b # top.bb
    <3>1. code'[b] = code[b] BY <1>1, <2>3
    <3>2. PhisOf(b)' = PhisOf(b) BY <3>1 DEF PhisOf
    <3> QED BY <3>1, <3>2
  <2> QED BY <2>2, <2>3
<1> QED BY <1>1, <1>4, <1>5, PhisCopied

LEMMA PhisRemoveAlloca ==
  ASSUME PlaceInv, CallInv, PhisKnown, RemoveAlloca PROVE PhisKnown'
<1> USE DEF placing
<1>1. /\ TypeOK /\ RenamingPhase /\ RenamingPhase' /\ calls = <<>> /\ calls' = <<>> /\ Chain
      /\ UNCHANGED <<func_, bb_has_var_phi>>
      /\ code' = [b \in Block |->
           KeepOnly(code[b], {k \in 1..Len(code[b]) : ~(code[b][k].op = "alloca" /\ code[b][k].loc \in Var)})]
  BY DEF PlaceInv, CallInv, RemoveAlloca, RenamingPhase
<1>2. Unfilled' = Unfilled
  <2>1. SamePath BY <1>1 DEF SamePath
  <2> QED BY <1>1, <2>1, UnfilledSame
<1>3. ASSUME NEW b \in Block
      PROVE  \A k \in PhisOf(b)' : \E j \in PhisOf(b) :
               code'[b][k].loc = code[b][j].loc /\ code'[b][k].from = code[b][j].from
  <2> DEFINE S == {k \in 1..Len(code[b]) : ~(code[b][k].op = "alloca" /\ code[b][k].loc \in Var)}
  <2>2. code'[b] = KeepOnly(code[b], S) BY <1>1
  <2>3. S \in SUBSET (1..Len(code[b])) OBVIOUS
  <2> HIDE DEF S
  <2> QED BY <1>1, <2>2, <2>3, PhisKept
<1> QED BY <1>1, <1>2, <1>3, PhisCopied

LEMMA PhisNext ==
  ASSUME PlaceInv, CallInv, PhisKnown, [Next]_vars PROVE PhisKnown'
<1> USE DEF placing
<1>1. TypeOK /\ Chain BY DEF PlaceInv, CallInv
<1>2. CASE FindLiveVars \/ NextVar \/ VarDone
  <2>1. UNCHANGED <<func_, code, bb_has_var_phi>> /\ pc \in {"start", "phi"} /\ pc' \in {"start", "phi"}
    BY <1>2 DEF FindLiveVars, NextVar, VarDone
  <2> QED BY <1>1, <2>1, PhisBefore
<1>3. CASE PlacePhis BY <1>3, PhisPlacePhis
<1>4. CASE StartRename
  <2>1. UNCHANGED <<func_, code, bb_has_var_phi>> /\ pc \in {"start", "phi"}
    BY <1>4 DEF StartRename
  <2>2. Len(calls') = 1 /\ calls'[1] = Call(func_.entry) /\ Live \subseteq (Open \cup Waiting)'
    BY <1>4, StartChain
  <2>3. Live' = Live BY <2>1 DEF Live
  <2>4. calls'[1].at = "phis" /\ \A n \in 1..1 : n = 1 BY <2>2, CallFields
  <2>5. {m \in 1..1 : calls'[m].at # "children"} = 1..1 BY <2>4
  <2>6. Open' = {calls'[n].bb : n \in 1..1} BY <2>2 DEF Open
  <2>7. Unfilled' = Waiting' \cup {calls'[n].bb : n \in 1..1} BY <2>2, <2>5 DEF Unfilled
  <2>8. Live' \subseteq Unfilled' BY <2>2, <2>3, <2>6, <2>7
  <2> QED BY <1>1, <2>1, <2>8, PhisBefore
<1>5. CASE PushPhis BY <1>5, PhisPush
<1>6. CASE RenameLoad BY <1>6, PhisRenameLoad
<1>7. CASE RenameStore \/ KeepInstr BY <1>7, PhisStoreOrKeep
<1>8. CASE FillPhis BY <1>8, PhisFill
<1>9. CASE Descend BY <1>9, PhisDescend
<1>10. CASE Return BY <1>10, PhisReturn
<1>11. CASE RemoveAlloca BY <1>11, PhisRemoveAlloca
<1>12. CASE UNCHANGED vars
  <2>1. UNCHANGED <<func_, code, calls, pc, bb_has_var_phi>> BY <1>12 DEF vars
  <2>2. CASE RenamingPhase
    <3>1. RenamingPhase' BY <2>1, <2>2 DEF RenamingPhase
    <3> QED BY <1>1, <2>1, <2>2, <3>1, PhisQuiet
  <2>3. CASE ~RenamingPhase
    <3>1. pc \in {"start", "phi"} /\ pc' \in {"start", "phi"} BY <2>1, <2>3 DEF RenamingPhase
    <3> QED BY <1>1, <2>1, <3>1, PhisBefore
  <2> QED BY <2>2, <2>3
<1> QED BY <1>2, <1>3, <1>4, <1>5, <1>6, <1>7, <1>8, <1>9, <1>10, <1>11, <1>12 DEF Next

LEMMA PhisInit ==
  ASSUME Init PROVE PhisKnown
<1>1. code = func_.code /\ func_ \in Functions BY DEF Init
<1>2. \A b \in Block : \A k \in 1..Len(func_.code[b]) : func_.code[b][k].op # "phi"
  BY <1>1, FunctionParts DEF WellFormed
<1>3. \A b \in Block : PhisOf(b) = {} BY <1>1, <1>2 DEF PhisOf, IsPhi
<1> QED BY <1>3 DEF PhisKnown

\* What PhisMatchPredecessors says of one phi of b: its pairs are f and the
\* predecessors printed without a pair are `undefs'.
Entries(f, p) == Cardinality({j \in 1..Len(f) : f[j] = p})
Matched(b, v, f, undefs) ==
  /\ f # <<>>
  /\ \A p \in Block :
       /\ Entries(f, p) + (IF p \in undefs THEN 1 ELSE 0) = IF b \in func_.succ[p] THEN 1 ELSE 0
       /\ p \in undefs /\ p \in Live => ~AssignedAt(p, LastOf(p), v)
  /\ \A p, q \in Live : b \in func_.succ[p] /\ b \in func_.succ[q] =>
       (Entries(f, p) # 0 /\ Dominates(func_.succ, func_.entry, p, q) => Entries(f, q) # 0)

\* One phi, once every block is renamed.
LEMMA PhiMatches ==
  ASSUME PlaceInv, pc = "done", NEW b \in Live, NEW v, NEW f \in Seq(Block), PhiKnown(b, v, f),
         NEW i, i.from = f
  PROVE  Matched(b, v, f, Undefs(b, i))
<1>1. TypeOK /\ Placed /\ calls = <<>> /\ func_ \in Functions /\ pc \notin {"start", "phi"}
  BY DEF PlaceInv, TypeOK, Phases
<1>2. Unfilled = {}
  <2>1. Len(calls) = 0 /\ 1..0 = {} BY <1>1
  <2>2. Waiting = {} BY <2>1 DEF Waiting
  <2>3. {m \in 1..Len(calls) : calls[m].at # "children"} = {} BY <2>1
  <2> QED BY <2>2, <2>3 DEF Unfilled
<1>3. /\ v \in Var /\ <<b, v>> \in bb_has_var_phi
      /\ \A j, l \in 1..Len(f) : f[j] = f[l] => j = l
      /\ \A j \in 1..Len(f) : b \in func_.succ[f[j]] /\ ~Unset(f[j], v)
      /\ \A p \in Live : b \in func_.succ[p] => (\E j \in 1..Len(f) : f[j] = p) \/ Unset(p, v)
  BY <1>1, <1>2 DEF PhiKnown
<1>4. Live \subseteq func_.blocks /\ Live \subseteq Block /\ DOMAIN func_.succ = Block
  BY <1>1, LiveBlocks, FunctionParts
<1> DEFINE preds == Predecessors(func_.succ, b)
           named == {f[j] : j \in 1..Len(f)}
<1>5. preds = {p \in Block : b \in func_.succ[p]} BY <1>4 DEF Predecessors
<1>6. f # <<>>
  <2>1. b \in PhiBlocks(v) BY <1>3, <1>4 DEF PhiBlocks
  <2>2. PICK q \in (Storing(v) \cup PhiBlocks(v)) \cap Live : b \in Frontier(q)
    BY <1>1, <1>3, <2>1 DEF Placed
  <2>3. PICK p \in preds \cap Live : Dom(q, p)
    BY <2>2 DEF Frontier, DominanceFrontier, Dom, Live
  <2>4. ~Unset(p, v) BY <2>2, <2>3 DEF Unset
  <2>5. PICK j \in 1..Len(f) : f[j] = p BY <1>3, <1>5, <2>3, <2>4
  <2>6. Len(f) # 0
    <3>1. Len(f) \in Nat OBVIOUS
    <3> QED BY <2>5, <3>1
  <2> QED BY <2>6
<1>7. Undefs(b, i) = preds \ named
  <2>1. IsFiniteSet(preds) BY <1>5, BlockAssumption, FS_Subset
  <2>2. f \in [1..Len(f) -> preds] BY <1>3, <1>5
  <2>3. Len(f) \in Nat /\ Cardinality(preds) \in Nat BY <2>1, FS_CardinalityType
  <2>4. Len(f) <= Cardinality(preds) /\ (Len(f) = Cardinality(preds) => preds = named)
    <3> HIDE DEF preds
    <3> QED BY <1>3, <2>1, <2>2, <2>3, DistinctEntries
  <2>5. Undefs(b, i) = IF Len(f) < Cardinality(preds) THEN preds \ named ELSE {}
    BY DEF Undefs
  <2> HIDE DEF preds, named
  <2> QED BY <2>3, <2>4, <2>5
<1>8. ASSUME NEW p \in Block
      PROVE  Entries(f, p) + (IF p \in Undefs(b, i) THEN 1 ELSE 0) = IF b \in func_.succ[p] THEN 1 ELSE 0
  <2>1. CASE p \in named
    <3>1. PICK l \in 1..Len(f) : f[l] = p BY <2>1
    <3>2. {j \in 1..Len(f) : f[j] = p} = {l} BY <1>3, <3>1
    <3>3. Entries(f, p) = 1 BY <3>2, FS_Singleton DEF Entries
    <3>4. p \notin Undefs(b, i) /\ b \in func_.succ[p] BY <1>3, <1>7, <2>1, <3>1
    <3> QED BY <3>3, <3>4
  <2>2. CASE p \notin named
    <3>1. {j \in 1..Len(f) : f[j] = p} = {} BY <2>2
    <3>2. Entries(f, p) = 0 BY <3>1, FS_EmptySet DEF Entries
    <3>3. p \in Undefs(b, i) <=> b \in func_.succ[p] BY <1>5, <1>7, <2>2
    <3> QED BY <3>2, <3>3
  <2> QED BY <2>1, <2>2
<1>9. ASSUME NEW p \in Live, p \in Undefs(b, i) PROVE ~AssignedAt(p, LastOf(p), v)
  <2>1. Unset(p, v)
    <3>1. b \in func_.succ[p] /\ p \notin named BY <1>5, <1>7, <1>9
    <3> QED BY <1>3, <3>1
  <2>2. Dom(p, p) BY DEF Dom, Dominates
  <2>3. ~Stores(p, v, LastOf(p)) BY <1>4, <2>1, <2>2 DEF Unset, Storing
  <2> QED BY <1>1, <1>3, <2>1, <2>3, UnassignedThere DEF Unset
<1>10. ASSUME NEW p \in Live, NEW q \in Live, b \in func_.succ[q], Entries(f, p) # 0, Dom(p, q)
       PROVE  Entries(f, q) # 0
  <2>1. PICK n \in 1..Len(f) : f[n] = p
    <3>1. {j \in 1..Len(f) : f[j] = p} # {} BY <1>10, FS_EmptySet DEF Entries
    <3> QED BY <3>1
  <2>2. ~Unset(q, v)
    <3>1. Graph(Block, func_.succ, func_.entry) BY <1>1, FunctionParts
    <3>2. PICK d \in Live : Dom(d, p) /\ ~(d \notin Storing(v) /\ d \notin PhiBlocks(v))
      BY <1>3, <2>1 DEF Unset
    <3>3. Dom(d, q) BY <1>10, <3>1, <3>2, DominatesTransitive DEF Dom
    <3> QED BY <3>2, <3>3 DEF Unset
  <2>3. PICK l \in 1..Len(f) : f[l] = q BY <1>3, <1>10, <2>2
  <2>4. {j \in 1..Len(f) : f[j] = q} = {l} BY <1>3, <2>3
  <2>5. Entries(f, q) = 1 BY <2>4, FS_Singleton DEF Entries
  <2> QED BY <2>5
<1>11. \A p, q \in Live : b \in func_.succ[p] /\ b \in func_.succ[q] =>
         (Entries(f, p) # 0 /\ Dominates(func_.succ, func_.entry, p, q) => Entries(f, q) # 0)
  BY <1>10 DEF Dom
<1> QED BY <1>6, <1>8, <1>9, <1>11 DEF Matched

\* A phi of a block the entry does not reach has no pair.
LEMMA PhisUnreached ==
  ASSUME TypeOK, NEW b \in Block \ Live, NEW v, NEW f \in Seq(Block), PhiKnown(b, v, f)
  PROVE  f = <<>>
<1>1. \A d \in Live : func_.succ[d] \subseteq Live BY LiveBlocks DEF TypeOK
<1>2. \A j \in 1..Len(f) : FALSE BY <1>1 DEF PhiKnown
<1>3. Len(f) \in Nat OBVIOUS
<1>4. Len(f) = 0
  <2> SUFFICES ASSUME Len(f) # 0 PROVE FALSE OBVIOUS
  <2>1. 1 \in 1..Len(f) BY <1>3
  <2> QED BY <1>2, <2>1
<1> QED BY <1>4

\* The phi of a block the entry reaches is printed with one entry for each
\* predecessor and none for another block; an entry is undef only where some
\* path through that predecessor leaves the variable unassigned, and where one
\* predecessor has a pair so have those it dominates.  The phi of a block the
\* entry does not reach has no pair.
THEOREM PhisMatchThePredecessors == Spec => []PhisMatchPredecessors
<1>1. Init => PhisKnown BY PhisInit
<1>2. PlaceInv /\ CallInv /\ PhisKnown /\ [Next]_vars => PhisKnown' BY PhisNext
<1>3. PlaceInv /\ PhisKnown => PhisMatchPredecessors
  <2> SUFFICES ASSUME PlaceInv, PhisKnown, pc = "done", NEW b \in Block, NEW k \in PhisOf(b)
               PROVE  IF b \in Live
                      THEN Matched(b, code[b][k].loc, code[b][k].from, Undefs(b, code[b][k]))
                      ELSE code[b][k].from = <<>>
    BY DEF PhisMatchPredecessors, Matched, Entries
  <2>1. PICK i : i = code[b][k] OBVIOUS
  <2>2. PICK v, f : v = i.loc /\ f = i.from OBVIOUS
  <2>3. PhiKnown(b, v, f) BY <2>1, <2>2 DEF PhisKnown
  <2>4. f \in Seq(Block)
    <3>1. TypeOK BY DEF PlaceInv
    <3>2. code[b] \in Seq(KnownInstr) /\ k \in 1..Len(code[b]) BY <3>1 DEF TypeOK, PhisOf
    <3>3. i \in KnownInstr BY <2>1, <3>2
    <3> QED BY <2>2, <3>3 DEF KnownInstr, Instr
  <2>5. b \in Live => Matched(b, v, f, Undefs(b, i)) BY <2>2, <2>3, <2>4, PhiMatches
  <2>6. b \notin Live => f = <<>> BY <2>3, <2>4, PhisUnreached DEF PlaceInv
  <2> QED BY <2>1, <2>2, <2>5, <2>6
<1> QED BY <1>1, <1>2, <1>3, RenamingInvariant, PTL DEF Spec

-----------------------------------------------------------------------------
(***************************************************************************)
(* The code Mem2Reg leaves is in SSA form: every operand is defined above  *)
(* its use, on every path.                                                 *)
(***************************************************************************)
\* x is a constant, or made above instruction n of block b.
Defined(x, b, n) ==
  \/ x \in Literal
  \/ \E c \in Block : \E k \in 1..Len(code[c]) :
       code[c][k].id = x /\ IF c = b THEN k < n ELSE Dom(c, b)

\* Operand j of instruction i, which is the k-th of its block b, is there when
\* it is used: at the end of the incoming block, if i is a phi.
Reaches(b, k, i, j) ==
  IF IsPhi(i) THEN Defined(i.args[j], i.from[j], Len(code[i.from[j]]) + 1) ELSE Defined(i.args[j], b, k)
OperandsKnown ==
  \A b \in Live : \A k \in 1..Len(code[b]) : \A j \in 1..Len(code[b][k].args) : Reaches(b, k, code[b][k], j)

\* Every value is made once, those of the phis by the phis.
MadeOnce ==
  \A b, c \in Block : \A k \in 1..Len(code[b]) : \A l \in 1..Len(code[c]) :
    code[b][k].id = code[c][l].id /\ code[b][k].id # NoId => b = c /\ k = l
NoPhiId(x) == \A c \in Block, v \in Var : x # PhiId(c, v)
Made(b, i) ==
  /\ IsPhi(i) => i.loc \in Var /\ i.id = PhiId(b, i.loc) /\ <<b, i.loc>> \in bb_has_var_phi /\ Len(i.args) = Len(i.from)
  /\ ~IsPhi(i) => NoPhiId(i.id)
  /\ i.op \in {"alloca", "store"} => i.id = NoId
IdsKnown == MadeOnce /\ \A b \in Block : \A k \in 1..Len(code[b]) : Made(b, code[b][k])

Used(x) == \E b \in Live : \E k \in 1..Len(code[b]) : \E j \in 1..Len(code[b][k].args) : code[b][k].args[j] = x
Stacked(x) == \E v \in Var : \E j \in 1..Len(var_val_stack[v]) : var_val_stack[v][j] = x

\* What a call is going to delete is no longer used.
Unused(i) == ~IsPhi(i) /\ ~Used(i.id) /\ ~Stacked(i.id)
GoneKnown == \A n \in 1..Len(calls) : \A k \in calls[n].wait_delete : Unused(code[calls[n].bb][k])

\* The part of the stack of v that the calls up to n have made.
PushedUpTo(n, v) == UNION {{<<m, k>> : k \in PushedAt(m, v)} : m \in 1..n}
Height(n, v)     == Cardinality(PushedUpTo(n, v))

\* x is made above instruction n of b, or by a phi of b.
Held(x, b, n) == Defined(x, b, n) \/ \E k \in PhisOf(b) : code[b][k].id = x

\* The values on the stacks are made where the call stands that pushed them.
StackValues ==
  \A n \in 1..Len(calls) : \A v \in Var : \A j \in 1..Height(n, v) :
    Held(var_val_stack[v][j], calls[n].bb, calls[n].ip)

ValuesInv == IdsKnown /\ OperandsKnown /\ GoneKnown /\ StackValues

-----------------------------------------------------------------------------
\* What is made above a place is made above every place below it.
LEMMA DefinedLater ==
  ASSUME TypeOK, NEW b \in Live, NEW c \in Live, NEW n \in Nat, NEW k \in Nat, NEW x, Defined(x, c, k),
         IF c = b THEN k <= n ELSE Dom(c, b)
  PROVE  Defined(x, b, n)
<1>0. CASE x \in Literal BY <1>0 DEF Defined
<1>1. CASE x \notin Literal
  <2>1. PICK d \in Block : \E l \in 1..Len(code[d]) : code[d][l].id = x /\ IF d = c THEN l < k ELSE Dom(d, c)
    BY <1>1 DEF Defined
  <2>2. PICK l \in 1..Len(code[d]) : code[d][l].id = x /\ IF d = c THEN l < k ELSE Dom(d, c)
    BY <2>1
  <2>3. Graph(Block, func_.succ, func_.entry) BY FunctionParts DEF TypeOK
  <2>4. CASE d = b
    <3>1. c = b
      <4> SUFFICES ASSUME c # b PROVE FALSE OBVIOUS
      <4>1. Dom(b, c) /\ Dom(c, b) BY <2>2, <2>4
      <4> QED BY <2>3, <4>1, DominatesAntisymmetric DEF Dom, Live
    <3>2. l < k /\ k <= n /\ l \in Nat BY <2>2, <2>4, <3>1
    <3>3. l < n BY <3>2
    <3> QED BY <2>2, <2>4, <3>3 DEF Defined
  <2>5. CASE d # b
    <3>1. Dom(d, b)
      <4>1. CASE d = c BY <2>5, <4>1
      <4>2. CASE c = b BY <2>2, <2>5, <4>2
      <4>3. CASE d # c /\ c # b
        <5>1. Dom(d, c) /\ Dom(c, b) BY <2>2, <4>3
        <5> QED BY <2>3, <5>1, DominatesTransitive DEF Dom
      <4> QED BY <4>1, <4>2, <4>3
    <3> QED BY <2>2, <2>5, <3>1 DEF Defined
  <2> QED BY <2>4, <2>5
<1> QED BY <1>0, <1>1

LEMMA HeldLater ==
  ASSUME TypeOK, NEW b \in Live, NEW k \in Nat, NEW n \in Nat, NEW x, Held(x, b, k), k <= n
  PROVE  Held(x, b, n) /\ ((\A p \in PhisOf(b) : p < n) => Defined(x, b, n))
<1>1. CASE Defined(x, b, k)
  <2>1. Defined(x, b, n) BY <1>1, DefinedLater
  <2> QED BY <2>1 DEF Held
<1>2. CASE \E p \in PhisOf(b) : code[b][p].id = x
  <2>1. PICK p \in PhisOf(b) : code[b][p].id = x BY <1>2
  <2>2. p < n => Defined(x, b, n)
    <3>1. b \in Block /\ p \in 1..Len(code[b]) BY LiveBlocks DEF TypeOK, PhisOf
    <3> QED BY <2>1, <3>1 DEF Defined
  <2> QED BY <2>1, <2>2 DEF Held
<1> QED BY <1>1, <1>2 DEF Held

\* The steps that change operands only leave the definitions where they are.
LEMMA DefinedAlike ==
  ASSUME TypeOK, Alike, func_' = func_, NEW x, NEW b, NEW n
  PROVE  (Defined(x, b, n)' <=> Defined(x, b, n)) /\ (b \in Block => (Held(x, b, n)' <=> Held(x, b, n)))
<1>1. \A c \in Block : Len(code'[c]) = Len(code[c]) /\ \A k \in 1..Len(code[c]) : code'[c][k].id = code[c][k].id
  BY DEF Alike
<1>2. \A c : Dom(c, b)' <=> Dom(c, b) BY DEF Dom
<1>3. Defined(x, b, n)' <=> \/ x \in Literal
                            \/ \E c \in Block : \E k \in 1..Len(code'[c]) :
                                 code'[c][k].id = x /\ IF c = b THEN k < n ELSE Dom(c, b)
  BY <1>2 DEF Defined
<1>4. Defined(x, b, n)' <=> Defined(x, b, n) BY <1>1, <1>3 DEF Defined
<1>5. ASSUME b \in Block PROVE Held(x, b, n)' <=> Held(x, b, n)
  <2>1. PhisOf(b)' = PhisOf(b) /\ \A k \in PhisOf(b) : code'[b][k].id = code[b][k].id
    BY <1>5 DEF Alike, PhisOf, IsPhi
  <2> QED BY <1>4, <2>1 DEF Held
<1> QED BY <1>4, <1>5

-----------------------------------------------------------------------------
\* How much of a stack the calls below have made.
LEMMA HeightParts ==
  ASSUME TypeOK, NEW v, NEW n \in 0..Len(calls)
  PROVE  /\ Height(n, v) \in Nat /\ Height(n, v) <= Cardinality(PushedBy(v))
         /\ n = Len(calls) => Height(n, v) = Cardinality(PushedBy(v))
<1> DEFINE old(m) == PushedAt(m, v)
<1>1. PushedBy(v) = UNION {{<<m, k>> : k \in old(m)} : m \in 1..Len(calls)}
      /\ IsFiniteSet(PushedBy(v)) /\ Cardinality(PushedBy(v)) \in Nat
  BY PushedPlaces
<1>2. PushedUpTo(n, v) = UNION {{<<m, k>> : k \in old(m)} : m \in 1..n} BY DEF PushedUpTo
<1>3. \A m \in 1..n : m \in 1..Len(calls)
  <2>1. Len(calls) \in Nat BY DEF TypeOK
  <2> QED BY <2>1
<1> HIDE DEF old
<1>4. PushedUpTo(n, v) \in SUBSET PushedBy(v) BY <1>1, <1>2, <1>3
<1>5. /\ IsFiniteSet(PushedUpTo(n, v)) /\ Cardinality(PushedUpTo(n, v)) \in Nat
      /\ Cardinality(PushedUpTo(n, v)) <= Cardinality(PushedBy(v))
  BY <1>1, <1>4, FS_Subset, FS_CardinalityType
<1>6. n = Len(calls) => PushedUpTo(n, v) = PushedBy(v) BY <1>1, <1>2
<1> QED BY <1>5, <1>6 DEF Height

LEMMA HeightSame ==
  ASSUME NEW n, NEW v, \A m \in 1..n : PushedAt(m, v)' = PushedAt(m, v)
  PROVE  Height(n, v)' = Height(n, v)
<1> DEFINE old(m) == PushedAt(m, v)  new(m) == PushedAt(m, v)'
<1>1. PushedUpTo(n, v) = UNION {{<<m, k>> : k \in old(m)} : m \in 1..n} BY DEF PushedUpTo
<1>2. PushedUpTo(n, v)' = UNION {{<<m, k>> : k \in new(m)} : m \in 1..n} BY DEF PushedUpTo
<1>3. \A m \in 1..n : new(m) = old(m) OBVIOUS
<1> HIDE DEF old, new
<1>4. UNION {{<<m, k>> : k \in new(m)} : m \in 1..n} = UNION {{<<m, k>> : k \in old(m)} : m \in 1..n}
  BY <1>3
<1>5. PushedUpTo(n, v)' = PushedUpTo(n, v) BY <1>1, <1>2, <1>4
<1> QED BY <1>5 DEF Height

\* The value at place j of a stack, which some call has made.
LEMMA StackedAt ==
  ASSUME TypeOK, StacksKnown, NEW v \in Var, NEW n \in 1..Len(calls), NEW j \in 1..Height(n, v)
  PROVE  j \in 1..Len(var_val_stack[v]) /\ Stacked(var_val_stack[v][j])
<1>1. n \in 0..Len(calls)
  <2>1. Len(calls) \in Nat BY DEF TypeOK
  <2> QED BY <2>1
<1>2. Height(n, v) \in Nat /\ Height(n, v) <= Cardinality(PushedBy(v)) BY <1>1, HeightParts
<1>3. Len(var_val_stack[v]) = Cardinality(PushedBy(v)) BY DEF StacksKnown
<1>4. Len(var_val_stack[v]) \in Nat
  <2>1. var_val_stack[v] \in Seq(Operand) BY DEF TypeOK
  <2> QED BY <2>1
<1>5. j \in 1..Len(var_val_stack[v]) BY <1>2, <1>3, <1>4
<1> QED BY <1>5 DEF Stacked

\* A step of the innermost call that changes no more than operands and puts no
\* more than one value on each stack.
LEMMA StackInside ==
  ASSUME TypeOK, TypeOK', CallInv, CallInv', StackValues, Alike, func_' = func_, calls # <<>>,
         NEW c \in CallRecord, calls' = SetTop(c), c.bb = top.bb, top.ip <= c.ip,
         \A v \in Var : /\ Len(var_val_stack[v]) <= Len(var_val_stack'[v])
                        /\ \A j \in 1..Len(var_val_stack'[v]) :
                             IF j <= Len(var_val_stack[v]) THEN var_val_stack'[v][j] = var_val_stack[v][j]
                             ELSE Held(var_val_stack'[v][j], top.bb, c.ip)
  PROVE  StackValues'
<1>1. PICK l : l = Len(calls) OBVIOUS
<1>2. calls \in Seq(CallRecord) /\ StacksKnown /\ StacksKnown' /\ Chain BY DEF TypeOK, CallInv
<1>3. l \in Nat /\ l \in 1..l /\ top = calls[l] /\ Len(calls') = l /\ calls'[l] = c
      /\ \A n \in 1..l : n # l => calls'[n] = calls[n]
  BY <1>1, <1>2, TopCall DEF top
<1>4. \A n \in 1..l : calls[n].bb \in Live /\ calls[n].bb \in Block BY <1>1, <1>2, LiveBlocks DEF Chain, TypeOK
<1>5. \A n \in 1..l : calls[n].ip \in Nat
  <2>1. \A n \in 1..l : calls[n] \in CallRecord BY <1>1, <1>2
  <2> QED BY <2>1 DEF CallRecord
<1>6. ASSUME NEW v \in Var, NEW n \in 1..l, NEW j \in 1..Height(n, v)
      PROVE  /\ j \in 1..Len(var_val_stack[v]) /\ var_val_stack'[v][j] = var_val_stack[v][j]
             /\ Held(var_val_stack'[v][j], calls[n].bb, calls[n].ip)
  <2>1. j \in 1..Len(var_val_stack[v]) BY <1>1, <1>2, StackedAt
  <2>2. Held(var_val_stack[v][j], calls[n].bb, calls[n].ip) BY <1>1 DEF StackValues
  <2>3. Len(var_val_stack[v]) \in Nat /\ Len(var_val_stack'[v]) \in Nat
    <3>1. var_val_stack[v] \in Seq(Operand) /\ var_val_stack'[v] \in Seq(Operand) BY DEF TypeOK
    <3> QED BY <3>1
  <2>4. j \in 1..Len(var_val_stack'[v]) /\ j <= Len(var_val_stack[v]) BY <1>6, <2>1, <2>3
  <2> QED BY <2>1, <2>2, <2>4
<1>7. ASSUME NEW v \in Var, NEW n \in 1..l, NEW j \in 1..Height(n, v)'
      PROVE  Held(var_val_stack'[v][j], calls'[n].bb, calls'[n].ip)
  <2>2. CASE n # l
    <3>1. \A m \in 1..n : m \in 1..l /\ m # l BY <1>3, <2>2
    <3>2. \A m \in 1..n : PushedAt(m, v)' = PushedAt(m, v) BY <1>1, <1>3, <3>1, OthersPushed
    <3>3. Height(n, v)' = Height(n, v) BY <3>2, HeightSame
    <3> QED BY <1>3, <1>6, <2>2, <3>3
  <2>3. CASE n = l
    <3>0. Height(l, v)' = Len(var_val_stack'[v])
      <4>1. PushedUpTo(l, v)' = PushedBy(v)' BY <1>3 DEF PushedUpTo, PushedBy, PushedAt
      <4> QED BY <1>2, <4>1 DEF Height, StacksKnown
    <3>4. j \in 1..Len(var_val_stack'[v]) BY <2>3, <3>0
    <3>1. CASE j <= Len(var_val_stack[v])
      <4>1. Height(l, v) = Len(var_val_stack[v])
        <5>1. l \in 0..l BY <1>3
        <5> QED BY <1>1, <1>2, <5>1, HeightParts DEF StacksKnown
      <4>2. j \in 1..Height(l, v) BY <3>1, <3>4, <4>1
      <4>3. Held(var_val_stack'[v][j], top.bb, top.ip) BY <1>3, <1>6, <4>2
      <4>4. top.ip \in Nat /\ c.ip \in Nat BY <1>3, <1>5 DEF CallRecord
      <4>5. top.bb \in Live BY <1>3, <1>4
      <4> QED BY <1>3, <2>3, <4>3, <4>4, <4>5, HeldLater
    <3>2. CASE ~(j <= Len(var_val_stack[v])) BY <1>3, <2>3, <3>2, <3>4
    <3> QED BY <3>1, <3>2
  <2> QED BY <2>2, <2>3
<1>8. ASSUME NEW v \in Var, NEW n \in 1..l, NEW j \in 1..Height(n, v)'
      PROVE  Held(var_val_stack[v][j], calls[n].bb, calls[n].ip)'
  <2>1. PICK x, b, i : x = var_val_stack'[v][j] /\ b = calls'[n].bb /\ i = calls'[n].ip OBVIOUS
  <2>2. b \in Block BY <1>3, <1>4, <2>1
  <2>3. Held(x, b, i) BY <1>7, <2>1
  <2>4. Held(x, b, i)' BY <2>2, <2>3, DefinedAlike
  <2>5. Held(var_val_stack[v][j], calls[n].bb, calls[n].ip)' <=> Held(x, b, i)'
    BY <2>1 DEF Held, Defined, Dom
  <2> QED BY <2>4, <2>5
<1> QED BY <1>3, <1>8 DEF StackValues

-----------------------------------------------------------------------------
\* The steps of the innermost call that change operands only.
LEMMA IdsAlike ==
  ASSUME TypeOK, IdsKnown, Alike, bb_has_var_phi' = bb_has_var_phi,
         \A b \in Block : \A k \in 1..Len(code[b]) :
           Len(code[b][k].args) = Len(code[b][k].from) => Len(code'[b][k].args) = Len(code'[b][k].from)
  PROVE  IdsKnown'
<1>1. \A b \in Block : Len(code'[b]) = Len(code[b]) /\ \A k \in 1..Len(code[b]) :
        code'[b][k].id = code[b][k].id /\ code'[b][k].op = code[b][k].op /\ code'[b][k].loc = code[b][k].loc
  BY DEF Alike
<1>2. MadeOnce' BY <1>1 DEF IdsKnown, MadeOnce
<1>3. ASSUME NEW b \in Block, NEW k \in 1..Len(code[b]) PROVE Made(b, code[b][k])'
  <2>1. Made(b, code[b][k]) BY DEF IdsKnown
  <2> QED BY <1>1, <2>1 DEF Made, IsPhi
<1> QED BY <1>1, <1>2, <1>3 DEF IdsKnown, Made

LEMMA OperandsAlike ==
  ASSUME TypeOK, TypeOK', IdsKnown', Alike, func_' = func_,
         \A b \in Live : \A k \in 1..Len(code[b]) : \A j \in 1..Len(code'[b][k].args) :
           Reaches(b, k, code'[b][k], j)
  PROVE  OperandsKnown'
<1>1. Live' = Live /\ Live \subseteq Block BY LiveBlocks DEF Live, TypeOK
<1>2. ASSUME NEW b \in Live, NEW k \in 1..Len(code[b]), NEW j \in 1..Len(code'[b][k].args)
      PROVE  Reaches(b, k, code[b][k], j)'
  <2>0. b \in Block BY <1>1
  <2>1. PICK i : i = code'[b][k] OBVIOUS
  <2>2. PICK a, f : a = i.args[j] /\ f = i.from[j] OBVIOUS
  <2>3. Reaches(b, k, i, j) BY <2>1
  <2>4. CASE IsPhi(i)
    <3>1. f \in Block
      <4>1. k \in 1..Len(code'[b]) BY <2>0 DEF Alike
      <4>2. code'[b] \in Seq(KnownInstr) BY <2>0 DEF TypeOK
      <4>3. i \in KnownInstr BY <2>1, <4>1, <4>2
      <4>4. i.from \in Seq(Block) BY <4>3 DEF KnownInstr, Instr
      <4>5. Made(b, code[b][k])' BY <2>0, <4>1 DEF IdsKnown
      <4>6. Len(i.args) = Len(i.from) BY <2>1, <2>4, <4>5 DEF Made, IsPhi
      <4> QED BY <2>1, <2>2, <4>4, <4>6
    <3>2. PICK m : m = Len(code[f]) + 1 OBVIOUS
    <3>3. m = Len(code'[f]) + 1 BY <3>1, <3>2 DEF Alike
    <3>4. Defined(a, f, m) BY <2>2, <2>3, <2>4, <3>2 DEF Reaches
    <3>5. Defined(a, f, m)' BY <3>4, DefinedAlike
    <3> QED BY <2>1, <2>2, <2>4, <3>3, <3>5 DEF Reaches, IsPhi, Defined, Dom
  <2>5. CASE ~IsPhi(i)
    <3>1. Defined(a, b, k) BY <2>2, <2>3, <2>5 DEF Reaches
    <3>2. Defined(a, b, k)' BY <3>1, DefinedAlike
    <3> QED BY <2>1, <2>2, <2>5, <3>2 DEF Reaches, IsPhi, Defined, Dom
  <2> QED BY <2>4, <2>5
<1>3. \A b \in Live : Len(code'[b]) = Len(code[b]) BY <1>1 DEF Alike
<1> QED BY <1>1, <1>2, <1>3 DEF OperandsKnown

LEMMA ValuesSame ==
  ASSUME TypeOK, TypeOK', IdsKnown, OperandsKnown, UNCHANGED <<func_, code, bb_has_var_phi>>
  PROVE  IdsKnown' /\ OperandsKnown'
<1>1. Alike BY SameAlike
<1>2. IdsKnown' BY <1>1, IdsAlike
<1>3. \A b \in Live : \A k \in 1..Len(code[b]) : \A j \in 1..Len(code'[b][k].args) : Reaches(b, k, code'[b][k], j)
  BY DEF OperandsKnown
<1> QED BY <1>1, <1>2, <1>3, OperandsAlike

LEMMA GoneInside ==
  ASSUME TypeOK, Progress, IdsKnown, GoneKnown, Alike, Len(calls') = Len(calls),
         \A n \in 1..Len(calls) :
           /\ calls'[n].bb = calls[n].bb
           /\ \A k \in calls'[n].wait_delete : k \in calls[n].wait_delete \/ Unused(code[calls[n].bb][k])',
         \A x : NoPhiId(x) /\ ~Used(x) /\ ~Stacked(x) => ~Used(x)' /\ ~Stacked(x)'
  PROVE  GoneKnown'
<1>1. ASSUME NEW n \in 1..Len(calls), NEW k \in calls[n].wait_delete
      PROVE  Unused(code[calls[n].bb][k])'
  <2>1. PICK b : b = calls[n].bb OBVIOUS
  <2>2. b \in Block /\ k \in 1..Len(code[b])
    <3>1. calls[n] \in CallRecord BY DEF TypeOK
    <3>2. b \in Block BY <2>1, <3>1 DEF CallRecord
    <3>3. calls[n].ip \in 1..(Len(code[b]) + 1) /\ k \in 1..(calls[n].ip - 1) BY <2>1 DEF Progress
    <3>4. code[b] \in Seq(KnownInstr) BY <3>2 DEF TypeOK
    <3> QED BY <3>2, <3>3, <3>4
  <2>3. PICK x : x = code[b][k].id OBVIOUS
  <2>4. Unused(code[b][k]) BY <2>1 DEF GoneKnown
  <2>5. Made(b, code[b][k]) BY <2>2 DEF IdsKnown
  <2>6. NoPhiId(x) /\ ~Used(x) /\ ~Stacked(x) BY <2>3, <2>4, <2>5 DEF Unused, Made
  <2>7. ~Used(x)' /\ ~Stacked(x)' BY <2>6
  <2>8. code'[b][k].id = x /\ code'[b][k].op = code[b][k].op /\ calls'[n].bb = b
    BY <2>1, <2>2, <2>3 DEF Alike
  <2> QED BY <2>4, <2>7, <2>8 DEF Unused, IsPhi, Used, Stacked
<1> QED BY <1>1 DEF GoneKnown

-----------------------------------------------------------------------------
\* Before the renaming.
LEMMA OperandsAre ==
  ASSUME TypeOK
  PROVE  OperandsDominate(code, Literal, func_.succ, func_.entry) <=> OperandsKnown
<1>1. DOMAIN code = Block BY DEF TypeOK
<1>2. ASSUME NEW x, NEW b, NEW n
      PROVE  (x \in Literal \/ DefinedAbove(code, func_.succ, func_.entry, x, b, n)) <=> Defined(x, b, n)
  BY <1>1 DEF Defined, DefinedAbove, Dom
<1> QED BY <1>2, ZenonT(40) DEF OperandsDominate, OperandsKnown, Reaches, IsPhi, Live

LEMMA ValuesInit ==
  ASSUME Init PROVE ValuesInv
<1>1. TypeOK /\ func_ \in Functions /\ code = func_.code /\ calls = <<>> BY TypeInit DEF Init
<1>2. SingleAssignment(func_) BY <1>1, FunctionParts DEF WellFormed
<1>3. OperandsKnown BY <1>1, <1>2, OperandsAre DEF SingleAssignment
<1>4. \A b \in Block : \A k \in 1..Len(code[b]) : code[b][k].op # "phi"
  BY <1>1, FunctionParts DEF WellFormed
<1>5. IdsKnown
  <2>1. MadeOnce BY <1>1, <1>2 DEF SingleAssignment, MadeOnce
  <2>2. \A b \in Block : \A k \in 1..Len(code[b]) : Made(b, code[b][k])
    BY <1>1, <1>2, <1>4 DEF SingleAssignment, Made, IsPhi, NoPhiId
  <2> QED BY <2>1, <2>2 DEF IdsKnown
<1>6. 1..Len(calls) = {} BY <1>1
<1>7. GoneKnown /\ StackValues BY <1>6 DEF GoneKnown, StackValues
<1> QED BY <1>3, <1>5, <1>7 DEF ValuesInv

\* What the placing of phis makes of a block: instruction k of the new code is
\* instruction k - s of the old, or the new phi.
LEMMA PlacedCode ==
  ASSUME PlaceInv, PlacePhis
  PROVE  \E shift \in [Block -> {0, 1}], v \in Var :
           /\ v = var /\ bb_has_var_phi \subseteq bb_has_var_phi'
           /\ \A b \in Block :
                /\ Len(code'[b]) = Len(code[b]) + shift[b] /\ Len(code[b]) \in Nat
                /\ \A k \in 1..Len(code[b]) : k + shift[b] \in 1..Len(code'[b]) /\ code'[b][k + shift[b]] = code[b][k]
                /\ shift[b] = 1 => /\ <<b, v>> \notin bb_has_var_phi /\ <<b, v>> \in bb_has_var_phi'
                                   /\ code'[b][1] = NewPhi(b, v)
<1>1. PICK p \in work_list :
        LET lacking == {d \in dominators_.frontier[p] : <<d, var>> \notin bb_has_var_phi}
        IN  /\ code' = [d \in Block |-> IF d \in lacking THEN <<NewPhi(d, var)>> \o code[d] ELSE code[d]]
            /\ bb_has_var_phi' = bb_has_var_phi \cup (lacking \X {var})
  BY PlacePhisParts
<1> DEFINE lacking == {d \in dominators_.frontier[p] : <<d, var>> \notin bb_has_var_phi}
           shift == [b \in Block |-> IF b \in lacking THEN 1 ELSE 0]
<1>2. PICK v \in Var : v = var BY DEF PlacePhis, PlaceInv, Placed
<1>3. /\ code' = [d \in Block |-> IF d \in lacking THEN <<NewPhi(d, v)>> \o code[d] ELSE code[d]]
      /\ bb_has_var_phi' = bb_has_var_phi \cup (lacking \X {v})
      /\ \A d \in lacking : <<d, v>> \notin bb_has_var_phi
  BY <1>1, <1>2
<1> HIDE DEF lacking
<1>4. shift \in [Block -> {0, 1}] /\ \A b \in Block : shift[b] = IF b \in lacking THEN 1 ELSE 0 OBVIOUS
<1> HIDE DEF shift
<1>5. ASSUME NEW b \in Block
      PROVE  /\ Len(code'[b]) = Len(code[b]) + shift[b] /\ Len(code[b]) \in Nat
             /\ \A k \in 1..Len(code[b]) : k + shift[b] \in 1..Len(code'[b]) /\ code'[b][k + shift[b]] = code[b][k]
             /\ shift[b] = 1 => /\ <<b, v>> \notin bb_has_var_phi /\ <<b, v>> \in bb_has_var_phi'
                                /\ code'[b][1] = NewPhi(b, v)
  <2>1. code[b] \in Seq(KnownInstr) /\ NewPhi(b, v) \in KnownInstr BY NewPhiType DEF PlaceInv, TypeOK
  <2>2. CASE b \notin lacking
    <3>1. code'[b] = code[b] /\ shift[b] = 0 BY <1>3, <1>4, <2>2
    <3>2. \A k \in 1..Len(code[b]) : k + 0 = k OBVIOUS
    <3>3. Len(code[b]) \in Nat BY <2>1
    <3> QED BY <3>1, <3>2, <3>3
  <2>3. CASE b \in lacking
    <3>1. code'[b] = <<NewPhi(b, v)>> \o code[b] /\ shift[b] = 1 BY <1>3, <1>4, <2>3
    <3>2. /\ Len(code'[b]) = Len(code[b]) + 1 /\ code'[b][1] = NewPhi(b, v) /\ Len(code[b]) \in Nat
          /\ \A k \in 1..Len(code[b]) : k + 1 \in 1..(Len(code[b]) + 1) /\ code'[b][k + 1] = code[b][k]
      BY <2>1, <3>1
    <3>3. <<b, v>> \notin bb_has_var_phi /\ <<b, v>> \in bb_has_var_phi' BY <1>3, <2>3
    <3> QED BY <3>1, <3>2, <3>3
  <2> QED BY <2>2, <2>3
<1> QED BY <1>2, <1>3, <1>4, <1>5

LEMMA ValuesPlacePhis ==
  ASSUME PlaceInv, TypeOK', PhisKnown, IdsKnown, OperandsKnown, PlacePhis PROVE IdsKnown' /\ OperandsKnown'
<1>1. PICK shift \in [Block -> {0, 1}], v \in Var :
        /\ v = var /\ bb_has_var_phi \subseteq bb_has_var_phi'
        /\ \A b \in Block :
             /\ Len(code'[b]) = Len(code[b]) + shift[b] /\ Len(code[b]) \in Nat
             /\ \A k \in 1..Len(code[b]) : k + shift[b] \in 1..Len(code'[b]) /\ code'[b][k + shift[b]] = code[b][k]
             /\ shift[b] = 1 => /\ <<b, v>> \notin bb_has_var_phi /\ <<b, v>> \in bb_has_var_phi'
                                /\ code'[b][1] = NewPhi(b, v)
  BY PlacedCode
<1>2. func_' = func_ /\ pc = "phi" /\ TypeOK /\ Live' = Live /\ Live \subseteq Block
  BY LiveBlocks DEF PlacePhis, PlaceInv, TypeOK, Live
<1>3. \A b \in Block : shift[b] \in {0, 1} OBVIOUS
<1>4. ASSUME NEW b \in Block, NEW k \in 1..Len(code'[b])
      PROVE  \/ k - shift[b] \in 1..Len(code[b]) /\ code'[b][k] = code[b][k - shift[b]]
             \/ k = 1 /\ shift[b] = 1 /\ code'[b][k] = NewPhi(b, v)
  <2>1. CASE k - shift[b] \in 1..Len(code[b])
    <3>1. (k - shift[b]) + shift[b] = k BY <1>3
    <3> QED BY <1>1, <2>1, <3>1
  <2>2. CASE k - shift[b] \notin 1..Len(code[b])
    <3>1. k = 1 /\ shift[b] = 1
      <4>1. PICK s, n : s = shift[b] /\ n = Len(code[b]) OBVIOUS
      <4>2. s \in {0, 1} /\ n \in Nat /\ k \in 1..(n + s) /\ k - s \notin 1..n BY <1>1, <1>3, <2>2, <4>1
      <4>3. k = 1 /\ s = 1 BY <4>2
      <4> QED BY <4>1, <4>3
    <3> QED BY <1>1, <3>1
  <2> QED BY <2>1, <2>2
<1>5. \A b \in Block : LET i == NewPhi(b, v)
                       IN  i.op = "phi" /\ i.id = PhiId(b, v) /\ i.loc = v /\ i.args = <<>> /\ i.from = <<>>
  BY DEF NewPhi
<1>6. \A b \in Block : shift[b] = 1 => \A c \in Block : \A l \in 1..Len(code[c]) : code[c][l].id # PhiId(b, v)
  <2> TAKE b \in Block
  <2> HAVE shift[b] = 1
  <2> TAKE c \in Block
  <2> TAKE l \in 1..Len(code[c])
  <2>1. Made(c, code[c][l]) BY DEF IdsKnown
  <2>2. CASE IsPhi(code[c][l])
    <3>1. PICK w \in Var : w = code[c][l].loc /\ code[c][l].id = PhiId(c, w) /\ <<c, w>> \in bb_has_var_phi
      BY <2>1, <2>2 DEF Made
    <3>2. ~(c = b /\ w = v) BY <1>1, <3>1
    <3> QED BY <3>1, <3>2, PhiIdAssumption
  <2>3. CASE ~IsPhi(code[c][l]) BY <2>1, <2>3 DEF Made, NoPhiId
  <2> QED BY <2>2, <2>3
<1>7. MadeOnce'
  <2> SUFFICES ASSUME NEW b \in Block, NEW c \in Block, NEW k \in 1..Len(code'[b]), NEW l \in 1..Len(code'[c]),
                      code'[b][k].id = code'[c][l].id, code'[b][k].id # NoId
               PROVE  b = c /\ k = l
    BY DEF MadeOnce
  <2>1. CASE k = 1 /\ shift[b] = 1 /\ code'[b][k] = NewPhi(b, v)
    <3>1. code'[c][l].id = PhiId(b, v) BY <1>5, <2>1
    <3>2. code'[c][l] = NewPhi(c, v) /\ l = 1 BY <1>4, <1>6, <2>1, <3>1
    <3>3. PhiId(c, v) = PhiId(b, v) BY <1>5, <3>1, <3>2
    <3> QED BY <2>1, <3>2, <3>3, PhiIdAssumption
  <2>2. CASE k - shift[b] \in 1..Len(code[b]) /\ code'[b][k] = code[b][k - shift[b]]
    <3>1. l - shift[c] \in 1..Len(code[c]) /\ code'[c][l] = code[c][l - shift[c]]
      <4> SUFFICES ASSUME l = 1 /\ shift[c] = 1 /\ code'[c][l] = NewPhi(c, v) PROVE FALSE BY <1>4
      <4>1. code[b][k - shift[b]].id = PhiId(c, v) BY <1>5, <2>2
      <4> QED BY <1>6, <2>2, <4>1
    <3>2. b = c /\ k - shift[b] = l - shift[c] BY <2>2, <3>1 DEF IdsKnown, MadeOnce
    <3>3. k = (k - shift[b]) + shift[b] /\ l = (l - shift[c]) + shift[c] BY <1>3
    <3> QED BY <3>2, <3>3
  <2> QED BY <1>4, <2>1, <2>2
<1>8. ASSUME NEW b \in Block, NEW k \in 1..Len(code'[b]) PROVE Made(b, code[b][k])'
  <2>1. CASE k = 1 /\ shift[b] = 1 /\ code'[b][k] = NewPhi(b, v)
    <3>1. PICK i : i = code'[b][k] OBVIOUS
    <3>2. i.op = "phi" /\ i.id = PhiId(b, v) /\ i.loc = v /\ i.args = <<>> /\ i.from = <<>> BY <1>5, <2>1, <3>1
    <3>3. <<b, v>> \in bb_has_var_phi' BY <1>1, <2>1
    <3> QED BY <3>1, <3>2, <3>3 DEF Made, IsPhi
  <2>2. CASE k - shift[b] \in 1..Len(code[b]) /\ code'[b][k] = code[b][k - shift[b]]
    <3>1. Made(b, code[b][k - shift[b]]) BY <2>2 DEF IdsKnown
    <3> QED BY <1>1, <2>2, <3>1 DEF Made, NoPhiId, IsPhi
  <2> QED BY <1>4, <2>1, <2>2
<1>9. IdsKnown' BY <1>7, <1>8 DEF IdsKnown
<1>10. ASSUME NEW x, NEW b \in Block, NEW n \in Nat, Defined(x, b, n), NEW m, m = n + shift[b]
       PROVE  Defined(x, b, m)'
  <2>1. CASE x \in Literal BY <2>1 DEF Defined
  <2>2. CASE x \notin Literal
    <3>1. PICK c \in Block : \E l \in 1..Len(code[c]) : code[c][l].id = x /\ IF c = b THEN l < n ELSE Dom(c, b)
      BY <1>10, <2>2 DEF Defined
    <3>2. PICK l \in 1..Len(code[c]) : code[c][l].id = x /\ IF c = b THEN l < n ELSE Dom(c, b)
      BY <3>1
    <3>3. PICK q : q = l + shift[c] OBVIOUS
    <3>4. q \in 1..Len(code'[c]) /\ code'[c][q].id = x BY <1>1, <3>2, <3>3
    <3>5. c = b => q < m BY <1>3, <1>10, <3>2, <3>3
    <3>6. c # b => Dom(c, b)' BY <1>2, <3>2 DEF Dom
    <3> QED BY <3>4, <3>5, <3>6 DEF Defined, Dom
  <2> QED BY <2>1, <2>2
<1>11. ASSUME NEW b \in Live, NEW k \in 1..Len(code'[b]), NEW j \in 1..Len(code'[b][k].args)
       PROVE  Reaches(b, k, code[b][k], j)'
  <2>0. b \in Block BY <1>2
  <2>1. PICK q \in 1..Len(code[b]) : q = k - shift[b] /\ code'[b][k] = code[b][q]
    <3>1. code'[b][k] # NewPhi(b, v)
      <4>1. Len(<<>>) = 0 /\ 1..0 = {} OBVIOUS
      <4> QED BY <1>5, <1>11, <2>0, <4>1
    <3> QED BY <1>4, <2>0, <3>1
  <2>2. PICK i, a : i = code[b][q] /\ a = i.args[j] OBVIOUS
  <2>3. ~IsPhi(i)
    <3> SUFFICES ASSUME IsPhi(i) PROVE FALSE OBVIOUS
    <3>1. q \in PhisOf(b) BY <2>2 DEF PhisOf
    <3>2. i.from = <<>> BY <1>2, <2>0, <2>2, <3>1 DEF PhisKnown, PhiKnown
    <3>3. Len(i.args) = Len(i.from) BY <2>0, <2>2 DEF IdsKnown, Made
    <3>4. Len(<<>>) = 0 /\ 1..0 = {} OBVIOUS
    <3> QED BY <1>11, <2>1, <2>2, <3>2, <3>3, <3>4
  <2>4. Reaches(b, q, code[b][q], j) BY <1>11, <2>1 DEF OperandsKnown
  <2>5. Defined(a, b, q) BY <2>2, <2>3, <2>4 DEF Reaches
  <2>6. k = q + shift[b] /\ q \in Nat BY <1>3, <2>0, <2>1
  <2>7. Defined(a, b, k)' BY <1>10, <2>0, <2>5, <2>6
  <2> QED BY <2>1, <2>2, <2>3, <2>7 DEF Reaches, IsPhi, Defined, Dom
<1> QED BY <1>2, <1>9, <1>11 DEF OperandsKnown

-----------------------------------------------------------------------------
\* The operands after a replacement, and after the phis of the successors are
\* filled.
LEMMA ReplacedArgs ==
  ASSUME TypeOK, NEW old, NEW v, code' = ReplaceAllUse(old, v),
         NEW b \in Block, NEW k \in 1..Len(code[b])
  PROVE  /\ Len(code'[b][k].args) = Len(code[b][k].args)
         /\ \A j \in 1..Len(code[b][k].args) : code'[b][k].args[j] = Subst(code[b][k].args[j], old, v)
<1> DEFINE i == code[b][k]
           a == [j \in 1..Len(i.args) |-> Subst(i.args[j], old, v)]
<1>1. i \in KnownInstr /\ i.args \in Seq(Operand)
  <2>1. code[b] \in Seq(KnownInstr) BY DEF TypeOK
  <2>2. i \in KnownInstr BY <2>1
  <2> HIDE DEF i
  <2> QED BY <2>2 DEF KnownInstr, Instr
<1>2. code'[b][k] = [i EXCEPT !.args = a] BY DEF ReplaceAllUse
<1>3. Len(a) = Len(i.args) /\ \A j \in 1..Len(i.args) : a[j] = Subst(i.args[j], old, v) BY <1>1
<1> HIDE DEF i, a
<1>4. code'[b][k].args = a BY <1>1, <1>2 DEF KnownInstr, Instr
<1> QED BY <1>3, <1>4 DEF i

LEMMA FilledArgs ==
  ASSUME TypeOK, NEW p, p = top.bb,
         code' = [b \in Block |-> IF b \in func_.succ[p]
                    THEN [k \in 1..Len(code[b]) |-> Filled(code[b][k])] ELSE code[b]],
         NEW b \in Block, NEW k \in 1..Len(code[b])
  PROVE  code'[b][k].args = IF b \in func_.succ[p] /\ IsPhi(code[b][k]) /\ code[b][k].loc \in keys
                            THEN Append(code[b][k].args, Top(code[b][k].loc)) ELSE code[b][k].args
<1> DEFINE i == code[b][k]
<1>1. i \in KnownInstr
  <2>1. code[b] \in Seq(KnownInstr) BY DEF TypeOK
  <2> QED BY <2>1
<1>2. code'[b][k] = IF b \in func_.succ[p] THEN Filled(i) ELSE i OBVIOUS
<1> HIDE DEF i
<1>3. Filled(i).args = IF IsPhi(i) /\ i.loc \in keys THEN Append(i.args, Top(i.loc)) ELSE i.args
  BY <1>1 DEF Filled, KnownInstr, Instr
<1> QED BY <1>2, <1>3 DEF i

\* The current value of a variable, at the place the innermost call has reached.
LEMMA TopHeld ==
  ASSUME TypeOK, Chain, StacksKnown, StackValues, calls # <<>>, NEW v \in Var, var_val_stack[v] # <<>>
  PROVE  Held(Top(v), top.bb, top.ip) /\ Stacked(Top(v)) /\ Top(v) \in Operand
<1>1. PICK l : l = Len(calls) OBVIOUS
<1>2. l \in Nat /\ l \in 1..l /\ l \in 0..l /\ top = calls[l] BY <1>1, TopCall DEF top, TypeOK
<1>3. var_val_stack[v] \in Seq(Operand) BY DEF TypeOK
<1>4. PICK j : j = Len(var_val_stack[v]) OBVIOUS
<1>5. j \in 1..j /\ Top(v) = var_val_stack[v][j] /\ Top(v) \in Operand BY <1>3, <1>4 DEF Top
<1>6. Height(l, v) = j BY <1>1, <1>2, <1>4, HeightParts DEF StacksKnown
<1>7. Held(Top(v), top.bb, top.ip) BY <1>1, <1>2, <1>5, <1>6 DEF StackValues
<1>8. Stacked(Top(v)) BY <1>4, <1>5 DEF Stacked
<1> QED BY <1>5, <1>7, <1>8

-----------------------------------------------------------------------------
\* The steps of a call.
LEMMA UsedSame ==
  ASSUME UNCHANGED <<func_, code>>, NEW x
  PROVE  Used(x)' <=> Used(x)
BY DEF Used, Live

LEMMA ValuesPushPhis ==
  ASSUME PlaceInv, TypeOK', CallInv, CallInv', ValuesInv, PushPhis PROVE ValuesInv'
<1> USE DEF placing
<1>1. /\ calls # <<>> /\ calls \in Seq(CallRecord) /\ TypeOK /\ func_ \in Functions
      /\ UNCHANGED <<func_, code, bb_has_var_phi>>
      /\ calls' = SetTop([top EXCEPT !.at = "instrs"])
      /\ Chain /\ Progress /\ StacksKnown /\ IdsKnown /\ OperandsKnown /\ GoneKnown /\ StackValues
  BY DEF PushPhis, PlaceInv, CallInv, ValuesInv, TypeOK
<1> DEFINE c == [top EXCEPT !.at = "instrs"]
<1>2. PICK l : l = Len(calls) OBVIOUS
<1>3. l \in Nat /\ l \in 1..l /\ top = calls[l] /\ top \in CallRecord /\ top.bb \in Block /\ top.ip \in Nat
  BY <1>1, <1>2, TopCall DEF top
<1>4. c \in CallRecord /\ c.bb = top.bb /\ c.ip = top.ip /\ c.wait_delete = top.wait_delete
  BY <1>1, <1>3, Advanced DEF CallRecord
<1>5. calls' = SetTop(c) BY <1>1
<1> HIDE DEF c
<1>6. Len(calls') = l /\ calls'[l] = c /\ \A n \in 1..l : n # l => calls'[n] = calls[n]
  <2>1. calls \in Seq(CallRecord) /\ calls # <<>> BY <1>1
  <2>2. c \in CallRecord /\ calls' = SetTop(c) BY <1>4, <1>5
  <2> QED BY <1>2, <2>1, <2>2, TopCall
<1> DEFINE phi(v) == {k \in PhisOf(top.bb) : code[top.bb][k].loc = v}
<1>7. var_val_stack' = [v \in Var |-> IF phi(v) = {} THEN var_val_stack[v]
                              ELSE Append(var_val_stack[v], PhiId(top.bb, v))]
  BY DEF PushPhis
<1>8. \A v \in Var : phi(v) # {} => \E k \in PhisOf(top.bb) : code[top.bb][k].id = PhiId(top.bb, v)
  <2>1. \A k \in PhisOf(top.bb) : Made(top.bb, code[top.bb][k]) /\ IsPhi(code[top.bb][k])
    BY <1>1, <1>3 DEF IdsKnown, PhisOf
  <2> QED BY <2>1 DEF Made
<1> HIDE DEF phi
<1>9. ASSUME NEW v \in Var
      PROVE  /\ Len(var_val_stack[v]) <= Len(var_val_stack'[v])
             /\ \A j \in 1..Len(var_val_stack'[v]) :
                  IF j <= Len(var_val_stack[v])
                  THEN j \in 1..Len(var_val_stack[v]) /\ var_val_stack'[v][j] = var_val_stack[v][j]
                  ELSE phi(v) # {} /\ var_val_stack'[v][j] = PhiId(top.bb, v)
  <2>1. var_val_stack[v] \in Seq(Operand) BY <1>1 DEF TypeOK
  <2>2. CASE phi(v) = {}
    <3>1. var_val_stack'[v] = var_val_stack[v] BY <1>7, <2>2
    <3> QED BY <2>1, <3>1
  <2>3. CASE phi(v) # {}
    <3>1. var_val_stack'[v] = Append(var_val_stack[v], PhiId(top.bb, v)) BY <1>7, <2>3
    <3> QED BY <2>1, <2>3, <3>1
  <2> QED BY <2>2, <2>3
<1>10. IdsKnown' /\ OperandsKnown' BY <1>1, ValuesSame
<1>11. Alike BY <1>1, SameAlike
<1>12. GoneKnown'
  <2>1. ASSUME NEW x, NoPhiId(x), ~Used(x), ~Stacked(x) PROVE ~Used(x)' /\ ~Stacked(x)'
    <3>1. ~Used(x)' BY <1>1, <2>1, UsedSame
    <3>2. ~Stacked(x)'
      <4> SUFFICES ASSUME NEW v \in Var, NEW j \in 1..Len(var_val_stack'[v]), var_val_stack'[v][j] = x PROVE FALSE
        BY DEF Stacked
      <4>1. x # PhiId(top.bb, v) BY <1>3, <2>1 DEF NoPhiId
      <4>2. j \in 1..Len(var_val_stack[v]) /\ var_val_stack[v][j] = x BY <1>9, <4>1
      <4> QED BY <2>1, <4>2 DEF Stacked
    <3> QED BY <3>1, <3>2
  <2>2. \A n \in 1..l : /\ calls'[n].bb = calls[n].bb
                        /\ \A k \in calls'[n].wait_delete : k \in calls[n].wait_delete
    BY <1>3, <1>4, <1>6
  <2> QED BY <1>1, <1>2, <1>6, <1>11, <2>1, <2>2, GoneInside
<1>13. StackValues'
  <2>1. top.ip <= c.ip BY <1>3, <1>4
  <2>2. \A v \in Var : phi(v) # {} => Held(PhiId(top.bb, v), top.bb, c.ip) BY <1>8 DEF Held
  <2> QED BY <1>1, <1>4, <1>5, <1>9, <1>11, <2>1, <2>2, StackInside
<1> QED BY <1>10, <1>12, <1>13 DEF ValuesInv

\* A value is made at one place only.
LEMMA OnlyPlace ==
  ASSUME TypeOK, IdsKnown, NEW c \in Block, NEW l \in 1..Len(code[c]), NEW x \in Operand, x = code[c][l].id,
         NEW b, NEW n, Defined(x, b, n)
  PROVE  IF c = b THEN l < n ELSE Dom(c, b)
<1>1. code[c][l] \in KnownInstr
  <2>1. code[c] \in Seq(KnownInstr) BY DEF TypeOK
  <2> QED BY <2>1
<1>2. x \in Value /\ x # NoId /\ x \notin Literal
  BY <1>1, ValueAssumption DEF KnownInstr, Instr
<1>3. PICK d \in Block : \E k \in 1..Len(code[d]) : code[d][k].id = x /\ IF d = b THEN k < n ELSE Dom(d, b)
  BY <1>2 DEF Defined
<1>4. PICK k \in 1..Len(code[d]) : code[d][k].id = x /\ IF d = b THEN k < n ELSE Dom(d, b) BY <1>3
<1>5. d = c /\ k = l BY <1>2, <1>4 DEF IdsKnown, MadeOnce
<1> QED BY <1>4, <1>5

\* Nothing refers to the id of an instruction that makes no value.
LEMMA NoIdUnused ==
  ASSUME TypeOK
  PROVE  NoPhiId(NoId) /\ ~Used(NoId) /\ ~Stacked(NoId)
<1>1. NoPhiId(NoId) BY PhiIdAssumption, ValueAssumption DEF NoPhiId, Operand
<1>2. ~Used(NoId)
  <2> SUFFICES ASSUME NEW b \in Live, NEW k \in 1..Len(code[b]), NEW j \in 1..Len(code[b][k].args)
               PROVE  code[b][k].args[j] # NoId
    BY DEF Used
  <2>1. b \in Block BY LiveBlocks DEF TypeOK
  <2>2. code[b] \in Seq(KnownInstr) BY <2>1 DEF TypeOK
  <2>3. PICK i \in KnownInstr : i = code[b][k] BY <2>2
  <2>4. i.args \in Seq(Operand) BY <2>3 DEF KnownInstr, Instr
  <2>5. i.args[j] \in Operand BY <2>3, <2>4
  <2> QED BY <2>3, <2>5, ValueAssumption
<1>3. ~Stacked(NoId)
  <2> SUFFICES ASSUME NEW v \in Var, NEW j \in 1..Len(var_val_stack[v]) PROVE var_val_stack[v][j] # NoId
    BY DEF Stacked
  <2>1. var_val_stack[v] \in Seq(Operand) BY DEF TypeOK
  <2>2. var_val_stack[v][j] \in Operand BY <2>1
  <2> QED BY <2>2, ValueAssumption
<1> QED BY <1>1, <1>2, <1>3

\* The loop over the instructions.
LEMMA AdvanceTop ==
  ASSUME TypeOK, CallInv, Scanning, NEW D, D \subseteq {top.ip}, calls' = Advance(D)
  PROVE  /\ \E c \in CallRecord :
              /\ calls' = SetTop(c) /\ c.bb = top.bb /\ c.ip = top.ip + 1
              /\ c.wait_delete = top.wait_delete \cup D /\ calls'[Len(calls)] = c
         /\ Len(calls') = Len(calls) /\ Len(calls) \in 1..Len(calls)
         /\ \A n \in 1..Len(calls) : n # Len(calls) => calls'[n] = calls[n]
         /\ calls # <<>> /\ top = calls[Len(calls)]
         /\ top.bb \in Live /\ top.bb \in Block /\ top.ip \in 1..Len(code[top.bb]) /\ top.ip \in Nat
         /\ instr \in KnownInstr
         /\ instr.op # "phi" => \A p \in PhisOf(top.bb) : p < top.ip
<1>1. /\ calls # <<>> /\ calls \in Seq(CallRecord) /\ Chain /\ Progress /\ OpenShapes
      /\ top.at = "instrs" /\ top.ip <= Len(code[top.bb])
  BY DEF CallInv, TypeOK, Scanning
<1> DEFINE c == [top EXCEPT !.ip = @ + 1, !.wait_delete = @ \cup D]
<1>2. PICK l : l = Len(calls) OBVIOUS
<1>3. l \in Nat /\ l \in 1..l /\ top = calls[l] /\ top \in CallRecord /\ top.bb \in Block
      /\ top.ip \in Nat \ {0} /\ top.wait_delete \in SUBSET Nat
  BY <1>1, <1>2, TopCall DEF top
<1>4. D \in SUBSET Nat BY <1>3
<1>5. c \in CallRecord /\ c.bb = top.bb /\ c.ip = top.ip + 1 /\ c.wait_delete = top.wait_delete \cup D
  BY <1>1, <1>3, <1>4, Advanced DEF CallRecord
<1>6. top.ip \in 1..Len(code[top.bb])
  <2>1. code[top.bb] \in Seq(KnownInstr) BY <1>3 DEF TypeOK
  <2> QED BY <1>1, <1>3, <2>1
<1>7. calls' = SetTop(c) BY DEF Advance
<1> HIDE DEF c
<1>8. Len(calls') = l /\ calls'[l] = c /\ \A n \in 1..l : n # l => calls'[n] = calls[n]
  <2>1. calls \in Seq(CallRecord) /\ calls # <<>> BY <1>1
  <2>2. c \in CallRecord BY <1>5
  <2> QED BY <1>2, <1>7, <2>1, <2>2, TopCall
<1>9. top.bb \in Live BY <1>1, <1>2, <1>3 DEF Chain
<1>10. instr \in KnownInstr BY <1>1, <1>6, InstrType
<1>11. instr.op # "phi" => \A p \in PhisOf(top.bb) : p < top.ip
  <2>1. Shaped(top.bb)
    <3>1. top.bb \in Open BY <1>2, <1>3 DEF Open
    <3> QED BY <1>1, <3>1 DEF OpenShapes
  <2>2. PICK q \in Nat : PhisOf(top.bb) = 1..q BY <1>3, <2>1, ShapedPlaces
  <2>3. instr.op # "phi" => top.ip \notin PhisOf(top.bb) BY DEF PhisOf, IsPhi, instr
  <2> QED BY <1>3, <2>2, <2>3
<1> QED BY <1>2, <1>3, <1>5, <1>6, <1>7, <1>8, <1>9, <1>10, <1>11

LEMMA ValuesAdvance ==
  ASSUME TypeOK, TypeOK', CallInv, CallInv', ValuesInv, Scanning, NEW D, D \subseteq {top.ip}, calls' = Advance(D),
         Alike, UNCHANGED <<func_, bb_has_var_phi>>, NEW b, b = top.bb, NEW k, k = top.ip,
         D # {} => Unused(code[b][k])',
         \A x : NoPhiId(x) /\ ~Used(x) /\ ~Stacked(x) => ~Used(x)' /\ ~Stacked(x)',
         \A v \in Var : /\ Len(var_val_stack[v]) <= Len(var_val_stack'[v])
                        /\ \A j \in 1..Len(var_val_stack'[v]) :
                             IF j <= Len(var_val_stack[v]) THEN var_val_stack'[v][j] = var_val_stack[v][j]
                             ELSE Held(var_val_stack'[v][j], b, k + 1)
  PROVE  GoneKnown' /\ StackValues'
<1>1. Progress /\ IdsKnown /\ GoneKnown /\ StackValues BY DEF CallInv, ValuesInv
<1>2. PICK c \in CallRecord : /\ calls' = SetTop(c) /\ c.bb = top.bb /\ c.ip = top.ip + 1
                              /\ c.wait_delete = top.wait_delete \cup D /\ calls'[Len(calls)] = c
  BY AdvanceTop
<1>3. PICK l : l = Len(calls) OBVIOUS
<1>4. /\ Len(calls') = l /\ l \in 1..l /\ \A n \in 1..l : n # l => calls'[n] = calls[n]
      /\ calls # <<>> /\ top = calls[l] /\ top.ip \in Nat
  BY <1>3, AdvanceTop
<1>5. GoneKnown'
  <2>1. ASSUME NEW n \in 1..l, NEW p \in calls'[n].wait_delete
        PROVE  p \in calls[n].wait_delete \/ Unused(code[calls[n].bb][p])'
    <3>1. CASE n # l BY <1>4, <2>1, <3>1
    <3>2. CASE n = l /\ p \notin top.wait_delete
      <4>1. p = k /\ D # {} BY <1>2, <1>3, <2>1, <3>2
      <4>2. Unused(code[b][k])' BY <4>1
      <4>3. calls'[n].bb = b BY <1>2, <1>3, <3>2
      <4> QED BY <4>1, <4>2, <4>3, SMTT(30) DEF Unused, IsPhi, Used, Stacked
    <3> QED BY <1>4, <3>1, <3>2
  <2>2. \A n \in 1..l : calls'[n].bb = calls[n].bb BY <1>2, <1>3, <1>4
  <2> QED BY <1>1, <1>3, <1>4, <2>1, <2>2, GoneInside
<1>6. StackValues'
  <2>1. top.ip <= c.ip /\ c.ip = k + 1 BY <1>2, <1>4
  <2>2. \A v \in Var : /\ Len(var_val_stack[v]) <= Len(var_val_stack'[v])
                       /\ \A j \in 1..Len(var_val_stack'[v]) :
                            IF j <= Len(var_val_stack[v]) THEN var_val_stack'[v][j] = var_val_stack[v][j]
                            ELSE Held(var_val_stack'[v][j], top.bb, c.ip)
    BY <2>1
  <2>3. func_' = func_ /\ calls # <<>> BY <1>4
  <2> QED BY <1>1, <1>2, <2>1, <2>2, <2>3, StackInside
<1> QED BY <1>5, <1>6

\* A step that leaves the code and the stacks, and deletes nothing.
LEMMA ValuesKeepInstr ==
  ASSUME PlaceInv, TypeOK', CallInv, CallInv', ValuesInv, KeepInstr PROVE ValuesInv'
<1> USE DEF placing
<1>1. /\ TypeOK /\ Scanning /\ calls' = Advance({}) /\ UNCHANGED <<func_, code, bb_has_var_phi, var_val_stack>>
      /\ IdsKnown /\ OperandsKnown
  BY DEF KeepInstr, PlaceInv, ValuesInv
<1>2. IdsKnown' /\ OperandsKnown' BY <1>1, ValuesSame
<1>3. Alike BY <1>1, SameAlike
<1>4. \A x : (Used(x)' <=> Used(x)) /\ (Stacked(x)' <=> Stacked(x)) BY <1>1, UsedSame DEF Stacked
<1>5. PICK D, b, k : D = {} /\ b = top.bb /\ k = top.ip OBVIOUS
<1>6. \A v \in Var : /\ Len(var_val_stack[v]) \in Nat
                     /\ Len(var_val_stack[v]) <= Len(var_val_stack'[v])
                     /\ \A j \in 1..Len(var_val_stack'[v]) :
                          j <= Len(var_val_stack[v]) /\ var_val_stack'[v][j] = var_val_stack[v][j]
  <2> TAKE v \in Var
  <2>1. var_val_stack[v] \in Seq(Operand) /\ var_val_stack'[v] = var_val_stack[v] BY <1>1 DEF TypeOK
  <2> QED BY <2>1
<1>7. D \subseteq {top.ip} /\ calls' = Advance(D) BY <1>1, <1>5
<1>8. GoneKnown' /\ StackValues' BY <1>1, <1>3, <1>4, <1>5, <1>6, <1>7, ValuesAdvance
<1> QED BY <1>2, <1>8 DEF ValuesInv

LEMMA ValuesRenameStore ==
  ASSUME PlaceInv, TypeOK', CallInv, CallInv', ValuesInv, RenameStore PROVE ValuesInv'
<1> USE DEF placing
<1>1. PICK b, k, i, D, a : b = top.bb /\ k = top.ip /\ i = instr /\ D = {top.ip} /\ a = i.args[1] OBVIOUS
<1>2. /\ TypeOK /\ Scanning /\ calls' = Advance(D) /\ UNCHANGED <<func_, code, bb_has_var_phi>>
      /\ IdsKnown /\ OperandsKnown /\ D \subseteq {top.ip}
      /\ i.op = "store" /\ i.loc \in Var
      /\ var_val_stack' = [var_val_stack EXCEPT ![i.loc] = Append(@, a)]
  BY <1>1 DEF RenameStore, PlaceInv, ValuesInv
<1>3. b \in Live /\ b \in Block /\ k \in 1..Len(code[b]) /\ k \in Nat /\ i \in KnownInstr
  BY <1>1, <1>2, AdvanceTop
<1>4. i = code[b][k] /\ ~IsPhi(i) BY <1>1, <1>2 DEF instr, IsPhi
<1>5. 1 \in 1..Len(i.args) /\ a \in Operand
  <2>1. i.args \in Seq(Operand) /\ Len(i.args) = 1 BY <1>2, <1>3 DEF KnownInstr, Instr
  <2> QED BY <1>1, <2>1
<1>6. Used(a) BY <1>1, <1>3, <1>4, <1>5 DEF Used
<1>7. Held(a, b, k + 1)
  <2>1. Reaches(b, k, code[b][k], 1) BY <1>2, <1>3, <1>4, <1>5 DEF OperandsKnown
  <2>2. Defined(a, b, k) BY <1>1, <1>4, <2>1 DEF Reaches
  <2>3. k + 1 \in Nat /\ k <= k + 1 BY <1>3
  <2>4. Defined(a, b, k + 1) BY <1>2, <1>3, <2>2, <2>3, DefinedLater
  <2> QED BY <2>4 DEF Held
<1>8. IdsKnown' /\ OperandsKnown' BY <1>2, ValuesSame
<1>9. Alike BY <1>2, SameAlike
<1>10. \A v \in Var : /\ Len(var_val_stack[v]) <= Len(var_val_stack'[v])
                      /\ \A j \in 1..Len(var_val_stack'[v]) :
                           IF j <= Len(var_val_stack[v])
                           THEN j \in 1..Len(var_val_stack[v]) /\ var_val_stack'[v][j] = var_val_stack[v][j]
                           ELSE var_val_stack'[v][j] = a
  <2> TAKE v \in Var
  <2>1. var_val_stack \in [Var -> Seq(Operand)] BY <1>2 DEF TypeOK
  <2>2. var_val_stack[v] \in Seq(Operand) BY <2>1
  <2>3. var_val_stack'[v] = IF v = i.loc THEN Append(var_val_stack[v], a) ELSE var_val_stack[v]
    BY <1>2, <2>1
  <2> QED BY <1>5, <2>2, <2>3
<1>11. \A x : ~Used(x) /\ ~Stacked(x) => ~Used(x)' /\ ~Stacked(x)'
  <2> SUFFICES ASSUME NEW x, ~Used(x), ~Stacked(x) PROVE ~Used(x)' /\ ~Stacked(x)' OBVIOUS
  <2>1. ~Used(x)' BY <1>2, UsedSame
  <2>2. ~Stacked(x)'
    <3> SUFFICES ASSUME NEW v \in Var, NEW j \in 1..Len(var_val_stack'[v]), var_val_stack'[v][j] = x PROVE FALSE
      BY DEF Stacked
    <3>1. x # a BY <1>6
    <3>2. j \in 1..Len(var_val_stack[v]) /\ var_val_stack[v][j] = x BY <1>10, <3>1
    <3> QED BY <3>2 DEF Stacked
  <2> QED BY <2>1, <2>2
<1>12. Unused(code[b][k])'
  <2>1. i.id = NoId BY <1>2, <1>3, <1>4 DEF IdsKnown, Made
  <2>2. ~Used(NoId)' /\ ~Stacked(NoId)' BY <1>2, <1>11, NoIdUnused
  <2>3. code'[b][k] = i BY <1>2, <1>4
  <2> QED BY <1>4, <2>1, <2>2, <2>3 DEF Unused, IsPhi, Used, Stacked
<1>13. \A v \in Var : /\ Len(var_val_stack[v]) <= Len(var_val_stack'[v])
                      /\ \A j \in 1..Len(var_val_stack'[v]) :
                           IF j <= Len(var_val_stack[v]) THEN var_val_stack'[v][j] = var_val_stack[v][j]
                           ELSE Held(var_val_stack'[v][j], b, k + 1)
  BY <1>7, <1>10
<1>14. GoneKnown' /\ StackValues' BY <1>1, <1>2, <1>9, <1>11, <1>12, <1>13, ValuesAdvance
<1> QED BY <1>8, <1>14 DEF ValuesInv

\* What is on a stack is made above the instruction the renaming has reached.
LEMMA StackedAbove ==
  ASSUME TypeOK, CallInv, StackValues, Scanning, instr.op # "phi", NEW x, Stacked(x)
  PROVE  Defined(x, top.bb, top.ip)
<1>1. PICK l : l = Len(calls) OBVIOUS
<1>2. PICK v \in Var : \E j \in 1..Len(var_val_stack[v]) : var_val_stack[v][j] = x BY DEF Stacked
<1>3. PICK j \in 1..Len(var_val_stack[v]) : var_val_stack[v][j] = x BY <1>2
<1>4. calls # <<>> /\ StacksKnown /\ calls \in Seq(CallRecord) BY DEF Scanning, CallInv, TypeOK
<1>5. l \in 1..l /\ l \in 0..l /\ top = calls[l]
  <2>1. Len(calls) \in Nat /\ 1 <= Len(calls) BY <1>4, TopCall
  <2> QED BY <1>1, <2>1 DEF top
<1>6. Height(l, v) = Len(var_val_stack[v]) BY <1>1, <1>4, <1>5, HeightParts DEF StacksKnown
<1>7. Held(x, top.bb, top.ip) BY <1>1, <1>3, <1>5, <1>6 DEF StackValues
<1>8. top.bb \in Live /\ top.ip \in Nat /\ \A p \in PhisOf(top.bb) : p < top.ip
  <2>1. PICK b : b = top.bb OBVIOUS
  <2>2. top.ip \in 1..Len(code[b]) /\ top.ip \in Nat /\ b \in Live /\ b \in Block /\ Shaped(b)
    <3>1. Progress /\ Chain /\ OpenShapes /\ top.ip <= Len(code[b]) BY <2>1 DEF CallInv, Scanning
    <3>2. top.ip \in Nat \ {0} /\ b \in Block BY <1>4, <2>1, TopCall
    <3>3. code[b] \in Seq(KnownInstr) BY <3>2 DEF TypeOK
    <3>4. b \in Live /\ b \in Open BY <1>1, <1>5, <2>1, <3>1 DEF Chain, Open
    <3> QED BY <3>1, <3>2, <3>3, <3>4 DEF OpenShapes
  <2>3. PICK q \in Nat : PhisOf(b) = 1..q BY <2>2, ShapedPlaces
  <2>4. top.ip \notin PhisOf(b) BY <2>1 DEF PhisOf, IsPhi, instr
  <2> QED BY <2>1, <2>2, <2>3, <2>4
<1>9. top.ip <= top.ip BY <1>8
<1> QED BY <1>7, <1>8, <1>9, HeldLater

\* Nothing the invariant is about changes.
LEMMA ValuesQuiet ==
  ASSUME TypeOK, TypeOK', ValuesInv, UNCHANGED <<func_, code, bb_has_var_phi, calls, var_val_stack>>
  PROVE  ValuesInv'
<1>1. IdsKnown' /\ OperandsKnown' BY ValuesSame DEF ValuesInv
<1>2. GoneKnown'
  <2>1. \A x : (Used(x)' <=> Used(x)) /\ (Stacked(x)' <=> Stacked(x)) BY UsedSame DEF Stacked
  <2>2. ASSUME NEW n \in 1..Len(calls), NEW k \in calls[n].wait_delete PROVE Unused(code[calls[n].bb][k])'
    <3>1. PICK i : i = code[calls[n].bb][k] OBVIOUS
    <3>2. Unused(i) BY <3>1 DEF ValuesInv, GoneKnown
    <3>3. ~Used(i.id)' /\ ~Stacked(i.id)' BY <2>1, <3>2 DEF Unused
    <3> QED BY <3>1, <3>2, <3>3 DEF Unused, IsPhi, Used, Stacked, Live
  <2> QED BY <2>2 DEF GoneKnown
<1>3. StackValues'
  <2>1. ASSUME NEW n \in 1..Len(calls), NEW v \in Var PROVE Height(n, v)' = Height(n, v)
    BY HeightSame DEF PushedAt, Pushed
  <2>2. ASSUME NEW n \in 1..Len(calls), NEW v \in Var, NEW j \in 1..Height(n, v)
        PROVE  Held(var_val_stack[v][j], calls[n].bb, calls[n].ip)'
    <3>1. Held(var_val_stack[v][j], calls[n].bb, calls[n].ip) BY DEF ValuesInv, StackValues
    <3> QED BY <3>1 DEF Held, Defined, Dom, PhisOf
  <2> QED BY <2>1, <2>2 DEF StackValues
<1> QED BY <1>1, <1>2, <1>3 DEF ValuesInv

\* The value of a load is replaced by one that is made wherever the load is.
LEMMA SubstDefined ==
  ASSUME TypeOK, IdsKnown, NEW c \in Live, NEW l \in 1..Len(code[c]), NEW x, x = code[c][l].id,
         NEW v, Defined(v, c, l), NEW a \in Operand, NEW b \in Live, NEW n \in Nat, Defined(a, b, n)
  PROVE  Defined(Subst(a, x, v), b, n)
<1>1. CASE a # x BY <1>1 DEF Subst
<1>2. CASE a = x
  <2>1. c \in Block /\ l \in Nat
    <3>1. c \in Block BY LiveBlocks DEF TypeOK
    <3>2. code[c] \in Seq(KnownInstr) BY <3>1 DEF TypeOK
    <3> QED BY <3>1, <3>2
  <2>2. IF c = b THEN l < n ELSE Dom(c, b) BY <1>2, <2>1, OnlyPlace
  <2>3. IF c = b THEN l <= n ELSE Dom(c, b) BY <2>1, <2>2
  <2>4. Defined(v, b, n) BY <2>1, <2>3, DefinedLater
  <2> QED BY <1>2, <2>4 DEF Subst
<1> QED BY <1>1, <1>2

\* After the replacement nothing uses the load any more.
LEMMA ReplacedUses ==
  ASSUME TypeOK, NEW x, NEW v, v # x, code' = ReplaceAllUse(x, v), func_' = func_, NEW y, Used(y)'
  PROVE  y # x /\ (Used(y) \/ y = v)
<1>1. Live' = Live /\ Live \subseteq Block BY LiveBlocks DEF Live, TypeOK
<1>2. PICK b \in Live : \E k \in 1..Len(code'[b]) : \E j \in 1..Len(code'[b][k].args) : code'[b][k].args[j] = y
  BY <1>1 DEF Used
<1>3. PICK k \in 1..Len(code'[b]) : \E j \in 1..Len(code'[b][k].args) : code'[b][k].args[j] = y BY <1>2
<1>4. PICK j \in 1..Len(code'[b][k].args) : code'[b][k].args[j] = y BY <1>3
<1>5. b \in Block /\ k \in 1..Len(code[b])
  <2>1. b \in Block BY <1>1
  <2>2. code[b] \in Seq(KnownInstr) BY <2>1 DEF TypeOK
  <2>3. Len(code'[b]) = Len(code[b]) BY <2>1, <2>2 DEF ReplaceAllUse
  <2> QED BY <2>1, <2>3
<1>6. j \in 1..Len(code[b][k].args) /\ y = Subst(code[b][k].args[j], x, v) BY <1>4, <1>5, ReplacedArgs
<1> QED BY <1>5, <1>6 DEF Subst, Used

LEMMA ValuesRenameLoad ==
  ASSUME PlaceInv, TypeOK', CallInv, CallInv', PhisKnown, ValuesInv, RenameLoad PROVE ValuesInv'
<1> USE DEF placing
<1>1. PICK b, k, i, D, x, w, v : b = top.bb /\ k = top.ip /\ i = instr /\ D = {top.ip} /\ x = i.id /\ w = i.loc /\ v = Top(w)
  OBVIOUS
<1>2. /\ TypeOK /\ Scanning /\ UNCHANGED <<func_, bb_has_var_phi, var_val_stack>>
      /\ IdsKnown /\ OperandsKnown /\ GoneKnown /\ StackValues /\ Chain /\ StacksKnown
      /\ i.op = "load" /\ w \in Var /\ func_ \in Functions
  BY <1>1 DEF RenameLoad, PlaceInv, CallInv, ValuesInv, TypeOK
<1>3. CASE UNCHANGED <<code, calls>> BY <1>2, <1>3, ValuesQuiet
<1>4. CASE ~UNCHANGED <<code, calls>>
  <2>1. code' = ReplaceAllUse(x, v) /\ calls' = Advance(D) /\ var_val_stack[w] # <<>> BY <1>1, <1>4 DEF RenameLoad
  <2>2. /\ b \in Live /\ b \in Block /\ k \in 1..Len(code[b]) /\ k \in Nat /\ i \in KnownInstr
        /\ \A p \in PhisOf(b) : p < k
        /\ calls # <<>>
    <3>1. D \subseteq {top.ip} BY <1>1
    <3> QED BY <1>1, <1>2, <2>1, <3>1, AdvanceTop
  <2>3. i = code[b][k] /\ ~IsPhi(i) BY <1>1, <1>2 DEF instr, IsPhi
  <2>4. Held(v, b, k) /\ Stacked(v) /\ v \in Operand BY <1>1, <1>2, <2>1, <2>2, TopHeld
  <2>5. Defined(v, b, k) BY <1>2, <2>2, <2>4, HeldLater
  <2>6. x \in Value \cup {NoId} BY <1>1, <2>2 DEF KnownInstr, Instr
  <2>7. ~Stacked(x)
    <3>1. CASE x = NoId BY <1>2, <3>1, NoIdUnused
    <3>2. CASE x \in Operand
      <4> SUFFICES ASSUME Stacked(x) PROVE FALSE OBVIOUS
      <4>1. Defined(x, b, k) BY <1>1, <1>2, StackedAbove
      <4>2. k < k BY <1>1, <1>2, <2>2, <2>3, <3>2, <4>1, OnlyPlace
      <4> QED BY <2>2, <4>2
    <3> QED BY <2>6, <3>1, <3>2 DEF Operand
  <2>8. v # x BY <2>4, <2>7
  <2>9. Alike /\ \A c \in Block : \A l \in 1..Len(code[c]) : code'[c][l].from = code[c][l].from
    BY <1>2, <2>1, <2>4, ReplaceAllUseAlike
  <2>10. \A y : (Used(y)' => y # x /\ (Used(y) \/ y = v)) /\ (Stacked(y)' <=> Stacked(y))
    <3>1. \A y : Used(y)' => y # x /\ (Used(y) \/ y = v) BY <1>2, <2>1, <2>8, ReplacedUses
    <3> QED BY <1>2, <3>1 DEF Stacked
  <2>11. IdsKnown'
    <3>1. \A c \in Block : \A l \in 1..Len(code[c]) : Len(code'[c][l].args) = Len(code[c][l].args)
      BY <1>2, <2>1, ReplacedArgs
    <3> QED BY <1>2, <2>9, <3>1, IdsAlike
  <2>12. ASSUME NEW c \in Live, NEW l \in 1..Len(code[c]), NEW j \in 1..Len(code'[c][l].args)
         PROVE  Reaches(c, l, code'[c][l], j)
    <3>1. c \in Block BY <1>2, LiveBlocks
    <3>2. PICK m, a, n : m = code[c][l] /\ a = m.args[j] /\ n = code'[c][l] OBVIOUS
    <3>3. j \in 1..Len(m.args) /\ n.args[j] = Subst(a, x, v)
      <4>1. /\ Len(code'[c][l].args) = Len(code[c][l].args)
            /\ \A p \in 1..Len(code[c][l].args) : code'[c][l].args[p] = Subst(code[c][l].args[p], x, v)
        BY <1>2, <2>1, <3>1, ReplacedArgs
      <4>2. j \in 1..Len(code[c][l].args) BY <2>12, <4>1
      <4> QED BY <3>2, <4>1, <4>2
    <3>4. n.from = m.from /\ n.op = m.op BY <2>9, <3>1, <3>2 DEF Alike
    <3>5. Reaches(c, l, m, j) BY <1>2, <3>2, <3>3 DEF OperandsKnown
    <3>6. m \in KnownInstr /\ l \in Nat
      <4>1. code[c] \in Seq(KnownInstr) BY <1>2, <3>1 DEF TypeOK
      <4> QED BY <3>2, <4>1
    <3>7. a \in Operand
      <4>1. m.args \in Seq(Operand) BY <3>6 DEF KnownInstr, Instr
      <4> QED BY <3>2, <3>3, <4>1
    <3>8. CASE IsPhi(m)
      <4>1. PICK f, q : f = m.from[j] /\ q = Len(code[f]) + 1 OBVIOUS
      <4>2. f \in Live /\ f \in Block
        <5>1. l \in PhisOf(c) BY <3>2, <3>8 DEF PhisOf
        <5>2. Made(c, m) BY <1>2, <3>1, <3>2 DEF IdsKnown
        <5>3. j \in 1..Len(m.from) BY <3>3, <3>8, <5>2 DEF Made
        <5>4. f \in Live BY <1>2, <3>1, <3>2, <4>1, <5>1, <5>3 DEF PhisKnown, PhiKnown
        <5> QED BY <1>2, <5>4, LiveBlocks
      <4>3. q \in Nat
        <5>1. code[f] \in Seq(KnownInstr) BY <1>2, <4>2 DEF TypeOK
        <5> QED BY <4>1, <5>1
      <4>4. Defined(a, f, q) BY <3>2, <3>5, <3>8, <4>1 DEF Reaches
      <4>5. Defined(Subst(a, x, v), f, q) BY <1>1, <1>2, <2>2, <2>3, <2>5, <3>7, <4>2, <4>3, <4>4, SubstDefined
      <4> QED BY <3>2, <3>3, <3>4, <3>8, <4>1, <4>5 DEF Reaches, IsPhi
    <3>9. CASE ~IsPhi(m)
      <4>1. Defined(a, c, l) BY <3>2, <3>5, <3>9 DEF Reaches
      <4>2. Defined(Subst(a, x, v), c, l) BY <1>1, <1>2, <2>2, <2>3, <2>5, <3>6, <3>7, <4>1, SubstDefined
      <4> QED BY <3>2, <3>3, <3>4, <3>9, <4>2 DEF Reaches, IsPhi
    <3> QED BY <3>8, <3>9
  <2>13. OperandsKnown' BY <1>2, <2>9, <2>11, <2>12, OperandsAlike
  <2>14. GoneKnown' /\ StackValues'
    <3>1. Unused(code[b][k])'
      <4>1. code'[b][k].id = x /\ ~IsPhi(code'[b][k]) BY <1>1, <2>2, <2>3, <2>9 DEF Alike, IsPhi
      <4>2. ~Used(x)' /\ ~Stacked(x)' BY <2>7, <2>10
      <4> QED BY <4>1, <4>2 DEF Unused, IsPhi, Used, Stacked
    <3>2. \A y : ~Used(y) /\ ~Stacked(y) => ~Used(y)' /\ ~Stacked(y)' BY <2>4, <2>10
    <3>3. \A u \in Var : /\ Len(var_val_stack[u]) <= Len(var_val_stack'[u])
                         /\ \A j \in 1..Len(var_val_stack'[u]) :
                              j <= Len(var_val_stack[u]) /\ var_val_stack'[u][j] = var_val_stack[u][j]
      <4> TAKE u \in Var
      <4>1. var_val_stack[u] \in Seq(Operand) /\ var_val_stack'[u] = var_val_stack[u] BY <1>2 DEF TypeOK
      <4> QED BY <4>1
    <3>4. D \subseteq {top.ip} BY <1>1
    <3>5. \A u \in Var : /\ Len(var_val_stack[u]) <= Len(var_val_stack'[u])
                         /\ \A j \in 1..Len(var_val_stack'[u]) :
                              IF j <= Len(var_val_stack[u]) THEN var_val_stack'[u][j] = var_val_stack[u][j]
                              ELSE Held(var_val_stack'[u][j], b, k + 1)
      BY <3>3
    <3> QED BY <1>1, <1>2, <2>1, <2>9, <3>1, <3>2, <3>4, <3>5, ValuesAdvance
  <2> QED BY <2>11, <2>13, <2>14 DEF ValuesInv
<1> QED BY <1>3, <1>4

\* The phis of the successors get what is on the stacks.
LEMMA ValuesFillPhis ==
  ASSUME PlaceInv, TypeOK', CallInv, CallInv', ValuesInv, FillPhis PROVE ValuesInv'
<1> USE DEF placing
<1>1. /\ calls # <<>> /\ calls \in Seq(CallRecord) /\ TypeOK /\ func_ \in Functions
      /\ UNCHANGED <<func_, bb_has_var_phi, var_val_stack, keys>>
      /\ top.ip > Len(code[top.bb]) /\ Chain /\ Progress /\ StacksKnown
      /\ IdsKnown /\ OperandsKnown /\ GoneKnown /\ StackValues
  BY DEF FillPhis, PlaceInv, CallInv, ValuesInv, TypeOK
<1>2. CASE NoValueFor(top.bb)
  <2>1. UNCHANGED <<code, calls>> BY <1>2 DEF FillPhis, NoValueFor
  <2> QED BY <1>1, <2>1, ValuesQuiet DEF ValuesInv
<1>3. CASE ~NoValueFor(top.bb)
  <2>0. PICK p, m : p = top.bb /\ m = Len(code[p]) + 1 OBVIOUS
  <2>1. /\ code' = [b \in Block |-> IF b \in func_.succ[p]
                      THEN [k \in 1..Len(code[b]) |-> Filled(code[b][k])] ELSE code[b]]
        /\ calls' = SetTop([top EXCEPT !.at = "children"])
    BY <1>3, <2>0 DEF FillPhis, NoValueFor
  <2> DEFINE c == [top EXCEPT !.at = "children"]
  <2>2. PICK l : l = Len(calls) OBVIOUS
  <2>3. l \in Nat /\ l \in 1..l /\ top = calls[l] /\ top \in CallRecord /\ p \in Block
    BY <1>1, <2>0, <2>2, TopCall DEF top
  <2>4. c \in CallRecord /\ c.bb = top.bb /\ c.ip = top.ip /\ c.wait_delete = top.wait_delete
    BY <1>1, <2>3, Advanced DEF CallRecord
  <2>5. top.ip = m /\ m \in Nat /\ p \in Live /\ \A k \in PhisOf(p) : k < m
    <3>1. top.ip \in 1..(Len(code[p]) + 1) /\ p \in Live BY <1>1, <2>0, <2>2, <2>3 DEF Progress, Chain
    <3>2. code[p] \in Seq(KnownInstr) BY <1>1, <2>3 DEF TypeOK
    <3>3. top.ip = m /\ m \in Nat /\ \A k \in 1..Len(code[p]) : k < m BY <1>1, <2>0, <3>1, <3>2
    <3> QED BY <3>1, <3>3 DEF PhisOf
  <2>6. calls' = SetTop(c) BY <2>1
  <2> HIDE DEF c
  <2>7. Len(calls') = l /\ calls'[l] = c /\ \A n \in 1..l : n # l => calls'[n] = calls[n]
    <3>1. calls \in Seq(CallRecord) /\ calls # <<>> BY <1>1
    <3>2. c \in CallRecord /\ calls' = SetTop(c) BY <2>4, <2>6
    <3> QED BY <2>2, <3>1, <3>2, TopCall
  <2>8. /\ Alike
        /\ \A b \in Block : \A k \in 1..Len(code[b]) :
             code'[b][k].from = IF b \in func_.succ[p] /\ IsPhi(code[b][k]) /\ code[b][k].loc \in keys
                                THEN Append(code[b][k].from, p) ELSE code[b][k].from
    BY <1>1, <1>3, <2>0, <2>1, <2>3, FillAlike, ZenonT(40)
  <2>9. \A b \in Block : \A k \in 1..Len(code[b]) :
          code'[b][k].args = IF b \in func_.succ[p] /\ IsPhi(code[b][k]) /\ code[b][k].loc \in keys
                             THEN Append(code[b][k].args, Top(code[b][k].loc)) ELSE code[b][k].args
    BY <1>1, <2>0, <2>1, FilledArgs
  <2>10. ASSUME NEW b \in Block, NEW k \in 1..Len(code[b])
         PROVE  code[b][k].args \in Seq(Operand) /\ code[b][k].from \in Seq(Block)
    <3>1. code[b] \in Seq(KnownInstr) BY <1>1 DEF TypeOK
    <3>2. code[b][k] \in KnownInstr BY <3>1
    <3> QED BY <3>2 DEF KnownInstr, Instr
  <2>11. ASSUME NEW b \in Block, NEW k \in 1..Len(code[b]), b \in func_.succ[p], IsPhi(code[b][k]), code[b][k].loc \in keys,
                NEW v, v = Top(code[b][k].loc)
         PROVE  Defined(v, p, m) /\ Stacked(v)
    <3>1. PICK w : w = code[b][k].loc OBVIOUS
    <3>2. w \in Var /\ var_val_stack[w] # <<>>
      BY <1>1, <1>3, <2>0, <2>11, <3>1 DEF StacksKnown, NoValueFor, PhisOf
    <3>3. Held(v, p, m) /\ Stacked(v) BY <1>1, <2>0, <2>5, <2>11, <3>1, <3>2, TopHeld
    <3>4. m <= m BY <2>5
    <3> QED BY <1>1, <2>5, <3>3, <3>4, HeldLater
  <2>12. IdsKnown'
    <3>1. ASSUME NEW b \in Block, NEW k \in 1..Len(code[b]), Len(code[b][k].args) = Len(code[b][k].from)
          PROVE  Len(code'[b][k].args) = Len(code'[b][k].from)
      <4>1. PICK a, f, v : a = code[b][k].args /\ f = code[b][k].from /\ v = Top(code[b][k].loc) OBVIOUS
      <4>2. a \in Seq(Operand) /\ f \in Seq(Block) BY <2>10, <4>1
      <4>3. Len(Append(a, v)) = Len(a) + 1 /\ Len(Append(f, p)) = Len(f) + 1 BY <4>2
      <4> QED BY <2>8, <2>9, <3>1, <4>1, <4>3
    <3> QED BY <1>1, <2>8, <3>1, IdsAlike
  <2>13. ASSUME NEW b \in Live, NEW k \in 1..Len(code[b]), NEW j \in 1..Len(code'[b][k].args)
         PROVE  \/ /\ j \in 1..Len(code[b][k].args) /\ code'[b][k].args[j] = code[b][k].args[j]
                   /\ IsPhi(code[b][k]) => code'[b][k].from[j] = code[b][k].from[j]
                \/ /\ b \in func_.succ[p] /\ IsPhi(code[b][k]) /\ code[b][k].loc \in keys
                   /\ code'[b][k].args[j] = Top(code[b][k].loc) /\ code'[b][k].from[j] = p
    <3>1. b \in Block BY <1>1, LiveBlocks
    <3>2. PICK a, f, v : a = code[b][k].args /\ f = code[b][k].from /\ v = Top(code[b][k].loc) OBVIOUS
    <3>3. a \in Seq(Operand) /\ f \in Seq(Block) BY <2>10, <3>1, <3>2
    <3>4. CASE b \in func_.succ[p] /\ IsPhi(code[b][k]) /\ code[b][k].loc \in keys
      <4>1. code'[b][k].args = Append(a, v) /\ code'[b][k].from = Append(f, p) BY <2>8, <2>9, <3>1, <3>2, <3>4
      <4>2. Len(a) = Len(f) BY <1>1, <3>1, <3>2, <3>4 DEF IdsKnown, Made
      <4>3. j \in 1..Len(Append(a, v)) BY <2>13, <4>1
      <4>4. CASE j = Len(a) + 1
        <5>1. Append(a, v)[j] = v /\ Append(f, p)[j] = p BY <3>3, <4>2, <4>4
        <5> QED BY <3>2, <3>4, <4>1, <5>1
      <4>5. CASE j # Len(a) + 1
        <5>1. j \in 1..Len(a) BY <3>3, <4>3, <4>5
        <5>2. Append(a, v)[j] = a[j] /\ Append(f, p)[j] = f[j] BY <3>3, <4>2, <5>1
        <5> QED BY <3>2, <4>1, <5>1, <5>2
      <4> QED BY <4>4, <4>5
    <3>5. CASE ~(b \in func_.succ[p] /\ IsPhi(code[b][k]) /\ code[b][k].loc \in keys)
      <4>1. code'[b][k].args = a /\ code'[b][k].from = f BY <2>8, <2>9, <3>1, <3>2, <3>5
      <4> QED BY <2>13, <3>2, <4>1
    <3> QED BY <3>4, <3>5
  <2>14. OperandsKnown'
    <3>1. ASSUME NEW b \in Live, NEW k \in 1..Len(code[b]), NEW j \in 1..Len(code'[b][k].args)
          PROVE  Reaches(b, k, code'[b][k], j)
      <4>0. b \in Block BY <1>1, LiveBlocks
      <4>1. PICK i, n : i = code[b][k] /\ n = code'[b][k] OBVIOUS
      <4>2. IsPhi(n) <=> IsPhi(i) BY <2>8, <4>0, <4>1 DEF Alike, IsPhi
      <4>3. CASE /\ j \in 1..Len(i.args) /\ n.args[j] = i.args[j]
                 /\ IsPhi(i) => n.from[j] = i.from[j]
        <5>1. Reaches(b, k, i, j) BY <1>1, <4>1, <4>3 DEF OperandsKnown
        <5> QED BY <4>1, <4>2, <4>3, <5>1 DEF Reaches
      <4>4. CASE /\ b \in func_.succ[p] /\ IsPhi(i) /\ i.loc \in keys
                 /\ n.args[j] = Top(i.loc) /\ n.from[j] = p
        <5>1. PICK v : v = Top(i.loc) OBVIOUS
        <5>2. Defined(v, p, m) BY <2>11, <4>0, <4>1, <4>4, <5>1
        <5> QED BY <2>0, <4>1, <4>2, <4>4, <5>1, <5>2 DEF Reaches
      <4> QED BY <2>13, <4>1, <4>3, <4>4
    <3> QED BY <1>1, <2>8, <2>12, <3>1, OperandsAlike
  <2>15. \A x : (Stacked(x)' <=> Stacked(x)) /\ (Used(x)' => Used(x) \/ Stacked(x))
    <3> SUFFICES ASSUME NEW x PROVE (Stacked(x)' <=> Stacked(x)) /\ (Used(x)' => Used(x) \/ Stacked(x)) OBVIOUS
    <3>1. Stacked(x)' <=> Stacked(x) BY <1>1 DEF Stacked
    <3>2. ASSUME Used(x)' PROVE Used(x) \/ Stacked(x)
      <4>1. PICK b \in Live : \E k \in 1..Len(code'[b]) : \E j \in 1..Len(code'[b][k].args) : code'[b][k].args[j] = x
        BY <1>1, <3>2 DEF Used, Live
      <4>2. PICK k \in 1..Len(code'[b]) : \E j \in 1..Len(code'[b][k].args) : code'[b][k].args[j] = x BY <4>1
      <4>3. PICK j \in 1..Len(code'[b][k].args) : code'[b][k].args[j] = x BY <4>2
      <4>4. b \in Block /\ k \in 1..Len(code[b]) BY <1>1, <2>8, LiveBlocks DEF Alike
      <4>5. CASE j \in 1..Len(code[b][k].args) /\ x = code[b][k].args[j] BY <4>4, <4>5 DEF Used
      <4>6. CASE b \in func_.succ[p] /\ IsPhi(code[b][k]) /\ code[b][k].loc \in keys /\ x = Top(code[b][k].loc)
        BY <2>11, <4>4, <4>6
      <4> QED BY <2>13, <4>3, <4>4, <4>5, <4>6
    <3> QED BY <3>1, <3>2
  <2>16. GoneKnown'
    <3>1. \A n \in 1..l : /\ calls'[n].bb = calls[n].bb
                          /\ \A k \in calls'[n].wait_delete : k \in calls[n].wait_delete
      BY <2>3, <2>4, <2>7
    <3> QED BY <1>1, <2>2, <2>7, <2>8, <2>15, <3>1, GoneInside
  <2>17. StackValues'
    <3>1. top.ip <= c.ip BY <2>4, <2>5
    <3>2. \A v \in Var : /\ Len(var_val_stack[v]) <= Len(var_val_stack'[v])
                         /\ \A j \in 1..Len(var_val_stack'[v]) :
                              j <= Len(var_val_stack[v]) /\ var_val_stack'[v][j] = var_val_stack[v][j]
      <4> TAKE v \in Var
      <4>1. var_val_stack[v] \in Seq(Operand) /\ var_val_stack'[v] = var_val_stack[v] BY <1>1 DEF TypeOK
      <4> QED BY <4>1
    <3>3. \A v \in Var : /\ Len(var_val_stack[v]) <= Len(var_val_stack'[v])
                         /\ \A j \in 1..Len(var_val_stack'[v]) :
                              IF j <= Len(var_val_stack[v]) THEN var_val_stack'[v][j] = var_val_stack[v][j]
                              ELSE Held(var_val_stack'[v][j], top.bb, c.ip)
      BY <3>2
    <3> QED BY <1>1, <2>4, <2>6, <2>8, <3>1, <3>3, StackInside
  <2> QED BY <2>12, <2>14, <2>16, <2>17 DEF ValuesInv
<1> QED BY <1>2, <1>3

\* A call for a child of the dominator tree: all the stacks hold is made above.
LEMMA ValuesDescend ==
  ASSUME PlaceInv, TypeOK', CallInv, CallInv', ValuesInv, Descend PROVE ValuesInv'
<1> USE DEF placing
<1>1. /\ TypeOK /\ func_ \in Functions /\ UNCHANGED <<func_, code, bb_has_var_phi, var_val_stack>>
      /\ top.at = "children" /\ calls # <<>> /\ calls \in Seq(CallRecord)
      /\ Chain /\ Progress /\ StacksKnown /\ StacksKnown' /\ IdsKnown /\ OperandsKnown /\ GoneKnown /\ StackValues
  BY DEF Descend, PlaceInv, CallInv, ValuesInv, TypeOK
<1>2. PICK l : l = Len(calls) OBVIOUS
<1>3. /\ Len(calls') = l + 1 /\ l \in Nat /\ 1 <= l
      /\ \A n \in 1..l : /\ calls'[n].bb = calls[n].bb /\ calls'[n].at = calls[n].at
                         /\ calls'[n].ip = calls[n].ip
                         /\ calls'[n].wait_delete = calls[n].wait_delete
  BY <1>1, <1>2, DescendChain
<1>4. PICK b \in Live : calls'[l + 1] = Call(b) /\ b \in top.left BY <1>1, <1>2, DescendChain
<1>5. calls'[l + 1].ip = 1 /\ calls'[l + 1].wait_delete = {} /\ calls'[l + 1].bb = b BY <1>4, CallFields
<1>6. \A n \in 1..(l + 1) : n \in 1..l \/ n = l + 1 BY <1>3
<1>7. l \in 1..l /\ l \in 0..l /\ top = calls[l] BY <1>2, <1>3 DEF top
<1>8. IdsKnown' /\ OperandsKnown' BY <1>1, ValuesSame
<1>9. Alike BY <1>1, SameAlike
<1>10. GoneKnown'
  <2>1. \A x : (Used(x)' <=> Used(x)) /\ (Stacked(x)' <=> Stacked(x)) BY <1>1, UsedSame DEF Stacked
  <2>2. ASSUME NEW n \in 1..l, NEW k \in calls[n].wait_delete PROVE Unused(code[calls[n].bb][k])'
    <3>1. PICK i : i = code[calls[n].bb][k] OBVIOUS
    <3>2. Unused(i) BY <1>1, <1>2, <3>1 DEF GoneKnown
    <3>3. ~Used(i.id)' /\ ~Stacked(i.id)' BY <2>1, <3>2 DEF Unused
    <3>4. code'[calls'[n].bb][k] = i BY <1>1, <1>3, <3>1
    <3> QED BY <3>2, <3>3, <3>4 DEF Unused, IsPhi, Used, Stacked
  <2>3. \A n \in 1..(l + 1) : \A k \in calls'[n].wait_delete : n \in 1..l /\ k \in calls[n].wait_delete
    BY <1>3, <1>5, <1>6
  <2> QED BY <1>3, <2>2, <2>3 DEF GoneKnown
<1>11. ASSUME NEW v \in Var, NEW n \in 1..(l + 1), NEW j \in 1..Height(n, v)'
       PROVE  Held(var_val_stack[v][j], calls'[n].bb, calls'[n].ip)
  <2>1. CASE n \in 1..l
    <3>1. \A q \in 1..n : q \in 1..l BY <1>3, <2>1
    <3>2. \A q \in 1..n : PushedAt(q, v)' = PushedAt(q, v) BY <1>1, <1>2, <1>3, <1>9, <3>1, OthersPushed
    <3>3. Height(n, v)' = Height(n, v) BY <3>2, HeightSame
    <3> QED BY <1>1, <1>2, <1>3, <1>11, <2>1, <3>3 DEF StackValues
  <2>2. CASE n = l + 1
    <3>1. Height(l + 1, v)' = Len(var_val_stack'[v])
      <4>1. PushedUpTo(l + 1, v)' = PushedBy(v)' BY <1>3 DEF PushedUpTo, PushedBy, PushedAt
      <4> QED BY <1>1, <4>1 DEF Height, StacksKnown
    <3>2. Height(l, v) = Len(var_val_stack[v]) BY <1>1, <1>2, <1>7, HeightParts DEF StacksKnown
    <3>3. j \in 1..Height(l, v) BY <1>1, <1>11, <2>2, <3>1, <3>2
    <3>4. PICK x, p, m : x = var_val_stack[v][j] /\ p = top.bb /\ m = top.ip OBVIOUS
    <3>5. Held(x, p, m) BY <1>1, <1>2, <1>7, <3>3, <3>4 DEF StackValues
    <3>6. p \in Live /\ m \in Nat /\ \A k \in PhisOf(p) : k < m
      <4>1. p \in Live /\ m = Len(code[p]) + 1 BY <1>1, <1>2, <1>7, <3>4 DEF Chain, Progress
      <4>2. p \in Block BY <1>1, <4>1, LiveBlocks
      <4>3. code[p] \in Seq(KnownInstr) BY <1>1, <4>2 DEF TypeOK
      <4> QED BY <4>1, <4>3 DEF PhisOf
    <3>7. m <= m BY <3>6
    <3>8. Defined(x, p, m) BY <1>1, <3>5, <3>6, <3>7, HeldLater
    <3>9. Dom(p, b) /\ p # b
      <4>1. b \in DominatorChildren(func_.succ, func_.entry, p) BY <1>1, <1>2, <1>4, <1>7, <3>4 DEF Chain
      <4> QED BY <1>1, <3>6, <4>1, ChildParts
    <3>10. Defined(x, b, 1) BY <1>1, <1>4, <3>6, <3>8, <3>9, DefinedLater
    <3> QED BY <1>5, <2>2, <3>4, <3>10 DEF Held
  <2> QED BY <1>6, <2>1, <2>2
<1>12. ASSUME NEW v \in Var, NEW n \in 1..(l + 1), NEW j \in 1..Height(n, v)'
       PROVE  Held(var_val_stack[v][j], calls[n].bb, calls[n].ip)'
  <2>1. PICK x, p, m : x = var_val_stack[v][j] /\ p = calls'[n].bb /\ m = calls'[n].ip OBVIOUS
  <2>2. Held(x, p, m) BY <1>11, <2>1
  <2> QED BY <1>1, <2>1, <2>2 DEF Held, Defined, Dom, PhisOf
<1>13. StackValues' BY <1>3, <1>12 DEF StackValues
<1> QED BY <1>8, <1>10, <1>13 DEF ValuesInv

\* The call for the entry block finds the stacks empty.
LEMMA ValuesStartRename ==
  ASSUME PlaceInv, TypeOK', CallInv, CallInv', ValuesInv, StartRename PROVE ValuesInv'
<1> USE DEF placing
<1>1. /\ TypeOK /\ UNCHANGED <<func_, code, bb_has_var_phi, var_val_stack>>
      /\ calls = <<>> /\ StacksKnown /\ StacksKnown' /\ IdsKnown /\ OperandsKnown
  BY DEF StartRename, PlaceInv, Phases, CallInv, ValuesInv
<1>2. Len(calls') = 1 /\ calls'[1] = Call(func_.entry) BY StartChain
<1>3. IdsKnown' /\ OperandsKnown' BY <1>1, ValuesSame
<1>4. GoneKnown'
  <2>1. \A n \in 1..1 : calls'[n].wait_delete = {} BY <1>2, CallFields
  <2> QED BY <1>2, <2>1 DEF GoneKnown
<1>5. ASSUME NEW v \in Var PROVE Height(1, v)' = 0
  <2>1. PushedUpTo(1, v)' = PushedBy(v)' BY <1>2 DEF PushedUpTo, PushedBy, PushedAt
  <2>2. Len(var_val_stack'[v]) = Len(var_val_stack[v]) /\ Len(var_val_stack[v]) = Cardinality(PushedBy(v)) BY <1>1 DEF StacksKnown
  <2>3. Cardinality(PushedBy(v)) = 0 BY <1>1, NoCalls
  <2> QED BY <1>1, <2>1, <2>2, <2>3 DEF Height, StacksKnown
<1>6. 1..0 = {} /\ \A n \in 1..1 : n = 1 OBVIOUS
<1>7. StackValues' BY <1>2, <1>5, <1>6 DEF StackValues
<1> QED BY <1>3, <1>4, <1>7 DEF ValuesInv

-----------------------------------------------------------------------------
\* The steps that delete instructions.  What is kept of a list stays in order.
LEMMA RankGrows ==
  ASSUME NEW m \in Nat, NEW S \in SUBSET (1..m), NEW j \in S, NEW k \in S
  PROVE  /\ Cardinality({i \in S : i <= k}) \in 1..Cardinality(S)
         /\ j < k => Cardinality({i \in S : i <= j}) < Cardinality({i \in S : i <= k})
<1> DEFINE Upto(n) == {i \in S : i <= n}
<1>1. IsFiniteSet(S) /\ Cardinality(S) \in Nat
  <2>1. IsFiniteSet(1..m) BY FS_Interval
  <2> QED BY <2>1, FS_Subset, FS_CardinalityType
<1>2. \A n \in S : Upto(n) \in SUBSET S /\ n \in Upto(n) OBVIOUS
<1>3. j < k => Upto(j) \cup {k} \in SUBSET Upto(k) /\ k \notin Upto(j)
  <2>1. \A i \in S : i \in Int OBVIOUS
  <2>2. j < k => ~(k <= j) /\ \A i \in S : i <= j => i <= k BY <2>1
  <2>3. k <= k BY <2>1
  <2> QED BY <2>2, <2>3
<1> HIDE DEF Upto
<1>4. \A n \in S : IsFiniteSet(Upto(n)) /\ Cardinality(Upto(n)) \in Nat /\ Cardinality(Upto(n)) <= Cardinality(S)
  BY <1>1, <1>2, FS_Subset, FS_CardinalityType
<1>5. Cardinality(Upto(k)) # 0 BY <1>2, <1>4, FS_EmptySet
<1>6. ASSUME j < k PROVE Cardinality(Upto(j)) < Cardinality(Upto(k))
  <2>1. Cardinality(Upto(j) \cup {k}) = Cardinality(Upto(j)) + 1 BY <1>3, <1>4, <1>6, FS_AddElement
  <2>2. Cardinality(Upto(j) \cup {k}) <= Cardinality(Upto(k)) BY <1>3, <1>4, <1>6, FS_Subset
  <2> QED BY <1>4, <2>1, <2>2
<1>7. Cardinality(Upto(k)) \in 1..Cardinality(S) BY <1>1, <1>4, <1>5
<1> QED BY <1>6, <1>7 DEF Upto

LEMMA KeepOnlyPlaces ==
  ASSUME NEW T, NEW list \in Seq(T), NEW S \in SUBSET (1..Len(list)), NEW kept, kept = KeepOnly(list, S)
  PROVE  \E a \in [1..Len(kept) -> S] :
           /\ \A n \in 1..Len(kept) : kept[n] = list[a[n]]
           /\ \A n, p \in 1..Len(kept) : a[n] < a[p] => n < p
           /\ \A n, p \in 1..Len(kept) : a[n] = a[p] => n = p
           /\ \A k \in S : \E n \in 1..Len(kept) : a[n] = k
<1> DEFINE N == Cardinality(S)
           rank(k) == Cardinality({j \in S : j <= k})
           a == [n \in 1..N |-> CHOOSE k \in S : rank(k) = n]
<1>1. Len(list) \in Nat OBVIOUS
<1>2. N \in Nat
  <2>1. IsFiniteSet(1..Len(list)) BY <1>1, FS_Interval
  <2> QED BY <2>1, FS_Subset, FS_CardinalityType
<1>3. \A n \in 1..N : \E k \in S : rank(k) = n BY <1>1, RankExists
<1>4. \A j, k \in S : rank(k) \in 1..N /\ (j < k => rank(j) < rank(k)) BY <1>1, RankGrows
<1>5. kept = [n \in 1..N |-> list[CHOOSE k \in S : rank(k) = n]] BY DEF KeepOnly
<1>6. \A k \in S : k \in Nat BY <1>1
<1> HIDE DEF rank, N
<1>7. Len(kept) = N BY <1>2, <1>5
<1>8. \A n \in 1..N : a[n] \in S /\ rank(a[n]) = n BY <1>3
<1>9. \A n \in 1..N : kept[n] = list[a[n]] BY <1>5
<1>10. a \in [1..N -> S] BY <1>8
<1> HIDE DEF a
<1>11. \A n, p \in 1..N : (a[n] < a[p] => n < p) /\ (a[n] = a[p] => n = p) BY <1>4, <1>8
<1>12. ASSUME NEW k \in S PROVE \E n \in 1..N : a[n] = k
  <2>1. PICK n \in 1..N : n = rank(k) BY <1>4
  <2>2. PICK j \in S : j = a[n] /\ rank(j) = rank(k) BY <1>8, <2>1
  <2>3. rank(j) \in 1..N /\ rank(k) \in 1..N /\ (j < k => rank(j) < rank(k)) /\ (k < j => rank(k) < rank(j)) BY <1>4
  <2>4. ~(j < k) /\ ~(k < j) BY <1>2, <2>2, <2>3
  <2>5. j = k BY <1>6, <2>4
  <2> QED BY <2>2, <2>5
<1> QED BY <1>7, <1>9, <1>10, <1>11, <1>12

\* Instruction n of the new code of b is instruction at[b][n] of the old, and
\* what is left out is not used.
Trims(at) ==
  \A b \in Block :
    /\ \A n \in 1..Len(code'[b]) : at[b][n] \in 1..Len(code[b]) /\ code'[b][n] = code[b][at[b][n]]
    /\ \A n, p \in 1..Len(code'[b]) : (at[b][n] < at[b][p] => n < p) /\ (at[b][n] = at[b][p] => n = p)
    /\ \A k \in 1..Len(code[b]) : Unused(code[b][k]) \/ \E n \in 1..Len(code'[b]) : at[b][n] = k

LEMMA TrimDefined ==
  ASSUME NEW at, Trims(at), func_' = func_, NEW x, Used(x) \/ Stacked(x), NEW b \in Block, NEW n, Defined(x, b, n),
         NEW m, \A l \in 1..Len(code'[b]) : at[b][l] < n => l < m
  PROVE  Defined(x, b, m)'
<1>0. CASE x \in Literal BY <1>0 DEF Defined
<1>1. CASE x \notin Literal
  <2>1. PICK c \in Block : \E k \in 1..Len(code[c]) : code[c][k].id = x /\ IF c = b THEN k < n ELSE Dom(c, b)
    BY <1>1 DEF Defined
  <2>2. PICK k \in 1..Len(code[c]) : code[c][k].id = x /\ IF c = b THEN k < n ELSE Dom(c, b) BY <2>1
  <2>3. ~Unused(code[c][k]) BY <2>2 DEF Unused
  <2>4. PICK l \in 1..Len(code'[c]) : at[c][l] = k BY <2>3 DEF Trims
  <2>5. code'[c][l].id = x BY <2>2, <2>4 DEF Trims
  <2>6. IF c = b THEN l < m ELSE Dom(c, b) BY <2>2, <2>4
  <2> QED BY <2>5, <2>6 DEF Defined, Dom
<1> QED BY <1>0, <1>1

LEMMA TrimValues ==
  ASSUME TypeOK, TypeOK', IdsKnown, OperandsKnown, NEW at, Trims(at), UNCHANGED <<func_, bb_has_var_phi>>
  PROVE  IdsKnown' /\ OperandsKnown' /\ \A x : Used(x)' => Used(x)
<1>1. Live' = Live /\ Live \subseteq Block BY LiveBlocks DEF Live, TypeOK
<1>2. \A b \in Block : \A n \in 1..Len(code'[b]) : at[b][n] \in 1..Len(code[b]) /\ code'[b][n] = code[b][at[b][n]]
  BY DEF Trims
<1>3. MadeOnce'
  <2> SUFFICES ASSUME NEW b \in Block, NEW c \in Block, NEW k \in 1..Len(code'[b]), NEW l \in 1..Len(code'[c]),
                      code'[b][k].id = code'[c][l].id, code'[b][k].id # NoId
               PROVE  b = c /\ k = l
    BY DEF MadeOnce
  <2>1. PICK p, q : p = at[b][k] /\ q = at[c][l] OBVIOUS
  <2>2. /\ p \in 1..Len(code[b]) /\ code'[b][k] = code[b][p]
        /\ q \in 1..Len(code[c]) /\ code'[c][l] = code[c][q]
    BY <1>2, <2>1
  <2>3. b = c /\ p = q BY <2>2 DEF IdsKnown, MadeOnce
  <2> QED BY <2>1, <2>3 DEF Trims
<1>4. ASSUME NEW b \in Block, NEW k \in 1..Len(code'[b]) PROVE Made(b, code[b][k])'
  <2>1. Made(b, code[b][at[b][k]]) BY <1>2 DEF IdsKnown
  <2> QED BY <1>2, <2>1 DEF Made, NoPhiId, IsPhi
<1>5. IdsKnown' BY <1>3, <1>4 DEF IdsKnown
<1>6. ASSUME NEW x, Used(x)' PROVE Used(x)
  <2>1. PICK b \in Live : \E k \in 1..Len(code'[b]) : \E j \in 1..Len(code'[b][k].args) : code'[b][k].args[j] = x
    BY <1>1, <1>6 DEF Used
  <2>2. PICK k \in 1..Len(code'[b]) : \E j \in 1..Len(code'[b][k].args) : code'[b][k].args[j] = x BY <2>1
  <2>3. PICK q : q = at[b][k] /\ q \in 1..Len(code[b]) /\ code'[b][k] = code[b][q] BY <1>1, <1>2
  <2> QED BY <2>2, <2>3 DEF Used
<1>7. ASSUME NEW b \in Live, NEW k \in 1..Len(code'[b]), NEW j \in 1..Len(code'[b][k].args)
      PROVE  Reaches(b, k, code[b][k], j)'
  <2>0. b \in Block BY <1>1
  <2>1. PICK q \in 1..Len(code[b]) : q = at[b][k] /\ code'[b][k] = code[b][q] BY <1>2, <2>0
  <2>2. PICK i, a, f : i = code[b][q] /\ a = i.args[j] /\ f = i.from[j] OBVIOUS
  <2>3. Used(a) BY <1>7, <2>1, <2>2 DEF Used
  <2>4. Reaches(b, q, i, j) BY <1>7, <2>1, <2>2 DEF OperandsKnown
  <2>5. CASE IsPhi(i)
    <3>1. f \in Block
      <4>1. code[b] \in Seq(KnownInstr) BY <2>0 DEF TypeOK
      <4>2. i \in KnownInstr BY <2>2, <4>1
      <4>3. i.from \in Seq(Block) BY <4>2 DEF KnownInstr, Instr
      <4>4. Len(i.args) = Len(i.from) BY <2>0, <2>2, <2>5 DEF IdsKnown, Made
      <4> QED BY <1>7, <2>1, <2>2, <4>3, <4>4
    <3>2. PICK n, m : n = Len(code[f]) + 1 /\ m = Len(code'[f]) + 1 OBVIOUS
    <3>3. Defined(a, f, n) BY <2>2, <2>4, <2>5, <3>2 DEF Reaches
    <3>4. \A l \in 1..Len(code'[f]) : l < m
      <4>1. code'[f] \in Seq(KnownInstr) BY <3>1 DEF TypeOK
      <4> QED BY <3>2, <4>1
    <3>5. Defined(a, f, m)' BY <2>3, <3>1, <3>3, <3>4, TrimDefined
    <3> QED BY <2>1, <2>2, <2>5, <3>2, <3>5 DEF Reaches, IsPhi, Defined, Dom
  <2>6. CASE ~IsPhi(i)
    <3>1. Defined(a, b, q) BY <2>2, <2>4, <2>6 DEF Reaches
    <3>2. \A l \in 1..Len(code'[b]) : at[b][l] < q => l < k BY <2>0, <2>1 DEF Trims
    <3>3. Defined(a, b, k)' BY <2>0, <2>3, <3>1, <3>2, TrimDefined
    <3> QED BY <2>1, <2>2, <2>6, <3>3 DEF Reaches, IsPhi, Defined, Dom
  <2> QED BY <2>5, <2>6
<1>8. OperandsKnown' BY <1>1, <1>7 DEF OperandsKnown
<1> QED BY <1>5, <1>6, <1>8

LEMMA HeightGrows ==
  ASSUME TypeOK, NEW v, NEW m \in 0..Len(calls), NEW n \in 0..m
  PROVE  Height(n, v) <= Height(m, v)
<1> DEFINE old(k) == PushedAt(k, v)
<1>1. PushedBy(v) = UNION {{<<k, j>> : j \in old(k)} : k \in 1..Len(calls)} /\ IsFiniteSet(PushedBy(v))
  BY PushedPlaces
<1>2. /\ PushedUpTo(n, v) = UNION {{<<k, j>> : j \in old(k)} : k \in 1..n}
      /\ PushedUpTo(m, v) = UNION {{<<k, j>> : j \in old(k)} : k \in 1..m}
  BY DEF PushedUpTo
<1>3. Len(calls) \in Nat BY DEF TypeOK
<1>4. (\A k \in 1..n : k \in 1..m) /\ \A k \in 1..m : k \in 1..Len(calls) BY <1>3
<1> HIDE DEF old
<1>5. PushedUpTo(n, v) \in SUBSET PushedUpTo(m, v) /\ PushedUpTo(m, v) \in SUBSET PushedBy(v) BY <1>1, <1>2, <1>4
<1> QED BY <1>1, <1>5, FS_Subset DEF Height

\* The return of a call: the stacks are what they were when it began.
LEMMA ReturnStacks ==
  ASSUME PlaceInv, TypeOK', CallInv, CallInv', Return
  PROVE  \A n \in 1..Len(calls') : \A v \in Var :
           /\ Height(n, v)' = Height(n, v)
           /\ \A j \in 1..Height(n, v) : j \in 1..Len(var_val_stack'[v])
<1> USE DEF placing
<1>1. /\ TypeOK /\ UNCHANGED <<func_, bb_has_var_phi, keys>> /\ top.left = {}
      /\ calls # <<>> /\ calls' = SubSeq(calls, 1, Len(calls) - 1)
      /\ code' = [code EXCEPT ![top.bb] = KeepOnly(@, (1..Len(@)) \ top.wait_delete)]
      /\ Chain /\ StacksKnown' /\ code \in [Block -> Seq(KnownInstr)]
  BY DEF Return, PlaceInv, CallInv, TypeOK
<1>2. PICK l : l = Len(calls) OBVIOUS
<1>3. /\ top.bb \notin Open' /\ Len(calls') = l - 1 /\ l \in Nat /\ 1 <= l
      /\ \A n \in 1..(l - 1) : calls'[n] = calls[n]
  BY <1>1, <1>2, ReturnChain
<1>4. \A n \in 1..(l - 1) : n \in 1..l /\ n \in 0..(l - 1) /\ l - 1 \in 0..l BY <1>3
<1>5. \A n \in 1..(l - 1) : code'[calls[n].bb] = code[calls[n].bb]
  <2> TAKE n \in 1..(l - 1)
  <2>1. calls[n].bb \in Block
    <3>1. \A m \in 1..l : calls[m] \in CallRecord BY <1>1, <1>2 DEF TypeOK
    <3> QED BY <1>4, <3>1 DEF CallRecord
  <2>2. calls[n].bb \in Open' BY <1>3 DEF Open
  <2> QED BY <1>1, <1>3, <2>1, <2>2
<1>6. ASSUME NEW n \in 1..(l - 1), NEW v \in Var
      PROVE  Height(n, v)' = Height(n, v) /\ \A j \in 1..Height(n, v) : j \in 1..Len(var_val_stack'[v])
  <2>1. \A m \in 1..n : m \in 1..(l - 1) BY <1>3
  <2>2. \A m \in 1..n : PushedAt(m, v)' = PushedAt(m, v)
    <3> TAKE m \in 1..n
    <3>1. calls'[m] = calls[m] /\ code'[calls[m].bb] = code[calls[m].bb] BY <1>3, <1>5, <2>1
    <3> QED BY <3>1 DEF PushedAt, Pushed
  <2>3. Height(n, v)' = Height(n, v) BY <2>2, HeightSame
  <2>4. Len(var_val_stack'[v]) = Height(l - 1, v)
    <3>1. PushedBy(v)' = PushedUpTo(l - 1, v)
      BY <1>1, <1>2, <1>3, <1>4, <1>5, PushedPrefix DEF PushedUpTo
    <3>2. Len(var_val_stack'[v]) = Cardinality(PushedBy(v)') BY <1>1 DEF StacksKnown
    <3> QED BY <3>1, <3>2 DEF Height
  <2>5. Height(n, v) <= Height(l - 1, v) BY <1>1, <1>2, <1>4, HeightGrows
  <2>6. Height(n, v) \in Nat /\ Height(l - 1, v) \in Nat
    <3>1. n \in 0..l /\ l - 1 \in 0..l BY <1>3
    <3> QED BY <1>1, <1>2, <3>1, HeightParts
  <2> QED BY <2>3, <2>4, <2>5, <2>6
<1> QED BY <1>3, <1>6

\* The places a return keeps: those of the block it leaves that it has not
\* collected for deletion, and all others.
LEMMA ReturnTrims ==
  ASSUME PlaceInv, CallInv, GoneKnown, Return
  PROVE  \E at : Trims(at) /\ \A b \in Block : b # top.bb => code'[b] = code[b] /\ \A n \in 1..Len(code[b]) : at[b][n] = n
<1>1. /\ TypeOK /\ calls # <<>> /\ calls \in Seq(CallRecord) /\ code \in [Block -> Seq(KnownInstr)]
      /\ code' = [code EXCEPT ![top.bb] = KeepOnly(@, (1..Len(@)) \ top.wait_delete)]
  BY DEF Return, PlaceInv, TypeOK
<1>2. PICK t, S : t = top.bb /\ S = (1..Len(code[t])) \ top.wait_delete OBVIOUS
<1>3. t \in Block /\ Len(calls) \in 1..Len(calls) BY <1>1, <1>2, TopCall
<1>4. code'[t] = KeepOnly(code[t], S) /\ \A b \in Block : b # t => code'[b] = code[b] BY <1>1, <1>2, <1>3
<1>5. code[t] \in Seq(KnownInstr) /\ S \in SUBSET (1..Len(code[t])) BY <1>1, <1>2, <1>3
<1>6. PICK a \in [1..Len(code'[t]) -> S] :
           /\ \A n \in 1..Len(code'[t]) : code'[t][n] = code[t][a[n]]
           /\ \A n, p \in 1..Len(code'[t]) : a[n] < a[p] => n < p
           /\ \A n, p \in 1..Len(code'[t]) : a[n] = a[p] => n = p
           /\ \A k \in S : \E n \in 1..Len(code'[t]) : a[n] = k
  BY <1>4, <1>5, KeepOnlyPlaces, SMTT(30)
<1>7. \A k \in top.wait_delete : Unused(code[t][k]) BY <1>2, <1>3 DEF GoneKnown, top
<1> DEFINE at == [b \in Block |-> IF b = t THEN a ELSE [n \in 1..Len(code[b]) |-> n]]
<1>8. at[t] = a /\ \A b \in Block : b # t => \A n \in 1..Len(code[b]) : at[b][n] = n BY <1>3
<1> HIDE DEF at
<1>9. Trims(at)
  <2> SUFFICES ASSUME NEW b \in Block
               PROVE  /\ \A n \in 1..Len(code'[b]) : at[b][n] \in 1..Len(code[b]) /\ code'[b][n] = code[b][at[b][n]]
                      /\ \A n, p \in 1..Len(code'[b]) : (at[b][n] < at[b][p] => n < p) /\ (at[b][n] = at[b][p] => n = p)
                      /\ \A k \in 1..Len(code[b]) : Unused(code[b][k]) \/ \E n \in 1..Len(code'[b]) : at[b][n] = k
    BY DEF Trims
  <2>1. CASE b = t
    <3>1. \A n \in 1..Len(code'[t]) : a[n] \in 1..Len(code[t]) BY <1>5, <1>6
    <3>2. \A k \in 1..Len(code[t]) : k \in S \/ k \in top.wait_delete BY <1>2
    <3> QED BY <1>6, <1>7, <1>8, <2>1, <3>1, <3>2
  <2>2. CASE b # t BY <1>4, <1>8, <2>2
  <2> QED BY <2>1, <2>2
<1> QED BY <1>2, <1>4, <1>8, <1>9

LEMMA ValuesReturn ==
  ASSUME PlaceInv, TypeOK', CallInv, CallInv', ValuesInv, Return PROVE ValuesInv'
<1> USE DEF placing
<1>1. /\ TypeOK /\ UNCHANGED <<func_, bb_has_var_phi>> /\ top.left = {} /\ func_ \in Functions
      /\ calls # <<>> /\ calls' = SubSeq(calls, 1, Len(calls) - 1)
      /\ var_val_stack' = [v \in Var |->
           SubSeq(var_val_stack[v], 1, Len(var_val_stack[v]) - Pops(top.bb, v))]
      /\ Chain /\ Progress /\ StacksKnown /\ IdsKnown /\ OperandsKnown /\ GoneKnown /\ StackValues
  BY DEF Return, PlaceInv, CallInv, ValuesInv, TypeOK
<1>2. PICK l, t : l = Len(calls) /\ t = top.bb OBVIOUS
<1>3. /\ t \in Live /\ t \notin Open' /\ Len(calls') = l - 1 /\ l \in Nat /\ 1 <= l
      /\ \A n \in 1..(l - 1) : calls'[n] = calls[n]
  BY <1>1, <1>2, ReturnChain
<1>4. PICK at : Trims(at) /\ \A b \in Block : b # t => code'[b] = code[b] /\ \A n \in 1..Len(code[b]) : at[b][n] = n
  BY <1>1, <1>2, ReturnTrims
<1>5. IdsKnown' /\ OperandsKnown' /\ \A x : Used(x)' => Used(x) BY <1>1, <1>4, TrimValues
<1>6. \A n \in 1..(l - 1) : n \in 1..l BY <1>3
<1>7. ASSUME NEW n \in 1..(l - 1)
      PROVE  /\ calls[n].bb \in Live /\ calls[n].bb \in Block /\ calls'[n] = calls[n]
             /\ code'[calls[n].bb] = code[calls[n].bb] /\ \A k \in 1..Len(code[calls[n].bb]) : at[calls[n].bb][k] = k
  <2>1. calls[n].bb \in Live /\ calls[n].bb \in Block BY <1>1, <1>2, <1>6, LiveBlocks DEF Chain
  <2>2. calls[n].bb \in Open' /\ calls'[n] = calls[n] BY <1>3 DEF Open
  <2> QED BY <1>3, <1>4, <2>1, <2>2
<1>8. \A v \in Var : \A j \in 1..Len(var_val_stack'[v]) :
        j \in 1..Len(var_val_stack[v]) /\ var_val_stack'[v][j] = var_val_stack[v][j]
  <2> TAKE v \in Var
  <2>1. var_val_stack[v] \in Seq(Operand) BY <1>1 DEF TypeOK
  <2>2. Pops(t, v) \in Nat
    <3>1. t \in Block BY <1>1, <1>3, LiveBlocks
    <3> QED BY <1>1, <3>1, PopsNat
  <2>3. PICK s, m : s = var_val_stack[v] /\ m = Len(s) - Pops(t, v) OBVIOUS
  <2>4. m \in Int /\ m <= Len(s) /\ s \in Seq(Operand) BY <2>1, <2>2, <2>3
  <2>5. var_val_stack'[v] = SubSeq(s, 1, m) BY <1>1, <1>2, <2>3
  <2>6. \A j \in 1..Len(SubSeq(s, 1, m)) : j \in 1..Len(s) /\ SubSeq(s, 1, m)[j] = s[j] BY <2>4
  <2> QED BY <2>3, <2>5, <2>6
<1>9. \A x : Stacked(x)' => Stacked(x) BY <1>8 DEF Stacked
<1>10. GoneKnown'
  <2>1. ASSUME NEW n \in 1..(l - 1), NEW k \in calls[n].wait_delete PROVE Unused(code[calls[n].bb][k])'
    <3>1. PICK i : i = code[calls[n].bb][k] OBVIOUS
    <3>2. Unused(i) BY <1>1, <1>2, <1>6, <3>1 DEF GoneKnown
    <3>3. ~Used(i.id)' /\ ~Stacked(i.id)' BY <1>5, <1>9, <3>2 DEF Unused
    <3>4. code'[calls'[n].bb][k] = i BY <1>7, <3>1
    <3> QED BY <3>2, <3>3, <3>4 DEF Unused, IsPhi, Used, Stacked
  <2> QED BY <1>3, <2>1 DEF GoneKnown
<1>11. \A n \in 1..(l - 1) : \A v \in Var :
         /\ Height(n, v)' = Height(n, v)
         /\ \A j \in 1..Height(n, v) : j \in 1..Len(var_val_stack'[v])
  BY <1>1, <1>3, ReturnStacks
<1>12. ASSUME NEW v \in Var, NEW n \in 1..(l - 1), NEW j \in 1..Height(n, v)
       PROVE  Held(var_val_stack[v][j], calls[n].bb, calls[n].ip)'
  <2>1. PICK x, b, m : x = var_val_stack[v][j] /\ b = calls[n].bb /\ m = calls[n].ip OBVIOUS
  <2>2. Held(x, b, m) BY <1>1, <1>2, <1>6, <2>1 DEF StackValues
  <2>3. j \in 1..Len(var_val_stack[v]) /\ var_val_stack'[v][j] = x /\ Stacked(x) BY <1>8, <1>11, <2>1 DEF Stacked
  <2>4. b \in Block /\ code'[b] = code[b] /\ \A k \in 1..Len(code[b]) : at[b][k] = k BY <1>7, <2>1
  <2>5. Held(x, b, m)'
    <3>1. CASE Defined(x, b, m)
      <4>1. \A k \in 1..Len(code'[b]) : at[b][k] < m => k < m BY <2>4
      <4>2. Defined(x, b, m)' BY <1>1, <1>4, <2>3, <2>4, <3>1, <4>1, TrimDefined
      <4> QED BY <4>2 DEF Held
    <3>2. CASE \E k \in PhisOf(b) : code[b][k].id = x BY <2>4, <3>2 DEF Held, PhisOf
    <3> QED BY <2>2, <3>1, <3>2 DEF Held
  <2>6. calls'[n].bb = b /\ calls'[n].ip = m BY <1>7, <2>1
  <2> QED BY <2>3, <2>5, <2>6 DEF Held, Defined, Dom, PhisOf
<1>13. StackValues' BY <1>3, <1>11, <1>12 DEF StackValues
<1> QED BY <1>5, <1>10, <1>13 DEF ValuesInv

LEMMA ValuesRemoveAlloca ==
  ASSUME PlaceInv, TypeOK', ValuesInv, RemoveAlloca PROVE ValuesInv'
<1> USE DEF placing
<1>1. /\ TypeOK /\ UNCHANGED <<func_, bb_has_var_phi>> /\ calls' = <<>>
      /\ code' = [b \in Block |->
           KeepOnly(code[b], {k \in 1..Len(code[b]) : ~(code[b][k].op = "alloca" /\ code[b][k].loc \in Var)})]
      /\ code \in [Block -> Seq(KnownInstr)] /\ IdsKnown /\ OperandsKnown
  BY DEF RemoveAlloca, PlaceInv, ValuesInv, TypeOK
<1> DEFINE S(b) == {k \in 1..Len(code[b]) : ~(code[b][k].op = "alloca" /\ code[b][k].loc \in Var)}
           Places(b, a) ==
             /\ \A n \in 1..Len(code'[b]) : a[n] \in 1..Len(code[b]) /\ code'[b][n] = code[b][a[n]]
             /\ \A n, p \in 1..Len(code'[b]) : (a[n] < a[p] => n < p) /\ (a[n] = a[p] => n = p)
             /\ \A k \in 1..Len(code[b]) : Unused(code[b][k]) \/ \E n \in 1..Len(code'[b]) : a[n] = k
           at == [b \in Block |-> CHOOSE a : Places(b, a)]
<1>2. ASSUME NEW b \in Block PROVE \E a : Places(b, a)
  <2>1. code'[b] = KeepOnly(code[b], S(b)) /\ code[b] \in Seq(KnownInstr) BY <1>1
  <2>2. S(b) \in SUBSET (1..Len(code[b])) OBVIOUS
  <2>3. \A k \in 1..Len(code[b]) : k \in S(b) \/ Unused(code[b][k])
    <3> SUFFICES ASSUME NEW k \in 1..Len(code[b]), k \notin S(b) PROVE Unused(code[b][k]) OBVIOUS
    <3>1. code[b][k].op = "alloca" OBVIOUS
    <3>2. code[b][k].id = NoId BY <1>1, <3>1 DEF IdsKnown, Made
    <3>3. ~Used(NoId) /\ ~Stacked(NoId) BY <1>1, NoIdUnused
    <3> QED BY <3>1, <3>2, <3>3 DEF Unused, IsPhi
  <2> HIDE DEF S
  <2>4. PICK a \in [1..Len(code'[b]) -> S(b)] :
           /\ \A n \in 1..Len(code'[b]) : code'[b][n] = code[b][a[n]]
           /\ \A n, p \in 1..Len(code'[b]) : a[n] < a[p] => n < p
           /\ \A n, p \in 1..Len(code'[b]) : a[n] = a[p] => n = p
           /\ \A k \in S(b) : \E n \in 1..Len(code'[b]) : a[n] = k
    BY <2>1, <2>2, KeepOnlyPlaces
  <2>5. \A n \in 1..Len(code'[b]) : a[n] \in 1..Len(code[b]) BY <2>2, <2>4
  <2>6. Places(b, a) BY <2>3, <2>4, <2>5
  <2> QED BY <2>6
<1>3. Trims(at)
  <2>1. ASSUME NEW b \in Block PROVE Places(b, at[b])
    <3>1. PICK a : a = at[b] OBVIOUS
    <3>2. a = CHOOSE c : Places(b, c) BY <3>1
    <3> HIDE DEF Places, at
    <3>3. Places(b, a) BY <1>2, <3>2
    <3> QED BY <3>1, <3>3
  <2> HIDE DEF at
  <2> QED BY <2>1 DEF Trims
<1>4. IdsKnown' /\ OperandsKnown'
  <2> HIDE DEF at
  <2> QED BY <1>1, <1>3, TrimValues
<1>5. Len(calls') = 0 /\ 1..0 = {} BY <1>1
<1>6. GoneKnown' /\ StackValues' BY <1>5 DEF GoneKnown, StackValues
<1> QED BY <1>4, <1>6 DEF ValuesInv

-----------------------------------------------------------------------------
LEMMA ValuesNext ==
  ASSUME PlaceInv, TypeOK', CallInv, CallInv', PhisKnown, ValuesInv, [Next]_vars PROVE ValuesInv'
<1> USE DEF placing
<1>1. TypeOK BY DEF PlaceInv
<1>2. CASE FindLiveVars BY <1>1, <1>2, ValuesQuiet DEF FindLiveVars
<1>3. CASE NextVar BY <1>1, <1>3, ValuesQuiet DEF NextVar
<1>4. CASE PlacePhis
  <2>1. IdsKnown' /\ OperandsKnown' BY <1>4, ValuesPlacePhis DEF ValuesInv
  <2>2. Len(calls') = 0 /\ 1..0 = {} BY <1>4 DEF PlacePhis, PlaceInv, Phases
  <2>3. GoneKnown' /\ StackValues' BY <2>2 DEF GoneKnown, StackValues
  <2> QED BY <2>1, <2>3 DEF ValuesInv
<1>5. CASE VarDone BY <1>1, <1>5, ValuesQuiet DEF VarDone
<1>6. CASE StartRename BY <1>6, ValuesStartRename
<1>7. CASE PushPhis BY <1>7, ValuesPushPhis
<1>8. CASE RenameLoad BY <1>8, ValuesRenameLoad
<1>9. CASE RenameStore BY <1>9, ValuesRenameStore
<1>10. CASE KeepInstr BY <1>10, ValuesKeepInstr
<1>11. CASE FillPhis BY <1>11, ValuesFillPhis
<1>12. CASE Descend BY <1>12, ValuesDescend
<1>13. CASE Return BY <1>13, ValuesReturn
<1>14. CASE RemoveAlloca BY <1>14, ValuesRemoveAlloca
<1>15. CASE UNCHANGED vars BY <1>1, <1>15, ValuesQuiet DEF vars
<1> QED BY <1>2, <1>3, <1>4, <1>5, <1>6, <1>7, <1>8, <1>9, <1>10, <1>11, <1>12, <1>13, <1>14, <1>15 DEF Next

\* At every step of the pass what an instruction uses is made above it on every
\* path, so it is when the allocas are gone; a function whose locals are all
\* assigned before they are read is left without a load or store of them.
THEOREM CodeIsInSSAForm == Spec => []SSAForm
<1>1. Init => PhisKnown /\ ValuesInv BY PhisInit, ValuesInit
<1>2. PlaceInv /\ PlaceInv' /\ CallInv /\ CallInv' /\ PhisKnown /\ ValuesInv /\ [Next]_vars => PhisKnown' /\ ValuesInv'
  BY PhisNext, ValuesNext DEF PlaceInv
<1>3. PlaceInv /\ UsesLeft /\ ValuesInv => SSAForm
  <2> SUFFICES ASSUME PlaceInv, UsesLeft, ValuesInv, pc = "done", WellInitialised
               PROVE  NoUseOfAlloca /\ OperandsDominate(code, Literal, func_.succ, func_.entry)
    BY DEF SSAForm
  <2>1. OperandsDominate(code, Literal, func_.succ, func_.entry)
    BY OperandsAre DEF ValuesInv, PlaceInv
  <2>2. NoUseOfAlloca
    <3> SUFFICES ASSUME NEW b \in func_.blocks, NEW k \in 1..Len(code[b]),
                        code[b][k].op \in {"load", "store"}, code[b][k].loc \in Var
                 PROVE  FALSE
      BY DEF NoUseOfAlloca
    <3>1. PICK i : i = code[b][k] OBVIOUS
    <3>2. b \in Live BY DEF WellInitialised
    <3>3. PICK n \in 1..LastOf(b) : func_.code[b][n] = i /\ i.op = "load" /\ ~AssignedAt(b, n, i.loc)
      BY <3>1, <3>2 DEF UsesLeft
    <3>4. AssignedAt(b, n, i.loc) BY <3>1, <3>3 DEF WellInitialised
    <3> QED BY <3>3, <3>4
  <2> QED BY <2>1, <2>2
<1> QED BY <1>1, <1>2, <1>3, RenamingInvariant, UsesLeftAreUnassigned, PTL DEF Spec
=============================================================================
