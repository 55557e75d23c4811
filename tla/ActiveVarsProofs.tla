-------------------------- MODULE ActiveVarsProofs --------------------------
(***************************************************************************)
(* Proofs about ActiveVars for every module, block list and set of values. *)
(*                                                                         *)
(* The result is ImplementsLiveVariables: what is printed for a function   *)
(* is the least solution of its equations.  It rests on five invariants.   *)
(* TypeOK.  Scanned says that the tables are those of the code gone        *)
(* through.  Ascending says that every equation would only enlarge         *)
(* live_in, so no visit loses a variable.  SweptBlocksAreSolved says that  *)
(* the blocks a quiet sweep has passed satisfy their equations, and        *)
(* FixpointAtExit that all do when the loop is left.  BelowEverySolution   *)
(* keeps live_in below every map closed under the equations of the code.   *)
(* LeastIsLiveness is about the code alone: its least solution is liveness *)
(* on paths.  So PrintedIsLiveness holds too.                              *)
(***************************************************************************)
EXTENDS ActiveVars, FlowGraphProofs, TLAPS

\* Every equation would only add to the live_in that stands.
Ascending ==
  pc \in {"while", "sweep"} =>
    \A b \in Block : live_in[b] \subseteq InOf(live_in, b)

\* The equations of block b hold for the sets that stand.
Solved(b) == live_out[b] = OutOf(live_in, b) /\ live_in[b] = InOf(live_in, b)

\* While a sweep has found nothing to change, the blocks it has passed satisfy
\* both data-flow equations for the live_in that now stands: a sweep that ends
\* with isChanged false has checked all of them against one and the same map.
SweptBlocksAreSolved ==
  pc = "sweep" /\ ~isChanged =>
    \A k \in 1..(at-1) : Solved(func_.blocks[k])

\* The equations hold for the whole function when the loop is left.
FixpointAtExit ==
  pc = "while" /\ ~isChanged => \A b \in BlocksOf(func_) : Solved(b)

\* During the sweeps live_in only grows: VisitBlock clears the set and
\* refills it, and no variable gets lost on the way.
LiveInGrows ==
  [][pc = "sweep" => \A b \in Block : live_in[b] \subseteq live_in'[b]]_vars

IInv == TypeOK /\ Ascending /\ SweptBlocksAreSolved /\ FixpointAtExit

\* The tables of block b are those of its code.  A variable that is used
\* above its definition may be missing in live_def: it is in live_use.
TableOf(b) ==
  /\ live_use[b] = Use(func_, b)
  /\ live_def[b] \subseteq Def(func_, b)
  /\ Def(func_, b) \subseteq live_def[b] \cup live_use[b]

\* What the phis gone through read on the edges out of b.
PhiSeen(b) ==
  {v \in Var :
     \/ \E k \in 1..(at - 1) : \E j \in 1..Len(func_.code[func_.blocks[k]]) :
          v \in VarsFrom(func_.code[func_.blocks[k]][j], b)
     \/ at <= Len(func_.blocks) /\ \E j \in 1..(ip - 1) : v \in VarsFrom(func_.code[bb][j], b)}

\* Within block bb the first ip - 1 instructions are accounted for.
InBlock ==
  /\ ip \in 1..(Len(func_.code[bb]) + 1)
  /\ tmp_use = Exposed(func_.code[bb], ip - 1)
  /\ tmp_def \subseteq Defined(func_.code[bb], ip - 1)
  /\ Defined(func_.code[bb], ip - 1) \subseteq tmp_def \cup tmp_use

Scanned ==
  /\ pc # "function" => func_.blocks # <<>>
  /\ pc = "scan" =>
       /\ at \in 1..(Len(func_.blocks) + 1)
       /\ \A k \in 1..(at - 1) : TableOf(func_.blocks[k])
       /\ at <= Len(func_.blocks) => InBlock
       /\ \A b \in Block : phi_use[b] = PhiSeen(b)
  /\ pc \in {"while", "sweep"} =>
       \A b \in BlocksOf(func_) : TableOf(b) /\ phi_use[b] = PhiUse(func_, b)

\* live_in is below every map closed under the equations of the code.
BelowEverySolution == pc \in {"while", "sweep"} => BelowAll(func_, live_in)

-----------------------------------------------------------------------------
\* The head of a non-empty list of functions is a function with its tables.
LEMMA HeadIsFunction ==
  ASSUME TypeOK, m # <<>>
  PROVE  /\ func_ \in Function
         /\ func_.blocks \in Seq(Block)
         /\ func_.succ \in [Block -> SUBSET Block]
         /\ func_.code \in [Block -> Seq(Instr)]
         /\ BlocksOf(func_) \subseteq Block
         /\ \A b \in BlocksOf(func_) : func_.succ[b] \subseteq BlocksOf(func_)
         /\ Tail(m) \in Seq(Function)
<1>1. func_ \in Function /\ Tail(m) \in Seq(Function)
  BY DEF TypeOK, func_
<1>2. func_.blocks \in Seq(Block) BY <1>1 DEF Function
<1>3. BlocksOf(func_) \subseteq Block BY <1>2 DEF BlocksOf
<1>4. QED BY <1>1, <1>2, <1>3 DEF Function

\* The block a position within the list stands for is a block.
LEMMA CurrentBlock ==
  ASSUME TypeOK, m # <<>>, at <= Len(func_.blocks)
  PROVE  bb \in Block /\ bb \in BlocksOf(func_)
<1>1. func_.blocks \in Seq(Block) BY HeadIsFunction
<1>2. at \in 1..Len(func_.blocks) BY <1>1 DEF TypeOK
<1>3. QED BY <1>1, <1>2 DEF bb, BlocksOf

\* The map without entries.
LEMMA EmptyType == Empty \in [Block -> SUBSET Var]
BY DEF Empty

\* The operands the pass counts as read, and those it counts on an edge, are
\* the variables among the operands: labels and callees are passed over.
LEMMA ReadsAreVars ==
  ASSUME NEW i \in Instr
  PROVE  /\ Reads(i) \ Literal = VarsRead(i)
         /\ \A b \in Block : PhiReads(i, b) \ Literal = VarsFrom(i, b)
<1>1. i.ops \in Seq(Operand) /\ Len(i.ops) \in Nat BY DEF Instr
<1> USE OperandsAssumption
<1>2. CASE i.op = "phi"
  <2>1. Len(i.ops) % 2 = 0 BY <1>2 DEF Instr
  <2>2. \A k \in 1..Len(i.ops) :
          IF k % 2 = 1 THEN i.ops[k] \in Var \cup Literal ELSE i.ops[k] \in Block
    BY <1>2 DEF Instr
  <2>3. Reads(i) \ Literal = VarsRead(i) BY <1>2 DEF Reads, VarsRead
  <2>4. ASSUME NEW b \in Block, NEW v \in PhiReads(i, b) \ Literal
        PROVE  v \in VarsFrom(i, b)
    <3>1. PICK k \in 1..Len(i.ops) : k % 2 = 1 /\ i.ops[k+1] = b /\ v = i.ops[k]
      BY <1>2, <2>4 DEF PhiReads
    <3>2. k # Len(i.ops)
      <4> SUFFICES ASSUME k = Len(i.ops) PROVE FALSE OBVIOUS
      <4>1. k % 2 = Len(i.ops) % 2 OBVIOUS
      <4>2. 1 # 0 OBVIOUS
      <4>3. QED BY <2>1, <3>1, <4>1, <4>2, Zenon
    <3>3. k \in 1..(Len(i.ops) - 1) BY <1>1, <3>2
    <3>4. v \in Var BY <2>2, <2>4, <3>1
    <3>5. QED BY <1>2, <3>1, <3>3, <3>4 DEF VarsFrom
  <2>5. ASSUME NEW b \in Block, NEW v \in VarsFrom(i, b)
        PROVE  v \in PhiReads(i, b) \ Literal
    <3>1. PICK k \in 1..(Len(i.ops) - 1) : i.ops[k+1] = b /\ v = i.ops[k] /\ v \in Var
      BY <1>2, <2>5 DEF VarsFrom
    <3>2. k \in 1..Len(i.ops) BY <1>1
    <3>3. k % 2 = 1 BY <2>2, <3>1, <3>2
    <3>4. QED BY <1>2, <3>1, <3>2, <3>3 DEF PhiReads
  <2>6. QED BY <2>3, <2>4, <2>5
<1>3. CASE i.op = "br"
  <2>1. \A k \in 1..Len(i.ops) :
          IF k = 1 /\ Len(i.ops) = 3 THEN i.ops[k] \in Var \cup Literal ELSE i.ops[k] \in Block
    BY <1>3 DEF Instr
  <2>2. Reads(i) \ Literal = VarsRead(i)
    <3>1. CASE Len(i.ops) = 3 BY <1>3, <2>1, <3>1 DEF Reads, VarsRead
    <3>2. CASE Len(i.ops) # 3 BY <1>3, <2>1, <3>2 DEF Reads, VarsRead
    <3>3. QED BY <3>1, <3>2
  <2>3. QED BY <1>3, <2>2 DEF PhiReads, VarsFrom
<1>4. CASE i.op = "call"
  <2>1. \A k \in 1..Len(i.ops) :
          IF k = 1 THEN i.ops[k] \in Callee ELSE i.ops[k] \in Var \cup Literal
    BY <1>4 DEF Instr
  <2>2. Reads(i) = {i.ops[k] : k \in 2..Len(i.ops)} BY <1>4 DEF Reads
  <2>3. VarsRead(i) = Var \cap {i.ops[k] : k \in 1..Len(i.ops)} BY <1>4 DEF VarsRead
  <2>4. ASSUME NEW v \in VarsRead(i) PROVE v \in Reads(i) \ Literal
    <3>1. PICK k \in 1..Len(i.ops) : v = i.ops[k] /\ v \in Var BY <2>3, <2>4
    <3>2. k # 1 BY <2>1, <3>1
    <3>3. QED BY <1>1, <2>2, <3>1, <3>2
  <2>5. ASSUME NEW v \in Reads(i) \ Literal PROVE v \in VarsRead(i)
    <3>1. PICK k \in 2..Len(i.ops) : v = i.ops[k] BY <2>2, <2>5
    <3>2. v \in Var BY <1>1, <2>1, <2>5, <3>1
    <3>3. QED BY <1>1, <2>3, <3>1, <3>2
  <2>6. QED BY <1>4, <2>4, <2>5 DEF PhiReads, VarsFrom
<1>5. CASE i.op \notin {"phi", "br", "call"}
  <2>1. \A k \in 1..Len(i.ops) : i.ops[k] \in Var \cup Literal
    BY <1>5 DEF Instr
  <2>2. QED BY <1>5, <2>1 DEF Reads, PhiReads, VarsRead, VarsFrom
<1>6. QED BY <1>2, <1>3, <1>4, <1>5

\* The equations turn sets of operands into sets of operands.
LEMMA EquationsType ==
  ASSUME TypeOK, m # <<>>, NEW S \in [Block -> SUBSET Var], NEW b \in Block
  PROVE  OutOf(S, b) \subseteq Var /\ InOf(S, b) \subseteq Var
<1>1. func_.succ[b] \subseteq Block BY HeadIsFunction
<1>2. OutOf(S, b) \subseteq Var BY <1>1 DEF OutOf, TypeOK
<1>3. QED BY <1>2 DEF InOf, TypeOK

\* The equations are monotone.
LEMMA EquationsMonotone ==
  ASSUME TypeOK, m # <<>>,
         NEW S \in [Block -> SUBSET Var], NEW T \in [Block -> SUBSET Var],
         \A b \in Block : S[b] \subseteq T[b],
         NEW b \in Block
  PROVE  InOf(S, b) \subseteq InOf(T, b)
<1>1. func_.succ[b] \subseteq Block BY HeadIsFunction
<1>2. OutOf(S, b) \subseteq OutOf(T, b) BY <1>1 DEF OutOf
<1>3. QED BY <1>2 DEF InOf

-----------------------------------------------------------------------------
\* The initial states have the types.
LEMMA TypeInit == Init => TypeOK
<1> SUFFICES ASSUME Init PROVE TypeOK
  OBVIOUS
<1>1. m \in Seq(Function) BY ModulesAssumption DEF Init
<1>2. isChanged \in BOOLEAN BY Zenon DEF Init
<1>3. QED BY <1>1, <1>2, EmptyType DEF Init, TypeOK

\* TypeOK holds in every state of every run: the pass reads no position
\* outside its lists, and func_ exists whenever it works on it.
THEOREM TypeCorrect == Spec => []TypeOK
<1>1. Init => TypeOK BY TypeInit
<1>2. TypeOK /\ [Next]_vars => TypeOK'
  <2> SUFFICES ASSUME TypeOK, [Next]_vars PROVE TypeOK'
    OBVIOUS
  <2>1. CASE SkipDeclaration
    <3>1. Tail(m) \in Seq(Function) BY <2>1, HeadIsFunction DEF SkipDeclaration
    <3>2. QED BY <2>1, <3>1 DEF SkipDeclaration, TypeOK
  <2>2. CASE StartFunction
    BY <2>2, EmptyType DEF StartFunction, TypeOK
  <2>3. CASE ScanInstr
    <3>1. m # <<>> BY <2>3 DEF ScanInstr, TypeOK
    <3>2. bb \in Block BY <2>3, <3>1, CurrentBlock DEF ScanInstr
    <3>3. func_.code[bb] \in Seq(Instr) BY <3>1, <3>2, HeadIsFunction
    <3>4. ip \in 1..Len(func_.code[bb]) BY <2>3, <3>3 DEF ScanInstr, TypeOK
    <3>5. instr \in Instr BY <3>3, <3>4 DEF instr
    <3>6. instr.dst \in Var \cup {NoValue} BY <3>5 DEF Instr
    <3>7. tmp_use' \in SUBSET Var
      BY <2>3, <3>5, ReadsAreVars DEF ScanInstr, TypeOK, VarsRead
    <3>8. tmp_def' \in SUBSET Var
      BY <2>3, <3>6 DEF ScanInstr, TypeOK
    <3>9. phi_use' \in [Block -> SUBSET Var]
      BY <2>3, <3>5, ReadsAreVars DEF ScanInstr, TypeOK, VarsFrom
    <3>10. QED BY <2>3, <3>7, <3>8, <3>9 DEF ScanInstr, TypeOK
  <2>4. CASE EndOfBlock
    <3>1. m # <<>> BY <2>4 DEF EndOfBlock, TypeOK
    <3>2. bb \in Block BY <2>4, <3>1, CurrentBlock DEF EndOfBlock
    <3>3. QED BY <2>4, <3>2 DEF EndOfBlock, TypeOK
  <2>5. CASE StartIteration
    BY <2>5 DEF StartIteration, TypeOK
  <2>6. CASE StartSweep
    <3>1. isChanged' \in BOOLEAN BY <2>6, Zenon DEF StartSweep
    <3>2. QED BY <2>6, <3>1, EmptyType DEF StartSweep, TypeOK
  <2>7. CASE VisitBlock
    <3>1. m # <<>> BY <2>7 DEF VisitBlock, TypeOK
    <3>2. bb \in Block BY <2>7, <3>1, CurrentBlock DEF VisitBlock
    <3>3. live_in \in [Block -> SUBSET Var] BY DEF TypeOK
    <3>4. OutOf(live_in, bb) \subseteq Var /\ InOf(live_in, bb) \subseteq Var
      BY <3>1, <3>2, <3>3, EquationsType
    <3>5. isChanged' \in BOOLEAN BY <2>7 DEF VisitBlock, Changed, TypeOK
    <3>6. QED BY <2>7, <3>2, <3>4, <3>5 DEF VisitBlock, TypeOK
  <2>8. CASE EndOfSweep
    BY <2>8 DEF EndOfSweep, TypeOK
  <2>9. CASE PrintFunction
    <3>1. m # <<>> BY <2>9 DEF PrintFunction, TypeOK
    <3>2. Tail(m) \in Seq(Function) /\ func_ \in Function BY <3>1, HeadIsFunction
    <3>3. printed' \in Seq([func: Function, in: [Block -> SUBSET Var], out: [Block -> SUBSET Var]])
      BY <2>9, <3>2 DEF PrintFunction, TypeOK
    <3>4. QED BY <2>9, <3>2, <3>3 DEF PrintFunction, TypeOK
  <2>10. CASE UNCHANGED vars
    BY <2>10 DEF vars, TypeOK
  <2>11. QED
    BY <2>1, <2>2, <2>3, <2>4, <2>5, <2>6, <2>7, <2>8, <2>9, <2>10 DEF Next
<1>3. QED BY <1>1, <1>2, PTL DEF Spec

-----------------------------------------------------------------------------
\* A visit only adds to live_in, at the block visited, because that block's
\* equation is above what it holds.
LEMMA VisitGrows ==
  ASSUME TypeOK, Ascending, VisitBlock
  PROVE  /\ live_in' \in [Block -> SUBSET Var]
         /\ \A b \in Block : live_in[b] \subseteq live_in'[b]
         /\ bb \in Block
         /\ live_in' = [live_in EXCEPT ![bb] = InOf(live_in, bb)]
<1>1. m # <<>> BY DEF VisitBlock, TypeOK
<1>2. bb \in Block BY <1>1, CurrentBlock DEF VisitBlock
<1>3. live_in \in [Block -> SUBSET Var] BY DEF TypeOK
<1>4. InOf(live_in, bb) \subseteq Var BY <1>1, <1>2, <1>3, EquationsType
<1>5. live_in' = [live_in EXCEPT ![bb] = InOf(live_in, bb)] BY DEF VisitBlock
<1>6. live_in[bb] \subseteq InOf(live_in, bb) BY <1>2 DEF Ascending, VisitBlock
<1>7. live_in' \in [Block -> SUBSET Var] BY <1>3, <1>4, <1>5
<1>8. \A b \in Block : live_in[b] \subseteq live_in'[b] BY <1>3, <1>5, <1>6
<1>9. QED BY <1>2, <1>5, <1>7, <1>8

\* The equations do not change while the function is iterated over.
LEMMA SameEquations ==
  ASSUME UNCHANGED <<m, live_use, live_def, phi_use>>, NEW b \in Block
  PROVE  /\ OutOf(live_in, b)' = OutOf(live_in', b)
         /\ InOf(live_in, b)' = InOf(live_in', b)
BY DEF OutOf, InOf, func_

\* The step of the induction: every action keeps the four parts.
LEMMA IInvStep == TypeOK' /\ IInv /\ [Next]_vars => IInv'
<1> SUFFICES ASSUME TypeOK', IInv, [Next]_vars
             PROVE  Ascending' /\ SweptBlocksAreSolved' /\ FixpointAtExit'
  BY DEF IInv
<1> USE DEF IInv
<1>1. CASE SkipDeclaration \/ StartFunction \/ PrintFunction
  BY <1>1 DEF SkipDeclaration, StartFunction, PrintFunction, Ascending,
     SweptBlocksAreSolved, FixpointAtExit
<1>2. CASE ScanInstr \/ EndOfBlock
  BY <1>2 DEF ScanInstr, EndOfBlock, Ascending, SweptBlocksAreSolved, FixpointAtExit
<1>3. CASE StartIteration
  <2>1. Ascending' BY <1>3 DEF StartIteration, Ascending, InOf
  <2>2. pc' = "while" /\ isChanged' BY <1>3, Zenon DEF StartIteration
  <2>3. QED BY <2>1, <2>2 DEF SweptBlocksAreSolved, FixpointAtExit
<1>4. CASE StartSweep
  <2>1. m' = m /\ live_use' = live_use /\ live_def' = live_def /\ phi_use' = phi_use
    BY <1>4 DEF StartSweep
  <2>2. pc = "while" /\ pc' = "sweep" /\ at' = 1 /\ live_in' = live_in
    BY <1>4 DEF StartSweep
  <2>3. Ascending' BY <2>1, <2>2, SameEquations DEF Ascending
  <2>4. SweptBlocksAreSolved' BY <2>2 DEF SweptBlocksAreSolved
  <2>5. FixpointAtExit' BY <2>2 DEF FixpointAtExit
  <2>6. QED BY <2>3, <2>4, <2>5
<1>5. CASE VisitBlock
  <2>1. m' = m /\ live_use' = live_use /\ live_def' = live_def /\ phi_use' = phi_use
    BY <1>5 DEF VisitBlock
  <2>2. pc = "sweep" /\ pc' = "sweep" /\ at' = at + 1 /\ at <= Len(func_.blocks)
    BY <1>5 DEF VisitBlock
  <2>3. m # <<>> /\ func_' = func_ BY <2>1, <2>2 DEF TypeOK, func_
  <2>4. Ascending'
    <3> SUFFICES ASSUME NEW b \in Block
                 PROVE  live_in'[b] \subseteq InOf(live_in', b)
      BY <2>1, SameEquations DEF Ascending
    <3>1. InOf(live_in, b) \subseteq InOf(live_in', b)
      BY <1>5, <2>3, VisitGrows, EquationsMonotone DEF TypeOK
    <3>2. live_in'[b] \subseteq InOf(live_in, b)
      BY <1>5, <2>2, VisitGrows DEF Ascending, TypeOK
    <3>3. QED BY <3>1, <3>2
  <2>5. SweptBlocksAreSolved'
    <3> SUFFICES ASSUME ~isChanged', NEW k \in 1..at
                 PROVE  Solved(func_.blocks[k])'
      BY <2>2, <2>3 DEF SweptBlocksAreSolved, TypeOK
    <3>1. ~isChanged /\ live_in[bb] = InOf(live_in, bb)
      BY <1>5, Zenon DEF VisitBlock, Changed
    <3>2. live_in' = live_in BY <1>5, <3>1, VisitGrows DEF TypeOK
    <3>3. live_out' = [live_out EXCEPT ![bb] = OutOf(live_in, bb)]
      BY <1>5 DEF VisitBlock
    <3>4. func_.blocks \in Seq(Block) BY <2>3, HeadIsFunction
    <3>5. func_.blocks[k] \in Block BY <2>2, <3>4 DEF TypeOK
    <3>6. ASSUME NEW b \in Block, Solved(b) \/ b = bb
          PROVE  live_out'[b] = OutOf(live_in, b) /\ live_in[b] = InOf(live_in, b)
      BY <3>1, <3>3, <3>6 DEF Solved, TypeOK
    <3>7. Solved(func_.blocks[k]) \/ func_.blocks[k] = bb
      BY <2>2, <3>1 DEF SweptBlocksAreSolved, bb, TypeOK
    <3>8. QED BY <2>1, <2>3, <3>2, <3>5, <3>6, <3>7, SameEquations DEF Solved
  <2>6. FixpointAtExit' BY <2>2 DEF FixpointAtExit
  <2>7. QED BY <2>4, <2>5, <2>6
<1>6. CASE EndOfSweep
  <2>1. /\ m' = m /\ live_use' = live_use /\ live_def' = live_def /\ phi_use' = phi_use
        /\ live_in' = live_in /\ live_out' = live_out /\ isChanged' = isChanged
        /\ pc = "sweep" /\ pc' = "while" /\ at > Len(func_.blocks)
    BY <1>6 DEF EndOfSweep
  <2>2. m # <<>> BY <2>1 DEF TypeOK
  <2>3. Ascending' BY <2>1, SameEquations DEF Ascending
  <2>4. SweptBlocksAreSolved' BY <2>1 DEF SweptBlocksAreSolved
  <2>5. FixpointAtExit'
    <3> SUFFICES ASSUME ~isChanged', NEW k \in 1..Len(func_.blocks)
                 PROVE  Solved(func_.blocks[k])'
      BY <2>1 DEF FixpointAtExit, BlocksOf, func_
    <3>1. func_.blocks \in Seq(Block) BY <2>2, HeadIsFunction
    <3>2. Solved(func_.blocks[k])
      BY <2>1, <3>1 DEF SweptBlocksAreSolved, TypeOK
    <3>3. func_.blocks[k] \in Block BY <3>1
    <3>4. QED BY <2>1, <3>2, <3>3, SameEquations DEF Solved, func_
  <2>6. QED BY <2>3, <2>4, <2>5
<1>7. CASE UNCHANGED vars
  <2>1. /\ m' = m /\ live_use' = live_use /\ live_def' = live_def /\ phi_use' = phi_use
        /\ live_in' = live_in /\ live_out' = live_out /\ isChanged' = isChanged
        /\ pc' = pc /\ at' = at
    BY <1>7 DEF vars
  <2>2. Ascending' BY <2>1 DEF Ascending, InOf, OutOf, func_
  <2>3. SweptBlocksAreSolved'
    BY <2>1 DEF SweptBlocksAreSolved, Solved, InOf, OutOf, func_
  <2>4. FixpointAtExit'
    BY <2>1 DEF FixpointAtExit, BlocksOf, Solved, InOf, OutOf, func_
  <2>5. QED BY <2>2, <2>3, <2>4
<1>8. QED
  BY <1>1, <1>2, <1>3, <1>4, <1>5, <1>6, <1>7 DEF Next

\* IInv holds in every state of every run.
THEOREM Invariant == Spec => []IInv
<1>1. Init => IInv
  <2> SUFFICES ASSUME Init PROVE Ascending /\ SweptBlocksAreSolved /\ FixpointAtExit
    BY TypeInit DEF IInv
  <2>1. pc = "function" BY DEF Init
  <2>2. QED BY <2>1 DEF Ascending, SweptBlocksAreSolved, FixpointAtExit
<1>2. TypeOK' /\ IInv /\ [Next]_vars => IInv' BY IInvStep
<1>3. QED BY <1>1, <1>2, TypeCorrect, PTL DEF Spec

\* While a sweep is quiet, the blocks it has passed satisfy both equations
\* for the live_in that stands.
THEOREM SweptBlocks == Spec => []SweptBlocksAreSolved
<1>1. IInv => SweptBlocksAreSolved BY DEF IInv
<1>2. QED BY <1>1, Invariant, PTL

\* When run() leaves the loop, both data-flow equations hold at every block of
\* the function: what is printed is a solution.
THEOREM PrintsSolution == Spec => []FixpointAtExit
<1>1. IInv => FixpointAtExit BY DEF IInv
<1>2. QED BY <1>1, Invariant, PTL

\* No sweep takes a variable out of live_in.
THEOREM Grows == Spec => LiveInGrows
<1>1. IInv /\ [Next]_vars =>
        [pc = "sweep" => \A b \in Block : live_in[b] \subseteq live_in'[b]]_vars
  <2> SUFFICES ASSUME IInv, Next, pc = "sweep"
               PROVE  \A b \in Block : live_in[b] \subseteq live_in'[b]
    OBVIOUS
  <2>1. VisitBlock \/ EndOfSweep
    BY DEF Next, SkipDeclaration, StartFunction, ScanInstr, EndOfBlock,
       StartIteration, StartSweep, PrintFunction
  <2>2. CASE VisitBlock BY <2>2, VisitGrows DEF IInv
  <2>3. CASE EndOfSweep BY <2>3 DEF EndOfSweep
  <2>4. QED BY <2>1, <2>2, <2>3
<1>2. QED BY <1>1, Invariant, PTL DEF Spec, LiveInGrows

-----------------------------------------------------------------------------
(* The scan: what the tables hold is said by the code.                     *)

\* One instruction more.
LEMMA OneMore ==
  ASSUME NEW code \in Seq(Instr), NEW n \in 1..Len(code)
  PROVE  /\ Exposed(code, n) = Exposed(code, n - 1)
                                \cup (VarsRead(code[n]) \ Defined(code, n - 1))
         /\ Defined(code, n) = Defined(code, n - 1) \cup (Var \cap {code[n].dst})
<1>1. \A k : k \in 1..n <=> k \in 1..(n - 1) \/ k = n OBVIOUS
<1>2. VarsRead(code[n]) \subseteq Var BY DEF VarsRead
<1>3. Exposed(code, n) = Exposed(code, n - 1)
                         \cup (VarsRead(code[n]) \ Defined(code, n - 1))
  BY <1>1, <1>2 DEF Exposed, Defined
<1>4. Defined(code, n) = Defined(code, n - 1) \cup (Var \cap {code[n].dst})
  BY <1>1 DEF Defined
<1>5. QED BY <1>3, <1>4

\* Nothing before the first instruction.
LEMMA NoneYet == \A code : Exposed(code, 0) = {} /\ Defined(code, 0) = {}
BY DEF Exposed, Defined

\* An instruction scanned is accounted for.
LEMMA ScanStep ==
  ASSUME TypeOK, Scanned, ScanInstr
  PROVE  Scanned'
<1> DEFINE code == func_.code[bb]
<1>1. pc = "scan" /\ m # <<>> /\ at <= Len(func_.blocks) /\ ip <= Len(code)
  BY DEF ScanInstr, TypeOK
<1>2. bb \in Block BY <1>1, CurrentBlock
<1>3. code \in Seq(Instr) BY <1>1, <1>2, HeadIsFunction
<1>4. /\ m' = m /\ pc' = pc /\ at' = at /\ ip' = ip + 1
      /\ live_use' = live_use /\ live_def' = live_def
      /\ func_' = func_ /\ bb' = bb
  BY DEF ScanInstr, func_, bb
<1>5. ip \in 1..Len(code) BY <1>1, <1>3 DEF TypeOK
<1>6. instr \in Instr /\ instr = code[ip] BY <1>3, <1>5 DEF instr
<1>7. InBlock BY <1>1 DEF Scanned
<1>8. /\ Exposed(code, ip) = Exposed(code, ip - 1) \cup (VarsRead(instr) \ Defined(code, ip - 1))
      /\ Defined(code, ip) = Defined(code, ip - 1) \cup (Var \cap {instr.dst})
  BY <1>3, <1>5, <1>6, OneMore
<1>9. tmp_use' = tmp_use \cup (VarsRead(instr) \ tmp_def)
  BY <1>6, ReadsAreVars DEF ScanInstr
<1>10. tmp_use' = Exposed(code, ip)
  BY <1>7, <1>8, <1>9 DEF InBlock
<1>11. tmp_def' = IF instr.dst \in tmp_use' \cup {NoValue} THEN tmp_def
                  ELSE tmp_def \cup {instr.dst}
  BY DEF ScanInstr
<1>12. instr.dst \in Var \cup {NoValue} BY <1>6 DEF Instr
<1>13. /\ tmp_def' \subseteq Defined(code, ip)
       /\ Defined(code, ip) \subseteq tmp_def' \cup tmp_use'
  BY <1>7, <1>8, <1>9, <1>11, <1>12, OperandsAssumption DEF InBlock
<1>14. InBlock'
  <2>1. ip' \in 1..(Len(code) + 1) /\ ip' - 1 = ip BY <1>3, <1>4, <1>5
  <2>2. QED BY <1>4, <1>10, <1>13, <2>1 DEF InBlock
<1>15. ASSUME NEW b \in Block PROVE phi_use'[b] = PhiSeen(b)'
  <2>1. phi_use[b] = PhiSeen(b) BY <1>1 DEF Scanned
  <2>2. phi_use'[b] = phi_use[b] \cup VarsFrom(instr, b)
    BY <1>6, ReadsAreVars DEF ScanInstr
  <2>3. VarsFrom(instr, b) \subseteq Var BY DEF VarsFrom
  <2>4. \A j : j \in 1..(ip' - 1) <=> j \in 1..(ip - 1) \/ j = ip BY <1>4, <1>5
  <2>5. PhiSeen(b)' = PhiSeen(b) \cup VarsFrom(instr, b)
    BY <1>1, <1>4, <1>6, <2>3, <2>4 DEF PhiSeen
  <2>6. QED BY <2>1, <2>2, <2>5
<1>16. \A k \in 1..(at' - 1) : TableOf(func_.blocks[k])'
  BY <1>1, <1>4 DEF Scanned, TableOf
<1>17. QED BY <1>1, <1>4, <1>14, <1>15, <1>16 DEF Scanned

\* At the end of a block its tables are complete, and the next begins.
LEMMA EndOfBlockStep ==
  ASSUME TypeOK, TypeOK', Scanned, EndOfBlock
  PROVE  Scanned'
<1> DEFINE code == func_.code[bb]
<1>1. pc = "scan" /\ m # <<>> /\ at <= Len(func_.blocks) /\ ip > Len(code)
  BY DEF EndOfBlock, TypeOK
<1>2. bb \in Block BY <1>1, CurrentBlock
<1>3. code \in Seq(Instr) /\ func_.blocks \in Seq(Block) BY <1>1, <1>2, HeadIsFunction
<1>4. /\ m' = m /\ pc' = pc /\ at' = at + 1 /\ ip' = 1 /\ phi_use' = phi_use
      /\ tmp_use' = {} /\ tmp_def' = {} /\ func_' = func_
  BY DEF EndOfBlock, func_
<1>5. InBlock BY <1>1 DEF Scanned
<1>6. ip - 1 = Len(code) BY <1>1, <1>3, <1>5 DEF InBlock
<1>7. at \in 1..Len(func_.blocks) BY <1>1, <1>3 DEF Scanned
<1>8. /\ live_use' = [live_use EXCEPT ![bb] = Exposed(code, Len(code))]
      /\ live_def' = [live_def EXCEPT ![bb] = tmp_def]
      /\ tmp_def \subseteq Defined(code, Len(code))
      /\ Defined(code, Len(code)) \subseteq tmp_def \cup Exposed(code, Len(code))
  BY <1>5, <1>6 DEF EndOfBlock, InBlock
<1>9. ASSUME NEW b \in Block, b = bb \/ TableOf(b) PROVE TableOf(b)'
  <2>1. CASE b = bb BY <1>2, <1>4, <1>8, <2>1 DEF TableOf, Use, Def, TypeOK
  <2>2. CASE b # bb
    <3>1. live_use'[b] = live_use[b] /\ live_def'[b] = live_def[b]
      BY <1>8, <2>2 DEF TypeOK
    <3>2. QED BY <1>4, <1>9, <2>2, <3>1 DEF TableOf
  <2>3. QED BY <2>1, <2>2
<1>10. ASSUME NEW k \in 1..(at' - 1) PROVE TableOf(func_.blocks[k])'
  <2>1. k \in 1..Len(func_.blocks) /\ (k = at \/ k \in 1..(at - 1)) BY <1>4, <1>7
  <2>2. func_.blocks[k] \in Block BY <1>3, <2>1
  <2>3. func_.blocks[k] = bb \/ TableOf(func_.blocks[k]) BY <1>1, <2>1 DEF bb, Scanned
  <2>4. \A b \in Block : b = bb \/ TableOf(b) => TableOf(b)' BY <1>9
  <2>5. QED BY <1>4, <2>2, <2>3, <2>4 DEF TableOf
<1>11. at' <= Len(func_'.blocks) => InBlock'
  <2> SUFFICES ASSUME at' <= Len(func_.blocks) PROVE InBlock' BY <1>4
  <2>1. at' \in 1..Len(func_.blocks) /\ bb' = func_.blocks[at'] BY <1>4, <1>7 DEF bb
  <2>2. bb' \in Block BY <1>3, <2>1
  <2>3. func_.code[bb'] \in Seq(Instr) BY <1>1, <2>2, HeadIsFunction
  <2>4. ip' - 1 = 0 /\ ip' \in 1..(Len(func_.code[bb']) + 1) BY <1>4, <2>3
  <2>5. QED BY <1>4, <2>4, NoneYet DEF InBlock
<1>12. ASSUME NEW b \in Block PROVE phi_use'[b] = PhiSeen(b)'
  <2>1. phi_use[b] = PhiSeen(b) BY <1>1 DEF Scanned
  <2>2. \A k : k \in 1..(at' - 1) <=> k \in 1..(at - 1) \/ k = at BY <1>4, <1>7
  <2>3. 1..(ip' - 1) = {} BY <1>4
  <2>4. PhiSeen(b)' = PhiSeen(b)
    BY <1>1, <1>4, <1>6, <2>2, <2>3 DEF PhiSeen, bb
  <2>5. QED BY <1>4, <2>1, <2>4
<1>13. at' \in 1..(Len(func_'.blocks) + 1) BY <1>3, <1>4, <1>7
<1>14. func_'.blocks # <<>> BY <1>1, <1>4 DEF Scanned
<1>15. QED BY <1>1, <1>4, <1>10, <1>11, <1>12, <1>13, <1>14 DEF Scanned

\* Every action keeps the tables those of the code.
LEMMA ScannedStep == TypeOK /\ TypeOK' /\ Scanned /\ [Next]_vars => Scanned'
<1> SUFFICES ASSUME TypeOK, TypeOK', Scanned, [Next]_vars PROVE Scanned'
  OBVIOUS
<1>1. CASE SkipDeclaration \/ PrintFunction
  BY <1>1 DEF SkipDeclaration, PrintFunction, Scanned
<1>2. CASE StartFunction
  <2>1. /\ m' = m /\ func_' = func_ /\ m # <<>> /\ pc' = "scan" /\ at' = 1 /\ ip' = 1
        /\ tmp_use' = {} /\ tmp_def' = {} /\ phi_use' = Empty /\ func_.blocks # <<>>
    BY <1>2 DEF StartFunction, func_
  <2>2. func_.blocks \in Seq(Block) BY <2>1, HeadIsFunction
  <2>3. 1 \in 1..Len(func_.blocks) BY <2>1, <2>2
  <2>4. bb' \in Block BY <2>1, <2>2, <2>3 DEF bb
  <2>5. func_.code[bb'] \in Seq(Instr) BY <2>1, <2>4, HeadIsFunction
  <2>6. ip' \in 1..(Len(func_.code[bb']) + 1) /\ ip' - 1 = 0 BY <2>1, <2>5
  <2>7. InBlock' BY <2>1, <2>6, NoneYet DEF InBlock
  <2>8. 1..(at' - 1) = {} /\ 1..(ip' - 1) = {} BY <2>1
  <2>9. \A b \in Block : phi_use'[b] = PhiSeen(b)' BY <2>1, <2>8 DEF PhiSeen, Empty
  <2>10. at' \in 1..(Len(func_'.blocks) + 1) BY <2>1, <2>2
  <2>11. QED BY <2>1, <2>7, <2>8, <2>9, <2>10 DEF Scanned
<1>3. CASE ScanInstr BY <1>3, ScanStep
<1>4. CASE EndOfBlock BY <1>4, EndOfBlockStep
<1>5. CASE StartIteration
  <2>1. /\ m # <<>> /\ func_' = func_ /\ pc = "scan" /\ pc' = "while"
        /\ at > Len(func_.blocks)
        /\ live_use' = live_use /\ live_def' = live_def /\ phi_use' = phi_use
    BY <1>5 DEF StartIteration, TypeOK, func_
  <2>2. func_.blocks \in Seq(Block) BY <2>1, HeadIsFunction
  <2>3. at - 1 = Len(func_.blocks) BY <2>1, <2>2 DEF Scanned
  <2>4. ASSUME NEW b \in BlocksOf(func_) PROVE TableOf(b) /\ phi_use[b] = PhiUse(func_, b)
    <3>1. TableOf(b)
      <4>1. PICK k \in 1..Len(func_.blocks) : b = func_.blocks[k] BY <2>4 DEF BlocksOf
      <4>2. QED BY <2>1, <2>3, <4>1 DEF Scanned
    <3>2. b \in Block BY <2>1, <2>4, HeadIsFunction
    <3>3. phi_use[b] = PhiSeen(b) BY <2>1, <3>2 DEF Scanned
    <3>4. ~(at <= Len(func_.blocks)) /\ 1..(at - 1) = 1..Len(func_.blocks)
      BY <2>1, <2>2, <2>3 DEF TypeOK
    <3>5. PhiSeen(b) = {v \in Var : \E k \in 1..Len(func_.blocks) :
                         \E j \in 1..Len(func_.code[func_.blocks[k]]) :
                           v \in VarsFrom(func_.code[func_.blocks[k]][j], b)}
      BY <3>4, Zenon DEF PhiSeen
    <3>6. PhiUse(func_, b) = {v \in Var : \E k \in 1..Len(func_.blocks) :
                               \E j \in 1..Len(func_.code[func_.blocks[k]]) :
                                 v \in VarsFrom(func_.code[func_.blocks[k]][j], b)}
      BY Zenon DEF PhiUse, BlocksOf
    <3>7. QED BY <3>1, <3>3, <3>5, <3>6
  <2>5. QED BY <2>1, <2>4 DEF Scanned, TableOf
<1>6. CASE StartSweep \/ VisitBlock \/ EndOfSweep \/ UNCHANGED vars
  <2>1. /\ m' = m /\ func_' = func_
        /\ live_use' = live_use /\ live_def' = live_def /\ phi_use' = phi_use
    BY <1>6 DEF StartSweep, VisitBlock, EndOfSweep, vars, func_
  <2>2. CASE StartSweep \/ VisitBlock \/ EndOfSweep
    <3>1. pc \in {"while", "sweep"} /\ pc' \in {"while", "sweep"}
      BY <2>2 DEF StartSweep, VisitBlock, EndOfSweep
    <3>2. QED BY <2>1, <3>1 DEF Scanned, TableOf
  <2>3. CASE UNCHANGED vars
    <3>1. /\ pc' = pc /\ at' = at /\ ip' = ip /\ tmp_use' = tmp_use /\ tmp_def' = tmp_def
          /\ bb' = bb
      BY <2>3 DEF vars, bb, func_
    <3>2. InBlock <=> InBlock' BY <2>1, <3>1 DEF InBlock
    <3>3. \A b \in Block : PhiSeen(b)' = PhiSeen(b) BY <2>1, <3>1 DEF PhiSeen
    <3>4. QED BY <2>1, <3>1, <3>2, <3>3 DEF Scanned, TableOf
  <2>4. QED BY <1>6, <2>2, <2>3
<1>7. QED BY <1>1, <1>2, <1>3, <1>4, <1>5, <1>6 DEF Next

\* In every state of every run the tables are those of the code gone through.
THEOREM TablesOfTheCode == Spec => []Scanned
<1>1. Init => Scanned BY DEF Init, Scanned
<1>2. TypeOK /\ TypeOK' /\ Scanned /\ [Next]_vars => Scanned' BY ScannedStep
<1>3. QED BY <1>1, <1>2, TypeCorrect, PTL DEF Spec

-----------------------------------------------------------------------------
\* With such tables the pass solves the equations of the code.
LEMMA EquationsOfTheCode ==
  ASSUME Scanned, pc \in {"while", "sweep"}, NEW S, NEW b \in BlocksOf(func_)
  PROVE  /\ OutOf(S, b) = OutEquation(func_, S, b)
         /\ InOf(S, b) = InEquation(func_, S, b)
<1>1. TableOf(b) /\ phi_use[b] = PhiUse(func_, b) BY DEF Scanned
<1>2. OutOf(S, b) = OutEquation(func_, S, b) BY <1>1 DEF OutOf, OutEquation
<1>3. QED BY <1>1, <1>2 DEF InOf, InEquation, TableOf

\* live_in stays below every map closed under the equations.
LEMMA BelowStep ==
  TypeOK /\ Scanned /\ Scanned' /\ BelowEverySolution /\ [Next]_vars => BelowEverySolution'
<1> SUFFICES ASSUME TypeOK, Scanned, Scanned', BelowEverySolution, [Next]_vars,
                    pc' \in {"while", "sweep"},
                    NEW S \in [BlocksOf(func_)' -> SUBSET Var],
                    \A b \in BlocksOf(func_)' : InEquation(func_', S, b) \subseteq S[b],
                    NEW b \in BlocksOf(func_)'
             PROVE  live_in'[b] \subseteq S[b]
  BY DEF BelowEverySolution, BelowAll
<1>1. CASE StartIteration
  <2>1. live_in' = live_use /\ live_use' = live_use /\ func_' = func_
    BY <1>1 DEF StartIteration, func_
  <2>2. TableOf(b)' BY DEF Scanned
  <2>3. live_use'[b] = Use(func_', b) BY <2>2 DEF TableOf
  <2>4. QED BY <2>1, <2>3 DEF InEquation
<1>2. CASE StartSweep \/ VisitBlock \/ EndOfSweep \/ UNCHANGED vars
  <2>1. m' = m /\ func_' = func_ /\ pc \in {"while", "sweep"}
    BY <1>2 DEF StartSweep, VisitBlock, EndOfSweep, vars, func_
  <2>2. b \in BlocksOf(func_) /\ BlocksOf(func_)' = BlocksOf(func_)
    BY <2>1 DEF BlocksOf
  <2>3. \A c \in BlocksOf(func_) : InEquation(func_, S, c) \subseteq S[c] BY <2>1, <2>2
  <2>4. \A c \in BlocksOf(func_) : live_in[c] \subseteq S[c]
    BY <2>1, <2>2, <2>3 DEF BelowEverySolution, BelowAll
  <2>5. CASE VisitBlock
    <3>1. m # <<>> BY <2>1 DEF TypeOK
    <3>2. bb \in Block /\ bb \in BlocksOf(func_) BY <2>5, <3>1, CurrentBlock DEF VisitBlock
    <3>3. func_.succ[bb] \subseteq BlocksOf(func_) BY <3>1, <3>2, HeadIsFunction
    <3>4. InEquation(func_, live_in, bb) \subseteq InEquation(func_, S, bb)
      BY <2>4, <3>3 DEF InEquation, OutEquation
    <3>5. InOf(live_in, bb) \subseteq S[bb]
      BY <2>1, <2>3, <3>2, <3>4, EquationsOfTheCode
    <3>6. b \in Block BY <2>2, <3>1, HeadIsFunction
    <3>7. live_in'[b] = IF b = bb THEN InOf(live_in, bb) ELSE live_in[b]
      BY <2>5, <3>6 DEF VisitBlock, TypeOK
    <3>8. QED BY <2>2, <2>4, <3>5, <3>7
  <2>6. CASE StartSweep \/ EndOfSweep \/ UNCHANGED vars
    <3>1. live_in' = live_in BY <2>6 DEF StartSweep, EndOfSweep, vars
    <3>2. QED BY <2>2, <2>4, <3>1
  <2>7. QED BY <1>2, <2>5, <2>6
<1>3. CASE SkipDeclaration \/ StartFunction \/ ScanInstr \/ EndOfBlock \/ PrintFunction
  BY <1>3 DEF SkipDeclaration, StartFunction, ScanInstr, EndOfBlock, PrintFunction
<1>4. QED BY <1>1, <1>2, <1>3 DEF Next

\* live_in is at every step below every map closed under the equations of the
\* code: with PrintsSolution, what is printed is the least solution.
THEOREM LeastSolution == Spec => []BelowEverySolution
<1>1. Init => BelowEverySolution BY DEF Init, BelowEverySolution
<1>2. TypeOK /\ Scanned /\ Scanned' /\ BelowEverySolution /\ [Next]_vars => BelowEverySolution'
  BY BelowStep
<1>3. QED BY <1>1, <1>2, TypeCorrect, TablesOfTheCode, PTL DEF Spec

\* The words of the abstract specification are those of LiveCode.
LEMMA SameWords ==
  ASSUME NEW f, NEW in, NEW out
  PROVE  /\ LV!Solution(f, in, out) <=> Solution(f, in, out)
         /\ LV!BelowAll(f, in) <=> BelowAll(f, in)
BY DEF LV!Solution, LV!BelowAll, LV!InEquation, LV!OutEquation, LV!Use, LV!Def, LV!PhiUse,
   LV!Exposed, LV!Defined, LV!VarsRead, LV!VarsFrom, LV!BlocksOf,
   Solution, BelowAll, InEquation, OutEquation, Use, Def, PhiUse,
   Exposed, Defined, VarsRead, VarsFrom, BlocksOf

\* What PrintFunction prints is the least solution.
LEMMA PrintedSolves ==
  ASSUME IInv, Scanned, BelowEverySolution, PrintFunction
  PROVE  Solution(func_, live_in, live_out) /\ BelowAll(func_, live_in)
<1>1. pc = "while" /\ ~isChanged BY DEF PrintFunction
<1>2. Solution(func_, live_in, live_out)
  BY <1>1, EquationsOfTheCode DEF Solution, IInv, FixpointAtExit, Solved
<1>3. BelowAll(func_, live_in) BY <1>1 DEF BelowEverySolution
<1>4. QED BY <1>2, <1>3

\* It is the answer of the abstract specification.
LEMMA PrintAnswers ==
  ASSUME IInv, Scanned, BelowEverySolution, PrintFunction
  PROVE  LV!Answer
<1> DEFINE p == [func |-> func_, in |-> live_in, out |-> live_out]
<1>1. /\ pc = "while" /\ ~isChanged /\ m # <<>> /\ func_.blocks # <<>>
      /\ m' = Tail(m) /\ printed' = Append(printed, p)
  BY DEF PrintFunction, IInv, TypeOK, Scanned
<1>2. printed'[Len(printed) + 1] = p BY <1>1 DEF IInv, TypeOK
<1>3. Solution(func_, live_in, live_out) BY PrintedSolves
<1>4. BelowAll(func_, live_in) BY PrintedSolves
<1>5. LV!Solution(p.func, p.in, p.out) /\ LV!BelowAll(p.func, p.in)
  BY <1>3, <1>4, SameWords
<1>6. QED BY <1>1, <1>2, <1>5 DEF LV!Answer, func_

\* The pass implements LiveVariables: for every function in its turn it prints
\* the least solution of the equations of its code, whatever the module.
THEOREM Implements == Spec => ImplementsLiveVariables
<1>1. Init => LV!Init BY DEF Init, LV!Init
<1>2. IInv /\ Scanned /\ BelowEverySolution /\ [Next]_vars => [LV!Next]_<<m, printed>>
  <2> SUFFICES ASSUME IInv, Scanned, BelowEverySolution, [Next]_vars
               PROVE  [LV!Next]_<<m, printed>>
    OBVIOUS
  <2>1. CASE SkipDeclaration BY <2>1 DEF SkipDeclaration, LV!Skip, LV!Next, func_
  <2>2. CASE PrintFunction BY <2>2, PrintAnswers DEF LV!Next
  <2>3. CASE \/ StartFunction \/ ScanInstr \/ EndOfBlock \/ StartIteration
             \/ StartSweep \/ VisitBlock \/ EndOfSweep \/ UNCHANGED vars
    BY <2>3 DEF StartFunction, ScanInstr, EndOfBlock, StartIteration, StartSweep,
       VisitBlock, EndOfSweep, vars
  <2>4. QED BY <2>1, <2>2, <2>3 DEF Next
<1>3. QED
  BY <1>1, <1>2, Invariant, TablesOfTheCode, LeastSolution, PTL
     DEF Spec, LV!Spec, ImplementsLiveVariables

-----------------------------------------------------------------------------
\* Where v is not defined on the way.
Through(f, v) == Without(f.succ, {c \in Block : v \in Def(f, c)})
LiveIn(f, b) == {v \in Var : LiveAtEntry(f, b, v)}

\* The parts of a function.
LEMMA FunctionParts ==
  ASSUME NEW f \in Function
  PROVE  /\ f.succ \in [Block -> SUBSET Block] /\ BlocksOf(f) \subseteq Block
         /\ \A c \in BlocksOf(f) : f.succ[c] \subseteq BlocksOf(f)
<1>1. f.blocks \in Seq(Block) BY DEF Function
<1>2. BlocksOf(f) \subseteq Block BY <1>1 DEF BlocksOf
<1>3. \A c \in BlocksOf(f) : f.succ[c] \subseteq BlocksOf(f) BY DEF Function
<1>4. f.succ \in [Block -> SUBSET Block] BY DEF Function
<1>5. QED BY <1>2, <1>3, <1>4

\* The graph of paths along which v is not defined.
LEMMA ThroughGraph ==
  ASSUME NEW f \in Function, NEW v, NEW b \in Block
  PROVE  /\ Graph(Block, Through(f, v), b)
         /\ \A c \in Block : v \in Def(f, c) => Through(f, v)[c] = {}
         /\ \A c \in Block : v \notin Def(f, c) => Through(f, v)[c] = f.succ[c]
<1>1. f.succ \in [Block -> SUBSET Block] BY DEF Function
<1>2. \A c \in Block : Through(f, v)[c] = IF v \in Def(f, c) THEN {} ELSE f.succ[c]
  BY <1>1 DEF Through, Without
<1>3. Through(f, v) \in [Block -> SUBSET Block]
  BY <1>1 DEF Through, Without
<1>4. QED BY <1>2, <1>3, BlocksAssumption DEF Graph

\* Liveness on paths satisfies the equations, as far as they enlarge it.
LEMMA LivenessIsClosed ==
  ASSUME NEW f \in Function, NEW S, NEW b \in BlocksOf(f),
         \A s \in BlocksOf(f) : S[s] = LiveIn(f, s)
  PROVE  InEquation(f, S, b) \subseteq S[b]
<1> SUFFICES ASSUME NEW v \in InEquation(f, S, b) PROVE v \in LiveIn(f, b)
  OBVIOUS
<1>1. f.succ[b] \subseteq BlocksOf(f) /\ b \in Block /\ BlocksOf(f) \subseteq Block
  BY FunctionParts
<1>2. /\ Graph(Block, Through(f, v), b)
      /\ v \notin Def(f, b) => Through(f, v)[b] = f.succ[b]
  BY <1>1, ThroughGraph
<1>3. /\ b \in Reach(Through(f, v), {b})
      /\ \A c \in Reach(Through(f, v), {b}) :
           Through(f, v)[c] \subseteq Reach(Through(f, v), {b})
  BY <1>2, ReachFromEntry
<1>4. v \in LiveIn(f, b) <=>
        /\ v \in Var
        /\ \E c \in Reach(Through(f, v), {b}) :
             v \in Use(f, c) \/ (v \notin Def(f, c) /\ v \in PhiUse(f, c))
  BY DEF LiveIn, LiveAtEntry, Through
<1>5. CASE v \in Use(f, b)
  <2>1. v \in Var BY <1>5 DEF Use, Exposed
  <2>2. QED BY <1>3, <1>4, <1>5, <2>1
<1>6. CASE v \in PhiUse(f, b) /\ v \notin Def(f, b)
  <2>1. v \in Var BY <1>6 DEF PhiUse
  <2>2. QED BY <1>3, <1>4, <1>6, <2>1
<1>7. ASSUME NEW s \in f.succ[b], v \in S[s], v \notin Def(f, b)
      PROVE  v \in LiveIn(f, b)
  <2>1. s \in BlocksOf(f) /\ s \in Block BY <1>1
  <2>2. v \in LiveIn(f, s) BY <1>7, <2>1
  <2>3. PICK c \in Reach(Through(f, v), {s}) :
          v \in Use(f, c) \/ (v \notin Def(f, c) /\ v \in PhiUse(f, c))
    BY <2>2 DEF LiveIn, LiveAtEntry, Through
  <2>4. Graph(Block, Through(f, v), s) BY <2>1, ThroughGraph
  <2>5. s \in Reach(Through(f, v), {b}) BY <1>2, <1>3, <1>7
  <2>6. Reach(Through(f, v), {s}) \subseteq Reach(Through(f, v), {b})
    BY <1>3, <2>4, <2>5, ReachInside
  <2>7. v \in Var BY <2>2 DEF LiveIn
  <2>8. QED BY <1>4, <2>3, <2>6, <2>7
<1>8. QED BY <1>5, <1>6, <1>7 DEF InEquation, OutEquation

\* What solves the equations holds at least what is live on paths.
LEMMA SolutionsHoldLiveness ==
  ASSUME NEW f \in Function, NEW in, NEW out, Solution(f, in, out), NEW b \in BlocksOf(f)
  PROVE  LiveIn(f, b) \subseteq in[b]
<1> SUFFICES ASSUME NEW v \in LiveIn(f, b), v \notin in[b] PROVE FALSE
  OBVIOUS
<1>1. /\ \A c \in BlocksOf(f) : f.succ[c] \subseteq BlocksOf(f)
      /\ b \in Block /\ BlocksOf(f) \subseteq Block
  BY FunctionParts
<1>2. PICK c \in Reach(Through(f, v), {b}) :
        v \in Use(f, c) \/ (v \notin Def(f, c) /\ v \in PhiUse(f, c))
  BY DEF LiveIn, LiveAtEntry, Through
<1> DEFINE Dead == {d \in BlocksOf(f) : v \notin in[d]}
<1>3. ASSUME NEW d \in Dead
      PROVE  Through(f, v)[d] \subseteq Dead
  <2>0. d \in BlocksOf(f) /\ v \notin in[d] OBVIOUS
  <2>1. d \in Block /\ f.succ[d] \subseteq BlocksOf(f) BY <1>1, <2>0
  <2> HIDE DEF Dead
  <2>2. /\ v \in Def(f, d) => Through(f, v)[d] = {}
        /\ v \notin Def(f, d) => Through(f, v)[d] = f.succ[d]
    BY <2>1, ThroughGraph
  <2>3. in[d] = InEquation(f, in, d) BY <2>0 DEF Solution
  <2>4. v \notin Def(f, d) => \A s \in f.succ[d] : v \notin in[s]
    BY <2>0, <2>3 DEF InEquation, OutEquation
  <2>5. QED BY <2>1, <2>2, <2>4 DEF Dead
<1>4. b \in Dead OBVIOUS
<1> HIDE DEF Dead
<1>5. Graph(Block, Through(f, v), b) BY <1>1, ThroughGraph
<1>6. Reach(Through(f, v), {b}) \subseteq Dead BY <1>3, <1>4, <1>5, ReachInside
<1>7. c \in BlocksOf(f) /\ v \notin in[c] BY <1>2, <1>6 DEF Dead
<1>8. in[c] = InEquation(f, in, c) BY <1>7 DEF Solution
<1>9. QED BY <1>2, <1>7, <1>8 DEF InEquation, OutEquation

\* The least solution of the equations is liveness on paths.
LEMMA LeastIsLiveness ==
  ASSUME NEW f \in Function, NEW in, NEW out, Solution(f, in, out), BelowAll(f, in),
         NEW b \in BlocksOf(f)
  PROVE  /\ in[b] = {v \in Var : LiveAtEntry(f, b, v)}
         /\ out[b] = {v \in Var : LiveAtExit(f, b, v)}
<1> DEFINE S == [s \in BlocksOf(f) |-> LiveIn(f, s)]
<1>1. f.succ[b] \subseteq BlocksOf(f) BY DEF Function
<1>2. /\ S \in [BlocksOf(f) -> SUBSET Var]
      /\ \A s \in BlocksOf(f) : S[s] = LiveIn(f, s)
  BY DEF LiveIn
<1> HIDE DEF S
<1>3. \A s \in BlocksOf(f) : InEquation(f, S, s) \subseteq S[s]
  BY <1>2, LivenessIsClosed
<1>4. \A s \in BlocksOf(f) : in[s] \subseteq S[s] BY <1>2, <1>3 DEF BelowAll
<1>5. ASSUME NEW s \in BlocksOf(f) PROVE in[s] = LiveIn(f, s)
  BY <1>2, <1>4, SolutionsHoldLiveness
<1>6. out[b] = PhiUse(f, b) \cup UNION {in[s] : s \in f.succ[b]}
  BY DEF Solution, OutEquation
<1>7. \A v \in PhiUse(f, b) : v \in Var BY DEF PhiUse
<1>8. out[b] = {v \in Var : LiveAtExit(f, b, v)}
  BY <1>1, <1>5, <1>6, <1>7 DEF LiveAtExit, LiveIn
<1>9. QED BY <1>5, <1>8 DEF LiveIn

\* Everything printed so far solves the equations of its function, and is below
\* every solution.
Answers ==
  \A k \in 1..Len(printed) :
    Solution(printed[k].func, printed[k].in, printed[k].out) /\ BelowAll(printed[k].func, printed[k].in)

\* For any module: a variable is printed as live at a block exactly where some
\* path from there reads it before it is defined.
THEOREM PrintsLiveness == Spec => []PrintedIsLiveness
<1>1. Init => Answers BY DEF Init, Answers
<1>2. IInv /\ Scanned /\ BelowEverySolution /\ Answers /\ [Next]_vars => Answers'
  <2> SUFFICES ASSUME IInv, Scanned, BelowEverySolution, Answers, [Next]_vars PROVE Answers'
    OBVIOUS
  <2>1. CASE PrintFunction
    <3> DEFINE p == [func |-> func_, in |-> live_in, out |-> live_out]
    <3>1. printed' = Append(printed, p) /\ Len(printed) \in Nat /\ printed \in Seq([func: Function, in: [Block -> SUBSET Var], out: [Block -> SUBSET Var]])
      BY <2>1 DEF PrintFunction, IInv, TypeOK
    <3>2. Solution(p.func, p.in, p.out) /\ BelowAll(p.func, p.in)
      BY <2>1, PrintedSolves
    <3> HIDE DEF p
    <3>3. /\ Len(printed') = Len(printed) + 1 /\ printed'[Len(printed) + 1] = p
          /\ \A k \in 1..Len(printed) : printed'[k] = printed[k]
      BY <3>1
    <3>4. \A k \in 1..Len(printed') : k = Len(printed) + 1 \/ k \in 1..Len(printed)
      BY <3>1, <3>3
    <3>5. QED BY <3>2, <3>3, <3>4 DEF Answers
  <2>2. CASE \/ SkipDeclaration \/ StartFunction \/ ScanInstr \/ EndOfBlock \/ StartIteration
             \/ StartSweep \/ VisitBlock \/ EndOfSweep \/ UNCHANGED vars
    BY <2>2 DEF SkipDeclaration, StartFunction, ScanInstr, EndOfBlock, StartIteration, StartSweep,
       VisitBlock, EndOfSweep, vars, Answers
  <2>3. QED BY <2>1, <2>2 DEF Next
<1>3. TypeOK /\ Answers => PrintedIsLiveness
  <2> SUFFICES ASSUME TypeOK, Answers, NEW k \in 1..Len(printed), NEW b \in BlocksOf(printed[k].func)
               PROVE  /\ printed[k].in[b]  = {v \in Var : LiveAtEntry(printed[k].func, b, v)}
                      /\ printed[k].out[b] = {v \in Var : LiveAtExit(printed[k].func, b, v)}
    BY DEF PrintedIsLiveness
  <2> DEFINE Entry == [func: Function, in: [Block -> SUBSET Var], out: [Block -> SUBSET Var]]
             p == printed[k]
  <2>0. \A e \in Entry : e.func \in Function OBVIOUS
  <2>1. printed \in Seq(Entry) BY DEF TypeOK
  <2> HIDE DEF Entry
  <2>2. p \in Entry BY <2>1
  <2> HIDE DEF p
  <2>3. p.func \in Function BY <2>0, <2>2
  <2>4. QED BY <2>3, LeastIsLiveness DEF Answers, p
<1>4. QED
  BY <1>1, <1>2, <1>3, Invariant, TypeCorrect, TablesOfTheCode, LeastSolution, PTL DEF Spec
=============================================================================
