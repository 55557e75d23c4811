--------------------------- MODULE DeadCodeProofs ---------------------------
(***************************************************************************)
(* Proofs about DeadCode for every well-formed function: the types, the    *)
(* edges and the pairs of the phis, and the use lists.                     *)
(*                                                                         *)
(* A use list may hold positions that are out of date.  What the proofs    *)
(* need is less than exact lists: a use of an instruction never points at  *)
(* a block.  Uses of a phi have odd positions, and stay odd when pairs are *)
(* taken away; uses of a branch are of its condition (UsesPlaced).         *)
(***************************************************************************)
EXTENDS DeadCode, SequenceTheorems, TLAPS

\* Use p does not stand where there is a block.
Placed(p) ==
  IF op[p[1]] = "phi" THEN p[2] % 2 = 1
  ELSE p[2] <= Len(operands_[p[1]]) /\ operands_[p[1]][p[2]] \notin Block

\* No use, recorded or still to be replaced, stands where there is a block; and
\* what replaces it is none.
UsesPlaced ==
  /\ \A x \in Value : \A p \in use_list_[x] : Placed(p)
  /\ \A p \in uses : Placed(p)
  /\ pc = "fold" => uses = {}
  /\ pc = "replace" => instr \in Value /\ val \in Value \cup Literal

\* The operands of a branch are its targets, after a condition where there are
\* two of them.
BranchesHaveTargets ==
  \A u \in Value : op[u] = "br" =>
    \A k \in 1..Len(operands_[u]) :
      operands_[u][k] \in Block <=> k > 1 \/ Len(operands_[u]) # 3

\* Every phi, deleted or not, has one pair for each predecessor Mem2Reg gave it
\* one for.
PhisMatch ==
  \A b \in Image(func_.blocks) : \A u \in PhisOf(b) :
    OnePairFor(operands_[u], pre_bbs_[b] \cap Given(u))

IInv ==
  /\ TypeOK /\ WellFormed(func_)
  /\ UsesPlaced /\ BranchesHaveTargets
  /\ EdgesMatchTerminators /\ PhisMatch

-----------------------------------------------------------------------------
\* A sequence without two neighbours.
LEMMA WithoutPair ==
  ASSUME NEW S, NEW s \in Seq(S), NEW k \in Nat, 1 <= k, k + 1 <= Len(s)
  PROVE  /\ Without2(s, k) \in Seq(S)
         /\ Len(Without2(s, k)) = Len(s) - 2
         /\ \A j \in 1..(Len(s) - 2) : Without2(s, k)[j] = IF j < k THEN s[j] ELSE s[j + 2]
<1> DEFINE l == SubSeq(s, 1, k - 1)
           r == SubSeq(s, k + 2, Len(s))
<1>1. l \in Seq(S) /\ Len(l) = k - 1 /\ \A j \in 1..(k - 1) : l[j] = s[j]
  OBVIOUS
<1>2. r \in Seq(S) /\ Len(r) = Len(s) - k - 1 /\ \A j \in 1..(Len(s) - k - 1) : r[j] = s[j + k + 1]
  OBVIOUS
<1>3. Without2(s, k) = l \o r
  BY DEF Without2
<1> HIDE DEF l, r
<1>4. /\ l \o r \in Seq(S) /\ Len(l \o r) = Len(l) + Len(r)
      /\ \A j \in 1..(Len(l) + Len(r)) : (l \o r)[j] = IF j <= Len(l) THEN l[j] ELSE r[j - Len(l)]
  BY <1>1, <1>2, ConcatProperties
<1>5. ASSUME NEW j \in 1..(Len(s) - 2)
      PROVE  (l \o r)[j] = IF j < k THEN s[j] ELSE s[j + 2]
  <2>1. CASE j < k
    BY <1>1, <1>2, <1>4, <2>1
  <2>2. CASE ~(j < k)
    <3>1. j - (k - 1) \in 1..(Len(s) - k - 1) /\ (j - (k - 1)) + k + 1 = j + 2
      BY <2>2
    <3>2. (l \o r)[j] = r[j - (k - 1)]
      BY <1>1, <1>2, <1>4, <2>2
    <3>3. QED BY <1>2, <2>2, <3>1, <3>2
  <2>3. QED BY <2>1, <2>2
<1>6. QED BY <1>1, <1>2, <1>3, <1>4, <1>5

\* A list of pairs without one of its pairs has one for each of the others.
LEMMA WithoutItsPair ==
  ASSUME NEW S, NEW s \in Seq(S), NEW B, OnePairFor(s, B),
         NEW k \in Nat, k % 2 = 1, k + 1 <= Len(s), Len(s) % 2 = 0
  PROVE  OnePairFor(Without2(s, k), B \ {s[k + 1]})
<1> DEFINE w == Without2(s, k)
<1>1. /\ w \in Seq(S) /\ Len(w) = Len(s) - 2
      /\ \A j \in 1..(Len(s) - 2) : w[j] = IF j < k THEN s[j] ELSE s[j + 2]
  <2>1. 1 <= k OBVIOUS
  <2>2. QED BY <2>1, WithoutPair
<1> HIDE DEF w
<1>2. /\ {s[j] : j \in Pairs(s)} = B
      /\ \A i, j \in Pairs(s) : s[i] = s[j] => i = j
  BY DEF OnePairFor
<1>3. k + 1 \in Pairs(s)
  BY DEF Pairs
<1> DEFINE old(j) == IF j < k THEN j ELSE j + 2
<1>4. ASSUME NEW j \in Pairs(w)
      PROVE  old(j) \in Pairs(s) /\ old(j) # k + 1 /\ w[j] = s[old(j)]
  <2>1. j \in 1..(Len(s) - 2) /\ j \in Nat /\ j % 2 = 0
    BY <1>1 DEF Pairs
  <2>2. Len(s) \in Nat
    OBVIOUS
  <2>3. w[j] = s[old(j)]
    BY <1>1, <2>1
  <2>4. old(j) \in 1..Len(s) /\ old(j) # k + 1
    BY <2>1, <2>2
  <2>5. old(j) % 2 = 0
    BY <2>1
  <2>6. QED BY <2>3, <2>4, <2>5 DEF Pairs
<1>5. \A i \in Pairs(s) : i # k + 1 => \E j \in Pairs(w) : w[j] = s[i]
  <2>1. TAKE i \in Pairs(s)
  <2>2. HAVE i # k + 1
  <2>3. CASE i < k
    <3>1. i \in Pairs(w) /\ w[i] = s[i] BY <1>1, <2>3 DEF Pairs
    <3>2. QED BY <3>1
  <2>4. CASE ~(i < k)
    <3>1. i - 2 \in Pairs(w) /\ w[i - 2] = s[i] BY <1>1, <2>2, <2>4 DEF Pairs
    <3>2. QED BY <3>1
  <2>5. QED BY <2>3, <2>4
<1>6. {w[j] : j \in Pairs(w)} = B \ {s[k + 1]}
  <2>1. ASSUME NEW j \in Pairs(w) PROVE w[j] \in B \ {s[k + 1]}
    BY <1>2, <1>3, <1>4
  <2>2. ASSUME NEW x \in B \ {s[k + 1]} PROVE \E j \in Pairs(w) : w[j] = x
    <3>1. PICK i \in Pairs(s) : s[i] = x BY <1>2
    <3>2. QED BY <1>5, <3>1
  <2>3. QED BY <2>1, <2>2
<1>7. ASSUME NEW i \in Pairs(w), NEW j \in Pairs(w), w[i] = w[j]
      PROVE  i = j
  <2>1. i \in Nat /\ j \in Nat BY <1>1 DEF Pairs
  <2>2. old(i) = old(j) BY <1>2, <1>4, <1>7
  <2>3. QED BY <2>1, <2>2
<1>8. QED BY <1>6, <1>7 DEF OnePairFor, w

-----------------------------------------------------------------------------
\* The parts of the function.
LEMMA FunctionParts ==
  ASSUME TypeOK
  PROVE  /\ func_.blocks \in Seq(Block) /\ Len(func_.blocks) \in Nat
         /\ func_.code \in [Block -> Seq(Value)]
         /\ func_.op \in [Value -> Op]
         /\ func_.operands \in [Value -> Seq(Operand)]
         /\ func_.pre \in [Block -> SUBSET Block] /\ func_.succ \in [Block -> SUBSET Block]
<1>1. func_ \in Function BY DEF TypeOK
<1>2. QED BY <1>1 DEF Function

\* The block gone through is one of the function's.
LEMMA CurrentBlock ==
  ASSUME TypeOK, at <= Len(func_.blocks)
  PROVE  bb \in Block /\ bb \in Image(func_.blocks)
<1>1. at \in 1..Len(func_.blocks) /\ func_.blocks \in Seq(Block)
  BY FunctionParts DEF TypeOK
<1>2. QED BY <1>1 DEF bb, Image

\* The last instruction of a block is an instruction, a branch or a return.
LEMMA Terminators ==
  ASSUME IInv, NEW b \in Block, code[b] # <<>>
  PROVE  /\ Last(code[b]) \in Value /\ Len(code[b]) \in 1..Len(code[b])
         /\ op[Last(code[b])] \in {"br", "ret"}
<1>1. code[b] \in Seq(Value) /\ TypeOK /\ WellFormed(func_)
  BY FunctionParts DEF IInv, code
<1>2. Len(code[b]) \in 1..Len(code[b])
  BY <1>1
<1>3. QED BY <1>1, <1>2 DEF Last, WellFormed, code, op

\* An instruction stands in one block.
LEMMA OnePlace ==
  ASSUME IInv, NEW b \in Block, NEW c \in Block, NEW u \in Image(code[b]), u \in Image(code[c])
  PROVE  b = c
<1>1. PICK j \in 1..Len(code[b]) : code[b][j] = u BY DEF Image
<1>2. PICK k \in 1..Len(code[c]) : code[c][k] = u BY DEF Image
<1>3. WellFormed(func_) BY DEF IInv
<1>4. QED BY <1>1, <1>2, <1>3 DEF WellFormed, code

\* The branch to be folded, and where it goes.
LEMMA Folded ==
  ASSUME IInv, at <= Len(func_.blocks), OnConstant
  PROVE  /\ brinstr \in Value /\ op[brinstr] = "br" /\ brinstr \in Image(code[bb])
         /\ target \in Block /\ target \in TargetsNow(bb)
         /\ succ_bbs_[bb] = TargetsNow(bb)
<1>1. TypeOK /\ BranchesHaveTargets /\ EdgesMatchTerminators BY DEF IInv
<1>2. bb \in Block /\ bb \in Image(func_.blocks) BY <1>1, CurrentBlock
<1>3. /\ code[bb] # <<>> /\ op[brinstr] = "br" /\ Len(operands_[brinstr]) = 3
  BY DEF OnConstant
<1>4. brinstr \in Value /\ brinstr \in Image(code[bb])
  BY <1>2, <1>3, Terminators DEF brinstr, Image, Last
<1>5. operands_[brinstr][2] \in Block /\ operands_[brinstr][3] \in Block
  BY <1>1, <1>3, <1>4 DEF BranchesHaveTargets
<1>6. TargetsNow(bb) = Image(operands_[brinstr]) \cap Block
  BY <1>3 DEF TargetsNow, Targets, brinstr
<1>7. {operands_[brinstr][2], operands_[brinstr][3]} \subseteq Image(operands_[brinstr])
  BY <1>3 DEF Image
<1>8. target \in {operands_[brinstr][2], operands_[brinstr][3]}
  BY DEF target
<1>9. succ_bbs_[bb] = TargetsNow(bb)
  BY <1>1, <1>2 DEF EdgesMatchTerminators
<1>10. QED BY <1>2, <1>3, <1>4, <1>5, <1>6, <1>7, <1>8, <1>9

\* The pair of a phi for the current block.
LEMMA ThePair ==
  ASSUME TypeOK, NEW u \in Value, op[u] = "phi", PairOf(u) # 0
  PROVE  /\ PairOf(u) \in Nat /\ PairOf(u) % 2 = 1
         /\ PairOf(u) + 1 <= Len(operands_[u]) /\ operands_[u][PairOf(u) + 1] = bb
<1> DEFINE at_ == {k \in 1..Len(operands_[u]) : k % 2 = 0 /\ operands_[u][k] = bb}
<1>1. at_ # {} /\ PairOf(u) = (CHOOSE k \in at_ : TRUE) - 1
  BY DEF PairOf
<1>2. PICK k \in at_ : PairOf(u) = k - 1
  BY <1>1
<1>3. operands_[u] \in Seq(Operand) BY DEF TypeOK
<1>4. k \in 1..Len(operands_[u]) /\ k % 2 = 0 /\ operands_[u][k] = bb BY <1>2
<1>5. Len(operands_[u]) \in Nat BY <1>3
<1>6. k \in Nat /\ k >= 2 BY <1>4, <1>5
<1>7. QED BY <1>2, <1>4, <1>6

-----------------------------------------------------------------------------
\* A well-formed function satisfies the invariant as it comes.
LEMMA InitInvariant == Init => IInv
<1> SUFFICES ASSUME Init PROVE IInv OBVIOUS
<1>1. func_ \in Function /\ WellFormed(func_)
  BY FunctionsAssumption DEF Init
<1>2. TypeOK
  <2>1. /\ func_.blocks \in Seq(Block) /\ func_.code \in [Block -> Seq(Value)]
        /\ func_.operands \in [Value -> Seq(Operand)] /\ func_.op \in [Value -> Op]
        /\ func_.pre \in [Block -> SUBSET Block] /\ func_.succ \in [Block -> SUBSET Block]
    BY <1>1 DEF Function
  <2>2. at \in 1..(Len(func_.blocks) + 1) /\ ip \in Nat \ {0}
    BY <2>1 DEF Init
  <2>3. use_list_ \in [Operand -> SUBSET (Value \X (Nat \ {0}))]
    <3>1. ASSUME NEW x \in Operand, NEW p \in UsesIn(func_, x)
          PROVE  p \in Value \X (Nat \ {0})
      <4>1. PICK u \in UNION {Image(func_.code[b]) : b \in Block} :
              p \in {<<u, k>> : k \in {j \in 1..Len(func_.operands[u]) : func_.operands[u][j] = x}}
        BY <3>1 DEF UsesIn
      <4>2. PICK b \in Block : u \in Image(func_.code[b]) BY <4>1
      <4>3. u \in Value BY <2>1, <4>2 DEF Image
      <4>4. QED BY <2>1, <4>1, <4>3
    <3>2. QED BY <3>1 DEF Init
  <2>4. \A u \in Value : op[u] = "phi" =>
          /\ Len(operands_[u]) % 2 = 0
          /\ \A k \in 1..Len(operands_[u]) : operands_[u][k] \in Block <=> k % 2 = 0
    BY <1>1 DEF Init, WellFormed, op
  <2>5. QED BY <1>1, <2>1, <2>2, <2>3, <2>4 DEF Init, TypeOK
<1>3. UsesPlaced
  <2>1. ASSUME NEW x \in Value, NEW p \in use_list_[x] PROVE Placed(p)
    <3>1. x \in Operand BY DEF Operand
    <3>2. p \in UsesIn(func_, x) BY <3>1 DEF Init
    <3>3. PICK u \in UNION {Image(func_.code[b]) : b \in Block} :
            p \in {<<u, k>> : k \in {j \in 1..Len(func_.operands[u]) : func_.operands[u][j] = x}}
      BY <3>2 DEF UsesIn
    <3>4. /\ p[1] = u /\ p[2] \in 1..Len(operands_[u])
          /\ operands_[u][p[2]] = x
      BY <3>3 DEF Init
    <3>5. x \notin Block BY KindAssumption
    <3>6. u \in Value
      <4>1. PICK b \in Block : u \in Image(func_.code[b]) BY <3>3
      <4>2. func_.code[b] \in Seq(Value) BY <1>2, FunctionParts
      <4>3. QED BY <4>1, <4>2 DEF Image
    <3>7. Len(operands_[u]) \in Nat BY <1>2, <3>6 DEF TypeOK
    <3>8. CASE op[u] = "phi"
      <4>1. p[2] % 2 # 0 BY <1>2, <3>4, <3>5, <3>6, <3>8 DEF TypeOK
      <4>2. QED BY <3>4, <3>7, <3>8, <4>1 DEF Placed
    <3>9. CASE op[u] # "phi"
      BY <3>4, <3>5, <3>7, <3>9 DEF Placed
    <3>10. QED BY <3>8, <3>9
  <2>2. QED BY <2>1 DEF UsesPlaced, Init
<1>4. BranchesHaveTargets
  BY <1>1 DEF BranchesHaveTargets, WellFormed, Init, op
<1>5. EdgesMatchTerminators
  BY <1>1 DEF EdgesMatchTerminators, TargetsNow, Targets, WellFormed, GoesTo, Init, code
<1>6. PhisMatch
  <2>1. ASSUME NEW b \in Image(func_.blocks), NEW u \in PhisOf(b)
        PROVE  OnePairFor(operands_[u], pre_bbs_[b] \cap Given(u))
    <3>1. FromMem2Reg(func_, b, func_.operands[u])
      BY <1>1, <2>1 DEF WellFormed, PhisOf, code, op
    <3>2. Given(u) \subseteq func_.pre[b] /\ OnePairFor(func_.operands[u], Given(u))
      BY <3>1 DEF FromMem2Reg, Given
    <3>3. pre_bbs_[b] \cap Given(u) = Given(u) BY <3>2 DEF Init
    <3>4. QED BY <3>2, <3>3 DEF Init
  <2>2. QED BY <2>1 DEF PhisMatch
<1>7. QED BY <1>1, <1>2, <1>3, <1>4, <1>5, <1>6 DEF IInv

-----------------------------------------------------------------------------
\* What FoldBranch makes of the operands.
LEMMA FoldedOperands ==
  ASSUME IInv, FoldBranch
  PROVE  /\ operands_' \in [Value -> Seq(Operand)]
         /\ operands_'[brinstr] = <<target>>
         /\ \A u \in Value : u # brinstr =>
              \/ operands_'[u] = operands_[u]
              \/ /\ op[u] = "phi" /\ PairOf(u) # 0
                 /\ operands_'[u] = Without2(operands_[u], PairOf(u))
                 /\ \E s \in GivenUp : u \in PhisOf(s)
         /\ \A s \in GivenUp : \A u \in PhisOf(s) : PairOf(u) # 0 =>
              operands_'[u] = Without2(operands_[u], PairOf(u))
<1> DEFINE lost == {u \in UNION {PhisOf(s) : s \in GivenUp} : PairOf(u) # 0}
<1>1. operands_' = [u \in Value |->
        IF u = brinstr THEN <<target>>
        ELSE IF u \in lost THEN Erase(operands_[u], PairOf(u)) ELSE operands_[u]]
  BY DEF FoldBranch
<1>2. TypeOK /\ at <= Len(func_.blocks) /\ OnConstant
  BY DEF IInv, FoldBranch
<1>3. brinstr \in Value /\ op[brinstr] = "br" /\ target \in Block
  BY <1>2, Folded
<1>4. ASSUME NEW s \in GivenUp, NEW u \in PhisOf(s)
      PROVE  u \in Value /\ op[u] = "phi"
  <2>1. s \in Block BY <1>2, CurrentBlock DEF GivenUp, TypeOK
  <2>2. code[s] \in Seq(Value) BY <1>2, <2>1, FunctionParts DEF code
  <2>3. QED BY <2>2 DEF PhisOf, Image
<1>5. ASSUME NEW u \in lost
      PROVE  u \in Value /\ op[u] = "phi" /\ PairOf(u) # 0 /\ \E s \in GivenUp : u \in PhisOf(s)
  BY <1>4
<1>6. ASSUME NEW u \in Value
      PROVE  operands_'[u] \in Seq(Operand)
  <2>1. CASE u = brinstr
    BY <1>1, <1>3, <2>1 DEF Operand
  <2>2. CASE u # brinstr /\ u \in lost
    <3>1. /\ PairOf(u) \in Nat /\ PairOf(u) % 2 = 1 /\ PairOf(u) + 1 <= Len(operands_[u])
          /\ operands_[u] \in Seq(Operand)
      BY <1>2, <1>5, <2>2, ThePair DEF TypeOK
    <3>2. 1 <= PairOf(u) BY <3>1
    <3>3. QED BY <1>1, <2>2, <3>1, <3>2, WithoutPair DEF Erase
  <2>3. CASE u # brinstr /\ u \notin lost
    BY <1>1, <1>2, <2>3 DEF TypeOK
  <2>4. QED BY <2>1, <2>2, <2>3
<1>7. operands_' \in [Value -> Seq(Operand)]
  BY <1>1, <1>6
<1>8. ASSUME NEW s \in GivenUp, NEW u \in PhisOf(s), PairOf(u) # 0
      PROVE  operands_'[u] = Without2(operands_[u], PairOf(u))
  <2>1. u \in lost /\ u \in Value /\ u # brinstr BY <1>3, <1>4, <1>8
  <2>2. QED BY <1>1, <2>1 DEF Erase
<1>9. ASSUME NEW u \in Value, u # brinstr
      PROVE  \/ operands_'[u] = operands_[u]
             \/ /\ op[u] = "phi" /\ PairOf(u) # 0
                /\ operands_'[u] = Without2(operands_[u], PairOf(u))
                /\ \E s \in GivenUp : u \in PhisOf(s)
  <2>1. CASE u \in lost BY <1>1, <1>5, <1>9, <2>1 DEF Erase
  <2>2. CASE u \notin lost BY <1>1, <1>9, <2>2
  <2>3. QED BY <2>1, <2>2
<1> HIDE DEF lost
<1>10. QED BY <1>1, <1>3, <1>7, <1>8, <1>9

\* The pairs of a phi stay pairs.
LEMMA FoldKeepsTypes == ASSUME IInv, FoldBranch PROVE TypeOK'
<1>1. TypeOK /\ at <= Len(func_.blocks) /\ OnConstant
  BY DEF IInv, FoldBranch
<1>2. bb \in Block /\ brinstr \in Value /\ op[brinstr] = "br" /\ target \in Block
  BY <1>1, CurrentBlock, Folded
<1>3. UNCHANGED <<func_, pc, ip, instr, val, uses, wait_delete, deleted>> /\ at' = at + 1
  BY DEF FoldBranch, replacing
<1>4. at' \in 1..(Len(func_'.blocks) + 1) /\ ip' \in Nat \ {0}
  BY <1>1, <1>3, FunctionParts DEF TypeOK
<1>5. operands_' \in [Value -> Seq(Operand)] BY FoldedOperands
<1>6. ASSUME NEW u \in Value, op[u] = "phi"
      PROVE  /\ Len(operands_'[u]) % 2 = 0
             /\ \A k \in 1..Len(operands_'[u]) : operands_'[u][k] \in Block <=> k % 2 = 0
  <2>1. u # brinstr BY <1>2, <1>6
  <2>2. /\ Len(operands_[u]) % 2 = 0 /\ operands_[u] \in Seq(Operand) /\ Len(operands_[u]) \in Nat
        /\ \A k \in 1..Len(operands_[u]) : operands_[u][k] \in Block <=> k % 2 = 0
    BY <1>1, <1>6 DEF TypeOK
  <2>3. CASE operands_'[u] = operands_[u]
    BY <2>2, <2>3
  <2>4. CASE PairOf(u) # 0 /\ operands_'[u] = Without2(operands_[u], PairOf(u))
    <3>1. PairOf(u) \in Nat /\ PairOf(u) % 2 = 1 /\ PairOf(u) + 1 <= Len(operands_[u])
      BY <1>1, <1>6, <2>4, ThePair
    <3>2. 1 <= PairOf(u) BY <3>1
    <3>3. /\ Len(operands_'[u]) = Len(operands_[u]) - 2
          /\ \A j \in 1..(Len(operands_[u]) - 2) :
               operands_'[u][j] = IF j < PairOf(u) THEN operands_[u][j] ELSE operands_[u][j + 2]
      BY <2>2, <2>4, <3>1, <3>2, WithoutPair
    <3>4. ASSUME NEW k \in 1..(Len(operands_[u]) - 2)
          PROVE  operands_'[u][k] \in Block <=> k % 2 = 0
      <4>1. CASE k < PairOf(u) BY <2>2, <3>3, <4>1
      <4>2. CASE ~(k < PairOf(u))
        <5>1. k + 2 \in 1..Len(operands_[u]) /\ ((k + 2) % 2 = 0 <=> k % 2 = 0) BY <2>2
        <5>2. QED BY <2>2, <3>3, <4>2, <5>1
      <4>3. QED BY <4>1, <4>2
    <3>5. (Len(operands_[u]) - 2) % 2 = 0
      <4>1. \A n \in Nat : n >= 2 /\ n % 2 = 0 => (n - 2) % 2 = 0 OBVIOUS
      <4>2. Len(operands_[u]) >= 2 BY <2>2, <3>1, <3>2
      <4>3. QED BY <2>2, <4>1, <4>2
    <3>6. QED BY <3>3, <3>4, <3>5
  <2>5. \/ operands_'[u] = operands_[u]
        \/ PairOf(u) # 0 /\ operands_'[u] = Without2(operands_[u], PairOf(u))
    BY <2>1, FoldedOperands
  <2>6. QED BY <2>3, <2>4, <2>5
<1>7. use_list_' \in [Operand -> SUBSET (Value \X (Nat \ {0}))]
  BY <1>1, <1>2 DEF FoldBranch, TypeOK
<1>8. pre_bbs_' \in [Block -> SUBSET Block] /\ succ_bbs_' \in [Block -> SUBSET Block]
  BY <1>1, <1>2 DEF FoldBranch, TypeOK
<1>9. op' = op BY <1>3 DEF op
<1>10. QED BY <1>1, <1>3, <1>4, <1>5, <1>6, <1>7, <1>8, <1>9 DEF TypeOK

\* A use that stays is one of an instruction whose blocks do not move, or of a
\* phi.
LEMMA FoldKeepsUses == ASSUME IInv, FoldBranch PROVE UsesPlaced'
<1>1. TypeOK /\ UsesPlaced /\ at <= Len(func_.blocks) /\ OnConstant /\ pc = "fold"
  BY DEF IInv, FoldBranch
<1>2. target \in Block BY <1>1, Folded
<1>3. UNCHANGED <<func_, pc, instr, val, uses>>
  BY DEF FoldBranch, replacing
<1>4. op' = op BY <1>3 DEF op
<1>5. ASSUME NEW x \in Value, NEW p \in use_list_'[x]
      PROVE  Placed(p)'
  <2>1. x \in Operand /\ x # target BY <1>2, KindAssumption DEF Operand
  <2>2. p \in use_list_[x] /\ p[1] # brinstr BY <2>1 DEF FoldBranch
  <2>3. Placed(p) /\ p[1] \in Value BY <1>1, <2>1, <2>2 DEF UsesPlaced, TypeOK
  <2>4. CASE op[p[1]] = "phi" BY <1>4, <2>3, <2>4 DEF Placed
  <2>5. CASE op[p[1]] # "phi"
    <3>1. operands_'[p[1]] = operands_[p[1]] BY <2>2, <2>3, <2>5, FoldedOperands
    <3>2. QED BY <1>4, <2>3, <2>5, <3>1 DEF Placed
  <2>6. QED BY <2>4, <2>5
<1>6. uses' = {} /\ pc' = "fold" BY <1>1, <1>3 DEF UsesPlaced
<1>7. QED BY <1>5, <1>6 DEF UsesPlaced

\* The folded branch has one target.
LEMMA FoldKeepsBranches == ASSUME IInv, FoldBranch PROVE BranchesHaveTargets'
<1>1. TypeOK /\ BranchesHaveTargets /\ at <= Len(func_.blocks) /\ OnConstant
  BY DEF IInv, FoldBranch
<1>2. target \in Block /\ brinstr \in Value BY <1>1, Folded
<1>3. op' = op BY DEF FoldBranch, op
<1>4. ASSUME NEW u \in Value, op[u] = "br"
      PROVE  \A k \in 1..Len(operands_'[u]) :
               operands_'[u][k] \in Block <=> k > 1 \/ Len(operands_'[u]) # 3
  <2>1. CASE u = brinstr
    <3>1. operands_'[u] = <<target>> BY <2>1, FoldedOperands
    <3>2. QED BY <1>2, <3>1
  <2>2. CASE u # brinstr
    <3>1. operands_'[u] = operands_[u] BY <1>4, <2>2, FoldedOperands
    <3>2. QED BY <1>1, <1>4, <3>1 DEF BranchesHaveTargets
  <2>3. QED BY <2>1, <2>2
<1>5. QED BY <1>3, <1>4 DEF BranchesHaveTargets

\* The folded block goes to the target only, the others where they went.
LEMMA FoldedTargets ==
  ASSUME IInv, FoldBranch
  PROVE  \A c \in Block : TargetsNow(c)' = IF c = bb THEN {target} ELSE TargetsNow(c)
<1>1. TypeOK /\ at <= Len(func_.blocks) /\ OnConstant
  BY DEF IInv, FoldBranch
<1>2. bb \in Block /\ target \in Block /\ brinstr \in Value /\ brinstr \in Image(code[bb])
  BY <1>1, CurrentBlock, Folded
<1>3. code' = code /\ op' = op BY DEF FoldBranch, code, op
<1>4. ASSUME NEW c \in Block, c # bb
      PROVE  (IF code[c] = <<>> THEN {} ELSE Targets(operands_'[Last(code[c])])) = TargetsNow(c)
  <2>1. CASE code[c] = <<>> BY <2>1 DEF TargetsNow
  <2>2. CASE code[c] # <<>>
    <3>1. Last(code[c]) \in Value /\ op[Last(code[c])] \in {"br", "ret"} /\ Last(code[c]) \in Image(code[c])
      BY <1>4, <2>2, Terminators DEF Last, Image
    <3>2. Last(code[c]) # brinstr BY <1>2, <1>4, <3>1, OnePlace
    <3>3. operands_'[Last(code[c])] = operands_[Last(code[c])]
      BY <3>1, <3>2, FoldedOperands
    <3>4. QED BY <2>2, <3>3 DEF TargetsNow
  <2>3. QED BY <2>1, <2>2
<1>5. Targets(<<target>>) = {target} BY <1>2 DEF Targets, Image
<1>6. code[bb] # <<>> /\ Last(code[bb]) = brinstr BY <1>1 DEF OnConstant, brinstr
<1>7. \A c \in Block : TargetsNow(c)' = IF code[c] = <<>> THEN {} ELSE Targets(operands_'[Last(code[c])])
  BY <1>3 DEF TargetsNow
<1>8. operands_'[brinstr] = <<target>> BY FoldedOperands
<1>9. (IF code[bb] = <<>> THEN {} ELSE Targets(operands_'[Last(code[bb])])) = {target}
  BY <1>5, <1>6, <1>8
<1>10. QED BY <1>4, <1>7, <1>9

\* The edges of the folded block follow its branch.
LEMMA FoldKeepsEdges == ASSUME IInv, FoldBranch PROVE EdgesMatchTerminators'
<1>1. TypeOK /\ EdgesMatchTerminators /\ at <= Len(func_.blocks) /\ OnConstant
  BY DEF IInv, FoldBranch
<1>2. /\ bb \in Block /\ bb \in Image(func_.blocks) /\ target \in Block
      /\ target \in TargetsNow(bb) /\ succ_bbs_[bb] = TargetsNow(bb)
  BY <1>1, CurrentBlock, Folded
<1>3. Image(func_.blocks) \subseteq Block BY <1>1, FunctionParts DEF Image
<1>4. func_' = func_ BY DEF FoldBranch
<1>5. ASSUME NEW b \in Image(func_.blocks)
      PROVE  succ_bbs_'[b] = TargetsNow(b)'
  <2>1. succ_bbs_'[b] = IF b = bb THEN {target} ELSE succ_bbs_[b]
    BY <1>1, <1>2, <1>3 DEF FoldBranch, TypeOK
  <2>2. QED BY <1>1, <1>3, <2>1, FoldedTargets DEF EdgesMatchTerminators
<1>6. ASSUME NEW b \in Image(func_.blocks), NEW p \in Image(func_.blocks)
      PROVE  p \in pre_bbs_'[b] <=> b \in TargetsNow(p)'
  <2>1. p \in pre_bbs_[b] <=> b \in TargetsNow(p)
    BY <1>1 DEF EdgesMatchTerminators
  <2>2. pre_bbs_'[b] = (IF b \in succ_bbs_[bb] THEN pre_bbs_[b] \ {bb} ELSE pre_bbs_[b])
                         \cup (IF b = target THEN {bb} ELSE {})
    BY <1>3 DEF FoldBranch, Left
  <2>3. CASE p = bb
    BY <1>2, <1>3, <2>1, <2>2, <2>3, FoldedTargets
  <2>4. CASE p # bb
    BY <1>3, <2>1, <2>2, <2>4, FoldedTargets
  <2>5. QED BY <2>3, <2>4
<1>7. QED BY <1>4, <1>5, <1>6 DEF EdgesMatchTerminators

\* The phis of the target given up lose the pair of the folded block, and no
\* others do.
LEMMA FoldKeepsPhis == ASSUME IInv, FoldBranch PROVE PhisMatch'
<1>1. TypeOK /\ EdgesMatchTerminators /\ PhisMatch /\ at <= Len(func_.blocks) /\ OnConstant
  BY DEF IInv, FoldBranch
<1>2. /\ bb \in Block /\ bb \in Image(func_.blocks) /\ target \in Block
      /\ target \in TargetsNow(bb) /\ succ_bbs_[bb] = TargetsNow(bb)
      /\ op[brinstr] = "br"
  BY <1>1, CurrentBlock, Folded
<1>3. Image(func_.blocks) \subseteq Block BY <1>1, FunctionParts DEF Image
<1>4. func_' = func_ /\ code' = code /\ op' = op BY DEF FoldBranch, code, op
<1>5. ASSUME NEW b \in Image(func_.blocks), NEW u \in PhisOf(b)
      PROVE  OnePairFor(operands_'[u], pre_bbs_'[b] \cap Given(u))
  <2>1. u \in Value /\ op[u] = "phi" /\ u # brinstr /\ u \in Image(code[b])
    <3>1. code[b] \in Seq(Value) BY <1>1, <1>3, FunctionParts DEF code
    <3>2. QED BY <1>2, <3>1 DEF PhisOf, Image
  <2>2. OnePairFor(operands_[u], pre_bbs_[b] \cap Given(u)) BY <1>1 DEF PhisMatch
  <2>3. pre_bbs_'[b] = (IF b \in succ_bbs_[bb] THEN pre_bbs_[b] \ {bb} ELSE pre_bbs_[b])
                         \cup (IF b = target THEN {bb} ELSE {})
    BY <1>3 DEF FoldBranch, Left
  <2>4. bb \in pre_bbs_[b] <=> b \in succ_bbs_[bb]
    BY <1>1, <1>2 DEF EdgesMatchTerminators
  <2>5. CASE b \in GivenUp /\ bb \in Given(u)
    <3>1. b \in succ_bbs_[bb] /\ b # target BY <2>5 DEF GivenUp
    <3>2. pre_bbs_'[b] \cap Given(u) = (pre_bbs_[b] \cap Given(u)) \ {bb} BY <2>3, <3>1
    <3>3. \E k \in Pairs(operands_[u]) : operands_[u][k] = bb
      BY <2>2, <2>4, <2>5, <3>1 DEF OnePairFor
    <3>4. PairOf(u) # 0
      <4>1. operands_[u] \in Seq(Operand) /\ Len(operands_[u]) \in Nat BY <1>1, <2>1 DEF TypeOK
      <4>2. DEFINE at_ == {k \in 1..Len(operands_[u]) : k % 2 = 0 /\ operands_[u][k] = bb}
      <4>3. at_ # {} BY <3>3 DEF Pairs
      <4>4. PairOf(u) = (CHOOSE k \in at_ : TRUE) - 1 BY <4>3 DEF PairOf
      <4>5. PICK k \in at_ : PairOf(u) = k - 1 BY <4>3, <4>4
      <4>6. k \in Nat /\ k >= 2 BY <4>1
      <4>7. QED BY <4>5, <4>6
    <3>5. operands_'[u] = Without2(operands_[u], PairOf(u))
      BY <2>5, <3>4, FoldedOperands
    <3>6. /\ PairOf(u) \in Nat /\ PairOf(u) % 2 = 1 /\ PairOf(u) + 1 <= Len(operands_[u])
          /\ operands_[u][PairOf(u) + 1] = bb
      BY <1>1, <2>1, <3>4, ThePair
    <3>7. operands_[u] \in Seq(Operand) /\ Len(operands_[u]) % 2 = 0 BY <1>1, <2>1 DEF TypeOK
    <3>8. OnePairFor(Without2(operands_[u], PairOf(u)),
                     (pre_bbs_[b] \cap Given(u)) \ {operands_[u][PairOf(u) + 1]})
      BY <2>2, <3>6, <3>7, WithoutItsPair
    <3>9. QED BY <3>2, <3>5, <3>6, <3>8
  <2>8. CASE b \in GivenUp /\ bb \notin Given(u)
    <3>1. b \in succ_bbs_[bb] /\ b # target BY <2>8 DEF GivenUp
    <3>2. pre_bbs_'[b] \cap Given(u) = pre_bbs_[b] \cap Given(u) BY <2>3, <2>8, <3>1
    <3>3. \A k \in Pairs(operands_[u]) : operands_[u][k] # bb
      BY <2>2, <2>8 DEF OnePairFor
    <3>4. PairOf(u) = 0 BY <3>3 DEF PairOf, Pairs
    <3>5. operands_'[u] = operands_[u] BY <2>1, <3>4, FoldedOperands
    <3>6. QED BY <2>2, <3>2, <3>5
  <2>6. CASE b \notin GivenUp
    <3>1. pre_bbs_'[b] = pre_bbs_[b]
      BY <1>2, <2>3, <2>4, <2>6 DEF GivenUp
    <3>2. \A s \in GivenUp : u \notin PhisOf(s)
      <4>1. GivenUp \subseteq Block BY <1>1, <1>2 DEF GivenUp, TypeOK
      <4>2. QED BY <1>3, <2>1, <2>6, <4>1, OnePlace DEF PhisOf
    <3>3. operands_'[u] = operands_[u] BY <2>1, <3>2, FoldedOperands
    <3>4. QED BY <2>2, <3>1, <3>3
  <2>7. QED BY <2>5, <2>6, <2>8
<1>6. QED BY <1>4, <1>5 DEF PhisMatch, PhisOf, Given

-----------------------------------------------------------------------------
\* Replacing a use changes no length, and puts no block in and takes none out.
LEMMA ReplacedOperands ==
  ASSUME IInv, ReplaceUse
  PROVE  /\ operands_' \in [Value -> Seq(Operand)]
         /\ \A u \in Value :
              /\ Len(operands_'[u]) = Len(operands_[u])
              /\ \A j \in 1..Len(operands_[u]) :
                   \/ operands_'[u][j] = operands_[u][j]
                   \/ operands_[u][j] \notin Block /\ operands_'[u][j] \notin Block
<1>1. TypeOK /\ UsesPlaced /\ pc = "replace" BY DEF IInv, ReplaceUse
<1>2. val \in Operand /\ val \notin Block
  BY <1>1, KindAssumption DEF UsesPlaced, Operand
<1>3. PICK use \in uses :
        \/ operands_' = operands_
        \/ /\ use[2] <= Len(operands_[use[1]])
           /\ operands_' = [operands_ EXCEPT ![use[1]][use[2]] = val]
  <2>1. PICK use \in uses :
          IF use[2] > Len(operands_[use[1]]) THEN operands_' = operands_
          ELSE operands_' = [operands_ EXCEPT ![use[1]][use[2]] = val]
    BY DEF ReplaceUse
  <2>2. use[1] \in Value /\ use[2] \in Nat BY <1>1 DEF TypeOK
  <2>3. Len(operands_[use[1]]) \in Nat BY <1>1, <2>2 DEF TypeOK
  <2>4. CASE use[2] > Len(operands_[use[1]]) BY <2>1, <2>4
  <2>5. CASE ~(use[2] > Len(operands_[use[1]]))
    <3>1. use[2] <= Len(operands_[use[1]]) BY <2>2, <2>3, <2>5
    <3>2. QED BY <2>1, <2>5, <3>1
  <2>6. QED BY <2>4, <2>5
<1>4. CASE operands_' = operands_
  BY <1>1, <1>4 DEF TypeOK
<1>5. CASE /\ use[2] <= Len(operands_[use[1]])
           /\ operands_' = [operands_ EXCEPT ![use[1]][use[2]] = val]
  <2>1. use[1] \in Value /\ use[2] \in Nat \ {0} BY <1>1 DEF TypeOK
  <2>2. operands_[use[1]] \in Seq(Operand) /\ operands_ \in [Value -> Seq(Operand)]
    BY <1>1, <2>1 DEF TypeOK
  <2>3. use[2] \in 1..Len(operands_[use[1]]) BY <1>5, <2>1, <2>2
  <2>4. operands_[use[1]][use[2]] \notin Block
    BY <1>1, <2>1, <2>3 DEF UsesPlaced, Placed, TypeOK
  <2>5. operands_'[use[1]] = [operands_[use[1]] EXCEPT ![use[2]] = val]
    BY <1>5, <2>1, <2>2
  <2>6. /\ operands_'[use[1]] \in Seq(Operand)
        /\ Len(operands_'[use[1]]) = Len(operands_[use[1]])
        /\ \A j \in 1..Len(operands_[use[1]]) :
             operands_'[use[1]][j] = IF j = use[2] THEN val ELSE operands_[use[1]][j]
    BY <1>2, <2>2, <2>3, <2>5, ExceptSeq
  <2>7. \A u \in Value \ {use[1]} : operands_'[u] = operands_[u]
    BY <1>5, <2>2
  <2>8. \A u \in Value :
          /\ operands_'[u] \in Seq(Operand)
          /\ Len(operands_'[u]) = Len(operands_[u])
          /\ \A j \in 1..Len(operands_[u]) :
               \/ operands_'[u][j] = operands_[u][j]
               \/ operands_[u][j] \notin Block /\ operands_'[u][j] \notin Block
    BY <1>2, <2>2, <2>4, <2>6, <2>7
  <2>9. operands_' \in [Value -> Seq(Operand)]
    <3>1. operands_' = [operands_ EXCEPT ![use[1]] = operands_'[use[1]]]
      BY <1>5, <2>5
    <3>2. QED BY <2>2, <2>6, <3>1
  <2>10. QED BY <2>8, <2>9
<1>6. QED BY <1>3, <1>4, <1>5

\* Replacing a use keeps the invariant.
LEMMA ReplaceInvariant == ASSUME IInv, ReplaceUse PROVE IInv'
<1>1. TypeOK /\ UsesPlaced /\ BranchesHaveTargets /\ EdgesMatchTerminators /\ PhisMatch
      /\ WellFormed(func_) /\ pc = "replace"
  BY DEF IInv, ReplaceUse
<1>2. UNCHANGED <<func_, at, ip, pre_bbs_, succ_bbs_, instr, val, wait_delete, deleted>>
      /\ op' = op /\ code' = code
  BY DEF ReplaceUse, graph, op, code
<1>3. instr \in Value /\ val \in Value \cup Literal BY <1>1 DEF UsesPlaced
<1>4. /\ \A u \in Value : operands_[u] \in Seq(Operand) /\ Len(operands_[u]) \in Nat
      /\ uses \subseteq Value \X (Nat \ {0})
  BY <1>1 DEF TypeOK
<1>5. PICK use \in uses :
        /\ pc' \in {"replace", "abort"}
        /\ uses' \subseteq uses
        /\ use_list_' = use_list_ \/ use_list_' = [use_list_ EXCEPT ![val] = @ \cup {use}]
  BY <1>1 DEF ReplaceUse
<1>6. TypeOK'
  <2>1. operands_' \in [Value -> Seq(Operand)] BY ReplacedOperands
  <2>2. \A u \in Value : op[u] = "phi" =>
          /\ Len(operands_'[u]) % 2 = 0
          /\ \A k \in 1..Len(operands_'[u]) : operands_'[u][k] \in Block <=> k % 2 = 0
    BY <1>1, ReplacedOperands DEF TypeOK
  <2>3. use_list_' \in [Operand -> SUBSET (Value \X (Nat \ {0}))]
    BY <1>1, <1>4, <1>5 DEF TypeOK
  <2>4. QED BY <1>1, <1>2, <1>5, <2>1, <2>2, <2>3 DEF TypeOK
<1>7. UsesPlaced'
  <2>1. ASSUME NEW p \in Value \X (Nat \ {0}), Placed(p) PROVE Placed(p)'
    <3>1. p[1] \in Value /\ p[2] \in Nat \ {0} OBVIOUS
    <3>2. CASE op[p[1]] = "phi" BY <1>2, <2>1, <3>2 DEF Placed
    <3>3. CASE op[p[1]] # "phi"
      <4>1. p[2] \in 1..Len(operands_[p[1]]) /\ operands_[p[1]][p[2]] \notin Block
        BY <1>4, <2>1, <3>1, <3>3 DEF Placed
      <4>2. Len(operands_'[p[1]]) = Len(operands_[p[1]]) /\ operands_'[p[1]][p[2]] \notin Block
        BY <3>1, <4>1, ReplacedOperands
      <4>3. QED BY <1>2, <1>4, <3>1, <3>3, <4>1, <4>2 DEF Placed
    <3>4. QED BY <3>2, <3>3
  <2>2. \A p \in uses : Placed(p)' BY <1>1, <1>4, <2>1 DEF UsesPlaced
  <2>3. ASSUME NEW x \in Value, NEW p \in use_list_'[x] PROVE Placed(p)'
    <3>1. p \in use_list_[x] \/ p = use
      <4>1. x \in Operand /\ use_list_ \in [Operand -> SUBSET (Value \X (Nat \ {0}))]
        BY <1>1 DEF TypeOK, Operand
      <4>2. CASE use_list_' = use_list_ BY <2>3, <4>2
      <4>3. CASE use_list_' = [use_list_ EXCEPT ![val] = @ \cup {use}]
        <5>1. use_list_'[x] \subseteq use_list_[x] \cup {use} BY <4>1, <4>3
        <5>2. QED BY <2>3, <5>1
      <4>4. QED BY <1>5, <4>2, <4>3
    <3>2. use_list_[x] \subseteq Value \X (Nat \ {0}) BY <1>1 DEF TypeOK, Operand
    <3>3. QED BY <1>1, <2>1, <2>2, <3>1, <3>2 DEF UsesPlaced
  <2>4. QED BY <1>2, <1>3, <1>5, <2>2, <2>3 DEF UsesPlaced
<1>8. BranchesHaveTargets'
  BY <1>1, <1>2, ReplacedOperands DEF BranchesHaveTargets
<1>9. EdgesMatchTerminators'
  <2>1. ASSUME NEW b \in Block PROVE TargetsNow(b)' = TargetsNow(b)
    <3>1. CASE code[b] = <<>> BY <1>2, <3>1 DEF TargetsNow
    <3>2. CASE code[b] # <<>>
      <4>1. Last(code[b]) \in Value BY <3>2, Terminators
      <4>2. Targets(operands_'[Last(code[b])]) = Targets(operands_[Last(code[b])])
        <5>1. /\ Len(operands_'[Last(code[b])]) = Len(operands_[Last(code[b])])
              /\ \A j \in 1..Len(operands_[Last(code[b])]) :
                   \/ operands_'[Last(code[b])][j] = operands_[Last(code[b])][j]
                   \/ /\ operands_[Last(code[b])][j] \notin Block
                      /\ operands_'[Last(code[b])][j] \notin Block
          BY <4>1, ReplacedOperands
        <5>2. QED BY <5>1 DEF Targets, Image
      <4>3. QED BY <1>2, <3>2, <4>2 DEF TargetsNow
    <3>3. QED BY <3>1, <3>2
  <2>2. Image(func_.blocks) \subseteq Block BY <1>1, FunctionParts DEF Image
  <2>3. QED BY <1>1, <1>2, <2>1, <2>2 DEF EdgesMatchTerminators
<1>10. PhisMatch'
  <2>1. ASSUME NEW b \in Image(func_.blocks), NEW u \in PhisOf(b)
        PROVE  OnePairFor(operands_'[u], pre_bbs_[b] \cap Given(u))
    <3>1. u \in Value /\ op[u] = "phi"
      <4>1. b \in Block BY <1>1, FunctionParts DEF Image
      <4>2. code[b] \in Seq(Value) BY <1>1, <4>1, FunctionParts DEF code
      <4>3. QED BY <4>2 DEF PhisOf, Image
    <3>2. OnePairFor(operands_[u], pre_bbs_[b] \cap Given(u)) BY <1>1 DEF PhisMatch
    <3>3. Pairs(operands_'[u]) = Pairs(operands_[u])
      BY <3>1, ReplacedOperands DEF Pairs
    <3>4. ASSUME NEW j \in Pairs(operands_[u]) PROVE operands_'[u][j] = operands_[u][j]
      <4>1. j \in 1..Len(operands_[u]) /\ operands_[u][j] \in Block
        BY <1>1, <3>1 DEF TypeOK, Pairs
      <4>2. QED BY <3>1, <4>1, ReplacedOperands
    <3>5. QED BY <3>2, <3>3, <3>4 DEF OnePairFor
  <2>2. QED BY <1>2, <2>1 DEF PhisMatch, PhisOf, Given
<1>11. QED BY <1>1, <1>2, <1>6, <1>7, <1>8, <1>9, <1>10 DEF IInv

-----------------------------------------------------------------------------
\* The steps that leave the operands and the edges alone keep the invariant.
LEMMA OtherInvariant ==
  ASSUME IInv,
         \/ KeepBranch \/ StartPhis \/ SkipInstr \/ TakePhi
         \/ Replaced \/ EndOfBlock \/ Finish \/ UNCHANGED vars
  PROVE  IInv'
<1>1. TypeOK /\ UsesPlaced /\ BranchesHaveTargets /\ EdgesMatchTerminators /\ PhisMatch
      /\ WellFormed(func_)
  BY DEF IInv
<1>2. /\ UNCHANGED <<func_, operands_, pre_bbs_, succ_bbs_>>
      /\ op' = op /\ code' = code
  BY DEF KeepBranch, StartPhis, SkipInstr, TakePhi, Replaced, EndOfBlock, Finish, vars, graph, op, code
<1>3. \A b : TargetsNow(b)' = TargetsNow(b) /\ PhisOf(b)' = PhisOf(b)
  BY <1>2 DEF TargetsNow, PhisOf
<1>4. WellFormed(func_)' /\ BranchesHaveTargets' /\ EdgesMatchTerminators' /\ PhisMatch'
  <2>1. WellFormed(func_)' /\ BranchesHaveTargets' /\ EdgesMatchTerminators'
    BY <1>1, <1>2, <1>3 DEF BranchesHaveTargets, EdgesMatchTerminators
  <2>2. \A u : Given(u)' = Given(u) BY <1>2 DEF Given
  <2>3. PhisMatch' BY <1>1, <1>2, <1>3, <2>2 DEF PhisMatch
  <2>4. QED BY <2>1, <2>3
<1>5. \A p : Placed(p)' = Placed(p)
  BY <1>2 DEF Placed
<1>6. TypeOK' /\ UsesPlaced'
  <2>1. CASE KeepBranch \/ StartPhis \/ SkipInstr \/ Replaced \/ Finish \/ UNCHANGED vars
    <3>1. UNCHANGED <<use_list_, instr, val, uses, wait_delete, deleted>>
      BY <2>1 DEF KeepBranch, StartPhis, SkipInstr, Replaced, Finish, vars, replacing
    <3>2. /\ at' \in 1..(Len(func_.blocks) + 1) /\ ip' \in Nat \ {0}
          /\ pc' \in {"fold", "phis", "replace", "done", "abort", "undefined"}
      BY <1>1, <2>1, FunctionParts
      DEF TypeOK, KeepBranch, StartPhis, SkipInstr, Replaced, Finish, Scanning, vars
    <3>3. pc' = pc \/ pc' \in {"phis", "done"}
      BY <2>1 DEF KeepBranch, StartPhis, SkipInstr, Replaced, Finish, vars
    <3>4. QED BY <1>1, <1>2, <1>5, <3>1, <3>2, <3>3 DEF TypeOK, UsesPlaced
  <2>2. CASE TakePhi
    <3> DEFINE u == code[bb][ip]
    <3>1. u \in Value /\ op[u] = "phi"
      <4>1. bb \in Block BY <1>1, <2>2, CurrentBlock DEF TakePhi, Scanning
      <4>2. code[bb] \in Seq(Value) BY <1>1, <4>1, FunctionParts DEF code
      <4>3. ip \in 1..Len(code[bb]) BY <1>1, <2>2, <4>2 DEF TakePhi, Scanning, TypeOK
      <4>4. QED BY <2>2, <4>2, <4>3 DEF TakePhi, Single
    <3> HIDE DEF u
    <3>2. UNCHANGED <<at, ip, use_list_, deleted>>
      BY <2>2 DEF TakePhi, graph
    <3>3. CASE operands_[u] = <<>>
      <4>1. pc' = "undefined" /\ UNCHANGED <<instr, val, uses, wait_delete>>
        BY <2>2, <3>3 DEF TakePhi, replacing, u
      <4>2. QED BY <1>1, <1>2, <1>5, <3>2, <4>1 DEF TypeOK, UsesPlaced
    <3>4. CASE operands_[u] # <<>>
      <4>1. /\ instr' = u /\ val' = operands_[u][1] /\ uses' = use_list_[u]
            /\ wait_delete' = wait_delete \cup {u} /\ pc' = "replace"
        BY <2>2, <3>4 DEF TakePhi, u
      <4>2. operands_[u] \in Seq(Operand) /\ 1 \in 1..Len(operands_[u])
        BY <1>1, <3>1, <3>4 DEF TypeOK
      <4>3. operands_[u][1] \in Operand /\ operands_[u][1] \notin Block
        BY <1>1, <3>1, <4>2 DEF TypeOK
      <4>4. operands_[u][1] \in Value \cup Literal BY <4>3 DEF Operand
      <4>5. use_list_[u] \subseteq Value \X (Nat \ {0})
        BY <1>1, <3>1 DEF TypeOK, Operand
      <4>6. TypeOK' BY <1>1, <1>2, <3>1, <3>2, <4>1, <4>3, <4>5 DEF TypeOK
      <4>7. UsesPlaced' BY <1>1, <1>5, <3>1, <3>2, <4>1, <4>4 DEF UsesPlaced
      <4>8. QED BY <4>6, <4>7
    <3>5. QED BY <3>3, <3>4
  <2>3. CASE EndOfBlock
    <3>1. /\ UNCHANGED <<pc, instr, val, uses>> /\ pc = "phis"
          /\ deleted' = deleted \cup wait_delete /\ wait_delete' = {} /\ ip' = 1
          /\ use_list_' = [x \in Operand |-> {p \in use_list_[x] : ~Forgets(p[1], x)}]
      BY <2>3 DEF EndOfBlock, replacing
    <3>2. at' \in 1..(Len(func_.blocks) + 1)
      BY <1>1, <2>3, FunctionParts DEF EndOfBlock, TypeOK
    <3>3. \A x \in Operand : use_list_'[x] \subseteq use_list_[x]
      BY <3>1
    <3>4. use_list_' \in [Operand -> SUBSET (Value \X (Nat \ {0}))]
      BY <1>1, <3>1, <3>3 DEF TypeOK
    <3>5. TypeOK' BY <1>1, <1>2, <3>1, <3>2, <3>4 DEF TypeOK
    <3>6. UsesPlaced' BY <1>1, <1>5, <3>1, <3>3 DEF UsesPlaced, Operand
    <3>7. QED BY <3>5, <3>6
  <2>4. QED BY <2>1, <2>2, <2>3
<1>7. QED BY <1>4, <1>6 DEF IInv

\* Folding a branch keeps the invariant.
LEMMA FoldInvariant == ASSUME IInv, FoldBranch PROVE IInv'
<1>1. WellFormed(func_)' BY DEF IInv, FoldBranch
<1>2. QED
  BY <1>1, FoldKeepsTypes, FoldKeepsUses, FoldKeepsBranches, FoldKeepsEdges, FoldKeepsPhis DEF IInv

\* Whatever well-formed function the pass is given, the invariant holds.
THEOREM Invariant == Spec => []IInv
<1>1. Init => IInv BY InitInvariant
<1>2. IInv /\ [Next]_vars => IInv'
  BY FoldInvariant, ReplaceInvariant, OtherInvariant DEF Next
<1>3. QED BY <1>1, <1>2, PTL DEF Spec

\* Types: pairs are taken from a phi whole, so that values and blocks keep
\* their places, and no use puts a value where a block was.
THEOREM TypeCorrect == Spec => []TypeOK
<1>1. IInv => TypeOK BY DEF IInv
<1>2. QED BY <1>1, Invariant, PTL

\* However many branches are folded and uses replaced, out of date or not, the
\* lists of predecessors and successors say what the terminators say.
THEOREM EdgesFollowTerminators == Spec => []EdgesMatchTerminators
<1>1. IInv => EdgesMatchTerminators BY DEF IInv
<1>2. QED BY <1>1, Invariant, PTL

\* Of whatever pairs Mem2Reg gave a phi it keeps exactly those of the blocks
\* that still are predecessors of its own, after each fold and each replacement.
THEOREM PhisFollowPredecessors == Spec => []PhisMatchPredecessors
<1>1. IInv => PhisMatchPredecessors BY DEF IInv, PhisMatch, PhisMatchPredecessors
<1>2. QED BY <1>1, Invariant, PTL

-----------------------------------------------------------------------------
(***************************************************************************)
(* The use lists.  A phi that lost a pair may stand in them at positions   *)
(* it no longer has.  But while it is reduced to one pair, its value has it *)
(* on record (Held), so that delete_instr takes it off the record.         *)
(***************************************************************************)

\* What is to be deleted are phis of one pair that were gone through in this
\* block; of the blocks to come nothing is deleted.
Waiting ==
  /\ pc = "fold" => wait_delete = {} /\ deleted = {}
  /\ \A n \in at..Len(func_.blocks) : Image(code[func_.blocks[n]]) \cap deleted = {}
  /\ \A u \in wait_delete :
       /\ Single(u) /\ u \notin deleted /\ at <= Len(func_.blocks)
       /\ \E j \in 1..Len(code[bb]) : code[bb][j] = u /\ (j < ip \/ (pc = "replace" /\ j = ip))
  /\ pc = "replace" => /\ at <= Len(func_.blocks) /\ ip <= Len(code[bb])
                       /\ instr = code[bb][ip] /\ instr \in wait_delete

\* The records are those of the uses of x, as far as no pair was taken.
Exact(x, records) ==
  /\ \A p \in records : p[1] \in Present
  /\ \A u \in Present : Whole(u) =>
       \A k \in 1..Len(operands_[u]) : operands_[u][k] = x <=> <<u, k>> \in records

\* A phi on record uses x, if it has one pair.
Held(u, x) == op[u] = "phi" /\ (pc = "fold" \/ Single(u)) => x \in Image(operands_[u])

\* The values the function keeps.
Kept == (Present \ wait_delete) \cup Literal

\* What is known of the use lists while the pass goes on.
Shortened == \A u \in Value : Len(operands_[u]) <= Len(func_.operands[u])
KeptKnown == \A x \in Kept : Exact(x, use_list_[x]) /\ \A p \in use_list_[x] : Held(p[1], x)
LeftKnown ==
  pc = "replace" => Exact(instr, uses) /\ \A p \in uses : p[2] = 1 => Held(p[1], instr)
UsesKnown ==
  pc \in {"fold", "phis", "replace"} => Shortened /\ Waiting /\ KeptKnown /\ LeftKnown

-----------------------------------------------------------------------------
\* What is present are instructions; a kept value is no block.
LEMMA KeptValues ==
  ASSUME TypeOK
  PROVE  /\ Present \subseteq Value
         /\ Kept \subseteq Value \cup Literal
         /\ \A x \in Kept : x \in Operand /\ x \notin Block
<1>1. ASSUME NEW b \in Image(func_.blocks) PROVE Image(code[b]) \subseteq Value
  <2>1. b \in Block BY FunctionParts DEF Image
  <2>2. code[b] \in Seq(Value) BY <2>1, FunctionParts DEF code
  <2>3. QED BY <2>2 DEF Image
<1>2. Present \subseteq Value BY <1>1 DEF Present
<1>3. QED BY <1>2, KindAssumption DEF Kept, Operand

\* The instructions of the block gone through are present, and each stands
\* there once.
LEMMA CurrentCode ==
  ASSUME IInv, Waiting, at <= Len(func_.blocks)
  PROVE  /\ code[bb] \in Seq(Value) /\ Len(code[bb]) \in Nat
         /\ \A j \in 1..Len(code[bb]) : code[bb][j] \in Present
         /\ \A j, k \in 1..Len(code[bb]) : code[bb][j] = code[bb][k] => j = k
<1>1. TypeOK /\ WellFormed(func_) BY DEF IInv
<1>2. bb \in Block /\ bb \in Image(func_.blocks) BY <1>1, CurrentBlock
<1>3. code[bb] \in Seq(Value) BY <1>1, <1>2, FunctionParts DEF code
<1>4. Image(code[bb]) \cap deleted = {}
  <2>1. at \in at..Len(func_.blocks) BY <1>1, FunctionParts DEF TypeOK
  <2>2. QED BY <2>1 DEF Waiting, bb
<1>5. \A j \in 1..Len(code[bb]) : code[bb][j] \in Present
  BY <1>2, <1>4 DEF Present, Image
<1>6. \A j, k \in 1..Len(code[bb]) : code[bb][j] = code[bb][k] => j = k
  BY <1>1, <1>2 DEF WellFormed, code
<1>7. QED BY <1>3, <1>5, <1>6

\* The use lists are exact as add_use makes them.
LEMMA InitUses == Init => UsesKnown
<1> SUFFICES ASSUME Init PROVE UsesKnown OBVIOUS
<1>1. TypeOK /\ WellFormed(func_) BY InitInvariant DEF IInv
<1>2. /\ pc = "fold" /\ wait_delete = {} /\ deleted = {} /\ operands_ = func_.operands
      /\ use_list_ = [x \in Operand |-> UsesIn(func_, x)]
  BY DEF Init
<1>3. /\ \A b \in Block : func_.code[b] \in Seq(Value)
      /\ \A u \in Value : operands_[u] \in Seq(Operand) /\ Len(operands_[u]) \in Nat
      /\ Image(func_.blocks) \subseteq Block
  BY <1>1, FunctionParts DEF TypeOK, Image
<1>4. Present = UNION {Image(func_.code[b]) : b \in Block}
  <2>1. \A b \in Block \ Image(func_.blocks) : Image(func_.code[b]) = {}
    BY <1>1 DEF WellFormed, Listed, Image
  <2>2. QED BY <1>2, <1>3, <2>1 DEF Present, code
<1>5. ASSUME NEW x \in Kept
      PROVE  Exact(x, use_list_[x]) /\ \A p \in use_list_[x] : Held(p[1], x)
  <2>1. x \in Operand /\ Present \subseteq Value BY <1>1, <1>5, KeptValues
  <2>2. use_list_[x] =
          UNION {{<<u, k>> : k \in {j \in 1..Len(operands_[u]) : operands_[u][j] = x}} : u \in Present}
    BY <1>2, <1>4, <2>1 DEF UsesIn
  <2>3. ASSUME NEW p \in use_list_[x]
        PROVE  p[1] \in Present /\ x \in Image(operands_[p[1]])
    <3>1. PICK u \in Present :
            p \in {<<u, k>> : k \in {j \in 1..Len(operands_[u]) : operands_[u][j] = x}}
      BY <2>2, <2>3
    <3>2. PICK k \in 1..Len(operands_[u]) : p = <<u, k>> /\ operands_[u][k] = x BY <3>1
    <3>3. QED BY <3>2 DEF Image
  <2>4. ASSUME NEW u \in Present, NEW k \in 1..Len(operands_[u])
        PROVE  operands_[u][k] = x <=> <<u, k>> \in use_list_[x]
    <3>1. operands_[u][k] = x => <<u, k>> \in use_list_[x] BY <2>2
    <3>2. ASSUME <<u, k>> \in use_list_[x] PROVE operands_[u][k] = x
      <4>1. PICK v \in Present :
              <<u, k>> \in {<<v, i>> : i \in {j \in 1..Len(operands_[v]) : operands_[v][j] = x}}
        BY <2>2, <3>2
      <4>2. PICK i \in 1..Len(operands_[v]) : <<u, k>> = <<v, i>> /\ operands_[v][i] = x BY <4>1
      <4>3. QED BY <4>2
    <3>3. QED BY <3>1, <3>2
  <2>5. QED BY <2>3, <2>4 DEF Exact, Held
<1>6. Shortened BY <1>2, <1>3 DEF Shortened
<1>7. Waiting BY <1>2 DEF Waiting
<1>8. QED BY <1>2, <1>5, <1>6, <1>7 DEF UsesKnown, KeptKnown, LeftKnown

\* A phi that loses the pair of the folded block.
Lost(u) == PairOf(u) # 0 /\ \E s \in GivenUp : u \in PhisOf(s)

\* What FoldBranch leaves of a use list.
LEMMA FoldedUses ==
  ASSUME IInv, FoldBranch, NEW x \in Operand, x \notin Block
  PROVE  \A p : p \in use_list_'[x] <=>
           p \in use_list_[x] /\ p[1] # brinstr /\ ~(Lost(p[1]) /\ Dropped(p[1], x))
<1> DEFINE lost == {u \in UNION {PhisOf(s) : s \in GivenUp} : PairOf(u) # 0}
<1>1. x # target BY Folded DEF FoldBranch
<1>2. \A u : u \in lost <=> Lost(u) BY DEF Lost
<1>3. use_list_'[x] = {p \in use_list_[x] : ~(p[1] \in lost /\ Dropped(p[1], x)) /\ p[1] # brinstr}
  BY <1>1 DEF FoldBranch
<1> HIDE DEF lost
<1>4. QED BY <1>2, <1>3

\* A phi that loses a pair has two operands less, and uses what it used but for
\* the pair.
LEMMA LostPair ==
  ASSUME IInv, FoldBranch, NEW u \in Value, Lost(u)
  PROVE  /\ op[u] = "phi" /\ u # brinstr
         /\ Len(operands_'[u]) = Len(operands_[u]) - 2
         /\ \A x \in Image(operands_[u]) : ~Dropped(u, x) => x \in Image(operands_'[u])
<1>1. TypeOK /\ at <= Len(func_.blocks) /\ OnConstant BY DEF IInv, FoldBranch
<1>2. op[u] = "phi" /\ u # brinstr
  BY <1>1, Folded DEF Lost, PhisOf
<1>3. operands_'[u] = Without2(operands_[u], PairOf(u)) BY FoldedOperands DEF Lost
<1>4. /\ PairOf(u) \in Nat /\ PairOf(u) % 2 = 1 /\ PairOf(u) + 1 <= Len(operands_[u])
      /\ operands_[u] \in Seq(Operand) /\ Len(operands_[u]) \in Nat
  BY <1>1, <1>2, ThePair DEF Lost, TypeOK
<1>5. 1 <= PairOf(u) BY <1>4
<1>6. /\ Len(operands_'[u]) = Len(operands_[u]) - 2
      /\ \A j \in 1..(Len(operands_[u]) - 2) :
           operands_'[u][j] = IF j < PairOf(u) THEN operands_[u][j] ELSE operands_[u][j + 2]
  BY <1>3, <1>4, <1>5, WithoutPair, ZenonT(40)
<1>7. ASSUME NEW x \in Image(operands_[u]), ~Dropped(u, x)
      PROVE  x \in Image(operands_'[u])
  <2>1. PICK j \in 1..Len(operands_[u]) : operands_[u][j] = x BY <1>7 DEF Image
  <2>2. j # PairOf(u) /\ j # PairOf(u) + 1 BY <1>7, <2>1 DEF Dropped
  <2>3. CASE j < PairOf(u)
    <3>1. j \in 1..Len(operands_'[u]) /\ operands_'[u][j] = x BY <1>4, <1>6, <2>1, <2>3
    <3>2. QED BY <3>1 DEF Image
  <2>4. CASE ~(j < PairOf(u))
    <3>1. /\ j - 2 \in 1..(Len(operands_[u]) - 2) /\ ~(j - 2 < PairOf(u)) /\ (j - 2) + 2 = j
      BY <1>4, <1>5, <2>1, <2>2, <2>4
    <3>2. j - 2 \in 1..Len(operands_'[u]) /\ operands_'[u][j - 2] = x BY <1>6, <2>1, <3>1
    <3>3. QED BY <3>2 DEF Image
  <2>5. QED BY <2>3, <2>4
<1>8. QED BY <1>2, <1>6, <1>7

\* Folding a branch takes the records off with the operands.
LEMMA FoldUses == ASSUME IInv, UsesKnown, FoldBranch PROVE UsesKnown'
<1>1. /\ TypeOK /\ at <= Len(func_.blocks) /\ OnConstant /\ pc = "fold"
      /\ Shortened /\ Waiting /\ KeptKnown
  BY DEF IInv, FoldBranch, UsesKnown
<1>2. /\ UNCHANGED <<func_, pc, ip, wait_delete, deleted>> /\ at' = at + 1
      /\ op' = op /\ code' = code
  BY DEF FoldBranch, op, code
<1>3. Present' = Present /\ Kept' = Kept BY <1>2 DEF Present, Kept
<1>4. brinstr \in Value /\ op[brinstr] = "br" /\ Len(operands_[brinstr]) = 3
      /\ Len(operands_'[brinstr]) = 1
  <2>1. operands_'[brinstr] = <<target>> BY FoldedOperands
  <2>2. QED BY <1>1, <2>1, Folded DEF OnConstant
<1>5. \A u \in Value : /\ operands_[u] \in Seq(Operand) /\ Len(operands_[u]) \in Nat
                       /\ Len(func_.operands[u]) \in Nat
  BY <1>1, FunctionParts DEF TypeOK
<1>6. \A u \in Value : u # brinstr /\ ~Lost(u) => operands_'[u] = operands_[u]
  BY FoldedOperands DEF Lost
<1>7. \A u \in Value : Lost(u) => Len(operands_'[u]) = Len(operands_[u]) - 2
  BY LostPair
<1>8. Shortened'
  <2>1. ASSUME NEW u \in Value PROVE Len(operands_'[u]) <= Len(func_.operands[u])
    <3>1. /\ Len(operands_[u]) <= Len(func_.operands[u])
          /\ Len(operands_[u]) \in Nat /\ Len(func_.operands[u]) \in Nat
      BY <1>1, <1>5 DEF Shortened
    <3>2. CASE u = brinstr
      <4>1. Len(operands_'[u]) = 1 /\ Len(operands_[u]) = 3 BY <1>4, <3>2
      <4>2. QED BY <3>1, <4>1
    <3>3. CASE u # brinstr /\ Lost(u)
      <4>1. Len(operands_'[u]) = Len(operands_[u]) - 2 BY <1>7, <3>3
      <4>2. QED BY <3>1, <4>1
    <3>4. CASE u # brinstr /\ ~Lost(u)
      <4>1. operands_'[u] = operands_[u] BY <1>6, <3>4
      <4>2. QED BY <3>1, <4>1
    <3>5. QED BY <3>2, <3>3, <3>4
  <2>2. QED BY <1>2, <2>1 DEF Shortened
<1>9. ASSUME NEW u \in Value, Len(operands_'[u]) = Len(func_.operands[u])
      PROVE  u # brinstr /\ ~Lost(u) /\ operands_'[u] = operands_[u] /\ Whole(u)
  <2> DEFINE was == Len(operands_[u])
             is  == Len(operands_'[u])
  <2>0. was <= is /\ was \in Nat BY <1>1, <1>5, <1>9 DEF Shortened
  <2>1. u # brinstr
    <3>1. u = brinstr => was = 3 /\ is = 1 BY <1>4
    <3> HIDE DEF was, is
    <3>2. QED BY <2>0, <3>1
  <2>2. ~Lost(u)
    <3>1. Lost(u) => is = was - 2 BY <1>7
    <3> HIDE DEF was, is
    <3>2. QED BY <2>0, <3>1
  <2>3. operands_'[u] = operands_[u] BY <1>6, <2>1, <2>2
  <2>4. QED BY <1>9, <2>1, <2>2, <2>3 DEF Whole
<1>10. Waiting'
  <2>1. wait_delete = {} /\ deleted = {} BY <1>1 DEF Waiting
  <2>2. QED BY <1>1, <1>2, <2>1 DEF Waiting
<1>11. ASSUME NEW x \in Kept
       PROVE  /\ \A p \in use_list_'[x] : p[1] \in Present
              /\ \A u \in Present : Len(operands_'[u]) = Len(func_.operands[u]) =>
                   \A k \in 1..Len(operands_'[u]) : operands_'[u][k] = x <=> <<u, k>> \in use_list_'[x]
              /\ \A p \in use_list_'[x] : op[p[1]] = "phi" => x \in Image(operands_'[p[1]])
  <2>1. x \in Operand /\ x \notin Block /\ Present \subseteq Value BY <1>1, KeptValues
  <2>2. \A p : p \in use_list_'[x] <=>
          p \in use_list_[x] /\ p[1] # brinstr /\ ~(Lost(p[1]) /\ Dropped(p[1], x))
    BY <2>1, FoldedUses
  <2>3. /\ \A p \in use_list_[x] : p[1] \in Present
        /\ \A u \in Present : Whole(u) =>
             \A k \in 1..Len(operands_[u]) : operands_[u][k] = x <=> <<u, k>> \in use_list_[x]
        /\ \A p \in use_list_[x] : op[p[1]] = "phi" => x \in Image(operands_[p[1]])
    BY <1>1 DEF KeptKnown, Exact, Held
  <2>4. ASSUME NEW u \in Present, Len(operands_'[u]) = Len(func_.operands[u]),
               NEW k \in 1..Len(operands_'[u])
        PROVE  operands_'[u][k] = x <=> <<u, k>> \in use_list_'[x]
    <3>1. u # brinstr /\ ~Lost(u) /\ operands_'[u] = operands_[u] /\ Whole(u)
      BY <1>9, <2>1, <2>4
    <3>2. <<u, k>> \in use_list_'[x] <=> <<u, k>> \in use_list_[x] BY <2>2, <3>1
    <3>3. QED BY <2>3, <2>4, <3>1, <3>2
  <2>5. ASSUME NEW p \in use_list_'[x], op[p[1]] = "phi"
        PROVE  x \in Image(operands_'[p[1]])
    <3>1. p[1] \in Value /\ p[1] # brinstr /\ x \in Image(operands_[p[1]])
      BY <1>4, <2>1, <2>2, <2>3, <2>5
    <3>2. CASE Lost(p[1])
      <4>1. ~Dropped(p[1], x) BY <2>2, <2>5, <3>2
      <4>2. QED BY <3>1, <3>2, <4>1, LostPair
    <3>3. CASE ~Lost(p[1]) BY <1>6, <3>1, <3>3
    <3>4. QED BY <3>2, <3>3
  <2>6. QED BY <2>2, <2>3, <2>4, <2>5
<1>12. KeptKnown'
  <2>1. ASSUME NEW x \in Kept
        PROVE  Exact(x, use_list_[x])' /\ (\A p \in use_list_[x] : Held(p[1], x))'
    <3>1. Exact(x, use_list_[x])' BY <1>2, <1>3, <1>11 DEF Exact, Whole
    <3>2. (\A p \in use_list_[x] : Held(p[1], x))' BY <1>1, <1>2, <1>11 DEF Held
    <3>3. QED BY <3>1, <3>2
  <2>2. QED BY <1>3, <2>1 DEF KeptKnown
<1>13. LeftKnown' BY <1>1, <1>2 DEF LeftKnown
<1>14. QED BY <1>8, <1>10, <1>12, <1>13 DEF UsesKnown

-----------------------------------------------------------------------------
\* A phi of one pair that is gone through is kept so far: what its use list
\* says is what is to be replaced.
LEMMA TakeUses == ASSUME IInv, UsesKnown, TakePhi PROVE UsesKnown'
<1> DEFINE u == code[bb][ip]
<1>1. /\ TypeOK /\ at <= Len(func_.blocks) /\ ip \in 1..Len(code[bb]) /\ pc = "phis"
      /\ Shortened /\ Waiting /\ KeptKnown /\ Single(u)
  BY DEF IInv, TakePhi, Scanning, UsesKnown, TypeOK
<1>2. /\ code[bb] \in Seq(Value) /\ Len(code[bb]) \in Nat
      /\ \A j \in 1..Len(code[bb]) : code[bb][j] \in Present
      /\ \A j, k \in 1..Len(code[bb]) : code[bb][j] = code[bb][k] => j = k
  BY <1>1, CurrentCode
<1>3. UNCHANGED <<func_, at, ip, operands_, use_list_, deleted>> BY DEF TakePhi, graph
<1>4. op' = op /\ code' = code /\ bb' = bb /\ Present' = Present
  BY <1>3 DEF op, code, bb, Present
<1>5. CASE operands_[u] = <<>>
  BY <1>5 DEF TakePhi, UsesKnown
<1>6. CASE operands_[u] # <<>>
  <2>1. /\ instr' = u /\ uses' = use_list_[u] /\ pc' = "replace"
        /\ wait_delete' = wait_delete \cup {u}
    BY <1>6 DEF TakePhi
  <2>2. u \in Present BY <1>1, <1>2
  <2>3. u \notin wait_delete
    <3>1. SUFFICES ASSUME u \in wait_delete PROVE FALSE OBVIOUS
    <3>2. PICK j \in 1..Len(code[bb]) : code[bb][j] = u /\ j < ip BY <1>1, <3>1 DEF Waiting
    <3>3. j = ip BY <1>1, <1>2, <3>2
    <3>4. QED BY <1>1, <1>2, <3>2, <3>3
  <2>4. u \in Kept /\ u \notin deleted BY <2>2, <2>3 DEF Kept, Present
  <2> HIDE DEF u
  <2>5. Shortened' BY <1>1, <1>3 DEF Shortened
  <2>6. Waiting'
    <3>1. ASSUME NEW v \in wait_delete'
          PROVE  /\ Single(v) /\ v \notin deleted
                 /\ \E j \in 1..Len(code[bb]) : code[bb][j] = v /\ (j < ip \/ j = ip)
      <4>1. CASE v \in wait_delete BY <1>1, <4>1 DEF Waiting
      <4>2. CASE v = u BY <1>1, <2>4, <4>2 DEF u
      <4>3. QED BY <2>1, <3>1, <4>1, <4>2
    <3>2. \A v : Single(v)' = Single(v) BY <1>3, <1>4 DEF Single
    <3>3. \A n \in at..Len(func_.blocks) : Image(code[func_.blocks[n]]) \cap deleted = {}
      BY <1>1 DEF Waiting
    <3>4. /\ at <= Len(func_.blocks) /\ ip <= Len(code[bb])
          /\ u = code[bb][ip] /\ u \in wait_delete'
      BY <1>1, <1>2, <2>1 DEF u
    <3>5. QED BY <1>3, <1>4, <2>1, <3>1, <3>2, <3>3, <3>4 DEF Waiting
  <2>7. Kept' \subseteq Kept BY <1>4, <2>1 DEF Kept
  <2>8. ASSUME NEW x \in Kept
        PROVE  /\ Exact(x, use_list_[x])' /\ (\A p \in use_list_[x] : Held(p[1], x))'
               /\ Exact(x, use_list_[x]) /\ \A p \in use_list_[x] : Held(p[1], x)
    <3>1. Exact(x, use_list_[x]) /\ \A p \in use_list_[x] : Held(p[1], x)
      BY <1>1 DEF KeptKnown
    <3>2. Exact(x, use_list_[x])' BY <1>3, <1>4, <3>1 DEF Exact, Whole
    <3>3. (\A p \in use_list_[x] : Held(p[1], x))'
      BY <1>1, <1>3, <1>4, <2>1, <3>1 DEF Held, Single
    <3>4. QED BY <3>1, <3>2, <3>3
  <2>9. KeptKnown' BY <2>7, <2>8 DEF KeptKnown
  <2>10. LeftKnown'
    <3>1. Exact(u, use_list_[u]) /\ \A p \in use_list_[u] : Held(p[1], u) BY <2>4, <2>8
    <3>2. Exact(instr, uses)' BY <1>3, <1>4, <2>1, <3>1 DEF Exact, Whole
    <3>3. (\A p \in uses : Held(p[1], instr))' BY <1>1, <1>3, <1>4, <2>1, <3>1 DEF Held, Single
    <3>4. QED BY <3>2, <3>3 DEF LeftKnown
  <2>11. QED BY <2>5, <2>6, <2>9, <2>10 DEF UsesKnown
<1>7. QED BY <1>5, <1>6

\* What set_operand does, where it does not fail: the operand that is replaced
\* is the phi, unless a pair was taken from the user; it is so in a phi of one
\* pair too.
LEMMA OneUse ==
  ASSUME IInv, UsesKnown, ReplaceUse, pc' = "replace"
  PROVE  \E use \in uses :
           /\ use \in Value \X (Nat \ {0}) /\ use[1] \in Present
           /\ use[2] \in 1..Len(operands_[use[1]])
           /\ operands_' = [operands_ EXCEPT ![use[1]][use[2]] = val]
           /\ use_list_' = [use_list_ EXCEPT ![val] = @ \cup {use}]
           /\ uses' = IF val = instr THEN uses ELSE uses \ {use}
           /\ Whole(use[1]) \/ Single(use[1]) => operands_[use[1]][use[2]] = instr
           /\ Single(use[1]) => use[2] = 1
<1>1. /\ TypeOK /\ UsesPlaced /\ pc = "replace" /\ LeftKnown
  BY DEF IInv, ReplaceUse, UsesKnown
<1>2. PICK use \in uses :
        IF use[2] > Len(operands_[use[1]]) THEN pc' = "abort"
        ELSE /\ operands_' = [operands_ EXCEPT ![use[1]][use[2]] = val]
             /\ use_list_' = [use_list_ EXCEPT ![val] = @ \cup {use}]
             /\ uses' = IF val = instr THEN uses ELSE uses \ {use}
  BY DEF ReplaceUse
<1>3. use \in Value \X (Nat \ {0}) /\ use[1] \in Value /\ use[2] \in Nat \ {0} /\ use = <<use[1], use[2]>>
  BY <1>1 DEF TypeOK
<1>4. operands_[use[1]] \in Seq(Operand) /\ Len(operands_[use[1]]) \in Nat
  BY <1>1, <1>3 DEF TypeOK
<1>5. use[2] \in 1..Len(operands_[use[1]]) BY <1>2, <1>3, <1>4
<1>6. use[1] \in Present BY <1>1 DEF LeftKnown, Exact
<1>7. ASSUME Single(use[1])
      PROVE  use[2] = 1 /\ operands_[use[1]][use[2]] = instr
  <2>1. use[2] % 2 = 1 BY <1>1, <1>7 DEF UsesPlaced, Placed, Single
  <2>2. use[2] <= 2 BY <1>4, <1>5, <1>7 DEF Single
  <2>3. use[2] = 1 BY <1>3, <2>1, <2>2
  <2>4. instr \in Image(operands_[use[1]])
    BY <1>1, <1>7, <2>3 DEF LeftKnown, Held, Single
  <2>5. PICK j \in 1..Len(operands_[use[1]]) : operands_[use[1]][j] = instr BY <2>4 DEF Image
  <2>6. j = 1
    <3>1. instr \notin Block BY <1>1, KindAssumption DEF UsesPlaced
    <3>2. operands_[use[1]][j] \in Block <=> j % 2 = 0
      BY <1>1, <1>3, <1>7 DEF TypeOK, Single
    <3>3. j % 2 # 0 BY <2>5, <3>1, <3>2
    <3>4. j \in Nat /\ j >= 1 /\ j <= 2 BY <1>4, <1>7 DEF Single
    <3>5. QED BY <3>3, <3>4
  <2>7. QED BY <2>3, <2>5, <2>6
<1>8. Whole(use[1]) => operands_[use[1]][use[2]] = instr
  BY <1>1, <1>3, <1>5, <1>6 DEF LeftKnown, Exact
<1>9. /\ operands_' = [operands_ EXCEPT ![use[1]][use[2]] = val]
      /\ use_list_' = [use_list_ EXCEPT ![val] = @ \cup {use}]
      /\ uses' = IF val = instr THEN uses ELSE uses \ {use}
  BY <1>2, <1>3, <1>4, <1>5
<1>10. QED BY <1>3, <1>5, <1>6, <1>7, <1>8, <1>9

\* Replacing a use moves its record from the phi's list to that of the value.
LEMMA ReplaceUses == ASSUME IInv, UsesKnown, ReplaceUse PROVE UsesKnown'
<1>1. /\ TypeOK /\ UsesPlaced /\ pc = "replace" /\ instr \in Value
      /\ Shortened /\ Waiting /\ KeptKnown /\ LeftKnown
  BY DEF IInv, ReplaceUse, UsesKnown, UsesPlaced
<1>2. UNCHANGED <<func_, at, ip, instr, val, wait_delete, deleted>> BY DEF ReplaceUse, graph
<1>3. op' = op /\ code' = code /\ bb' = bb /\ Present' = Present /\ Kept' = Kept
  BY <1>2 DEF op, code, bb, Present, Kept
<1>4. \A u \in Value : Len(operands_'[u]) = Len(operands_[u]) BY ReplacedOperands
<1>5. pc' \in {"replace", "abort"} BY <1>1 DEF ReplaceUse
<1>6. Present \subseteq Value BY <1>1, KeptValues
<1>7. \A u \in Value : Single(u)' = Single(u) /\ Whole(u)' = Whole(u)
  BY <1>2, <1>3, <1>4 DEF Single, Whole
<1>8. Shortened' BY <1>1, <1>2, <1>4 DEF Shortened
<1>9. ASSUME pc' = "replace" PROVE Waiting'
  <2>1. wait_delete \subseteq Value BY <1>1 DEF TypeOK
  <2>2. QED BY <1>1, <1>2, <1>3, <1>7, <1>9, <2>1 DEF Waiting
<1>10. ASSUME pc' = "replace" PROVE KeptKnown' /\ LeftKnown'
  <2>1. PICK use \in uses :
           /\ use \in Value \X (Nat \ {0}) /\ use[1] \in Present
           /\ use[2] \in 1..Len(operands_[use[1]])
           /\ operands_' = [operands_ EXCEPT ![use[1]][use[2]] = val]
           /\ use_list_' = [use_list_ EXCEPT ![val] = @ \cup {use}]
           /\ uses' = IF val = instr THEN uses ELSE uses \ {use}
           /\ Whole(use[1]) \/ Single(use[1]) => operands_[use[1]][use[2]] = instr
           /\ Single(use[1]) => use[2] = 1
    BY <1>10, OneUse
  <2>2. PICK u1 \in Value, k1 \in Nat \ {0} : use = <<u1, k1>> /\ use[1] = u1 /\ use[2] = k1
    BY <2>1
  <2>3. \A u \in Value : operands_[u] \in Seq(Operand) /\ Len(operands_[u]) \in Nat
    BY <1>1 DEF TypeOK
  <2>4. \A u \in Value \ {u1} : operands_'[u] = operands_[u]
    BY <1>1, <2>1, <2>2 DEF TypeOK
  <2>5. \A j \in 1..Len(operands_[u1]) : operands_'[u1][j] = IF j = k1 THEN val ELSE operands_[u1][j]
    BY <1>1, <2>1, <2>2 DEF TypeOK
  <2>6. k1 \in 1..Len(operands_[u1]) BY <2>1, <2>2
  <2>7. \A u \in Present : \A k \in 1..Len(operands_[u]) :
          operands_'[u][k] = IF <<u, k>> = use THEN val ELSE operands_[u][k]
    <3>1. TAKE u \in Present
    <3>2. TAKE k \in 1..Len(operands_[u])
    <3>3. CASE u = u1 BY <2>2, <2>5, <3>3
    <3>4. CASE u # u1 BY <1>6, <2>2, <2>4, <3>4
    <3>5. QED BY <3>3, <3>4
  <2>8. Whole(u1) => operands_[u1][k1] = instr BY <2>1, <2>2
  <2>9. Single(u1) => k1 = 1 /\ operands_[u1][k1] = instr BY <2>1, <2>2
  <2>10. ASSUME NEW x \in Kept PROVE Exact(x, use_list_[x])' /\ (\A p \in use_list_[x] : Held(p[1], x))'
    <3>1. x \in Operand /\ x # instr
      <4>1. instr \in wait_delete BY <1>1 DEF Waiting
      <4>2. instr \notin Literal BY <1>1, KindAssumption
      <4>3. QED BY <1>1, <4>1, <4>2, KeptValues DEF Kept
    <3>2. use_list_'[x] = use_list_[x] \cup (IF x = val THEN {use} ELSE {})
      BY <1>1, <2>1, <3>1 DEF TypeOK
    <3>3. /\ \A p \in use_list_[x] : p[1] \in Present
          /\ \A u \in Present : Whole(u) =>
               \A k \in 1..Len(operands_[u]) : operands_[u][k] = x <=> <<u, k>> \in use_list_[x]
          /\ \A p \in use_list_[x] : Held(p[1], x)
      BY <1>1 DEF KeptKnown, Exact
    <3>4. \A p \in use_list_'[x] : p[1] \in Present BY <2>1, <3>2, <3>3
    <3>5. ASSUME NEW u \in Present, Whole(u), NEW k \in 1..Len(operands_[u])
          PROVE  operands_'[u][k] = x <=> <<u, k>> \in use_list_'[x]
      <4>1. operands_'[u][k] = IF <<u, k>> = use THEN val ELSE operands_[u][k] BY <2>7
      <4>2. operands_[u][k] = x <=> <<u, k>> \in use_list_[x] BY <3>3, <3>5
      <4>3. CASE <<u, k>> = use
        <5>1. operands_[u][k] = instr BY <2>2, <2>8, <3>5, <4>3
        <5>2. QED BY <3>1, <3>2, <4>1, <4>2, <4>3, <5>1
      <4>4. CASE <<u, k>> # use BY <3>2, <4>1, <4>2, <4>4
      <4>5. QED BY <4>3, <4>4
    <3>6. ASSUME NEW p \in use_list_'[x], op[p[1]] = "phi", Single(p[1])
          PROVE  x \in Image(operands_'[p[1]])
      <4>1. p[1] \in Value BY <1>6, <3>4
      <4>2. CASE p[1] # u1
        <5>1. p \in use_list_[x] BY <2>2, <3>2, <4>2
        <5>2. QED BY <2>4, <3>3, <3>6, <4>1, <4>2, <5>1 DEF Held
      <4>3. CASE p[1] = u1 /\ x = val
        <5>1. operands_'[u1][k1] = val /\ k1 \in 1..Len(operands_'[u1]) BY <1>4, <2>5, <2>6
        <5>2. QED BY <4>3, <5>1 DEF Image
      <4>4. CASE p[1] = u1 /\ x # val
        <5>1. p \in use_list_[x] BY <3>2, <4>4
        <5>2. x \in Image(operands_[u1]) BY <3>3, <3>6, <4>4, <5>1 DEF Held
        <5>3. PICK j \in 1..Len(operands_[u1]) : operands_[u1][j] = x BY <5>2 DEF Image
        <5>4. j # k1 BY <2>9, <3>1, <3>6, <4>4, <5>3
        <5>5. operands_'[u1][j] = x /\ j \in 1..Len(operands_'[u1]) BY <1>4, <2>5, <5>3, <5>4
        <5>6. QED BY <4>4, <5>5 DEF Image
      <4>5. QED BY <4>2, <4>3, <4>4
    <3>7. Exact(x, use_list_[x])' BY <1>3, <1>4, <1>6, <1>7, <3>4, <3>5 DEF Exact
    <3>8. (\A p \in use_list_[x] : Held(p[1], x))'
      BY <1>3, <1>6, <1>7, <1>10, <3>4, <3>6 DEF Held
    <3>9. QED BY <3>7, <3>8
  <2>11. /\ \A p \in uses : p[1] \in Present
         /\ \A u \in Present : Whole(u) =>
              \A k \in 1..Len(operands_[u]) : operands_[u][k] = instr <=> <<u, k>> \in uses
         /\ \A p \in uses : p[2] = 1 => Held(p[1], instr)
    BY <1>1 DEF LeftKnown, Exact
  <2>12. \A p \in uses' : p \in uses /\ p[1] \in Present BY <2>1, <2>11
  <2>13. ASSUME NEW u \in Present, Whole(u), NEW k \in 1..Len(operands_[u])
         PROVE  operands_'[u][k] = instr <=> <<u, k>> \in uses'
    <3>1. operands_'[u][k] = IF <<u, k>> = use THEN val ELSE operands_[u][k] BY <2>7
    <3>2. operands_[u][k] = instr <=> <<u, k>> \in uses BY <2>11, <2>13
    <3>3. QED BY <2>1, <3>1, <3>2
  <2>14. ASSUME NEW p \in uses', p[2] = 1, op[p[1]] = "phi", Single(p[1])
         PROVE  instr \in Image(operands_'[p[1]])
    <3>1. p \in uses /\ p[1] \in Value BY <1>6, <2>12
    <3>2. CASE p[1] # u1
      BY <2>4, <2>11, <2>14, <3>1, <3>2 DEF Held
    <3>3. CASE p[1] = u1
      <4>1. p = use
        <5>1. p \in Value \X (Nat \ {0}) BY <1>1, <3>1 DEF TypeOK
        <5>2. QED BY <2>2, <2>9, <2>14, <3>3, <5>1
      <4>2. val = instr BY <2>1, <4>1
      <4>3. operands_'[u1][k1] = instr /\ k1 \in 1..Len(operands_'[u1])
        BY <1>4, <2>5, <2>6, <4>2
      <4>4. QED BY <3>3, <4>3 DEF Image
    <3>4. QED BY <3>2, <3>3
  <2>15. LeftKnown'
    <3>1. Exact(instr, uses)' BY <1>2, <1>3, <1>4, <1>6, <1>7, <2>12, <2>13 DEF Exact
    <3>2. (\A p \in uses : p[2] = 1 => Held(p[1], instr))'
      BY <1>2, <1>3, <1>6, <1>7, <1>10, <2>12, <2>14 DEF Held
    <3>3. QED BY <3>1, <3>2 DEF LeftKnown
  <2>16. KeptKnown' BY <1>3, <2>10 DEF KeptKnown
  <2>17. QED BY <2>15, <2>16
<1>11. QED BY <1>5, <1>8, <1>9, <1>10 DEF UsesKnown

\* Off the lists go the phis that were replaced; a use they had of a kept value
\* is off its record, as they hold that value.
LEMMA EndUses == ASSUME IInv, UsesKnown, EndOfBlock PROVE UsesKnown'
<1>1. /\ TypeOK /\ pc = "phis" /\ at <= Len(func_.blocks) /\ WellFormed(func_)
      /\ Shortened /\ Waiting /\ KeptKnown
  BY DEF IInv, EndOfBlock, UsesKnown
<1>2. /\ UNCHANGED <<func_, pc, operands_>> /\ at' = at + 1
      /\ deleted' = deleted \cup wait_delete /\ wait_delete' = {}
      /\ use_list_' = [x \in Operand |-> {p \in use_list_[x] : ~Forgets(p[1], x)}]
  BY DEF EndOfBlock
<1>3. op' = op /\ code' = code /\ Present' = Present \ wait_delete /\ Kept' = Kept
  BY <1>2 DEF op, code, Present, Kept
<1>4. Shortened' BY <1>1, <1>2 DEF Shortened
<1>5. Waiting'
  <2>1. ASSUME NEW n \in (at + 1)..Len(func_.blocks)
        PROVE  Image(code[func_.blocks[n]]) \cap deleted' = {}
    <3>1. n \in at..Len(func_.blocks) /\ n # at /\ at \in 1..Len(func_.blocks) /\ n \in 1..Len(func_.blocks)
      BY <1>1, FunctionParts DEF TypeOK
    <3>2. func_.blocks[n] # bb BY <1>1, <3>1 DEF WellFormed, Listed, bb
    <3>3. func_.blocks[n] \in Block /\ bb \in Block BY <1>1, <3>1, FunctionParts, CurrentBlock
    <3>4. ASSUME NEW u \in wait_delete PROVE u \notin Image(code[func_.blocks[n]])
      <4>1. u \in Image(code[bb]) BY <1>1 DEF Waiting, Image
      <4>2. QED BY <3>2, <3>3, <4>1, OnePlace
    <3>5. Image(code[func_.blocks[n]]) \cap deleted = {} BY <1>1, <3>1 DEF Waiting
    <3>6. QED BY <1>2, <3>4, <3>5
  <2>2. QED BY <1>1, <1>2, <1>3, <2>1 DEF Waiting
<1>6. ASSUME NEW x \in Kept
      PROVE  Exact(x, use_list_[x])' /\ (\A p \in use_list_[x] : Held(p[1], x))'
  <2>1. use_list_'[x] = {p \in use_list_[x] : ~Forgets(p[1], x)} BY <1>1, <1>2, KeptValues
  <2>2. /\ \A p \in use_list_[x] : p[1] \in Present
        /\ \A u \in Present : Whole(u) =>
             \A k \in 1..Len(operands_[u]) : operands_[u][k] = x <=> <<u, k>> \in use_list_[x]
        /\ \A p \in use_list_[x] : Held(p[1], x)
    BY <1>1 DEF KeptKnown, Exact
  <2>3. ASSUME NEW p \in use_list_'[x] PROVE p[1] \in Present \ wait_delete
    <3>1. p \in use_list_[x] /\ ~Forgets(p[1], x) BY <2>1, <2>3
    <3>2. ASSUME p[1] \in wait_delete PROVE FALSE
      <4>1. Single(p[1]) BY <1>1, <3>2 DEF Waiting
      <4>2. x \in Image(operands_[p[1]]) BY <2>2, <3>1, <4>1 DEF Held, Single
      <4>3. QED BY <3>1, <3>2, <4>2 DEF Forgets
    <3>3. QED BY <2>2, <3>1, <3>2
  <2>4. \A u \in Present \ wait_delete : \A k : <<u, k>> \in use_list_'[x] <=> <<u, k>> \in use_list_[x]
    BY <2>1 DEF Forgets
  <2>5. Exact(x, use_list_[x])' BY <1>2, <1>3, <2>2, <2>3, <2>4 DEF Exact, Whole
  <2>6. (\A p \in use_list_[x] : Held(p[1], x))'
    BY <1>2, <1>3, <2>1, <2>2 DEF Held, Single
  <2>7. QED BY <2>5, <2>6
<1>7. KeptKnown' BY <1>3, <1>6 DEF KeptKnown
<1>8. LeftKnown' BY <1>1, <1>2 DEF LeftKnown
<1>9. QED BY <1>4, <1>5, <1>7, <1>8 DEF UsesKnown

\* The steps that leave operands and use lists alone keep what is known.
LEMMA OtherUses ==
  ASSUME IInv, UsesKnown,
         KeepBranch \/ StartPhis \/ SkipInstr \/ Replaced \/ Finish \/ UNCHANGED vars
  PROVE  UsesKnown'
<1>1. TypeOK BY DEF IInv
<1>2. UNCHANGED <<func_, operands_, use_list_, instr, uses, wait_delete, deleted>>
  BY DEF KeepBranch, StartPhis, SkipInstr, Replaced, Finish, vars, replacing
<1>3. op' = op /\ code' = code /\ Present' = Present /\ Kept' = Kept
  BY <1>2 DEF op, code, Present, Kept
<1>4. CASE UNCHANGED vars
  BY <1>2, <1>3, <1>4 DEF vars, UsesKnown, Shortened, Waiting, KeptKnown, LeftKnown, Exact, Held,
       Whole, Single, bb
<1>5. CASE Finish BY <1>5 DEF Finish, UsesKnown
<1>6. CASE KeepBranch \/ StartPhis \/ SkipInstr \/ Replaced
  <2>1. /\ Shortened /\ Waiting /\ KeptKnown /\ LeftKnown
        /\ pc \in {"fold", "phis", "replace"}
    BY <1>6 DEF KeepBranch, StartPhis, SkipInstr, Replaced, Scanning, UsesKnown
  <2>2. pc' \in {"fold", "phis"} /\ (pc' = "fold" => pc = "fold")
    BY <1>6 DEF KeepBranch, StartPhis, SkipInstr, Replaced, Scanning
  <2>3. Shortened' BY <1>2, <2>1 DEF Shortened
  <2>4. \A u : Single(u)' = Single(u) /\ Whole(u)' = Whole(u) BY <1>2, <1>3 DEF Single, Whole
  <2>5. KeptKnown'
    BY <1>2, <1>3, <2>1, <2>2, <2>4 DEF KeptKnown, Exact, Held
  <2>6. LeftKnown' BY <2>2 DEF LeftKnown
  <2>7. Waiting'
    <3>1. CASE KeepBranch \/ StartPhis
      <4>1. pc = "fold" /\ wait_delete = {} /\ deleted = {}
        BY <2>1, <3>1 DEF KeepBranch, StartPhis, Waiting
      <4>2. QED BY <1>2, <2>2, <4>1 DEF Waiting
    <3>2. CASE SkipInstr \/ Replaced
      <4>1. at' = at /\ bb' = bb /\ ip' = ip + 1 /\ pc' = "phis"
        BY <1>2, <3>2 DEF SkipInstr, Replaced, Scanning, bb
      <4>2. ip \in Nat BY <1>1 DEF TypeOK
      <4>3. ASSUME NEW u \in wait_delete
            PROVE  /\ Single(u) /\ u \notin deleted /\ at <= Len(func_.blocks)
                   /\ \E j \in 1..Len(code[bb]) : code[bb][j] = u /\ j < ip + 1
        <5>1. /\ Single(u) /\ u \notin deleted /\ at <= Len(func_.blocks)
              /\ \E j \in 1..Len(code[bb]) : code[bb][j] = u /\ (j < ip \/ j = ip)
          BY <2>1 DEF Waiting
        <5>2. \A j \in 1..Len(code[bb]) : j < ip \/ j = ip => j < ip + 1 BY <4>2
        <5>3. QED BY <5>1, <5>2
      <4>4. \A n \in at..Len(func_.blocks) : Image(code[func_.blocks[n]]) \cap deleted = {}
        BY <2>1 DEF Waiting
      <4>5. QED BY <1>2, <1>3, <2>4, <4>1, <4>3, <4>4 DEF Waiting
    <3>3. QED BY <1>6, <3>1, <3>2
  <2>8. QED BY <2>3, <2>5, <2>6, <2>7 DEF UsesKnown
<1>7. QED BY <1>4, <1>5, <1>6

\* Through folding and replacing, the records are as UsesKnown says.
THEOREM UsesInvariant == Spec => [](IInv /\ UsesKnown)
<1>1. Init => IInv /\ UsesKnown BY InitInvariant, InitUses
<1>2. IInv /\ UsesKnown /\ [Next]_vars => IInv' /\ UsesKnown'
  BY FoldInvariant, ReplaceInvariant, OtherInvariant, FoldUses, TakeUses, ReplaceUses, EndUses, OtherUses
  DEF Next
<1>3. QED BY <1>1, <1>2, PTL DEF Spec

\* Whatever function the pass is given and in whatever order the uses are
\* replaced, out of date or not: the use list of a value that is kept names
\* exactly the instructions that use it, but for the phis that lost a pair.
THEOREM UsesAreExact == Spec => []UseListsExact
<1>1. IInv /\ UsesKnown => UseListsExact
  BY DEF UsesKnown, KeptKnown, Kept, Exact, UseListsExact
<1>2. QED BY <1>1, UsesInvariant, PTL

-----------------------------------------------------------------------------
(***************************************************************************)
(* When the assert of set_operand fails.  A phi of two pairs loses one at  *)
(* most.  If it was the first, the record of the other stays at position 3 *)
(* and is out of date; replacing that use is what fails.                   *)
(***************************************************************************)
Ops(u) == func_.operands[u]

\* No position on record is higher than the operands ever were.
InRange == \A x \in Value : \A p \in use_list_[x] \cup uses : p[2] <= Len(Ops(p[1]))

\* The terminators of the blocks to come are as they were.
TerminatorsAsWere ==
  pc = "fold" => \A n \in at..Len(func_.blocks) :
    LET b == func_.blocks[n]
    IN  code[b] # <<>> => operands_[Last(code[b])] = Ops(Last(code[b]))

\* A use of value x, recorded or still to be replaced.
OnRecord(use, x) ==
  \/ x \in Kept /\ use \in use_list_[x]
  \/ pc = "replace" /\ x = instr /\ use \in uses

\* A phi has its two pairs, or the one that is not from a block folded already;
\* then a record at position 3 is of the second value, and the first is gone.
LostOne(b, u) ==
  /\ Len(operands_[u]) = 2
  /\ \E j \in LostAt(b, u) : \E n \in 1..Len(func_.blocks) :
       /\ Ops(u)[j + 1] = func_.blocks[n] /\ (pc = "fold" => n < at)
       /\ \A x \in Value \cup Literal : OnRecord(<<u, 3>>, x) => j = 1 /\ Ops(u)[3] = x
PairsKnown ==
  \A b \in Image(func_.blocks) : \A u \in PhisOf(b) :
    \/ Whole(u) /\ (pc = "fold" => operands_[u] = Ops(u))
    \/ LostOne(b, u)

\* The phis of one pair that were gone through are deleted or will be.
Behind ==
  pc \in {"phis", "replace"} =>
    /\ \A n \in 1..(at - 1) : \A u \in PhisOf(func_.blocks[n]) : Single(u) => u \in deleted
    /\ at <= Len(func_.blocks) =>
         \A j \in 1..Len(code[bb]) : j < ip /\ Single(code[bb][j]) => code[bb][j] \in wait_delete

StaleKnown ==
  /\ JoinsOfTwo(func_)
  /\ pc \in {"fold", "phis", "replace"} => InRange /\ TerminatorsAsWere /\ PairsKnown /\ Behind
  /\ FailsOnlyStaleOrUnreached

\* A phi of the function, as it was and as it is: it came with two pairs, with
\* one, or, where the entry does not reach its block, with none.
LEMMA PhiParts ==
  ASSUME TypeOK, WellFormed(func_), JoinsOfTwo(func_), NEW b \in Image(func_.blocks), NEW u \in PhisOf(b)
  PROVE  /\ b \in Block /\ u \in Value /\ op[u] = "phi" /\ u \in Image(code[b])
         /\ Ops(u) \in Seq(Operand) /\ Len(Ops(u)) \in {0, 2, 4}
         /\ \A k \in Pairs(Ops(u)) : Ops(u)[k] \in func_.pre[b]
         /\ Len(Ops(u)) = 4 => Ops(u)[2] # Ops(u)[4]
         /\ Len(Ops(u)) = 0 => b \notin Live(func_)
         /\ func_.pre[b] \subseteq Image(func_.blocks)
         /\ \A p, q \in func_.pre[b] : TwoWays(func_, p) /\ TwoWays(func_, q) => p = q
         /\ operands_[u] \in Seq(Operand) /\ Len(operands_[u]) \in Nat
         /\ Whole(u) <=> Len(operands_[u]) = Len(Ops(u))
<1>1. b \in Block BY FunctionParts DEF Image
<1>2. code[b] \in Seq(Value) BY <1>1, FunctionParts DEF code
<1>3. u \in Value /\ op[u] = "phi" /\ u \in Image(code[b]) BY <1>2 DEF PhisOf, Image
<1>4. PICK p, q \in Image(func_.blocks) : p # q /\ func_.pre[b] = {p, q}
  BY <1>3 DEF JoinsOfTwo, code, op
<1>5. \A c, d \in func_.pre[b] : TwoWays(func_, c) /\ TwoWays(func_, d) => c = d
  BY <1>3 DEF JoinsOfTwo, code, op
<1>6. FromMem2Reg(func_, b, Ops(u)) BY <1>3 DEF WellFormed, Ops, code, op
<1>7. Ops(u) \in Seq(Operand) /\ Len(Ops(u)) \in Nat BY <1>3, FunctionParts DEF Ops
<1>8. Len(Ops(u)) % 2 = 0 BY <1>3 DEF WellFormed, Ops, op
<1>9. /\ \A k \in Pairs(Ops(u)) : Ops(u)[k] \in {p, q}
      /\ \A j, k \in Pairs(Ops(u)) : Ops(u)[j] = Ops(u)[k] => j = k
  BY <1>4, <1>6 DEF FromMem2Reg, OnePairFor
<1>10. Len(Ops(u)) < 6
  <2>1. SUFFICES ASSUME Len(Ops(u)) >= 6 PROVE FALSE BY <1>7
  <2>2. 2 \in Pairs(Ops(u)) /\ 4 \in Pairs(Ops(u)) /\ 6 \in Pairs(Ops(u))
    BY <1>7, <2>1 DEF Pairs
  <2>3. /\ Ops(u)[2] \in {p, q} /\ Ops(u)[4] \in {p, q} /\ Ops(u)[6] \in {p, q}
        /\ Ops(u)[2] # Ops(u)[4] /\ Ops(u)[2] # Ops(u)[6] /\ Ops(u)[4] # Ops(u)[6]
    BY <1>9, <2>2
  <2>4. QED BY <2>3
<1>11. Len(Ops(u)) \in {0, 2, 4}
  <2>1. \A n \in Nat : n % 2 = 0 /\ n < 6 => n \in {0, 2, 4} OBVIOUS
  <2>2. QED BY <1>7, <1>8, <1>10, <2>1
<1>12. Len(Ops(u)) = 4 => Ops(u)[2] # Ops(u)[4]
  <2>1. Len(Ops(u)) = 4 => 2 \in Pairs(Ops(u)) /\ 4 \in Pairs(Ops(u)) BY DEF Pairs
  <2>2. QED BY <1>9, <2>1
<1>13. Len(Ops(u)) = 0 => b \notin Live(func_)
  <2>1. b \in Live(func_) => Ops(u) # <<>> BY <1>6 DEF FromMem2Reg
  <2>2. QED BY <1>7, <2>1
<1>14. operands_[u] \in Seq(Operand) /\ Len(operands_[u]) \in Nat BY <1>3 DEF TypeOK
<1>15. Whole(u) <=> Len(operands_[u]) = Len(Ops(u)) BY DEF Whole, Ops
<1>16. QED BY <1>1, <1>3, <1>4, <1>5, <1>7, <1>9, <1>11, <1>12, <1>13, <1>14, <1>15

\* The block of a pair that folds has a branch of two ways, so it dominates the
\* other predecessor, and the phi has a pair for that one too.
LEMMA LostFrom ==
  ASSUME TypeOK, WellFormed(func_), JoinsOfTwo(func_),
         NEW b \in Image(func_.blocks), NEW u \in PhisOf(b), NEW j \in LostAt(b, u)
  PROVE  /\ j \in {1, 3} /\ Ops(u)[j + 1] \in func_.pre[b]
         /\ TwoWays(func_, Ops(u)[j + 1])
         /\ Len(Ops(u)) = 4
<1>1. /\ Ops(u) \in Seq(Operand) /\ Len(Ops(u)) \in {0, 2, 4}
      /\ \A k \in Pairs(Ops(u)) : Ops(u)[k] \in func_.pre[b]
      /\ func_.pre[b] \subseteq Image(func_.blocks)
      /\ u \in Image(code[b]) /\ op[u] = "phi"
  BY PhiParts
<1>2. /\ j \in 1..Len(Ops(u)) /\ j % 2 = 1
      /\ b \in func_.succ[Ops(u)[j + 1]] \ Feasible(Ops(u)[j + 1])
  BY DEF LostAt, Ops
<1>3. /\ j \in {1, 3} /\ Len(Ops(u)) \in {2, 4}
      /\ j + 1 \in 1..Len(Ops(u)) /\ (j + 1) % 2 = 0
  <2>1. \A n \in {0, 2, 4} : \A i \in 1..n : i % 2 = 1 =>
          i \in {1, 3} /\ n \in {2, 4} /\ i + 1 \in 1..n /\ (i + 1) % 2 = 0
    <3>1. \A i \in 1..2 : i % 2 = 1 => i = 1 OBVIOUS
    <3>2. \A i \in 1..4 : i % 2 = 1 => i \in {1, 3} OBVIOUS
    <3>3. QED BY <3>1, <3>2
  <2>2. QED BY <1>1, <1>2, <2>1
<1>4. j + 1 \in Pairs(Ops(u)) BY <1>3 DEF Pairs
<1> DEFINE p == Ops(u)[j + 1]
<1>5. p \in func_.pre[b] /\ p \in Image(func_.blocks) BY <1>1, <1>4
<1>6. p \in {Ops(u)[k] : k \in Pairs(Ops(u))} BY <1>4
<1>7. b \in func_.succ[p] /\ b \notin Feasible(p) BY <1>2
<1> HIDE DEF p
<1>8. func_.succ[p] = GoesTo(func_, p) BY <1>5 DEF WellFormed
<1>9. func_.code[p] # <<>> BY <1>7, <1>8 DEF GoesTo
<1>10. ASSUME Len(func_.operands[Last(func_.code[p])]) # 3 PROVE FALSE
  <2>1. Feasible(p) = Targets(func_.operands[Last(func_.code[p])])
    BY <1>9, <1>10 DEF Feasible
  <2>2. QED BY <1>7, <1>8, <1>9, <2>1 DEF GoesTo, Targets
<1>11. TwoWays(func_, p) BY <1>9, <1>10 DEF TwoWays
<1>12. Len(Ops(u)) = 4
  <2>1. SUFFICES ASSUME Len(Ops(u)) = 2 PROVE FALSE BY <1>3
  <2>2. Ops(u) # <<>> BY <2>1
  <2>3. u \in Image(func_.code[b]) /\ func_.op[u] = "phi" BY <1>1 DEF code, op
  <2>4. FromMem2Reg(func_, b, Ops(u)) BY <2>3 DEF WellFormed, Ops
  <2>5. \A q \in func_.pre[b] : Dominates(func_.succ, func_.blocks[1], p, q)
    BY <1>5, <1>11, <2>3 DEF JoinsOfTwo
  <2>6. func_.pre[b] \subseteq {Ops(u)[k] : k \in Pairs(Ops(u))}
    BY <1>6, <2>2, <2>4, <2>5 DEF FromMem2Reg
  <2>7. PICK c, d \in Image(func_.blocks) : c # d /\ func_.pre[b] = {c, d}
    BY <2>3 DEF JoinsOfTwo
  <2>8. \A k \in Pairs(Ops(u)) : k = 2 BY <2>1 DEF Pairs
  <2>9. QED BY <2>6, <2>7, <2>8
<1>13. QED BY <1>3, <1>5, <1>11, <1>12 DEF p

\* A phi loses one pair at most.
LEMMA OneLost ==
  ASSUME TypeOK, WellFormed(func_), JoinsOfTwo(func_),
         NEW b \in Image(func_.blocks), NEW u \in PhisOf(b), NEW j \in LostAt(b, u), NEW k \in LostAt(b, u)
  PROVE  j = k
<1>1. j \in {1, 3} /\ Ops(u)[j + 1] \in func_.pre[b] /\ TwoWays(func_, Ops(u)[j + 1])
  BY LostFrom
<1>2. k \in {1, 3} /\ Ops(u)[k + 1] \in func_.pre[b] /\ TwoWays(func_, Ops(u)[k + 1])
  BY LostFrom
<1>3. Ops(u)[j + 1] = Ops(u)[k + 1] BY <1>1, <1>2, PhiParts
<1>4. Ops(u)[2] # Ops(u)[4] BY PhiParts, LostFrom
<1>5. j = 1 /\ k = 3 => FALSE BY <1>3, <1>4
<1>6. j = 3 /\ k = 1 => FALSE BY <1>3, <1>4
<1>7. QED BY <1>1, <1>2, <1>5, <1>6

\* A fold takes from a phi a pair it had, and the first it loses.
LEMMA FoldTakes ==
  ASSUME IInv, StaleKnown, FoldBranch, NEW s \in GivenUp, NEW u \in PhisOf(s), PairOf(u) # 0
  PROVE  /\ s \in Image(func_.blocks) /\ Whole(u) /\ operands_[u] = Ops(u)
         /\ PairOf(u) \in LostAt(s, u) /\ Ops(u)[PairOf(u) + 1] = func_.blocks[at]
<1>1. /\ TypeOK /\ WellFormed(func_) /\ EdgesMatchTerminators /\ JoinsOfTwo(func_) /\ pc = "fold"
      /\ TerminatorsAsWere /\ PairsKnown /\ at <= Len(func_.blocks) /\ OnConstant
  BY DEF IInv, StaleKnown, FoldBranch
<1>2. bb \in Block /\ bb \in Image(func_.blocks) /\ bb = func_.blocks[at] /\ at \in 1..Len(func_.blocks)
  BY <1>1, CurrentBlock, FunctionParts DEF bb, TypeOK
<1>3. at \in at..Len(func_.blocks) BY <1>2
<1>4. code[bb] # <<>> /\ Len(operands_[brinstr]) = 3 /\ operands_[brinstr][1] \in {True, False}
  BY <1>1 DEF OnConstant
<1>5. operands_[brinstr] = Ops(brinstr) BY <1>1, <1>2, <1>3, <1>4 DEF TerminatorsAsWere, brinstr
<1>6. succ_bbs_[bb] = TargetsNow(bb) /\ brinstr \in Value BY <1>1, Folded
<1>7. TargetsNow(bb) = GoesTo(func_, bb)
  BY <1>4, <1>5 DEF TargetsNow, Targets, GoesTo, code, brinstr, Ops
<1>8. Feasible(bb) = {target}
  BY <1>4, <1>5, LiteralAssumption DEF Feasible, target, brinstr, Ops, code
<1>9. TwoWays(func_, bb) BY <1>4, <1>5 DEF TwoWays, brinstr, Ops, code
<1>10. s \in Block /\ s \in GoesTo(func_, bb) /\ s # target
  BY <1>1, <1>2, <1>6, <1>7 DEF GivenUp, TypeOK
<1>11. s \in Image(func_.blocks)
  <2>1. code[s] # <<>>
    <3>1. u \in Image(code[s]) BY DEF PhisOf
    <3>2. QED BY <3>1 DEF Image
  <2>2. QED BY <1>1, <1>10, <2>1 DEF WellFormed, Listed, code
<1>12. func_.succ[bb] = GoesTo(func_, bb) /\ bb \in func_.pre[s]
  BY <1>1, <1>2, <1>10, <1>11 DEF WellFormed
<1>13. Whole(u)
  <2>1. SUFFICES ASSUME LostOne(s, u) PROVE FALSE BY <1>1, <1>11 DEF PairsKnown
  <2>2. PICK j \in LostAt(s, u), n \in 1..Len(func_.blocks) : Ops(u)[j + 1] = func_.blocks[n] /\ n < at
    BY <1>1, <2>1 DEF LostOne
  <2>3. Ops(u)[j + 1] \in func_.pre[s] /\ TwoWays(func_, Ops(u)[j + 1]) BY <1>1, <1>11, LostFrom
  <2>4. func_.blocks[n] = func_.blocks[at]
    BY <1>1, <1>2, <1>9, <1>11, <1>12, <2>2, <2>3, PhiParts
  <2>5. n = at BY <1>1, <1>2, <2>4 DEF WellFormed, Listed
  <2>6. QED BY <1>2, <2>2, <2>5
<1>14. operands_[u] = Ops(u)
  <2>1. ~LostOne(s, u)
    <3>1. SUFFICES ASSUME LostOne(s, u) PROVE FALSE OBVIOUS
    <3>2. PICK j \in LostAt(s, u) : TRUE BY <3>1 DEF LostOne
    <3>3. Len(Ops(u)) = 4 BY <1>1, <1>11, LostFrom
    <3>4. Len(operands_[u]) = 4 BY <1>1, <1>11, <1>13, <3>3, PhiParts
    <3>5. Len(operands_[u]) = 2 BY <3>1 DEF LostOne
    <3>6. QED BY <3>4, <3>5
  <2>2. QED BY <1>1, <1>11, <2>1 DEF PairsKnown
<1>15. u \in Value /\ op[u] = "phi" BY <1>1, <1>11, PhiParts
<1>16. /\ PairOf(u) \in Nat /\ PairOf(u) % 2 = 1
       /\ PairOf(u) + 1 <= Len(operands_[u]) /\ operands_[u][PairOf(u) + 1] = bb
  BY <1>1, <1>15, ThePair
<1>17. PairOf(u) \in 1..Len(Ops(u)) /\ Ops(u)[PairOf(u) + 1] = bb
  <2>1. Len(Ops(u)) \in Nat BY <1>1, <1>11, PhiParts
  <2>2. QED BY <1>14, <1>16, <2>1
<1>18. PairOf(u) \in LostAt(s, u)
  BY <1>8, <1>10, <1>12, <1>16, <1>17 DEF LostAt, Ops
<1>19. QED BY <1>2, <1>11, <1>13, <1>14, <1>17, <1>18

\* What the function was says what may fail.
LEMMA StaleStays == ASSUME func_' = func_ PROVE StaleUse' = StaleUse
BY DEF StaleUse, Reduced, Losing, LostAt, Feasible, Targets, PhisOf, code, op

\* A function of joins of two, as it comes.
LEMMA InitStale == Init => StaleKnown
<1> SUFFICES ASSUME Init PROVE StaleKnown OBVIOUS
<1>1. TypeOK /\ WellFormed(func_) /\ func_ \in Functions BY InitInvariant DEF IInv, Init
<1>2. JoinsOfTwo(func_) BY <1>1, JoinsAssumption
<1>3. /\ pc = "fold" /\ operands_ = func_.operands /\ uses = {}
      /\ use_list_ = [x \in Operand |-> UsesIn(func_, x)]
  BY DEF Init
<1>4. InRange
  <2>1. ASSUME NEW x \in Value, NEW p \in use_list_[x] PROVE p[2] <= Len(Ops(p[1]))
    <3>1. p \in UsesIn(func_, x) BY <1>3, <2>1 DEF Operand
    <3>2. PICK u \in UNION {Image(func_.code[b]) : b \in Block} :
            p \in {<<u, k>> : k \in {j \in 1..Len(func_.operands[u]) : func_.operands[u][j] = x}}
      BY <3>1 DEF UsesIn
    <3>3. PICK k \in 1..Len(func_.operands[u]) : p = <<u, k>> BY <3>2
    <3>4. QED BY <3>3 DEF Ops
  <2>2. QED BY <1>3, <2>1 DEF InRange
<1>5. TerminatorsAsWere BY <1>3 DEF TerminatorsAsWere, Ops
<1>6. PairsKnown BY <1>3 DEF PairsKnown, Whole, Ops
<1>7. QED BY <1>2, <1>3, <1>4, <1>5, <1>6 DEF StaleKnown, Behind, FailsOnlyStaleOrUnreached

\* A phi that loses its first pair keeps the record of the second where it was.
LEMMA FoldStale == ASSUME IInv, UsesKnown, StaleKnown, FoldBranch PROVE StaleKnown'
<1>1. /\ TypeOK /\ WellFormed(func_) /\ JoinsOfTwo(func_) /\ pc = "fold"
      /\ InRange /\ TerminatorsAsWere /\ PairsKnown /\ at <= Len(func_.blocks) /\ OnConstant
      /\ Waiting /\ KeptKnown
  BY DEF IInv, UsesKnown, StaleKnown, FoldBranch
<1>2. /\ UNCHANGED <<func_, pc, ip, wait_delete, deleted, instr, val, uses>> /\ at' = at + 1
      /\ op' = op /\ code' = code
  BY DEF FoldBranch, op, code, replacing
<1>3. Present' = Present /\ Kept' = Kept BY <1>2 DEF Present, Kept
<1>4. /\ bb \in Block /\ bb \in Image(func_.blocks) /\ bb = func_.blocks[at]
      /\ at \in 1..Len(func_.blocks) /\ Len(func_.blocks) \in Nat
  BY <1>1, CurrentBlock, FunctionParts DEF bb, TypeOK
<1>5. /\ brinstr \in Value /\ op[brinstr] = "br" /\ brinstr \in Image(code[bb])
  BY <1>1, Folded
<1>6. \A u \in Value : u # brinstr /\ ~Lost(u) => operands_'[u] = operands_[u]
  BY FoldedOperands DEF Lost
<1>7. \A x \in Value \cup Literal : \A p : p \in use_list_'[x] =>
          p \in use_list_[x] /\ ~(Lost(p[1]) /\ Dropped(p[1], x))
  <2>1. \A x \in Value \cup Literal : x \in Operand /\ x \notin Block
    BY KindAssumption DEF Operand
  <2>2. QED BY <2>1, FoldedUses
<1>8. InRange' BY <1>1, <1>2, <1>7 DEF InRange, Ops
<1>9. TerminatorsAsWere'
  <2>1. ASSUME NEW n \in (at + 1)..Len(func_.blocks), code[func_.blocks[n]] # <<>>
        PROVE  operands_'[Last(code[func_.blocks[n]])] = Ops(Last(code[func_.blocks[n]]))
    <3> DEFINE b == func_.blocks[n]
    <3>1. n \in at..Len(func_.blocks) /\ n \in 1..Len(func_.blocks) /\ n # at BY <1>4
    <3>2. b \in Block /\ b # bb
      BY <1>1, <1>4, <3>1, FunctionParts DEF WellFormed, Listed
    <3>3. code[b] # <<>> BY <2>1
    <3>4. operands_[Last(code[b])] = Ops(Last(code[b])) BY <1>1, <3>1, <3>3 DEF TerminatorsAsWere
    <3> HIDE DEF b
    <3>5. /\ Last(code[b]) \in Value /\ op[Last(code[b])] \in {"br", "ret"}
          /\ Last(code[b]) \in Image(code[b])
      BY <3>2, <3>3, Terminators DEF Image, Last
    <3>6. Last(code[b]) # brinstr BY <1>4, <1>5, <3>2, <3>5, OnePlace
    <3>7. ~Lost(Last(code[b])) BY <3>5 DEF Lost, PhisOf
    <3>8. operands_'[Last(code[b])] = operands_[Last(code[b])] BY <1>6, <3>5, <3>6, <3>7
    <3>9. QED BY <3>4, <3>8 DEF b
  <2>2. QED BY <1>2, <2>1 DEF TerminatorsAsWere, Ops
<1>10. PairsKnown'
  <2>1. ASSUME NEW b \in Image(func_.blocks), NEW u \in PhisOf(b)
        PROVE  (Len(operands_'[u]) = Len(func_.operands[u]) /\ operands_'[u] = Ops(u)) \/ LostOne(b, u)'
    <3>1. /\ b \in Block /\ u \in Value /\ op[u] = "phi" /\ u # brinstr /\ u \in Image(code[b])
      BY <1>1, <1>5, PhiParts
    <3>2. \A x : OnRecord(<<u, 3>>, x)' => x \in Kept /\ <<u, 3>> \in use_list_'[x]
      BY <1>1, <1>2, <1>3 DEF OnRecord
    <3>3. Kept \subseteq Value \cup Literal BY <1>1, KeptValues
    <3>4. CASE Lost(u)
      <4>1. PICK s \in GivenUp : u \in PhisOf(s) /\ PairOf(u) # 0 BY <3>4 DEF Lost
      <4>2. /\ s \in Image(func_.blocks) /\ Whole(u) /\ operands_[u] = Ops(u)
            /\ PairOf(u) \in LostAt(s, u) /\ Ops(u)[PairOf(u) + 1] = func_.blocks[at]
        BY <4>1, FoldTakes
      <4>3. s = b
        <5>1. s \in Block /\ u \in Image(code[s]) BY <1>1, <4>1, <4>2, PhiParts
        <5>2. QED BY <3>1, <5>1, OnePlace
      <4>4. Len(operands_[u]) = 4
        <5>1. Len(Ops(u)) = 4 BY <1>1, <4>1, <4>2, LostFrom
        <5>2. QED BY <4>2, <5>1
      <4>5. Len(operands_'[u]) = 2
        <5>1. Len(operands_'[u]) = Len(operands_[u]) - 2 BY <3>1, <3>4, LostPair
        <5>2. QED BY <4>4, <5>1
      <4>6. PairOf(u) \in LostAt(b, u) /\ PairOf(u) \in {1, 3} BY <1>1, <4>2, <4>3, LostFrom
      <4>7. u \in Present
        <5>1. deleted = {} BY <1>1 DEF Waiting
        <5>2. QED BY <3>1, <5>1 DEF Present
      <4>8. ASSUME NEW x, OnRecord(<<u, 3>>, x)' PROVE PairOf(u) = 1 /\ Ops(u)[3] = x
        <5>1. x \in Kept /\ x \in Value \cup Literal /\ <<u, 3>> \in use_list_'[x] BY <3>2, <3>3, <4>8
        <5>2. <<u, 3>> \in use_list_[x] /\ ~Dropped(u, x) BY <1>7, <3>4, <5>1
        <5>3. 3 \in 1..Len(operands_[u]) BY <4>4
        <5>4. operands_[u][3] = x BY <1>1, <4>2, <4>7, <5>1, <5>2, <5>3 DEF KeptKnown, Exact
        <5>5. operands_[u][PairOf(u)] # x BY <5>2 DEF Dropped
        <5>6. PairOf(u) # 3 BY <5>4, <5>5
        <5>7. QED BY <4>2, <4>6, <5>4, <5>6
      <4>9. LostAt(b, u)' = LostAt(b, u) /\ Ops(u)' = Ops(u) BY <1>2 DEF LostAt, Feasible, Targets, Ops
      <4>10. Ops(u)[PairOf(u) + 1] = func_.blocks[at] /\ at < at + 1 BY <1>4, <4>2
      <4> DEFINE j == PairOf(u)
      <4>11. j \in LostAt(b, u) /\ Ops(u)[j + 1] = func_.blocks[at]
             /\ \A x : OnRecord(<<u, 3>>, x)' => j = 1 /\ Ops(u)[3] = x
        BY <4>6, <4>8, <4>10
      <4> HIDE DEF j
      <4>12. LostOne(b, u)'
        BY <1>2, <1>4, <4>5, <4>9, <4>10, <4>11 DEF LostOne
      <4>13. QED BY <4>12
    <3>5. CASE ~Lost(u)
      <4>1. operands_'[u] = operands_[u] BY <1>6, <3>1, <3>5
      <4>2. CASE Whole(u) /\ operands_[u] = Ops(u) BY <4>1, <4>2 DEF Whole
      <4>3. CASE LostOne(b, u)
        <5>1. PICK j \in LostAt(b, u), n \in 1..Len(func_.blocks) :
                /\ Ops(u)[j + 1] = func_.blocks[n] /\ n < at
                /\ \A x \in Value \cup Literal : OnRecord(<<u, 3>>, x) => j = 1 /\ Ops(u)[3] = x
          BY <1>1, <4>3 DEF LostOne
        <5>2. \A x \in Value \cup Literal : OnRecord(<<u, 3>>, x)' => OnRecord(<<u, 3>>, x)
          BY <1>7, <3>2, <3>3 DEF OnRecord
        <5>3. n < at + 1 BY <1>4, <5>1
        <5>4. LostAt(b, u)' = LostAt(b, u) /\ Ops(u)' = Ops(u) BY <1>2 DEF LostAt, Feasible, Targets, Ops
        <5>5. Len(operands_'[u]) = 2 BY <4>1, <4>3 DEF LostOne
        <5>6. QED BY <1>2, <5>1, <5>2, <5>3, <5>4, <5>5 DEF LostOne
      <4>4. QED BY <1>1, <4>2, <4>3 DEF PairsKnown
    <3>6. QED BY <3>4, <3>5
  <2>2. \A b : PhisOf(b)' = PhisOf(b) BY <1>2 DEF PhisOf
  <2>3. \A u : Ops(u)' = Ops(u) BY <1>2 DEF Ops
  <2>4. QED BY <1>2, <2>1, <2>2, <2>3 DEF PairsKnown, Whole
<1>11. QED BY <1>1, <1>2, <1>8, <1>9, <1>10 DEF StaleKnown, Behind, FailsOnlyStaleOrUnreached

\* What is known of the pairs stays so while nothing new is recorded and no
\* phi is made longer or shorter.
LEMMA PairsStay ==
  ASSUME IInv, StaleKnown, PairsKnown, pc' # "fold", UNCHANGED func_,
         \A u \in Value : Len(operands_'[u]) = Len(operands_[u]),
         \A x \in Value \cup Literal, u \in Value :
           Len(operands_[u]) = 2 /\ OnRecord(<<u, 3>>, x)' => OnRecord(<<u, 3>>, x)
  PROVE  PairsKnown'
<1>1. TypeOK /\ WellFormed(func_) /\ JoinsOfTwo(func_) BY DEF IInv, StaleKnown
<1>2. ASSUME NEW b \in Image(func_.blocks), NEW u \in PhisOf(b)
      PROVE  Len(operands_'[u]) = Len(func_.operands[u]) \/ LostOne(b, u)'
  <2>1. u \in Value BY <1>1, PhiParts
  <2>2. CASE Whole(u) BY <2>1, <2>2 DEF Whole
  <2>3. CASE LostOne(b, u)
    <3>1. PICK j \in LostAt(b, u), n \in 1..Len(func_.blocks) :
            /\ Ops(u)[j + 1] = func_.blocks[n]
            /\ \A x \in Value \cup Literal : OnRecord(<<u, 3>>, x) => j = 1 /\ Ops(u)[3] = x
      BY <2>3 DEF LostOne
    <3>2. Len(operands_[u]) = 2 /\ Len(operands_'[u]) = 2 BY <2>1, <2>3 DEF LostOne
    <3>3. \A x \in Value \cup Literal : OnRecord(<<u, 3>>, x)' => OnRecord(<<u, 3>>, x)
      BY <2>1, <3>2
    <3>4. LostAt(b, u)' = LostAt(b, u) /\ Ops(u)' = Ops(u) BY DEF LostAt, Feasible, Targets, Ops
    <3>5. QED BY <3>1, <3>2, <3>3, <3>4 DEF LostOne
  <2>4. QED BY <2>2, <2>3 DEF PairsKnown
<1>3. \A b : PhisOf(b)' = PhisOf(b) BY DEF PhisOf, code, op
<1>4. QED BY <1>2, <1>3 DEF PairsKnown, Whole

\* A phi without a pair came without, so the entry does not reach its block;
\* what is recorded of another is to be replaced.
LEMMA TakeStale == ASSUME IInv, UsesKnown, StaleKnown, TakePhi PROVE StaleKnown'
<1> DEFINE w == code[bb][ip]
<1>1. /\ TypeOK /\ WellFormed(func_) /\ JoinsOfTwo(func_) /\ pc = "phis"
      /\ InRange /\ PairsKnown /\ Behind /\ Waiting /\ at <= Len(func_.blocks)
      /\ ip \in 1..Len(code[bb]) /\ Single(w)
  BY DEF IInv, UsesKnown, StaleKnown, TakePhi, Scanning, TypeOK
<1>2. /\ code[bb] \in Seq(Value) /\ Len(code[bb]) \in Nat
      /\ \A j \in 1..Len(code[bb]) : code[bb][j] \in Present
      /\ \A j, k \in 1..Len(code[bb]) : code[bb][j] = code[bb][k] => j = k
  BY <1>1, CurrentCode
<1>3. UNCHANGED <<func_, at, ip, operands_, use_list_, deleted>> BY DEF TakePhi, graph
<1>4. op' = op /\ code' = code /\ bb' = bb /\ Present' = Present
  BY <1>3 DEF op, code, bb, Present
<1>5. bb \in Image(func_.blocks) /\ w \in PhisOf(bb)
  BY <1>1, <1>2, CurrentBlock DEF PhisOf, Image, Single
<1>6. CASE operands_[w] = <<>>
  <2>1. pc' = "undefined" BY <1>6 DEF TakePhi
  <2>2. Len(operands_[w]) = 0 BY <1>6
  <2>3. Whole(w)
    <3>1. LostOne(bb, w) => Len(operands_[w]) = 2 BY DEF LostOne
    <3>2. QED BY <1>1, <1>5, <2>2, <3>1 DEF PairsKnown
  <2>4. bb \notin Live(func_) BY <1>1, <1>5, <2>2, <2>3, PhiParts
  <2>5. Live(func_)' = Live(func_) BY <1>3
  <2>6. QED BY <1>1, <1>3, <1>4, <2>1, <2>4, <2>5 DEF StaleKnown, FailsOnlyStaleOrUnreached
<1>7. CASE operands_[w] # <<>>
  <2>1. /\ instr' = w /\ uses' = use_list_[w] /\ pc' = "replace"
        /\ wait_delete' = wait_delete \cup {w}
    BY <1>7 DEF TakePhi
  <2>2. w \in Kept /\ w \in Value
    <3>1. w \notin wait_delete
      <4>1. SUFFICES ASSUME w \in wait_delete PROVE FALSE OBVIOUS
      <4>2. PICK j \in 1..Len(code[bb]) : code[bb][j] = w /\ j < ip BY <1>1, <4>1 DEF Waiting
      <4>3. j = ip BY <1>1, <1>2, <4>2
      <4>4. QED BY <1>1, <1>2, <4>2, <4>3
    <3>2. w \in Present BY <1>1, <1>2
    <3>3. QED BY <1>1, <3>1, <3>2, KeptValues DEF Kept
  <2> HIDE DEF w
  <2>3. InRange' BY <1>1, <1>3, <2>1, <2>2 DEF InRange, Ops
  <2>4. Kept' \subseteq Kept BY <1>4, <2>1 DEF Kept
  <2>5. PairsKnown'
    <3>1. \A x \in Value \cup Literal, u \in Value : OnRecord(<<u, 3>>, x)' => OnRecord(<<u, 3>>, x)
      BY <1>3, <2>1, <2>2, <2>4 DEF OnRecord
    <3>2. QED BY <1>1, <1>3, <2>1, <3>1, PairsStay
  <2>6. Behind'
    <3>1. \A u : Single(u)' = Single(u) /\ PhisOf(u)' = PhisOf(u) BY <1>3, <1>4 DEF Single, PhisOf
    <3>2. QED BY <1>1, <1>3, <1>4, <2>1, <3>1 DEF Behind
  <2>7. QED BY <1>1, <1>3, <2>1, <2>3, <2>5, <2>6
         DEF StaleKnown, TerminatorsAsWere, FailsOnlyStaleOrUnreached
<1>8. QED BY <1>6, <1>7

\* The assert fails on a record at position 3 of a phi that lost its first
\* pair: a later phi, as it is still present, and of the block of the phi that is
\* replaced it cannot be.
LEMMA AbortIsStale == ASSUME IInv, UsesKnown, StaleKnown, ReplaceUse, pc' = "abort" PROVE StaleUse
<1>1. /\ TypeOK /\ WellFormed(func_) /\ JoinsOfTwo(func_) /\ pc = "replace" /\ UsesPlaced
      /\ InRange /\ PairsKnown /\ Behind /\ Waiting /\ LeftKnown
  BY DEF IInv, UsesKnown, StaleKnown, ReplaceUse
<1>2. PICK use \in uses : use[2] > Len(operands_[use[1]])
  BY <1>1 DEF ReplaceUse
<1>3. PICK u \in Value, k \in Nat \ {0} : use = <<u, k>>
  BY <1>1 DEF TypeOK
<1>4. <<u, k>> \in uses /\ k > Len(operands_[u]) BY <1>2, <1>3
<1>5. u \in Present /\ u \notin deleted BY <1>1, <1>4 DEF LeftKnown, Exact, Present
<1>6. /\ op[u] = "phi" /\ k % 2 = 1 
  <2>1. Placed(<<u, k>>) BY <1>1, <1>4 DEF UsesPlaced
  <2>2. Len(operands_[u]) \in Nat BY <1>1 DEF TypeOK
  <2>3. QED BY <1>4, <2>1, <2>2 DEF Placed
<1>7. PICK b \in Image(func_.blocks) : u \in PhisOf(b)
  BY <1>5, <1>6 DEF Present, PhisOf
<1>8. k <= Len(Ops(u)) BY <1>1, <1>4 DEF InRange, UsesPlaced
<1>9. ~Whole(u)
  <2>1. SUFFICES ASSUME Whole(u) PROVE FALSE OBVIOUS
  <2>2. Len(operands_[u]) = Len(Ops(u)) /\ Len(operands_[u]) \in Nat
    BY <1>1, <1>7, <2>1, PhiParts
  <2>3. QED BY <1>3, <1>4, <1>8, <2>2
<1>10. LostOne(b, u)
  BY <1>1, <1>7, <1>9 DEF PairsKnown
<1>11. k = 3 /\ Len(Ops(u)) = 4
  <2>1. PICK j \in LostAt(b, u) : TRUE BY <1>10 DEF LostOne
  <2>2. Len(Ops(u)) = 4 BY <1>1, <1>7, LostFrom
  <2>3. Len(operands_[u]) = 2 BY <1>10 DEF LostOne
  <2>4. QED BY <1>4, <1>6, <1>8, <2>2, <2>3
<1>12. instr \in Value /\ OnRecord(<<u, 3>>, instr)
  BY <1>1, <1>4, <1>11 DEF OnRecord, UsesPlaced
<1>13. 1 \in LostAt(b, u) /\ Ops(u)[3] = instr
  BY <1>10, <1>12 DEF LostOne
<1>14. 3 \notin LostAt(b, u) BY <1>1, <1>7, <1>13, OneLost
<1>15. /\ at \in 1..Len(func_.blocks) /\ bb \in Image(func_.blocks) /\ bb \in Block /\ bb = func_.blocks[at]
       /\ Len(func_.blocks) \in Nat
  <2>1. at <= Len(func_.blocks) BY <1>1 DEF Waiting
  <2>2. Len(func_.blocks) \in Nat BY <1>1, FunctionParts
  <2>3. at \in 1..Len(func_.blocks) BY <1>1, <2>1, <2>2 DEF TypeOK
  <2>4. bb \in Image(func_.blocks) /\ bb \in Block BY <1>1, <2>1, CurrentBlock
  <2>5. QED BY <2>2, <2>3, <2>4 DEF bb
<1>16. ip \in 1..Len(code[bb]) /\ instr = code[bb][ip] /\ Single(instr)
  BY <1>1 DEF Waiting, TypeOK
<1>17. instr \in PhisOf(bb) /\ instr \in Image(code[bb]) BY <1>16 DEF PhisOf, Single, Image
<1>18. Reduced(bb, instr)
  <2>1. Len(operands_[instr]) <= 2 BY <1>16 DEF Single
  <2>2. Ops(instr) \in Seq(Operand) /\ Len(Ops(instr)) \in {0, 2, 4}
    BY <1>1, <1>15, <1>17, PhiParts
  <2>3. CASE Whole(instr)
    <3>1. Len(Ops(instr)) <= 2 BY <1>1, <1>15, <1>17, <2>1, <2>3, PhiParts
    <3>2. \A i \in 1..Len(Ops(instr)) : i % 2 = 1 => i = 1 BY <2>2, <3>1
    <3>3. QED BY <3>2 DEF Reduced, Ops
  <2>4. CASE LostOne(bb, instr)
    <3>1. PICK j \in LostAt(bb, instr) : TRUE BY <2>4 DEF LostOne
    <3>2. j \in {1, 3} /\ Len(Ops(instr)) = 4 BY <1>1, <1>15, <1>17, LostFrom
    <3>3. \A i \in 1..Len(Ops(instr)) : i % 2 = 1 => i \in {1, 3} BY <3>2
    <3>4. QED BY <3>1, <3>2, <3>3 DEF Reduced, Ops
  <2>5. QED BY <1>1, <1>15, <1>17, <2>3, <2>4 DEF PairsKnown
<1>19. PICK n \in 1..Len(func_.blocks) : func_.blocks[n] = b BY <1>7 DEF Image
<1>20. ~(n < at)
  <2>1. SUFFICES ASSUME n < at PROVE FALSE OBVIOUS
  <2>2. n \in 1..(at - 1) BY <1>15, <1>19, <2>1
  <2>3. Single(u) BY <1>6, <1>10 DEF Single, LostOne
  <2>4. QED BY <1>1, <1>5, <1>7, <1>19, <2>2, <2>3 DEF Behind
<1>21. n # at
  <2>1. SUFFICES ASSUME n = at PROVE FALSE OBVIOUS
  <2>2. b = bb BY <1>15, <1>19, <2>1
  <2>3. TwoWays(func_, Ops(u)[2]) /\ Ops(u)[2] \in func_.pre[b]
    <3>1. TwoWays(func_, Ops(u)[1 + 1]) /\ Ops(u)[1 + 1] \in func_.pre[b]
      BY <1>1, <1>7, <1>13, LostFrom
    <3>2. QED BY <3>1
  <2>4. u \in Image(func_.code[b]) /\ func_.op[u] = "phi" BY <1>7 DEF PhisOf, code, op
  <2>5. Image(func_.operands[u]) \cap Image(func_.code[b]) = {}
    BY <1>1, <2>3, <2>4 DEF JoinsOfTwo
  <2>6. instr \in Image(func_.operands[u])
    BY <1>11, <1>13 DEF Image, Ops
  <2>7. QED BY <1>17, <2>2, <2>5, <2>6 DEF code
<1>22. <<n, u>> \in Losing
  <2>1. u \in {v \in Image(func_.code[func_.blocks[n]]) : op[v] = "phi" /\ LostAt(func_.blocks[n], v) # {}}
    BY <1>7, <1>13, <1>19 DEF PhisOf, code
  <2>2. QED BY <1>19, <2>1 DEF Losing
<1>24. at < n BY <1>15, <1>19, <1>20, <1>21
<1>25. 3 \in (1..Len(func_.operands[u])) \ LostAt(func_.blocks[n], u)
  BY <1>11, <1>14, <1>19 DEF Ops
<1>26. func_.operands[u][3] = instr /\ 1 \in LostAt(func_.blocks[n], u) /\ 1 < 3
  BY <1>13, <1>19 DEF Ops
<1> DEFINE x == <<n, u>>
<1>27. /\ x \in Losing /\ at \in 1..Len(func_.blocks) /\ at < x[1]
       /\ \E kk \in (1..Len(func_.operands[x[2]])) \ LostAt(func_.blocks[x[1]], x[2]) :
            /\ func_.operands[x[2]][kk] = instr
            /\ \E j \in LostAt(func_.blocks[x[1]], x[2]) : j < kk \/ func_.operands[x[2]][j] = instr
  BY <1>15, <1>22, <1>24, <1>25, <1>26
<1>28. instr \in PhisOf(func_.blocks[at]) /\ Reduced(func_.blocks[at], instr)
  BY <1>15, <1>17, <1>18
<1> HIDE DEF x
<1>29. QED BY <1>27, <1>28 DEF StaleUse

\* Replacing a use keeps positions, and is not done at a position that is out
\* of date.
LEMMA ReplaceStale == ASSUME IInv, UsesKnown, StaleKnown, ReplaceUse PROVE StaleKnown'
<1>1. /\ TypeOK /\ JoinsOfTwo(func_) /\ pc = "replace"
      /\ InRange /\ PairsKnown /\ Behind /\ Waiting
  BY DEF IInv, UsesKnown, StaleKnown, ReplaceUse
<1>2. UNCHANGED <<func_, at, ip, instr, val, wait_delete, deleted>> BY DEF ReplaceUse, graph
<1>3. op' = op /\ code' = code /\ bb' = bb /\ Present' = Present /\ Kept' = Kept
  BY <1>2 DEF op, code, bb, Present, Kept
<1>4. \A u \in Value : Len(operands_'[u]) = Len(operands_[u]) BY ReplacedOperands
<1>5. pc' \in {"replace", "abort"} BY <1>1 DEF ReplaceUse
<1>6. CASE pc' = "abort"
  <2>1. StaleUse' BY <1>2, <1>6, AbortIsStale, StaleStays
  <2>2. QED BY <1>1, <1>2, <1>6, <2>1 DEF StaleKnown, FailsOnlyStaleOrUnreached
<1>7. CASE pc' = "replace"
  <2>1. PICK use \in uses :
           /\ use \in Value \X (Nat \ {0}) /\ use[1] \in Present
           /\ use[2] \in 1..Len(operands_[use[1]])
           /\ operands_' = [operands_ EXCEPT ![use[1]][use[2]] = val]
           /\ use_list_' = [use_list_ EXCEPT ![val] = @ \cup {use}]
           /\ uses' = IF val = instr THEN uses ELSE uses \ {use}
           /\ Whole(use[1]) \/ Single(use[1]) => operands_[use[1]][use[2]] = instr
           /\ Single(use[1]) => use[2] = 1
    BY <1>7, OneUse
  <2>2. uses' \subseteq uses BY <2>1
  <2>3. \A x \in Value \cup Literal : use_list_'[x] \subseteq use_list_[x] \cup {use}
    BY <1>1, <2>1 DEF TypeOK, Operand
  <2>4. InRange' BY <1>1, <1>2, <2>1, <2>2, <2>3 DEF InRange, Ops
  <2>5. ASSUME NEW x \in Value \cup Literal, NEW u \in Value, Len(operands_[u]) = 2,
               OnRecord(<<u, 3>>, x)'
        PROVE  OnRecord(<<u, 3>>, x)
    <3>1. use # <<u, 3>>
      <4>1. SUFFICES ASSUME use = <<u, 3>> PROVE FALSE OBVIOUS
      <4>2. 3 \in 1..Len(operands_[u]) BY <2>1, <4>1
      <4>3. QED BY <2>5, <4>2
    <3>2. CASE x \in Kept' /\ <<u, 3>> \in use_list_'[x]
      BY <1>3, <2>3, <3>1, <3>2 DEF OnRecord
    <3>3. CASE x = instr' /\ <<u, 3>> \in uses'
      BY <1>1, <1>2, <2>2, <3>3 DEF OnRecord
    <3>4. QED BY <2>5, <3>2, <3>3 DEF OnRecord
  <2>6. PairsKnown' BY <1>1, <1>2, <1>4, <1>7, <2>5, PairsStay
  <2>7. Behind'
    <3>1. \A u \in Value : Single(u)' = Single(u) BY <1>2, <1>3, <1>4 DEF Single
    <3>2. \A u : PhisOf(u)' = PhisOf(u) BY <1>3 DEF PhisOf
    <3>3. \A n \in 1..(at - 1) : PhisOf(func_.blocks[n]) \subseteq Value
      <4>1. TAKE n \in 1..(at - 1)
      <4>2. n \in 1..Len(func_.blocks) BY <1>1, FunctionParts DEF TypeOK
      <4>3. func_.blocks[n] \in Block BY <1>1, <4>2, FunctionParts
      <4>4. code[func_.blocks[n]] \in Seq(Value) BY <1>1, <4>3, FunctionParts DEF code
      <4>5. QED BY <4>4 DEF PhisOf, Image
    <3>4. at <= Len(func_.blocks) => \A j \in 1..Len(code[bb]) : code[bb][j] \in Value
      <4>1. HAVE at <= Len(func_.blocks)
      <4>2. code[bb] \in Seq(Value) BY <4>1, CurrentCode, <1>1
      <4>3. QED BY <4>2
    <3>5. QED BY <1>1, <1>2, <1>3, <3>1, <3>2, <3>3, <3>4 DEF Behind
  <2>8. QED BY <1>1, <1>2, <1>7, <2>4, <2>6, <2>7
        DEF StaleKnown, TerminatorsAsWere, FailsOnlyStaleOrUnreached
<1>8. QED BY <1>5, <1>6, <1>7

\* At the end of a block its phis of one pair go, and the next one begins.
LEMMA EndStale == ASSUME IInv, UsesKnown, StaleKnown, EndOfBlock PROVE StaleKnown'
<1>1. /\ TypeOK /\ WellFormed(func_) /\ JoinsOfTwo(func_) /\ pc = "phis" /\ at <= Len(func_.blocks)
      /\ ip > Len(code[bb]) /\ InRange /\ PairsKnown /\ Behind /\ Waiting
  BY DEF IInv, EndOfBlock, UsesKnown, StaleKnown
<1>2. /\ UNCHANGED <<func_, pc, operands_, instr, uses>> /\ at' = at + 1 /\ ip' = 1
      /\ deleted' = deleted \cup wait_delete /\ wait_delete' = {}
      /\ use_list_' = [x \in Operand |-> {p \in use_list_[x] : ~Forgets(p[1], x)}]
  BY DEF EndOfBlock, replacing
<1>3. op' = op /\ code' = code /\ Present' = Present \ wait_delete /\ Kept' = Kept
  BY <1>2 DEF op, code, Present, Kept
<1>4. \A x \in Value \cup Literal : use_list_'[x] \subseteq use_list_[x]
  BY <1>2 DEF Operand
<1>5. InRange' BY <1>1, <1>2, <1>4 DEF InRange, Ops
<1>6. PairsKnown'
  <2>1. \A x \in Value \cup Literal, u \in Value : OnRecord(<<u, 3>>, x)' => OnRecord(<<u, 3>>, x)
    BY <1>1, <1>2, <1>3, <1>4 DEF OnRecord
  <2>2. QED BY <1>1, <1>2, <2>1, PairsStay
<1>7. Behind'
  <2>1. \A u : Single(u)' = Single(u) /\ PhisOf(u)' = PhisOf(u) BY <1>2, <1>3 DEF Single, PhisOf
  <2>2. at \in Nat BY <1>1 DEF TypeOK
  <2>3. ASSUME NEW n \in 1..at, NEW u \in PhisOf(func_.blocks[n]), Single(u)
        PROVE  u \in deleted'
    <3>1. CASE n = at
      <4>1. u \in Image(code[bb]) BY <3>1 DEF PhisOf, bb
      <4>2. PICK j \in 1..Len(code[bb]) : code[bb][j] = u BY <4>1 DEF Image
      <4>3. j < ip
        <5>1. Len(code[bb]) \in Nat BY <1>1, CurrentCode
        <5>2. QED BY <1>1, <4>2, <5>1 DEF TypeOK
      <4>4. QED BY <1>1, <1>2, <2>3, <4>2, <4>3 DEF Behind
    <3>2. CASE n # at
      <4>1. n \in 1..(at - 1) BY <2>2, <3>2
      <4>2. QED BY <1>1, <1>2, <2>3, <4>1 DEF Behind
    <3>3. QED BY <3>1, <3>2
  <2>4. at' - 1 = at BY <1>2, <2>2
  <2>5. \A j \in 1..Len(code[bb])' : ~(j < ip') BY <1>2
  <2>6. QED BY <1>1, <1>2, <1>3, <2>1, <2>3, <2>4 DEF Behind
<1>8. QED BY <1>1, <1>2, <1>5, <1>6, <1>7 DEF StaleKnown, TerminatorsAsWere, FailsOnlyStaleOrUnreached

\* The steps that leave operands and use lists alone.
LEMMA OtherStale ==
  ASSUME IInv, UsesKnown, StaleKnown,
         KeepBranch \/ StartPhis \/ SkipInstr \/ Replaced \/ Finish \/ UNCHANGED vars
  PROVE  StaleKnown'
<1>1. TypeOK /\ WellFormed(func_) /\ JoinsOfTwo(func_) BY DEF IInv, StaleKnown
<1>2. UNCHANGED <<func_, operands_, use_list_, instr, uses, wait_delete, deleted>>
  BY DEF KeepBranch, StartPhis, SkipInstr, Replaced, Finish, vars, replacing
<1>3. op' = op /\ code' = code /\ Present' = Present /\ Kept' = Kept
  BY <1>2 DEF op, code, Present, Kept
<1>4. CASE UNCHANGED vars
  <2>1. pc' = pc /\ at' = at /\ ip' = ip /\ bb' = bb BY <1>2, <1>4 DEF vars, bb
  <2>2. StaleUse' = StaleUse BY <1>2, StaleStays
  <2>3. \A b, u : LostAt(b, u)' = LostAt(b, u) /\ PhisOf(b)' = PhisOf(b) /\ Ops(u)' = Ops(u)
                  /\ Single(u)' = Single(u) /\ Whole(u)' = Whole(u)
    BY <1>2, <1>3 DEF LostAt, Feasible, Targets, PhisOf, Ops, Single, Whole
  <2>4. \A use, x : OnRecord(use, x)' = OnRecord(use, x) BY <1>2, <1>3, <2>1 DEF OnRecord
  <2>5. \A b, u : LostOne(b, u)' = LostOne(b, u) BY <1>2, <2>1, <2>3, <2>4 DEF LostOne
  <2>6. PairsKnown' = PairsKnown BY <1>2, <2>1, <2>3, <2>5 DEF PairsKnown
  <2>7. /\ InRange' = InRange /\ TerminatorsAsWere' = TerminatorsAsWere /\ Behind' = Behind
    BY <1>2, <1>3, <2>1, <2>3 DEF InRange, TerminatorsAsWere, Behind
  <2>8. QED BY <1>1, <1>2, <2>1, <2>2, <2>6, <2>7 DEF StaleKnown, FailsOnlyStaleOrUnreached
<1>5. CASE Finish BY <1>1, <1>2, <1>5 DEF Finish, StaleKnown, FailsOnlyStaleOrUnreached
<1>6. CASE KeepBranch \/ StartPhis \/ SkipInstr \/ Replaced
  <2>1. /\ InRange /\ TerminatorsAsWere /\ PairsKnown /\ Behind /\ Waiting
        /\ pc \in {"fold", "phis", "replace"}
    BY <1>6 DEF KeepBranch, StartPhis, SkipInstr, Replaced, Scanning, StaleKnown, UsesKnown
  <2>2. pc' \in {"fold", "phis"} /\ (pc' = "fold" => KeepBranch)
    BY <1>6 DEF KeepBranch, StartPhis, SkipInstr, Replaced, Scanning
  <2>3. InRange' BY <1>2, <2>1 DEF InRange, Ops
  <2>4. TerminatorsAsWere'
    <3>1. KeepBranch => pc = "fold" /\ at' = at + 1 BY DEF KeepBranch
    <3>2. \A n \in (at + 1)..Len(func_.blocks) : n \in at..Len(func_.blocks)
      BY <1>1, FunctionParts DEF TypeOK
    <3>3. QED BY <1>2, <1>3, <2>1, <2>2, <3>1, <3>2 DEF TerminatorsAsWere, Ops
  <2>5. \A x \in Value \cup Literal, u \in Value : OnRecord(<<u, 3>>, x)' => OnRecord(<<u, 3>>, x)
    BY <1>2, <1>3, <2>2 DEF OnRecord
  <2>6. PairsKnown'
    <3>1. CASE pc' # "fold" BY <1>2, <2>1, <2>5, <3>1, PairsStay
    <3>2. CASE pc' = "fold"
      <4>1. pc = "fold" /\ at' = at + 1 /\ at \in Nat BY <1>1, <2>2, <3>2 DEF KeepBranch, TypeOK
      <4>2. Len(func_.blocks) \in Nat BY <1>1, FunctionParts
      <4>3. ASSUME NEW b \in Image(func_.blocks), NEW u \in PhisOf(b), LostOne(b, u)
            PROVE  LostOne(b, u)'
        <5>1. PICK j \in LostAt(b, u), n \in 1..Len(func_.blocks) :
                /\ Ops(u)[j + 1] = func_.blocks[n] /\ n < at
                /\ \A x \in Value \cup Literal : OnRecord(<<u, 3>>, x) => j = 1 /\ Ops(u)[3] = x
          BY <4>1, <4>3 DEF LostOne
        <5>2. u \in Value /\ n < at + 1 BY <1>1, <4>1, <4>2, <5>1, PhiParts
        <5>3. LostAt(b, u)' = LostAt(b, u) /\ Ops(u)' = Ops(u) BY <1>2 DEF LostAt, Feasible, Targets, Ops
        <5>4. QED BY <1>2, <2>5, <4>1, <4>3, <5>1, <5>2, <5>3 DEF LostOne
      <4>4. \A b : PhisOf(b)' = PhisOf(b) BY <1>3 DEF PhisOf
      <4>5. QED BY <1>2, <2>1, <4>1, <4>3, <4>4 DEF PairsKnown, Whole, Ops
    <3>3. QED BY <3>1, <3>2
  <2>7. Behind'
    <3>1. \A u : Single(u)' = Single(u) /\ PhisOf(u)' = PhisOf(u) BY <1>2, <1>3 DEF Single, PhisOf
    <3>2. CASE KeepBranch BY <3>2 DEF Behind, KeepBranch
    <3>3. CASE StartPhis
      <4>1. pc' = "phis" /\ at' = 1 /\ ip' = 1 BY <3>3 DEF StartPhis
      <4>2. QED BY <4>1 DEF Behind
    <3>4. CASE SkipInstr \/ Replaced
      <4>1. /\ at' = at /\ bb' = bb /\ ip' = ip + 1 /\ pc \in {"phis", "replace"}
            /\ at <= Len(func_.blocks)
        BY <1>2, <2>1, <3>4 DEF SkipInstr, Replaced, Scanning, bb, Waiting
      <4>2. Single(code[bb][ip]) => code[bb][ip] \in wait_delete
        BY <2>1, <3>4 DEF SkipInstr, Replaced, Waiting
      <4>3. ip \in Nat BY <1>1 DEF TypeOK
      <4>4. \A j \in 1..Len(code[bb]) : j < ip + 1 /\ Single(code[bb][j]) => code[bb][j] \in wait_delete
        BY <2>1, <4>1, <4>2, <4>3 DEF Behind
      <4>5. QED BY <1>2, <1>3, <2>1, <3>1, <4>1, <4>4 DEF Behind
    <3>5. QED BY <1>6, <3>2, <3>3, <3>4
  <2>8. QED BY <1>1, <1>2, <2>2, <2>3, <2>4, <2>6, <2>7 DEF StaleKnown, FailsOnlyStaleOrUnreached
<1>7. QED BY <1>4, <1>5, <1>6

\* For every function whose joins are those of ifs and loops, with all its pairs
\* in each phi or not: the assert of set_operand fails only where a phi keeps, at
\* the place of a pair that is gone, the record of a phi of an earlier block that
\* is reduced to one pair; and operand 0 is missing only from a phi of a block
\* that the entry did not reach before the pass.
THEOREM FailuresAreStaleOrUnreached == Spec => []FailsOnlyStaleOrUnreached
<1> DEFINE All == IInv /\ UsesKnown /\ StaleKnown
<1>1. Init => All BY InitInvariant, InitUses, InitStale
<1>2. IInv /\ UsesKnown /\ [Next]_vars => IInv' /\ UsesKnown'
  BY FoldInvariant, ReplaceInvariant, OtherInvariant, FoldUses, TakeUses, ReplaceUses, EndUses, OtherUses
  DEF Next
<1>3. IInv /\ UsesKnown /\ StaleKnown /\ [Next]_vars => StaleKnown'
  BY FoldStale, TakeStale, ReplaceStale, EndStale, OtherStale DEF Next
<1>4. All => FailsOnlyStaleOrUnreached BY DEF StaleKnown
<1>5. All /\ [Next]_vars => All' BY <1>2, <1>3
<1> HIDE DEF All
<1>6. QED BY <1>1, <1>4, <1>5, PTL DEF Spec
=============================================================================
