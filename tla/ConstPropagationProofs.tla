----------------------- MODULE ConstPropagationProofs -----------------------
(***************************************************************************)
(* Proofs about ConstPropagation.  What a function computes is said by     *)
(* TypedIR for any sequence of blocks, so facts about all paths are proved *)
(* along the blocks of a sequence and the instructions of a block.         *)
(***************************************************************************)
EXTENDS ConstPropagation, FlowGraphProofs, SequenceTheorems

-----------------------------------------------------------------------------
\* The n-th stage of what is defined by recursion over a number: the steps in
\* a block, the heads of a path, the instructions kept, the paths of a graph.
Stage(a, n, s) ==
  CASE a.of = "steps" -> Step(a.f, a.in, a.block[n], s)
    [] a.of = "heads" ->
         IF n <= 1 THEN Start(a.f)
         ELSE LET block == a.code[a.path[n-1]]
              IN  Arrive(a.code, Steps(a.f, a.in, block, s)[Len(block)], a.path[n-1], a.path[n])
    [] a.of = "kept" -> IF a.s[n].id \in a.ids THEN s ELSE Append(s, a.s[n])
    [] a.of = "paths" ->
         IF n <= 1 THEN {<<a.entry>>}
         ELSE s \cup {Append(x[1], x[2]) : x \in {y \in s \X DOMAIN a.succ :
                                              y[2] \in a.succ[y[1][Len(y[1])]]}}

Staged(f, a, x) == f = [n \in Nat |-> IF n = 0 THEN x ELSE Stage(a, n, f[n-1])]

\* Each of these functions exists.
LEMMA StagesExist ==
  ASSUME NEW a, NEW x
  PROVE  \E f : Staged(f, a, x)
<1> DEFINE Is(h, n) == /\ h = [i \in 0..n |-> h[i]] /\ h[0] = x
                       /\ \A i \in 0..(n - 1) : h[i + 1] = Stage(a, i + 1, h[i])
           Some == {n \in Nat : \E h : Is(h, n)}
<1>1. 0 \in Some
  <2> DEFINE h == [i \in 0..0 |-> x]
  <2>1. h[0] = x /\ \A i \in 0..(0 - 1) : FALSE
    OBVIOUS
  <2>2. h = [i \in 0..0 |-> h[i]]
    OBVIOUS
  <2> HIDE DEF h
  <2>3. Is(h, 0)
    BY <2>1, <2>2
  <2> QED BY <2>3
<1>2. ASSUME NEW n \in Nat, n \in Some PROVE n + 1 \in Some
  <2>1. PICK h : Is(h, n)
    BY <1>2
  <2> DEFINE top == Stage(a, n + 1, h[n])
  <2> HIDE DEF top
  <2> DEFINE g == [i \in 0..(n + 1) |-> IF i = n + 1 THEN top ELSE h[i]]
  <2>2. h[0] = x /\ \A i \in 0..(n - 1) : h[i + 1] = Stage(a, i + 1, h[i])
    BY <2>1
  <2>3. g = [i \in 0..(n + 1) |-> g[i]] /\ g[0] = x /\ g[n + 1] = top /\ \A i \in 0..n : g[i] = h[i]
    BY <2>2
  <2> HIDE DEF g
  <2>4. ASSUME NEW i \in 0..((n + 1) - 1) PROVE g[i + 1] = Stage(a, i + 1, g[i])
    <3>0. i \in 0..n
      OBVIOUS
    <3>1. i \in 0..n /\ g[i] = h[i]
      BY <2>3, <3>0
    <3>2. CASE i = n
      <4>1. g[i + 1] = top /\ Stage(a, i + 1, g[i]) = Stage(a, n + 1, h[n])
        BY <2>3, <3>1, <3>2
      <4> QED BY <4>1 DEF top
    <3>3. CASE i # n
      <4>1. i \in 0..(n - 1) /\ i + 1 \in 0..n
        BY <3>1, <3>3
      <4>2. g[i + 1] = h[i + 1] /\ h[i + 1] = Stage(a, i + 1, h[i])
        BY <2>2, <2>3, <4>1
      <4> QED BY <3>1, <4>2
    <3> QED BY <3>2, <3>3
  <2>5. Is(g, n + 1)
    BY <2>3, <2>4
  <2> HIDE DEF Is
  <2> QED BY <2>5
<1>3. ASSUME NEW n \in Nat PROVE \E h : Is(h, n)
  <2> HIDE DEF Is
  <2>1. Nat \subseteq Some
    <3> HIDE DEF Some
    <3> QED BY <1>1, <1>2, NatSet
  <2> QED BY <2>1
<1>4. ASSUME NEW n \in Nat, NEW m \in Nat, n <= m, NEW h, NEW g, Is(h, n), Is(g, m)
      PROVE  h[n] = g[n]
  <2> DEFINE Same == {i \in Nat : i <= n => h[i] = g[i]}
  <2>1. 0 \in Same
    BY <1>4
  <2>2. ASSUME NEW i \in Nat, i \in Same PROVE i + 1 \in Same
    <3> SUFFICES ASSUME i + 1 <= n PROVE h[i + 1] = g[i + 1]
      OBVIOUS
    <3>1. i \in 0..(n - 1) /\ i \in 0..(m - 1) /\ h[i] = g[i]
      BY <1>4, <2>2
    <3>2. h[i + 1] = Stage(a, i + 1, h[i]) /\ g[i + 1] = Stage(a, i + 1, g[i])
      BY <1>4, <3>1
    <3> QED BY <3>1, <3>2
  <2> HIDE DEF Same, Is
  <2>3. Nat \subseteq Same
    BY <2>1, <2>2, NatSet
  <2>4. n \in Same
    BY <2>3
  <2> QED BY <2>4 DEF Same
<1> DEFINE top(n) == CHOOSE h : Is(h, n)
           f == [n \in Nat |-> top(n)[n]]
<1>5. ASSUME NEW n \in Nat PROVE Is(top(n), n)
  <2> HIDE DEF Is
  <2> QED BY <1>3
<1>6. top(0)[0] = x
  BY <1>5
<1>7. ASSUME NEW n \in Nat PROVE top(n + 1)[n + 1] = Stage(a, n + 1, top(n)[n])
  <2> DEFINE h == top(n + 1)
             g == top(n)
  <2>1. Is(h, n + 1) /\ Is(g, n)
    <3>1. n + 1 \in Nat
      OBVIOUS
    <3> HIDE DEF Is, top
    <3> QED BY <1>5, <3>1
  <2> HIDE DEF h, g
  <2>2. h[n + 1] = Stage(a, n + 1, h[n])
    <3>1. n \in 0..((n + 1) - 1)
      OBVIOUS
    <3> QED BY <2>1, <3>1
  <2>3. g[n] = h[n]
    <3>1. n + 1 \in Nat /\ n <= n + 1
      OBVIOUS
    <3> HIDE DEF Is
    <3> QED BY <1>4, <2>1, <3>1
  <2>4. h[n + 1] = Stage(a, n + 1, g[n])
    BY <2>2, <2>3
  <2> QED BY <2>4 DEF h, g
<1> HIDE DEF top
<1>8. ASSUME NEW n \in Nat PROVE f[n] = IF n = 0 THEN x ELSE Stage(a, n, f[n-1])
  <2>1. CASE n = 0
    BY <1>6, <2>1
  <2>2. CASE n # 0
    <3>1. n - 1 \in Nat /\ (n - 1) + 1 = n
      BY <2>2
    <3>2. top((n - 1) + 1)[(n - 1) + 1] = Stage(a, (n - 1) + 1, top(n - 1)[n - 1])
      BY <1>7, <3>1
    <3>3. f[n] = top(n)[n] /\ f[n - 1] = top(n - 1)[n - 1]
      BY <3>1
    <3> HIDE DEF f
    <3> QED BY <2>2, <3>1, <3>2, <3>3
  <2> QED BY <2>1, <2>2
<1>9. f = [n \in Nat |-> f[n]]
  OBVIOUS
<1> HIDE DEF f
<1>10. f = [n \in Nat |-> IF n = 0 THEN x ELSE Stage(a, n, f[n-1])]
  BY <1>8, <1>9
<1> QED BY <1>10 DEF Staged

\* From the equation of such a function, its value at 0 and at each number.
LEMMA StepsAre ==
  ASSUME NEW f, NEW in, NEW block, NEW s
  PROVE  /\ Steps(f, in, block, s)[0] = s
         /\ \A k \in Nat : Steps(f, in, block, s)[k + 1] = Step(f, in, block[k + 1], Steps(f, in, block, s)[k])
<1> DEFINE a == [of |-> "steps", f |-> f, in |-> in, block |-> block]
           eq(g) == g = [k \in Nat |-> IF k = 0 THEN s ELSE Step(f, in, block[k], g[k-1])]
           w == Steps(f, in, block, s)
<1>1. \A n, t : Stage(a, n, t) = Step(f, in, block[n], t)
  BY DEF Stage
<1> HIDE DEF a
<1>2. PICK g : Staged(g, a, s)
  BY StagesExist
<1>3. eq(g)
  BY <1>1, <1>2 DEF Staged
<1>4. w = CHOOSE h : eq(h)
  BY DEF Steps
<1>5. eq(w)
  <2> HIDE DEF eq, w
  <2>1. eq(CHOOSE h : eq(h))
    BY <1>3
  <2> QED BY <1>4, <2>1
<1> HIDE DEF w
<1>6. w[0] = s
  BY <1>5
<1>7. ASSUME NEW k \in Nat PROVE w[k + 1] = Step(f, in, block[k + 1], w[k])
  <2>1. k + 1 \in Nat /\ k + 1 # 0 /\ (k + 1) - 1 = k
    OBVIOUS
  <2> QED BY <1>5, <2>1
<1> QED BY <1>6, <1>7 DEF w

LEMMA HeadsAre ==
  ASSUME NEW f, NEW code_, NEW in, NEW path
  PROVE  /\ Heads(f, code_, in, path)[1] = Start(f)
         /\ \A n \in Nat \ {0} :
              LET block == code_[path[n]]
              IN  Heads(f, code_, in, path)[n + 1] =
                    Arrive(code_, Steps(f, in, block, Heads(f, code_, in, path)[n])[Len(block)], path[n], path[n + 1])
<1> DEFINE a == [of |-> "heads", f |-> f, in |-> in, code |-> code_, path |-> path]
           New(n, t) == IF n <= 1 THEN Start(f)
                        ELSE LET block == code_[path[n-1]]
                             IN  Arrive(code_, Steps(f, in, block, t)[Len(block)], path[n-1], path[n])
           eq(g) == g = [n \in Nat |-> New(n, g[n-1])]
           w == Heads(f, code_, in, path)
<1>1. \A n, t : Stage(a, n, t) = New(n, t)
  BY DEF Stage
<1>8. \A t : New(0, t) = Start(f) /\ New(1, t) = Start(f)
  OBVIOUS
<1>4. w = CHOOSE h : eq(h)
  BY DEF Heads
<1>9. ASSUME NEW n \in Nat \ {0}, NEW t
      PROVE  New(n + 1, t) =
               LET block == code_[path[n]]
               IN  Arrive(code_, Steps(f, in, block, t)[Len(block)], path[n], path[n + 1])
  <2>1. ~(n + 1 <= 1) /\ (n + 1) - 1 = n
    OBVIOUS
  <2> QED BY <2>1
<1> HIDE DEF a, New
<1>2. PICK g : Staged(g, a, Start(f))
  BY StagesExist
<1>3. eq(g)
  <2>1. ASSUME NEW n \in Nat PROVE (IF n = 0 THEN Start(f) ELSE Stage(a, n, g[n-1])) = New(n, g[n-1])
    BY <1>1, <1>8
  <2> QED BY <1>2, <2>1 DEF Staged
<1>5. eq(w)
  <2> HIDE DEF eq, w
  <2>1. eq(CHOOSE h : eq(h))
    BY <1>3
  <2> QED BY <1>4, <2>1
<1> HIDE DEF w
<1>6. w[1] = Start(f)
  BY <1>5, <1>8
<1>7. ASSUME NEW n \in Nat \ {0}
      PROVE  LET block == code_[path[n]]
             IN  w[n + 1] = Arrive(code_, Steps(f, in, block, w[n])[Len(block)], path[n], path[n + 1])
  <2>1. n + 1 \in Nat /\ (n + 1) - 1 = n
    OBVIOUS
  <2>2. w[n + 1] = New(n + 1, w[n])
    BY <1>5, <2>1
  <2> QED BY <1>9, <2>2
<1> QED BY <1>6, <1>7 DEF w

\* The instructions of s kept among the first k.
KeptOf(s, ids) == CHOOSE h : h = [k \in Nat |->
                    IF k = 0 THEN <<>>
                    ELSE IF s[k].id \in ids THEN h[k-1] ELSE Append(h[k-1], s[k])]
KeepsAllBut(h, s, ids) ==
  /\ h[0] = <<>>
  /\ \A k \in Nat : h[k + 1] = IF s[k + 1].id \in ids THEN h[k] ELSE Append(h[k], s[k + 1])

LEMMA KeptAre ==
  ASSUME NEW s, NEW ids
  PROVE  Kept(s, ids) = KeptOf(s, ids)[Len(s)] /\ KeepsAllBut(KeptOf(s, ids), s, ids)
<1> DEFINE a == [of |-> "kept", s |-> s, ids |-> ids]
           eq(g) == g = [k \in Nat |-> IF k = 0 THEN <<>>
                           ELSE IF s[k].id \in ids THEN g[k-1] ELSE Append(g[k-1], s[k])]
           w == KeptOf(s, ids)
<1>1. \A n, t : Stage(a, n, t) = IF s[n].id \in ids THEN t ELSE Append(t, s[n])
  BY DEF Stage
<1> HIDE DEF a
<1>2. PICK g : Staged(g, a, <<>>)
  BY StagesExist
<1>3. eq(g)
  <2>1. ASSUME NEW n \in Nat
        PROVE  (IF n = 0 THEN <<>> ELSE Stage(a, n, g[n-1]))
                  = IF n = 0 THEN <<>> ELSE IF s[n].id \in ids THEN g[n-1] ELSE Append(g[n-1], s[n])
    BY <1>1
  <2> QED BY <1>2, <2>1 DEF Staged
<1>4. w = CHOOSE h : eq(h)
  BY DEF KeptOf
<1>5. eq(w)
  <2> HIDE DEF eq, w
  <2>1. eq(CHOOSE h : eq(h))
    BY <1>3
  <2> QED BY <1>4, <2>1
<1>10. Kept(s, ids) = w[Len(s)]
  BY DEF Kept, KeptOf
<1> HIDE DEF w
<1>6. w[0] = <<>>
  BY <1>5
<1>7. ASSUME NEW k \in Nat PROVE w[k + 1] = IF s[k + 1].id \in ids THEN w[k] ELSE Append(w[k], s[k + 1])
  <2>1. k + 1 \in Nat /\ k + 1 # 0 /\ (k + 1) - 1 = k
    OBVIOUS
  <2> QED BY <1>5, <2>1
<1> QED BY <1>6, <1>7, <1>10 DEF w, KeepsAllBut

\* A path of a graph on the blocks in Node is a sequence of them.
LEMMA PathsAreBlocks ==
  ASSUME NEW Node, NEW succ, DOMAIN succ = Node, NEW entry \in Node, NEW bound \in Nat
  PROVE  \A p \in PathsFrom(succ, entry, bound) : p \in Seq(Node) /\ Len(p) >= 1
<1> DEFINE a == [of |-> "paths", succ |-> succ, entry |-> entry]
           Longer(X) == {Append(x[1], x[2]) : x \in {y \in X \X DOMAIN succ : y[2] \in succ[y[1][Len(y[1])]]}}
           New(n, X) == IF n <= 1 THEN {<<entry>>} ELSE X \cup Longer(X)
           eq(g) == g = [n \in Nat |-> New(n, g[n-1])]
           Good(X) == \A p \in X : p \in Seq(Node) /\ Len(p) >= 1
<1>1. \A n, t : Stage(a, n, t) = New(n, t)
  BY DEF Stage
<1>2. ASSUME NEW X, Good(X) PROVE Good(X \cup Longer(X))
  <2>1. ASSUME NEW p \in Longer(X) PROVE p \in Seq(Node) /\ Len(p) >= 1
    <3>1. PICK y \in X \X DOMAIN succ : p = Append(y[1], y[2])
      OBVIOUS
    <3>2. y[1] \in X /\ y[2] \in Node
      OBVIOUS
    <3>3. y[1] \in Seq(Node) /\ Len(y[1]) >= 1
      BY <1>2, <3>2
    <3> QED BY <3>1, <3>2, <3>3, AppendProperties
  <2> QED BY <1>2, <2>1
<1>3. Good({<<entry>>})
  <2>1. <<entry>> \in Seq(Node) /\ Len(<<entry>>) = 1
    OBVIOUS
  <2> DEFINE one == <<entry>>
  <2> HIDE DEF one
  <2>2. one \in Seq(Node) /\ Len(one) >= 1
    BY <2>1 DEF one
  <2>3. Good({one})
    BY <2>2
  <2> QED BY <2>3 DEF one
<1>4. PathsFrom(succ, entry, bound) = (CHOOSE h : eq(h))[bound]
  BY DEF PathsFrom
<1> HIDE DEF a, Longer
<1>11. ASSUME NEW n \in Nat, NEW X, n <= 1 \/ Good(X) PROVE Good(New(n, X))
  BY <1>2, <1>3, <1>11
<1>12. \A X : New(0, X) = {<<entry>>}
  OBVIOUS
<1> HIDE DEF New, Good
<1>5. PICK g : Staged(g, a, {<<entry>>})
  BY StagesExist
<1>6. eq(g)
  <2>1. ASSUME NEW n \in Nat PROVE (IF n = 0 THEN {<<entry>>} ELSE Stage(a, n, g[n-1])) = New(n, g[n-1])
    BY <1>1, <1>12
  <2> QED BY <1>5, <2>1 DEF Staged
<1> DEFINE w == CHOOSE h : eq(h)
<1>7. eq(w)
  <2> HIDE DEF eq
  <2> QED BY <1>6
<1> HIDE DEF w
<1> DEFINE Some == {n \in Nat : Good(w[n])}
<1>8. 0 \in Some
  BY <1>7, <1>11
<1>9. ASSUME NEW n \in Nat, n \in Some PROVE n + 1 \in Some
  <2>1. n + 1 \in Nat /\ (n + 1) - 1 = n
    OBVIOUS
  <2>2. w[n + 1] = New(n + 1, w[n])
    BY <1>7, <2>1
  <2> QED BY <1>9, <1>11, <2>1, <2>2
<1> HIDE DEF Some
<1>10. bound \in Some
  BY <1>8, <1>9, NatSet
<1>13. Good(PathsFrom(succ, entry, bound))
  BY <1>4, <1>10 DEF Some, w
<1> QED BY <1>13 DEF Good

-----------------------------------------------------------------------------
(***************************************************************************)
(* Runs: what RunTo says at the start, after one more instruction and in   *)
(* one more block, and what an instruction changes.                        *)
(***************************************************************************)
Routes == Seq(Block) \ {<<>>}
Last(path) == path[Len(path)]

LEMMA RouteEnds ==
  ASSUME NEW path \in Routes
  PROVE  Len(path) \in Nat \ {0} /\ Last(path) \in Block /\ \A n \in 1..Len(path) : path[n] \in Block
<1>1. path \in Seq(Block) /\ path # <<>>
  BY DEF Routes
<1>2. Len(path) \in Nat /\ Len(path) # 0
  BY <1>1, EmptySeq
<1>3. \A n \in 1..Len(path) : path[n] \in Block
  BY <1>1
<1> QED BY <1>2, <1>3 DEF Last

LEMMA RouteGrows ==
  ASSUME NEW path \in Routes, NEW b \in Block
  PROVE  /\ Append(path, b) \in Routes /\ Len(Append(path, b)) = Len(path) + 1
         /\ Last(Append(path, b)) = b /\ \A n \in 1..Len(path) : Append(path, b)[n] = path[n]
<1>1. path \in Seq(Block)
  BY DEF Routes
<1>2. /\ Append(path, b) \in Seq(Block) /\ Len(Append(path, b)) = Len(path) + 1
      /\ \A n \in 1..Len(path) : Append(path, b)[n] = path[n]
      /\ Append(path, b)[Len(path) + 1] = b
  BY <1>1, AppendProperties
<1>3. Append(path, b) # <<>>
  BY <1>1, <1>2
<1> QED BY <1>2, <1>3 DEF Routes, Last

\* Every sequence of blocks is one of them, with blocks added at the end.
LEMMA RouteInduction ==
  ASSUME NEW Good, \A b \in Block : <<b>> \in Good,
         \A path \in Routes, b \in Block : path \in Good => Append(path, b) \in Good
  PROVE  Routes \subseteq Good
<1> DEFINE Some == {n \in Nat : \A path \in Routes : Len(path) = n + 1 => path \in Good}
<1>1. 0 \in Some
  <2>1. ASSUME NEW path \in Routes, Len(path) = 1 PROVE path \in Good
    <3>1. path = <<path[1]>> /\ path[1] \in Block
      BY <2>1 DEF Routes
    <3> QED BY <3>1
  <2> QED BY <2>1
<1>2. ASSUME NEW n \in Nat, n \in Some PROVE n + 1 \in Some
  <2>1. ASSUME NEW path \in Routes, Len(path) = (n + 1) + 1 PROVE path \in Good
    <3> DEFINE front == SubSeq(path, 1, n + 1)
               b == path[n + 2]
    <3>1. path \in Seq(Block) /\ b \in Block
      BY <2>1 DEF Routes
    <3>2. front \in Seq(Block) /\ Len(front) = n + 1 /\ path = Append(front, b)
      BY <2>1, <3>1
    <3>3. front \in Routes
      BY <3>2 DEF Routes
    <3> HIDE DEF front, b
    <3>4. front \in Good
      BY <1>2, <3>2, <3>3
    <3> QED BY <3>1, <3>2, <3>3, <3>4
  <2> QED BY <2>1
<1> HIDE DEF Some
<1>3. Nat \subseteq Some
  BY <1>1, <1>2, NatSet
<1> SUFFICES ASSUME NEW path \in Routes PROVE path \in Good
  OBVIOUS
<1>4. Len(path) - 1 \in Nat /\ (Len(path) - 1) + 1 = Len(path)
  BY RouteEnds
<1>5. Len(path) - 1 \in Some
  BY <1>3, <1>4
<1> QED BY <1>4, <1>5 DEF Some

LEMMA HeadsGrow ==
  ASSUME NEW f, NEW c, NEW in, NEW path \in Routes, NEW b \in Block
  PROVE  Heads(f, c, in, Append(path, b))[Len(path)] = Heads(f, c, in, path)[Len(path)]
<1> DEFINE longer == Append(path, b)
           h == Heads(f, c, in, path)
           g == Heads(f, c, in, longer)
           Same == {n \in Nat : n + 1 <= Len(path) => h[n + 1] = g[n + 1]}
<1>1. Len(path) \in Nat \ {0} /\ \A n \in 1..Len(path) : longer[n] = path[n]
  BY RouteEnds, RouteGrows
<1>2. /\ h[1] = Start(f)
      /\ \A n \in Nat \ {0} :
           LET block == c[path[n]]
           IN  h[n + 1] = Arrive(c, Steps(f, in, block, h[n])[Len(block)], path[n], path[n + 1])
  BY HeadsAre
<1>3. /\ g[1] = Start(f)
      /\ \A n \in Nat \ {0} :
           LET block == c[longer[n]]
           IN  g[n + 1] = Arrive(c, Steps(f, in, block, g[n])[Len(block)], longer[n], longer[n + 1])
  <2> HIDE DEF longer
  <2> QED BY HeadsAre
<1> HIDE DEF h, g, longer
<1>4. 0 \in Same
  BY <1>2, <1>3
<1>5. ASSUME NEW n \in Nat, n \in Same PROVE n + 1 \in Same
  <2> SUFFICES ASSUME (n + 1) + 1 <= Len(path) PROVE h[(n + 1) + 1] = g[(n + 1) + 1]
    OBVIOUS
  <2> DEFINE m == n + 1
  <2>1. m \in Nat \ {0} /\ m \in 1..Len(path) /\ m + 1 \in 1..Len(path)
    BY <1>1
  <2>2. h[m] = g[m]
    BY <1>5, <2>1
  <2>3. longer[m] = path[m] /\ longer[m + 1] = path[m + 1]
    BY <1>1, <2>1
  <2> HIDE DEF m
  <2>4. LET block == c[path[m]]
        IN  h[m + 1] = Arrive(c, Steps(f, in, block, h[m])[Len(block)], path[m], path[m + 1])
    BY <1>2, <2>1
  <2>5. LET block == c[longer[m]]
        IN  g[m + 1] = Arrive(c, Steps(f, in, block, g[m])[Len(block)], longer[m], longer[m + 1])
    BY <1>3, <2>1
  <2>6. h[m + 1] = g[m + 1]
    BY <2>2, <2>3, <2>4, <2>5
  <2> QED BY <2>6 DEF m
<1> HIDE DEF Same
<1>6. Nat \subseteq Same
  BY <1>4, <1>5, NatSet
<1>7. Len(path) - 1 \in Nat /\ (Len(path) - 1) + 1 = Len(path)
  BY <1>1
<1>8. Len(path) - 1 \in Same
  BY <1>6, <1>7
<1> QED BY <1>7, <1>8 DEF Same, h, g, longer

LEMMA RunsAre ==
  ASSUME NEW f, NEW c, NEW in
  PROVE  /\ \A b \in Block : RunTo(f, c, in, <<b>>, 0) = Start(f)
         /\ \A path \in Routes : \A k \in Nat :
              RunTo(f, c, in, path, k + 1) = Step(f, in, c[Last(path)][k + 1], RunTo(f, c, in, path, k))
         /\ \A path \in Routes : \A b \in Block :
              RunTo(f, c, in, Append(path, b), 0) =
                Arrive(c, RunTo(f, c, in, path, Len(c[Last(path)])), Last(path), b)
<1>1. ASSUME NEW b \in Block PROVE RunTo(f, c, in, <<b>>, 0) = Start(f)
  <2>1. Len(<<b>>) = 1
    OBVIOUS
  <2>2. RunTo(f, c, in, <<b>>, 0) = Heads(f, c, in, <<b>>)[1]
    BY <2>1, StepsAre DEF RunTo
  <2> QED BY <2>2, HeadsAre
<1>2. ASSUME NEW path \in Routes, NEW k \in Nat
      PROVE  RunTo(f, c, in, path, k + 1) = Step(f, in, c[Last(path)][k + 1], RunTo(f, c, in, path, k))
  <2> DEFINE block == c[Last(path)]
             s == Heads(f, c, in, path)[Len(path)]
  <2>1. \A n : RunTo(f, c, in, path, n) = Steps(f, in, block, s)[n]
    BY DEF RunTo, Last
  <2> HIDE DEF block, s
  <2>2. Steps(f, in, block, s)[k + 1] = Step(f, in, block[k + 1], Steps(f, in, block, s)[k])
    BY StepsAre
  <2>3. RunTo(f, c, in, path, k + 1) = Step(f, in, block[k + 1], RunTo(f, c, in, path, k))
    BY <2>1, <2>2
  <2> QED BY <2>3 DEF block
<1>3. ASSUME NEW path \in Routes, NEW b \in Block
      PROVE  RunTo(f, c, in, Append(path, b), 0) =
                Arrive(c, RunTo(f, c, in, path, Len(c[Last(path)])), Last(path), b)
  <2> DEFINE longer == Append(path, b)
             n == Len(path)
             g == Heads(f, c, in, longer)
  <2>1. n \in Nat \ {0} /\ Len(longer) = n + 1 /\ longer[n + 1] = b /\ longer[n] = Last(path)
    BY RouteEnds, RouteGrows DEF Last
  <2>2. LET block == c[longer[n]]
        IN  g[n + 1] = Arrive(c, Steps(f, in, block, g[n])[Len(block)], longer[n], longer[n + 1])
    <3> HIDE DEF longer, n
    <3> QED BY <2>1, HeadsAre
  <2>3. g[n] = Heads(f, c, in, path)[n]
    BY HeadsGrow
  <2>4. RunTo(f, c, in, longer, 0) = g[n + 1]
    BY <2>1, StepsAre DEF RunTo
  <2>5. RunTo(f, c, in, path, Len(c[Last(path)])) = Steps(f, in, c[Last(path)], g[n])[Len(c[Last(path)])]
    BY <2>3 DEF RunTo, Last
  <2> HIDE DEF g, n, longer
  <2>6. RunTo(f, c, in, longer, 0) = Arrive(c, RunTo(f, c, in, path, Len(c[Last(path)])), Last(path), b)
    BY <2>1, <2>2, <2>4, <2>5
  <2> QED BY <2>6 DEF longer
<1> QED BY <1>1, <1>2, <1>3

-----------------------------------------------------------------------------
\* A state of a run of f.
IsState(f, s) ==
  /\ s = [ub |-> s.ub, mem |-> s.mem, env |-> s.env, seen |-> s.seen, inputs |-> s.inputs]
  /\ s.ub \in BOOLEAN
  /\ DOMAIN s.env = f.ids /\ DOMAIN s.mem = DOMAIN f.mem
  /\ \E T : s.seen \in Seq(T)

\* What an instruction reads, when it traps, and the value it gives.
Reads(i, s) == [k \in 1..Len(i.args) |-> Read(s, i.args[k])]
TrapsOn(i, x) == i.op = "sdiv" /\ MayTrap(x[1], x[2])
Gives(op) == Computes(op) \/ op \in {"load", "input"}
Given(f, in, i, s) ==
  IF i.op = "load" THEN s.mem[f.cellOf[i.loc]]
  ELSE IF i.op = "input" THEN Input(in, s.inputs)
  ELSE IF \E k \in 1..Len(Reads(i, s)) : Reads(i, s)[k] = Undef THEN Undef
  ELSE Result(i.op, Reads(i, s))
GlobalCells(f) == {f.cellOf[p] : p \in {q \in DOMAIN f.cellOf : IsGlobal(q)}}
Called(f, in, s) ==
  [c \in DOMAIN s.mem |-> IF c \in GlobalCells(f) THEN <<f.mem[c][1], in[1]>> ELSE s.mem[c]]
Shows(f, i, s) ==
  IF i.op = "output" THEN [c \in {"out"} |-> Reads(i, s)[1]]
  ELSE [p \in {q \in DOMAIN f.cellOf : IsGlobal(q)} |-> s.mem[f.cellOf[p]]]

LEMMA SeqGrows ==
  ASSUME NEW T, NEW s \in Seq(T), NEW e
  PROVE  /\ \E U : Append(s, e) \in Seq(U)
         /\ Len(Append(s, e)) = Len(s) + 1 /\ Append(s, e)[Len(s) + 1] = e
         /\ \A k \in 1..Len(s) : Append(s, e)[k] = s[k]
<1> DEFINE U == T \cup {e}
<1>1. s \in Seq(U)
  OBVIOUS
<1>2. e \in U
  OBVIOUS
<1> HIDE DEF U
<1>3. /\ Append(s, e) \in Seq(U) /\ Len(Append(s, e)) = Len(s) + 1 /\ Append(s, e)[Len(s) + 1] = e
      /\ \A k \in 1..Len(s) : Append(s, e)[k] = s[k]
  BY <1>1, <1>2, AppendProperties
<1> QED BY <1>3

\* The parts of a state, changed.
LEMMA Changed ==
  ASSUME NEW s, s = [ub |-> s.ub, mem |-> s.mem, env |-> s.env, seen |-> s.seen, inputs |-> s.inputs],
         NEW z, NEW y
  PROVE  /\ [s EXCEPT !.ub = z] = [ub |-> z, mem |-> s.mem, env |-> s.env, seen |-> s.seen, inputs |-> s.inputs]
         /\ [s EXCEPT !.mem = z] = [ub |-> s.ub, mem |-> z, env |-> s.env, seen |-> s.seen, inputs |-> s.inputs]
         /\ [s EXCEPT !.env = z] = [ub |-> s.ub, mem |-> s.mem, env |-> z, seen |-> s.seen, inputs |-> s.inputs]
         /\ [s EXCEPT !.seen = z] = [ub |-> s.ub, mem |-> s.mem, env |-> s.env, seen |-> z, inputs |-> s.inputs]
         /\ [s EXCEPT !.env = z, !.inputs = y] =
              [ub |-> s.ub, mem |-> s.mem, env |-> z, seen |-> s.seen, inputs |-> y]
         /\ [s EXCEPT !.seen = z, !.mem = y] =
              [ub |-> s.ub, mem |-> y, env |-> s.env, seen |-> z, inputs |-> s.inputs]
<1> DEFINE Of(ub, mem, env, seen, inputs) ==
             [ub |-> ub, mem |-> mem, env |-> env, seen |-> seen, inputs |-> inputs]
<1>0. ASSUME NEW b, NEW m, NEW e, NEW n, NEW k
      PROVE  /\ [Of(b, m, e, n, k) EXCEPT !.ub = z] = Of(z, m, e, n, k)
             /\ [Of(b, m, e, n, k) EXCEPT !.mem = z] = Of(b, z, e, n, k)
             /\ [Of(b, m, e, n, k) EXCEPT !.env = z] = Of(b, m, z, n, k)
             /\ [Of(b, m, e, n, k) EXCEPT !.seen = z] = Of(b, m, e, z, k)
             /\ [Of(b, m, e, n, k) EXCEPT !.inputs = y] = Of(b, m, e, n, y)
             /\ [Of(b, m, e, n, k) EXCEPT !.mem = y] = Of(b, y, e, n, k)
  OBVIOUS
<1>1. s = Of(s.ub, s.mem, s.env, s.seen, s.inputs)
  OBVIOUS
<1> HIDE DEF Of
<1>4. /\ [s EXCEPT !.ub = z] = Of(z, s.mem, s.env, s.seen, s.inputs)
      /\ [s EXCEPT !.mem = z] = Of(s.ub, z, s.env, s.seen, s.inputs)
      /\ [s EXCEPT !.env = z] = Of(s.ub, s.mem, z, s.seen, s.inputs)
      /\ [s EXCEPT !.seen = z] = Of(s.ub, s.mem, s.env, z, s.inputs)
  BY <1>0, <1>1
<1>5. [Of(s.ub, s.mem, z, s.seen, s.inputs) EXCEPT !.inputs = y] = Of(s.ub, s.mem, z, s.seen, y)
  BY <1>0
<1>6. [Of(s.ub, s.mem, s.env, z, s.inputs) EXCEPT !.mem = y] = Of(s.ub, y, s.env, z, s.inputs)
  BY <1>0
<1>7. [s EXCEPT !.env = z, !.inputs = y] = Of(s.ub, s.mem, z, s.seen, y)
  BY <1>4, <1>5, Zenon
<1>8. [s EXCEPT !.seen = z, !.mem = y] = Of(s.ub, y, s.env, z, s.inputs)
  BY <1>4, <1>6, Zenon
<1> QED BY <1>4, <1>7, <1>8 DEF Of

\* What one instruction does to a state that has not trapped.
Stepped(f, in, i, s, t) ==
  /\ t.ub = TrapsOn(i, Reads(i, s))
  /\ t.inputs = IF i.op = "input" THEN s.inputs + 1 ELSE s.inputs
  /\ t.seen = IF i.op \in {"output", "call"} THEN Append(s.seen, Shows(f, i, s)) ELSE s.seen
  /\ t.mem = IF i.op = "store" THEN [s.mem EXCEPT ![f.cellOf[i.loc]] = Reads(i, s)[1]]
             ELSE IF i.op = "call" THEN Called(f, in, s) ELSE s.mem
  /\ t.env = IF Gives(i.op) /\ ~TrapsOn(i, Reads(i, s))
             THEN [s.env EXCEPT ![i.id] = Given(f, in, i, s)] ELSE s.env
  /\ t = [ub |-> t.ub, mem |-> t.mem, env |-> t.env, seen |-> t.seen, inputs |-> t.inputs]

LEMMA StepParts ==
  ASSUME NEW f, NEW in, NEW i, NEW s, IsState(f, s), ~s.ub
  PROVE  Stepped(f, in, i, s, Step(f, in, i, s))
<1> DEFINE t == Step(f, in, i, s)
           x == Reads(i, s)
           Parts(u) ==
             /\ u.ub = TrapsOn(i, x)
             /\ u.inputs = IF i.op = "input" THEN s.inputs + 1 ELSE s.inputs
             /\ u.seen = IF i.op \in {"output", "call"} THEN Append(s.seen, Shows(f, i, s)) ELSE s.seen
             /\ u.mem = IF i.op = "store" THEN [s.mem EXCEPT ![f.cellOf[i.loc]] = x[1]]
                        ELSE IF i.op = "call" THEN Called(f, in, s) ELSE s.mem
             /\ u.env = IF Gives(i.op) /\ ~TrapsOn(i, x)
                        THEN [s.env EXCEPT ![i.id] = Given(f, in, i, s)] ELSE s.env
             /\ u = [ub |-> u.ub, mem |-> u.mem, env |-> u.env, seen |-> u.seen, inputs |-> u.inputs]
           Of(ub, mem, env, seen, inputs) ==
             [ub |-> ub, mem |-> mem, env |-> env, seen |-> seen, inputs |-> inputs]
           env(v) == [s.env EXCEPT ![i.id] = v]
           mem(v) == [s.mem EXCEPT ![f.cellOf[i.loc]] = v]
           seen(v) == Append(s.seen, v)
<1>s. /\ s = Of(s.ub, s.mem, s.env, s.seen, s.inputs)
      /\ s.ub = FALSE
  BY DEF IsState
<1>9. TrapsOn(i, x) \in BOOLEAN
  BY DEF TrapsOn
<1>p. ASSUME NEW m, NEW e, NEW n, NEW k, NEW b, b = TrapsOn(i, x),
             k = (IF i.op = "input" THEN s.inputs + 1 ELSE s.inputs),
             n = (IF i.op \in {"output", "call"} THEN Append(s.seen, Shows(f, i, s)) ELSE s.seen),
             m = (IF i.op = "store" THEN [s.mem EXCEPT ![f.cellOf[i.loc]] = x[1]]
                  ELSE IF i.op = "call" THEN Called(f, in, s) ELSE s.mem),
             e = (IF Gives(i.op) /\ ~TrapsOn(i, x)
                  THEN [s.env EXCEPT ![i.id] = Given(f, in, i, s)] ELSE s.env)
      PROVE  Parts(Of(b, m, e, n, k))
  <2> DEFINE r == Of(b, m, e, n, k)
  <2>1. r.ub = b /\ r.mem = m /\ r.env = e /\ r.seen = n /\ r.inputs = k
    OBVIOUS
  <2>2. r = Of(r.ub, r.mem, r.env, r.seen, r.inputs)
    OBVIOUS
  <2> HIDE DEF r, x
  <2>3. Parts(r)
    BY <1>p, <2>1, <2>2
  <2> QED BY <2>3 DEF r
<1>c. \A z, y :
        /\ [s EXCEPT !.ub = z] = Of(z, s.mem, s.env, s.seen, s.inputs)
        /\ [s EXCEPT !.mem = z] = Of(s.ub, z, s.env, s.seen, s.inputs)
        /\ [s EXCEPT !.env = z] = Of(s.ub, s.mem, z, s.seen, s.inputs)
        /\ [s EXCEPT !.seen = z] = Of(s.ub, s.mem, s.env, z, s.inputs)
        /\ [s EXCEPT !.env = z, !.inputs = y] = Of(s.ub, s.mem, z, s.seen, y)
        /\ [s EXCEPT !.seen = z, !.mem = y] = Of(s.ub, y, s.env, z, s.inputs)
  BY <1>s, Changed
<1> DEFINE shown == [c \in {"out"} |-> x[1]]
           shared == {p \in DOMAIN f.cellOf : IsGlobal(p)}
           globals_ == [p \in shared |-> s.mem[f.cellOf[p]]]
           after == [c \in DOMAIN s.mem |->
                      IF \E p \in shared : f.cellOf[p] = c THEN <<f.mem[c][1], in[1]>> ELSE s.mem[c]]
           load   == [s EXCEPT !.env = env(s.mem[f.cellOf[i.loc]])]
           store  == [s EXCEPT !.mem = mem(x[1])]
           input  == [s EXCEPT !.env = env(Input(in, s.inputs)), !.inputs = s.inputs + 1]
           output == [s EXCEPT !.seen = seen(shown)]
           call   == [s EXCEPT !.seen = seen(globals_), !.mem = after]
           compute == IF i.op = "sdiv" /\ MayTrap(x[1], x[2]) THEN [s EXCEPT !.ub = TRUE]
                      ELSE IF \E k \in 1..Len(x) : x[k] = Undef THEN [s EXCEPT !.env = env(Undef)]
                      ELSE [s EXCEPT !.env = env(Result(i.op, x))]
<1>0. t = CASE i.op = "load"   -> load
            [] i.op = "store"  -> store
            [] i.op = "input"  -> input
            [] i.op = "output" -> output
            [] i.op = "call"   -> call
            [] i.op \in IntOp \cup FloatOp \cup CmpOp \cup CastOp \cup {"zext"} -> compute
            [] OTHER -> s
  BY DEF Step, Reads, IsState
<1> SUFFICES Parts(t)
  BY DEF t, x, Stepped
<1>a. shown = Shows(f, i, s) \/ i.op # "output"
  BY DEF Shows
<1>b. globals_ = Shows(f, i, s) \/ i.op # "call"
  BY DEF Shows
<1>d. after = Called(f, in, s)
  BY DEF Called, GlobalCells
<1> HIDE DEF t, x, Parts, Of, shown, shared, globals_, after
<1>1. CASE i.op = "load"
  <2>1. t = load
    <3> HIDE DEF load, store, input, output, call, compute
    <3> QED BY <1>0, <1>1 DEF IntOp, FloatOp, CmpOp, CastOp
  <2>2. TrapsOn(i, x) = FALSE /\ Gives(i.op)
    BY <1>1 DEF TrapsOn, Gives, Computes, IntOp, FloatOp, CmpOp, CastOp
  <2>3. load = Of(FALSE, s.mem, env(s.mem[f.cellOf[i.loc]]), s.seen, s.inputs)
    BY <1>c, <1>s
  <2>4. env(s.mem[f.cellOf[i.loc]]) = env(Given(f, in, i, s))
    BY <1>1 DEF Given
  <2>5. Parts(Of(FALSE, s.mem, env(s.mem[f.cellOf[i.loc]]), s.seen, s.inputs))
    BY <1>1, <1>p, <1>s, <2>2, <2>4
  <2> QED BY <2>1, <2>3, <2>5
<1>2. CASE i.op = "store"
  <2>1. t = store
    <3> HIDE DEF load, store, input, output, call, compute
    <3> QED BY <1>0, <1>2 DEF IntOp, FloatOp, CmpOp, CastOp
  <2>2. TrapsOn(i, x) = FALSE /\ ~Gives(i.op)
    BY <1>2 DEF TrapsOn, Gives, Computes, IntOp, FloatOp, CmpOp, CastOp
  <2>3. store = Of(FALSE, mem(x[1]), s.env, s.seen, s.inputs)
    BY <1>c, <1>s
  <2>4. mem(x[1]) = mem(x[1])
    OBVIOUS
  <2>5. Parts(Of(FALSE, mem(x[1]), s.env, s.seen, s.inputs))
    BY <1>2, <1>p, <1>s, <2>2, <2>4
  <2> QED BY <2>1, <2>3, <2>5
<1>3. CASE i.op = "input"
  <2>1. t = input
    <3> HIDE DEF load, store, input, output, call, compute
    <3> QED BY <1>0, <1>3 DEF IntOp, FloatOp, CmpOp, CastOp
  <2>2. TrapsOn(i, x) = FALSE /\ Gives(i.op)
    BY <1>3 DEF TrapsOn, Gives, Computes, IntOp, FloatOp, CmpOp, CastOp
  <2> DEFINE z == env(Input(in, s.inputs))
             y == s.inputs + 1
  <2>6. input = [s EXCEPT !.env = z, !.inputs = y]
    OBVIOUS
  <2> HIDE DEF z, y
  <2>7. [s EXCEPT !.env = z, !.inputs = y] = Of(s.ub, s.mem, z, s.seen, y)
    BY <1>c
  <2>3. input = Of(FALSE, s.mem, env(Input(in, s.inputs)), s.seen, s.inputs + 1)
    BY <1>s, <2>6, <2>7 DEF z, y
  <2>4. env(Input(in, s.inputs)) = env(Given(f, in, i, s))
    BY <1>3 DEF Given
  <2>5. Parts(Of(FALSE, s.mem, env(Input(in, s.inputs)), s.seen, s.inputs + 1))
    BY <1>3, <1>p, <1>s, <2>2, <2>4
  <2> QED BY <2>1, <2>3, <2>5
<1>4. CASE i.op = "output"
  <2>1. t = output
    <3> HIDE DEF load, store, input, output, call, compute
    <3> QED BY <1>0, <1>4 DEF IntOp, FloatOp, CmpOp, CastOp
  <2>2. TrapsOn(i, x) = FALSE /\ ~Gives(i.op)
    BY <1>4 DEF TrapsOn, Gives, Computes, IntOp, FloatOp, CmpOp, CastOp
  <2>3. output = Of(FALSE, s.mem, s.env, seen(shown), s.inputs)
    BY <1>c, <1>s
  <2>4. seen(shown) = seen(Shows(f, i, s))
    BY <1>4, <1>a
  <2>5. Parts(Of(FALSE, s.mem, s.env, seen(shown), s.inputs))
    BY <1>4, <1>p, <1>s, <2>2, <2>4
  <2> QED BY <2>1, <2>3, <2>5
<1>5. CASE i.op = "call"
  <2>1. t = call
    <3> HIDE DEF load, store, input, output, call, compute
    <3> QED BY <1>0, <1>5 DEF IntOp, FloatOp, CmpOp, CastOp
  <2>2. TrapsOn(i, x) = FALSE /\ ~Gives(i.op)
    BY <1>5 DEF TrapsOn, Gives, Computes, IntOp, FloatOp, CmpOp, CastOp
  <2> DEFINE z == seen(globals_)
             y == after
  <2>6. call = [s EXCEPT !.seen = z, !.mem = y]
    OBVIOUS
  <2> HIDE DEF z, y
  <2>7. [s EXCEPT !.seen = z, !.mem = y] = Of(s.ub, y, s.env, z, s.inputs)
    BY <1>c
  <2>3. call = Of(FALSE, after, s.env, seen(globals_), s.inputs)
    BY <1>s, <2>6, <2>7 DEF z, y
  <2>4. seen(globals_) = seen(Shows(f, i, s)) /\ after = Called(f, in, s)
    BY <1>5, <1>b, <1>d
  <2>5. Parts(Of(FALSE, after, s.env, seen(globals_), s.inputs))
    BY <1>5, <1>p, <1>s, <2>2, <2>4
  <2> QED BY <2>1, <2>3, <2>5
<1>6. CASE Computes(i.op)
  <2>0. i.op \in IntOp \cup FloatOp \cup CmpOp \cup CastOp \cup {"zext"}
    BY <1>6 DEF Computes
  <2>1. t = compute
    <3> HIDE DEF load, store, input, output, call, compute
    <3> QED BY <1>0, <2>0 DEF IntOp, FloatOp, CmpOp, CastOp
  <2>2. i.op \notin {"load", "store", "input", "output", "call"} /\ Gives(i.op)
    BY <1>6, <2>0 DEF Gives, IntOp, FloatOp, CmpOp, CastOp
  <2>3. Given(f, in, i, s) = IF \E k \in 1..Len(x) : x[k] = Undef THEN Undef ELSE Result(i.op, x)
    BY <2>2 DEF Given, x
  <2>4. CASE TrapsOn(i, x)
    <3>1. compute = Of(TRUE, s.mem, s.env, s.seen, s.inputs)
      BY <1>c, <2>4 DEF TrapsOn
    <3>2. TrapsOn(i, x) = TRUE
      BY <1>9, <2>4
    <3>3. Parts(Of(TRUE, s.mem, s.env, s.seen, s.inputs))
      BY <1>p, <2>2, <3>2
    <3> QED BY <2>1, <3>1, <3>3
  <2>5. CASE ~TrapsOn(i, x)
    <3>1. compute = [s EXCEPT !.env = env(Given(f, in, i, s))]
      BY <2>3, <2>5 DEF TrapsOn
    <3>2. TrapsOn(i, x) = FALSE
      BY <1>9, <2>5
    <3>3. compute = Of(FALSE, s.mem, env(Given(f, in, i, s)), s.seen, s.inputs)
      BY <1>c, <1>s, <3>1
    <3>4. Parts(Of(FALSE, s.mem, env(Given(f, in, i, s)), s.seen, s.inputs))
      BY <1>p, <2>2, <3>2
    <3> QED BY <2>1, <3>3, <3>4
  <2> QED BY <2>4, <2>5
<1>7. CASE ~Computes(i.op) /\ i.op \notin {"load", "store", "input", "output", "call"}
  <2>1. t = s
    <3> HIDE DEF load, store, input, output, call, compute
    <3> QED BY <1>0, <1>7 DEF Computes
  <2>2. TrapsOn(i, x) = FALSE /\ ~Gives(i.op)
    BY <1>7 DEF TrapsOn, Gives, Computes, IntOp
  <2>3. Parts(Of(FALSE, s.mem, s.env, s.seen, s.inputs))
    BY <1>7, <1>p, <2>2
  <2> QED BY <1>s, <2>1, <2>3
<1> QED BY <1>1, <1>2, <1>3, <1>4, <1>5, <1>6, <1>7

LEMMA StartState ==
  ASSUME NEW f
  PROVE  IsState(f, Start(f)) /\ ~Start(f).ub
<1> DEFINE s == Start(f)
<1>1. /\ s = [ub |-> s.ub, mem |-> s.mem, env |-> s.env, seen |-> s.seen, inputs |-> s.inputs]
      /\ s.ub = FALSE /\ s.mem = f.mem /\ s.env = [v \in f.ids |-> Undef] /\ s.seen = <<>>
  BY DEF Start
<1>2. <<>> \in Seq({})
  OBVIOUS
<1> HIDE DEF s
<1>3. IsState(f, s) /\ ~s.ub
  BY <1>1, <1>2 DEF IsState
<1> QED BY <1>3 DEF s

\* A trap ends the run.
LEMMA StepTrapped ==
  ASSUME NEW f, NEW in, NEW i, NEW s, s.ub = TRUE
  PROVE  Step(f, in, i, s) = s
BY DEF Step

LEMMA StepState ==
  ASSUME NEW f, NEW in, NEW i, NEW s, IsState(f, s)
  PROVE  IsState(f, Step(f, in, i, s))
<1>1. CASE s.ub
  <2>1. s.ub = TRUE
    BY <1>1
  <2>2. Step(f, in, i, s) = s
    BY <2>1, StepTrapped
  <2> QED BY <2>2
<1>2. CASE ~s.ub
  <2> DEFINE t == Step(f, in, i, s)
  <2>1. /\ t.ub = TrapsOn(i, Reads(i, s))
        /\ t.seen = IF i.op \in {"output", "call"} THEN Append(s.seen, Shows(f, i, s)) ELSE s.seen
        /\ t.mem = IF i.op = "store" THEN [s.mem EXCEPT ![f.cellOf[i.loc]] = Reads(i, s)[1]]
                   ELSE IF i.op = "call" THEN Called(f, in, s) ELSE s.mem
        /\ t.env = IF Gives(i.op) /\ ~TrapsOn(i, Reads(i, s))
                   THEN [s.env EXCEPT ![i.id] = Given(f, in, i, s)] ELSE s.env
        /\ t = [ub |-> t.ub, mem |-> t.mem, env |-> t.env, seen |-> t.seen, inputs |-> t.inputs]
    <3>1. Stepped(f, in, i, s, t)
      BY <1>2, StepParts
    <3> HIDE DEF t
    <3> QED BY <3>1 DEF Stepped
  <2> HIDE DEF t
  <2>2. t.ub \in BOOLEAN
    BY <2>1 DEF TrapsOn
  <2>3. DOMAIN t.env = f.ids
    BY <2>1 DEF IsState
  <2>4. DOMAIN t.mem = DOMAIN f.mem
    BY <2>1 DEF IsState, Called
  <2>5. \E U : t.seen \in Seq(U)
    <3>1. PICK T : s.seen \in Seq(T)
      BY DEF IsState
    <3>2. \E U : Append(s.seen, Shows(f, i, s)) \in Seq(U)
      BY <3>1, SeqGrows
    <3>3. t.seen = s.seen \/ t.seen = Append(s.seen, Shows(f, i, s))
      BY <2>1
    <3> QED BY <3>1, <3>2, <3>3
  <2>6. IsState(f, t)
    BY <2>1, <2>2, <2>3, <2>4, <2>5 DEF IsState
  <2> QED BY <2>6 DEF t
<1> QED BY <1>1, <1>2

\* The value a variable has at the head of a block.
Carried(c, s, prev, b, v) ==
  LET phi   == {k \in 1..Len(c[b]) : c[b][k].op = "phi" /\ c[b][k].id = v}
      at_(k) == {j \in 1..Len(c[b][k].from) : c[b][k].from[j] = prev}
      k      == CHOOSE k \in phi : TRUE
  IN  IF phi = {} THEN s.env[v]
      ELSE IF at_(k) = {} THEN Undef
      ELSE Read(s, c[b][k].args[CHOOSE j \in at_(k) : TRUE])

Arrived(f, c, s, prev, b, t) ==
  /\ t.ub = s.ub /\ t.mem = s.mem /\ t.seen = s.seen /\ t.inputs = s.inputs
  /\ \A v \in f.ids : t.env[v] = Carried(c, s, prev, b, v)

LEMMA ArriveParts ==
  ASSUME NEW f, NEW c, NEW s, IsState(f, s), NEW prev, NEW b
  PROVE  /\ IsState(f, Arrive(c, s, prev, b))
         /\ Arrived(f, c, s, prev, b, Arrive(c, s, prev, b))
<1> DEFINE t == Arrive(c, s, prev, b)
           env == [v \in DOMAIN s.env |-> Carried(c, s, prev, b, v)]
<1>1. t = [s EXCEPT !.env = env]
  BY DEF Arrive, Carried
<1> HIDE DEF t
<1>2. DOMAIN env = f.ids /\ \A v \in f.ids : env[v] = Carried(c, s, prev, b, v)
  BY DEF IsState
<1> HIDE DEF env
<1>3. [s EXCEPT !.env = env] = [ub |-> s.ub, mem |-> s.mem, env |-> env, seen |-> s.seen, inputs |-> s.inputs]
  BY Changed DEF IsState
<1>4. /\ t.ub = s.ub /\ t.mem = s.mem /\ t.seen = s.seen /\ t.inputs = s.inputs /\ t.env = env
      /\ t = [ub |-> t.ub, mem |-> t.mem, env |-> t.env, seen |-> t.seen, inputs |-> t.inputs]
  BY <1>1, <1>3
<1>5. IsState(f, t)
  BY <1>2, <1>4 DEF IsState
<1>6. Arrived(f, c, s, prev, b, t)
  BY <1>2, <1>4 DEF Arrived
<1> QED BY <1>5, <1>6 DEF t

\* Blocks of instructions.
IsCode(c) == \A b \in Block : Len(c[b]) \in Nat

LEMMA RunState ==
  ASSUME NEW f, NEW c, IsCode(c), NEW in
  PROVE  \A path \in Routes : \A k \in Nat : IsState(f, RunTo(f, c, in, path, k))
<1> DEFINE At(path, k) == RunTo(f, c, in, path, k)
           Good == {path \in Routes : \A k \in Nat : IsState(f, At(path, k))}
<1>1. ASSUME NEW path \in Routes, IsState(f, At(path, 0)) PROVE path \in Good
  <2> DEFINE Some == {k \in Nat : IsState(f, At(path, k))}
  <2>1. 0 \in Some
    BY <1>1
  <2>2. ASSUME NEW k \in Nat, k \in Some PROVE k + 1 \in Some
    <3>1. At(path, k + 1) = Step(f, in, c[Last(path)][k + 1], At(path, k))
      BY RunsAre
    <3> HIDE DEF At
    <3>2. IsState(f, At(path, k))
      BY <2>2
    <3>3. IsState(f, At(path, k + 1))
      BY <3>1, <3>2, StepState
    <3> QED BY <3>3
  <2> HIDE DEF Some
  <2>3. Nat \subseteq Some
    BY <2>1, <2>2, NatSet
  <2> QED BY <2>3 DEF Some
<1>2. ASSUME NEW b \in Block PROVE <<b>> \in Good
  <2>1. <<b>> \in Routes
    BY DEF Routes
  <2>2. At(<<b>>, 0) = Start(f)
    BY RunsAre
  <2> DEFINE p == <<b>>
  <2> HIDE DEF At, Good, p
  <2>3. IsState(f, At(p, 0))
    BY <2>2, StartState DEF p
  <2>4. p \in Good
    BY <1>1, <2>1, <2>3 DEF p
  <2> QED BY <2>4 DEF p
<1>3. ASSUME NEW path \in Routes, NEW b \in Block, path \in Good PROVE Append(path, b) \in Good
  <2> DEFINE p == Append(path, b)
  <2>1. p \in Routes
    BY RouteGrows
  <2>2. At(p, 0) = Arrive(c, At(path, Len(c[Last(path)])), Last(path), b)
    BY RunsAre
  <2>3. Len(c[Last(path)]) \in Nat
    BY RouteEnds DEF IsCode
  <2>4. IsState(f, At(path, Len(c[Last(path)])))
    BY <1>3, <2>3
  <2> HIDE DEF At, Good, p
  <2>5. IsState(f, At(p, 0))
    BY <2>2, <2>4, ArriveParts
  <2>6. p \in Good
    BY <1>1, <2>1, <2>5
  <2> QED BY <2>6 DEF p
<1> HIDE DEF Good
<1>4. Routes \subseteq Good
  BY <1>2, <1>3, RouteInduction
<1> QED BY <1>4 DEF Good

-----------------------------------------------------------------------------
(***************************************************************************)
(* A value is known to be a constant if it is, wherever it is computed, on *)
(* every run.                                                              *)
(***************************************************************************)
RunOf(f, in, path, k) == RunTo(f, f.code, in, path, k)
Known(f, v, c) ==
  \A in \in Inputs, path \in Routes : \A k \in 0..Len(f.code[Last(path)]) :
    RunOf(f, in, path, k).ub \/ Agrees(c, RunOf(f, in, path, k).env[v])

LEMMA FunctionFacts ==
  ASSUME NEW f \in Functions
  PROVE  /\ WellFormed(f) /\ Pointers(f) /\ IsCode(f.code) /\ DOMAIN f.code = Block
         /\ f.blocks \in Seq(Block) /\ Len(f.blocks) >= 1 /\ f.succ \in [Block -> SUBSET Block]
         /\ \A b \in Block : f.code[b] \in Seq(InstrsOf(f.code))
         /\ \A b \in Block : \A k \in 1..Len(f.code[b]) :
              f.code[b][k] \in InstrsOf(f.code) /\ Typed(f, f.code[b][k])
<1>1. WellFormed(f)
  BY FunctionsAssumption
<1>2. /\ Pointers(f) /\ f.blocks \in Seq(Block) \ {<<>>} /\ f.succ \in [Block -> SUBSET Block]
      /\ f.code \in [Block -> Seq(InstrsOf(f.code))] /\ \A i \in InstrsOf(f.code) : Typed(f, i)
  BY <1>1 DEF WellFormed
<1>3. Len(f.blocks) >= 1
  <2>1. f.blocks \in Seq(Block) /\ f.blocks # <<>>
    BY <1>2
  <2>2. Len(f.blocks) \in Nat /\ Len(f.blocks) # 0
    BY <2>1, EmptySeq
  <2> QED BY <2>2
<1> DEFINE I == InstrsOf(f.code)
<1> HIDE DEF I
<1>5. f.code \in [Block -> Seq(I)] /\ \A i \in I : Typed(f, i)
  BY <1>2 DEF I
<1>4. ASSUME NEW b \in Block
      PROVE  f.code[b] \in Seq(I) /\ \A k \in 1..Len(f.code[b]) : f.code[b][k] \in I /\ Typed(f, f.code[b][k])
  BY <1>5
<1>6. DOMAIN f.code = Block /\ IsCode(f.code)
  BY <1>4, <1>5 DEF IsCode
<1> QED BY <1>1, <1>2, <1>3, <1>4, <1>6 DEF I

LEMMA OneDefinition ==
  ASSUME NEW f \in Functions, NEW b \in Block, NEW k \in 1..Len(f.code[b]),
         NEW d \in Block, NEW j \in 1..Len(f.code[d]),
         Defines(f.code[b][k]), f.code[b][k].id = f.code[d][j].id
  PROVE  b = d /\ k = j
BY FunctionsAssumption DEF WellFormed

LEMMA FoldedDefines ==
  ASSUME NEW i, Gives(i.op)
  PROVE  Defines(i) /\ i.op # "phi"
BY DEF Gives, Computes, Defines, IntOp, FloatOp, CmpOp, CastOp

\* An instruction that gives the constant, or traps, wherever it is reached
\* makes its value known.
LEMMA KnownFrom ==
  ASSUME NEW f \in Functions, NEW b \in Block, NEW k \in 1..Len(f.code[b]), NEW c,
         Gives(f.code[b][k].op),
         \A in \in Inputs, path \in Routes : Last(path) = b =>
           LET i == f.code[b][k]  s == RunOf(f, in, path, k - 1)
           IN  s.ub \/ TrapsOn(i, Reads(i, s)) \/ Agrees(c, Given(f, in, i, s))
  PROVE  Known(f, f.code[b][k].id, c)
<1> DEFINE i == f.code[b][k]
           v == i.id
<1>1. v \in f.ids /\ Defines(i) /\ i.op # "phi"
  <2>1. Typed(f, i)
    BY FunctionFacts
  <2>2. Defines(i) /\ i.op # "phi"
    <3> HIDE DEF i
    <3> QED BY FoldedDefines DEF i
  <2> QED BY <2>1, <2>2 DEF Typed
<1>2. ASSUME NEW d \in Block, NEW j \in 1..Len(f.code[d]), f.code[d][j].id = v
      PROVE  b = d /\ k = j
  <2>1. Defines(f.code[b][k]) /\ f.code[b][k].id = f.code[d][j].id
    BY <1>1, <1>2
  <2> HIDE DEF i, v
  <2> QED BY <2>1, OneDefinition
<1> HIDE DEF i, v
<1> SUFFICES ASSUME NEW in \in Inputs
             PROVE  \A path \in Routes : \A n \in 0..Len(f.code[Last(path)]) :
                      RunOf(f, in, path, n).ub \/ Agrees(c, RunOf(f, in, path, n).env[v])
  BY DEF Known, v, i
<1> DEFINE At(path, n) == RunOf(f, in, path, n)
           Fits(path, n) == At(path, n).ub \/ Agrees(c, At(path, n).env[v])
           Good == {path \in Routes : \A n \in 0..Len(f.code[Last(path)]) : Fits(path, n)}
<1>3. ASSUME NEW path \in Routes, NEW n \in Nat PROVE IsState(f, At(path, n))
  BY RunState, FunctionFacts DEF RunOf
<1>4. ASSUME NEW path \in Routes, NEW n \in Nat, n < Len(f.code[Last(path)]), Fits(path, n)
      PROVE  Fits(path, n + 1)
  <2> DEFINE j == f.code[Last(path)][n + 1]
             s == At(path, n)
             t == At(path, n + 1)
  <2>1. t = Step(f, in, j, s)
    BY RunsAre DEF RunOf
  <2>2. IsState(f, s)
    BY <1>3
  <2>3. Last(path) \in Block /\ n + 1 \in 1..Len(f.code[Last(path)])
    BY <1>4, RouteEnds, FunctionFacts DEF IsCode
  <2>4. s.ub \/ Agrees(c, s.env[v])
    BY <1>4
  <2>10. Last(path) = b /\ n + 1 = k => j = i /\ (s.ub \/ TrapsOn(i, Reads(i, s)) \/ Agrees(c, Given(f, in, i, s)))
    <3>1. n + 1 = k => n = k - 1
      BY <2>3
    <3> QED BY <3>1 DEF i
  <2>11. j.id = v /\ Gives(j.op) => Last(path) = b /\ n + 1 = k
    BY <1>2, <2>3
  <2> HIDE DEF s, t, j, At
  <2>5. CASE s.ub
    <3>1. s.ub = TRUE
      BY <2>2, <2>5 DEF IsState
    <3>2. t = s
      BY <2>1, <3>1, StepTrapped
    <3> QED BY <2>5, <3>2 DEF t
  <2>6. CASE ~s.ub
    <3>1. Stepped(f, in, j, s, t)
      BY <2>1, <2>2, <2>6, StepParts
    <3>2. /\ t.ub = TrapsOn(j, Reads(j, s))
          /\ t.env = IF Gives(j.op) /\ ~TrapsOn(j, Reads(j, s))
                     THEN [s.env EXCEPT ![j.id] = Given(f, in, j, s)] ELSE s.env
      BY <3>1 DEF Stepped
    <3>3. DOMAIN s.env = f.ids
      BY <2>2 DEF IsState
    <3>4. CASE j.id = v /\ Gives(j.op)
      <4>1. j = i /\ (TrapsOn(i, Reads(i, s)) \/ Agrees(c, Given(f, in, i, s)))
        BY <2>6, <2>10, <2>11, <3>4
      <4>2. CASE TrapsOn(j, Reads(j, s))
        BY <3>2, <4>2 DEF t
      <4>3. CASE ~TrapsOn(j, Reads(j, s))
        <5>1. t.env = [s.env EXCEPT ![v] = Given(f, in, i, s)]
          BY <3>2, <3>4, <4>1, <4>3
        <5>2. t.env[v] = Given(f, in, i, s)
          BY <1>1, <3>3, <5>1
        <5> QED BY <4>1, <4>3, <5>2 DEF t
      <4> QED BY <4>2, <4>3
    <3>5. CASE ~(j.id = v /\ Gives(j.op))
      <4>1. t.env[v] = s.env[v]
        BY <1>1, <3>2, <3>3, <3>5
      <4> QED BY <2>4, <2>6, <4>1 DEF t
    <3> QED BY <3>4, <3>5
  <2> QED BY <2>5, <2>6
<1>5. ASSUME NEW path \in Routes, Fits(path, 0) PROVE path \in Good
  <2> DEFINE Some == {n \in Nat : n <= Len(f.code[Last(path)]) => Fits(path, n)}
  <2>1. 0 \in Some
    BY <1>5
  <2>2. ASSUME NEW n \in Nat, n \in Some PROVE n + 1 \in Some
    <3>1. Len(f.code[Last(path)]) \in Nat
      BY RouteEnds, FunctionFacts DEF IsCode
    <3> HIDE DEF Fits
    <3> QED BY <1>4, <2>2, <3>1
  <2> HIDE DEF Some, Fits
  <2>3. Nat \subseteq Some
    BY <2>1, <2>2, NatSet
  <2> QED BY <2>3 DEF Some
<1>6. ASSUME NEW d \in Block PROVE <<d>> \in Good
  <2>1. <<d>> \in Routes
    BY DEF Routes
  <2>2. At(<<d>>, 0) = Start(f)
    BY RunsAre DEF RunOf
  <2>3. Start(f).env[v] = Undef
    BY <1>1 DEF Start
  <2>4. Fits(<<d>>, 0)
    BY <2>2, <2>3 DEF Agrees
  <2> HIDE DEF Fits, Good
  <2> DEFINE p == <<d>>
  <2> HIDE DEF p
  <2>5. p \in Good
    BY <1>5, <2>1, <2>4 DEF p
  <2> QED BY <2>5 DEF p
<1>7. ASSUME NEW path \in Routes, NEW d \in Block, path \in Good PROVE Append(path, d) \in Good
  <2> DEFINE p == Append(path, d)
             n == Len(f.code[Last(path)])
             s == At(path, n)
  <2>1. p \in Routes
    BY RouteGrows
  <2>2. At(p, 0) = Arrive(f.code, s, Last(path), d)
    BY RunsAre DEF RunOf
  <2>3. n \in Nat
    BY RouteEnds, FunctionFacts DEF IsCode
  <2>4. Fits(path, n)
    BY <1>7, <2>3
  <2>5. IsState(f, s)
    BY <1>3, <2>3
  <2>6. Carried(f.code, s, Last(path), d, v) = s.env[v]
    <3>1. {m \in 1..Len(f.code[d]) : f.code[d][m].op = "phi" /\ f.code[d][m].id = v} = {}
      <4>1. ASSUME NEW m \in 1..Len(f.code[d]), f.code[d][m].op = "phi", f.code[d][m].id = v PROVE FALSE
        <5>2. b = d /\ k = m
          BY <1>2, <4>1
        <5> QED BY <1>1, <4>1, <5>2 DEF i
      <4> QED BY <4>1
    <3> HIDE DEF s
    <3> QED BY <3>1 DEF Carried
  <2> HIDE DEF p, n, s, At
  <2>7. At(p, 0).ub = s.ub /\ At(p, 0).env[v] = s.env[v]
    <3>1. Arrived(f, f.code, s, Last(path), d, At(p, 0))
      BY <2>2, <2>5, ArriveParts
    <3> QED BY <1>1, <2>6, <3>1 DEF Arrived
  <2>8. s.ub \/ Agrees(c, s.env[v])
    BY <2>4 DEF s
  <2>9. Fits(p, 0)
    BY <2>7, <2>8
  <2> HIDE DEF Fits, Good
  <2>10. p \in Good
    BY <1>5, <2>1, <2>9
  <2> QED BY <2>10 DEF p
<1> HIDE DEF Good
<1>8. Routes \subseteq Good
  BY <1>6, <1>7, RouteInduction
<1> QED BY <1>8 DEF Good

-----------------------------------------------------------------------------
(***************************************************************************)
(* The code while the pass runs, next to the code it was given: arguments  *)
(* replaced by constants that are known, and instructions deleted whose    *)
(* values nothing uses any more.                                           *)
(***************************************************************************)
Stands(f, y, x) ==
  y = x \/ (x \in f.ids /\ IsLiteral(y) /\ IsFloat(f, y) = IsFloat(f, x) /\ Known(f, x, y))
Version(f, j, i) ==
  /\ DOMAIN j = DOMAIN i /\ j.id = i.id /\ j.op = i.op /\ j.loc = i.loc /\ j.from = i.from
  /\ Len(j.args) = Len(i.args)
  /\ \A m \in 1..Len(i.args) : Stands(f, j.args[m], i.args[m])
SameBlock(f, c, b) ==
  Len(c[b]) = Len(f.code[b]) /\ \A k \in 1..Len(f.code[b]) : Version(f, c[b][k], f.code[b][k])

Uses(c, v) ==
  \E b \in Block : \E k \in 1..Len(c[b]) : \E m \in 1..Len(c[b][k].args) : c[b][k].args[m] = v
Folded(op) == Computes(op) \/ op = "load"
Gone(c, i) == Folded(i.op) /\ ~Uses(c, i.id)
Thinned(f, c, b, m) ==
  /\ Len(c[b]) \in Nat
  /\ m \in [1..Len(c[b]) -> 1..Len(f.code[b])]
  /\ \A k \in 1..Len(c[b]) : Version(f, c[b][k], f.code[b][m[k]])
  /\ \A k, l \in 1..Len(c[b]) : k < l => m[k] < m[l]
  /\ \A n \in 1..Len(f.code[b]) : (\A k \in 1..Len(c[b]) : m[k] # n) => Gone(c, f.code[b][n])

LEMMA TypedFacts ==
  ASSUME NEW f \in Functions, NEW b \in Block, NEW k \in 1..Len(f.code[b])
  PROVE  LET i == f.code[b][k]
         IN  /\ Typed(f, i) /\ i \in InstrsOf(f.code) /\ "args" \in DOMAIN i /\ Len(i.args) \in Nat
             /\ Folded(i.op) => i.id \in f.ids /\ Defines(i) /\ Gives(i.op)
<1> DEFINE i == f.code[b][k]
<1>1. Typed(f, i) /\ i \in InstrsOf(f.code)
  BY FunctionFacts
<1> HIDE DEF i
<1>2. DOMAIN i = {"id", "op", "loc", "args", "from"} /\ Listed(i.args) /\ (Defines(i) => i.id \in f.ids)
  BY <1>1 DEF Typed
<1>3. Len(i.args) \in Nat
  BY <1>2 DEF Listed
<1>4. Folded(i.op) => Gives(i.op)
  BY DEF Folded, Gives
<1>5. Folded(i.op) => Defines(i)
  BY <1>4, FoldedDefines
<1> QED BY <1>1, <1>2, <1>3, <1>4, <1>5 DEF i

LEMMA IdsAreVariables ==
  ASSUME NEW f \in Functions, NEW v \in f.ids
  PROVE  v[1] = "v" /\ ~IsLiteral(v)
BY FunctionFacts DEF Pointers, IsLiteral

\* replace_all_use_with, for one instruction and for all.
Replaced(j, v, x) == [j EXCEPT !.args = [m \in 1..Len(@) |-> IF @[m] = v THEN x ELSE @[m]]]
LEMMA ReplacedVersion ==
  ASSUME NEW f \in Functions, NEW b \in Block, NEW k \in 1..Len(f.code[b]), NEW j,
         Version(f, j, f.code[b][k]),
         NEW v \in f.ids, NEW x, IsLiteral(x), IsFloat(f, x) = IsFloat(f, v), Known(f, v, x)
  PROVE  /\ Version(f, Replaced(j, v, x), f.code[b][k])
         /\ \A m \in 1..Len(Replaced(j, v, x).args) :
              /\ m \in 1..Len(j.args)
              /\ Replaced(j, v, x).args[m] = IF j.args[m] = v THEN x ELSE j.args[m]
<1> DEFINE i == f.code[b][k]
           r == Replaced(j, v, x)
           new == [m \in 1..Len(j.args) |-> IF j.args[m] = v THEN x ELSE j.args[m]]
<1>1. Typed(f, i) /\ "args" \in DOMAIN i /\ Len(i.args) \in Nat
  BY TypedFacts
<1>2. Version(f, j, i)
  OBVIOUS
<1>3. Len(j.args) \in Nat /\ Len(j.args) = Len(i.args) /\ "args" \in DOMAIN j
  BY <1>1, <1>2 DEF Version
<1>4. Len(new) = Len(j.args) /\ \A m \in 1..Len(j.args) : new[m] = IF j.args[m] = v THEN x ELSE j.args[m]
  BY <1>3
<1>5. r = [j EXCEPT !.args = new]
  BY DEF Replaced
<1>6. DOMAIN i = {"id", "op", "loc", "args", "from"}
  BY <1>1 DEF Typed
<1> HIDE DEF new, r, i
<1>7. DOMAIN j = {"id", "op", "loc", "args", "from"}
  BY <1>2, <1>6 DEF Version
<1>8. r.id = j.id /\ r.op = j.op /\ r.loc = j.loc /\ r.from = j.from /\ r.args = new /\ DOMAIN r = DOMAIN j
  BY <1>5, <1>7
<1>9. ASSUME NEW m \in 1..Len(i.args) PROVE Stands(f, r.args[m], i.args[m])
  <2>1. r.args[m] = IF j.args[m] = v THEN x ELSE j.args[m]
    BY <1>3, <1>4, <1>8
  <2>2. Stands(f, j.args[m], i.args[m])
    BY <1>2 DEF Version
  <2>3. CASE j.args[m] = v
    <3>1. i.args[m] = v
      BY <2>2, <2>3, IdsAreVariables DEF Stands
    <3> QED BY <2>1, <2>3, <3>1 DEF Stands
  <2>4. CASE j.args[m] # v
    BY <2>1, <2>2, <2>4
  <2> QED BY <2>3, <2>4
<1>10. Version(f, r, i)
  BY <1>2, <1>3, <1>4, <1>8, <1>9 DEF Version
<1>11. ASSUME NEW m \in 1..Len(r.args)
       PROVE  m \in 1..Len(j.args) /\ r.args[m] = IF j.args[m] = v THEN x ELSE j.args[m]
  BY <1>3, <1>4, <1>8
<1> QED BY <1>10, <1>11 DEF r, i

Substituted(f, c, d, v) ==
  /\ ~Uses(d, v) /\ \A w \in f.ids : Uses(d, w) => Uses(c, w)
  /\ \A b \in Block : SameBlock(f, c, b) => SameBlock(f, d, b)
  /\ \A b \in Block : \A m : Thinned(f, c, b, m) => Thinned(f, d, b, m)

LEMMA SubstituteKeeps ==
  ASSUME NEW f \in Functions, NEW c, \A b \in Block : \E m : Thinned(f, c, b, m),
         NEW v \in f.ids, NEW x, IsLiteral(x), IsFloat(f, x) = IsFloat(f, v), Known(f, v, x),
         NEW d, d = [b \in Block |-> [k \in 1..Len(c[b]) |-> Replaced(c[b][k], v, x)]]
  PROVE  Substituted(f, c, d, v)
<1>1. ASSUME NEW b \in Block
      PROVE  /\ Len(c[b]) \in Nat /\ Len(d[b]) = Len(c[b])
             /\ \A k \in 1..Len(c[b]) : d[b][k] = Replaced(c[b][k], v, x)
  <2>1. Len(c[b]) \in Nat
    BY DEF Thinned
  <2>2. d[b] = [k \in 1..Len(c[b]) |-> Replaced(c[b][k], v, x)]
    OBVIOUS
  <2> QED BY <2>1, <2>2
<1>2. ASSUME NEW b \in Block, NEW k \in 1..Len(c[b]), NEW m \in 1..Len(d[b][k].args)
      PROVE  /\ m \in 1..Len(c[b][k].args)
             /\ d[b][k].args[m] = IF c[b][k].args[m] = v THEN x ELSE c[b][k].args[m]
  <2>1. PICK g : Thinned(f, c, b, g)
    OBVIOUS
  <2>2. PICK n \in 1..Len(f.code[b]) : Version(f, c[b][k], f.code[b][n])
    BY <2>1 DEF Thinned
  <2>3. d[b][k] = Replaced(c[b][k], v, x)
    BY <1>1
  <2> DEFINE j == c[b][k]
  <2>5. Version(f, j, f.code[b][n])
    BY <2>2
  <2> HIDE DEF j
  <2>4. \A l \in 1..Len(Replaced(j, v, x).args) :
              /\ l \in 1..Len(j.args)
              /\ Replaced(j, v, x).args[l] = IF j.args[l] = v THEN x ELSE j.args[l]
    BY <2>5, ReplacedVersion
  <2> QED BY <2>3, <2>4 DEF j
<1>3. ~Uses(d, v)
  <2>1. x # v
    BY IdsAreVariables
  <2> SUFFICES ASSUME NEW b \in Block, NEW k \in 1..Len(d[b]), NEW m \in 1..Len(d[b][k].args),
                      d[b][k].args[m] = v
               PROVE  FALSE
    BY DEF Uses
  <2>2. k \in 1..Len(c[b])
    BY <1>1
  <2> QED BY <1>2, <2>1, <2>2
<1>4. ASSUME NEW w \in f.ids, Uses(d, w) PROVE Uses(c, w)
  <2>1. x # w
    BY IdsAreVariables
  <2>2. PICK b \in Block : \E k \in 1..Len(d[b]) : \E m \in 1..Len(d[b][k].args) : d[b][k].args[m] = w
    BY <1>4 DEF Uses
  <2>3. PICK k \in 1..Len(d[b]) : \E m \in 1..Len(d[b][k].args) : d[b][k].args[m] = w
    BY <2>2
  <2>4. PICK m \in 1..Len(d[b][k].args) : d[b][k].args[m] = w
    BY <2>3
  <2>5. k \in 1..Len(c[b])
    BY <1>1
  <2>6. m \in 1..Len(c[b][k].args) /\ (c[b][k].args[m] = w \/ w = x)
    BY <1>2, <2>4, <2>5
  <2> QED BY <2>1, <2>5, <2>6 DEF Uses
<1>5. ASSUME NEW b \in Block, NEW k \in 1..Len(c[b]), NEW n \in 1..Len(f.code[b]),
             Version(f, c[b][k], f.code[b][n])
      PROVE  Version(f, d[b][k], f.code[b][n])
  BY <1>1, <1>5, ReplacedVersion
<1>6. ASSUME NEW b \in Block, SameBlock(f, c, b) PROVE SameBlock(f, d, b)
  BY <1>1, <1>5, <1>6 DEF SameBlock
<1>7. ASSUME NEW b \in Block, NEW m, Thinned(f, c, b, m) PROVE Thinned(f, d, b, m)
  <2>1. /\ Len(c[b]) \in Nat
        /\ m \in [1..Len(c[b]) -> 1..Len(f.code[b])]
        /\ \A k \in 1..Len(c[b]) : Version(f, c[b][k], f.code[b][m[k]])
        /\ \A k, l \in 1..Len(c[b]) : k < l => m[k] < m[l]
        /\ \A n \in 1..Len(f.code[b]) : (\A k \in 1..Len(c[b]) : m[k] # n) => Gone(c, f.code[b][n])
    BY <1>7 DEF Thinned
  <2>2. Len(d[b]) = Len(c[b])
    BY <1>1
  <2>3. ASSUME NEW k \in 1..Len(c[b]) PROVE Version(f, d[b][k], f.code[b][m[k]])
    <3>1. m[k] \in 1..Len(f.code[b]) /\ Version(f, c[b][k], f.code[b][m[k]])
      BY <2>1
    <3> QED BY <1>5, <3>1
  <2>4. ASSUME NEW n \in 1..Len(f.code[b]), Gone(c, f.code[b][n]) PROVE Gone(d, f.code[b][n])
    <3>1. Folded(f.code[b][n].op) => f.code[b][n].id \in f.ids
      BY TypedFacts
    <3> QED BY <1>4, <2>4, <3>1 DEF Gone
  <2> QED BY <2>1, <2>2, <2>3, <2>4 DEF Thinned
<1> QED BY <1>3, <1>4, <1>6, <1>7 DEF Substituted

\* What is kept of a sequence, and from which places.
Selects(s, ids, t, n, m) ==
  /\ \E T : t \in Seq(T)
  /\ m \in [1..Len(t) -> 1..n]
  /\ \A k \in 1..Len(t) : t[k] = s[m[k]]
  /\ \A k, l \in 1..Len(t) : k < l => m[k] < m[l]
  /\ \A l \in 1..n : (\A k \in 1..Len(t) : m[k] # l) => s[l].id \in ids

LEMMA KeptSelects ==
  ASSUME NEW s, Len(s) \in Nat, NEW ids
  PROVE  \E m : Selects(s, ids, Kept(s, ids), Len(s), m)
<1> DEFINE K(n) == KeptOf(s, ids)[n]
           Some == {n \in Nat : \E m : Selects(s, ids, K(n), n, m)}
<1>1. 0 \in Some
  <2>1. K(0) = <<>>
    BY KeptAre DEF KeepsAllBut
  <2> DEFINE t == K(0)
  <2>2. t \in Seq({}) /\ Len(t) = 0
    BY <2>1
  <2> HIDE DEF t
  <2> DEFINE m == [k \in 1..0 |-> 0]
  <2>3. m \in [1..Len(t) -> 1..0]
    BY <2>2
  <2> HIDE DEF m
  <2>4. Selects(s, ids, t, 0, m)
    BY <2>2, <2>3 DEF Selects
  <2> QED BY <2>4 DEF t
<1>2. ASSUME NEW n \in Nat, n \in Some PROVE n + 1 \in Some
  <2> DEFINE t == K(n)
             u == K(n + 1)
             i == s[n + 1]
  <2>1. PICK m : Selects(s, ids, t, n, m)
    BY <1>2
  <2>2. u = IF i.id \in ids THEN t ELSE Append(t, i)
    <3> DEFINE h == KeptOf(s, ids)
    <3>1. KeepsAllBut(h, s, ids)
      BY KeptAre
    <3> HIDE DEF h
    <3>2. h[n + 1] = IF s[n + 1].id \in ids THEN h[n] ELSE Append(h[n], s[n + 1])
      BY <3>1 DEF KeepsAllBut
    <3> QED BY <3>2 DEF h
  <2> HIDE DEF t, u, i
  <2>3. PICK T : t \in Seq(T)
    BY <2>1 DEF Selects
  <2>4. Len(t) \in Nat
    BY <2>3
  <2>5. /\ m \in [1..Len(t) -> 1..n]
        /\ \A k \in 1..Len(t) : t[k] = s[m[k]]
        /\ \A k, l \in 1..Len(t) : k < l => m[k] < m[l]
        /\ \A l \in 1..n : (\A k \in 1..Len(t) : m[k] # l) => s[l].id \in ids
    BY <2>1 DEF Selects
  <2>6. CASE i.id \in ids
    <3>1. u = t /\ m \in [1..Len(t) -> 1..(n + 1)]
      BY <2>2, <2>5, <2>6
    <3>2. \A l \in 1..(n + 1) : (\A k \in 1..Len(t) : m[k] # l) => s[l].id \in ids
      BY <2>5, <2>6 DEF i
    <3>3. Selects(s, ids, u, n + 1, m)
      BY <2>3, <2>5, <3>1, <3>2 DEF Selects
    <3> QED BY <3>3 DEF u
  <2>7. CASE i.id \notin ids
    <3> DEFINE g == [k \in 1..(Len(t) + 1) |-> IF k = Len(t) + 1 THEN n + 1 ELSE m[k]]
    <3>1. u = Append(t, i)
      BY <2>2, <2>7
    <3>2. /\ \E U : Append(t, i) \in Seq(U)
          /\ Len(Append(t, i)) = Len(t) + 1 /\ Append(t, i)[Len(t) + 1] = i
          /\ \A k \in 1..Len(t) : Append(t, i)[k] = t[k]
      BY <2>3, SeqGrows
    <3>3. g \in [1..(Len(t) + 1) -> 1..(n + 1)] /\ g[Len(t) + 1] = n + 1 /\ \A k \in 1..Len(t) : g[k] = m[k]
      BY <2>4, <2>5
    <3> HIDE DEF g
    <3>4. (\E U : u \in Seq(U)) /\ Len(u) = Len(t) + 1 /\ u[Len(t) + 1] = i /\ \A k \in 1..Len(t) : u[k] = t[k]
      BY <3>1, <3>2
    <3>5. \A k \in 1..Len(u) : k \in 1..Len(t) \/ k = Len(t) + 1
      BY <2>4, <3>4
    <3>6. \A k \in 1..Len(u) : u[k] = s[g[k]]
      BY <2>5, <3>3, <3>4, <3>5 DEF i
    <3>7. ASSUME NEW k \in 1..Len(u), NEW l \in 1..Len(u), k < l PROVE g[k] < g[l]
      <4>1. k \in 1..Len(t) /\ g[k] = m[k] /\ m[k] \in 1..n
        <5>1. k \in 1..Len(t)
          BY <2>4, <3>4, <3>7
        <5> QED BY <2>5, <3>3, <5>1
      <4>2. l \in 1..Len(t) \/ l = Len(t) + 1
        BY <3>5
      <4> QED BY <2>5, <3>3, <3>7, <4>1, <4>2
    <3>8. ASSUME NEW l \in 1..(n + 1), \A k \in 1..Len(u) : g[k] # l PROVE s[l].id \in ids
      <4>1. Len(t) + 1 \in 1..Len(u) /\ \A k \in 1..Len(t) : k \in 1..Len(u)
        BY <2>4, <3>4
      <4>2. l # n + 1 /\ \A k \in 1..Len(t) : m[k] # l
        BY <3>3, <3>8, <4>1
      <4>3. l \in 1..n
        BY <4>2
      <4> QED BY <2>5, <4>2, <4>3
    <3>9. Selects(s, ids, u, n + 1, g)
      BY <3>3, <3>4, <3>6, <3>7, <3>8 DEF Selects
    <3> QED BY <3>9 DEF u
  <2> QED BY <2>6, <2>7
<1> HIDE DEF Some, K
<1>3. Nat \subseteq Some
  BY <1>1, <1>2, NatSet
<1>4. \E m : Selects(s, ids, K(Len(s)), Len(s), m)
  BY <1>3 DEF Some
<1>5. Kept(s, ids) = K(Len(s))
  BY KeptAre DEF K
<1> QED BY <1>4, <1>5

\* The end of a block: what waits to be deleted is folded and not used.
Ended(f, c, d, b) ==
  /\ \E m : Thinned(f, d, b, m)
  /\ \A a \in Block \ {b} : \A m : Thinned(f, c, a, m) => Thinned(f, d, a, m)
  /\ \A a \in Block \ {b} : SameBlock(f, c, a) => SameBlock(f, d, a)

LEMMA KeptThins ==
  ASSUME NEW f \in Functions, NEW c, DOMAIN c = Block, NEW b \in Block, SameBlock(f, c, b),
         NEW wait,
         \A v \in wait : /\ ~Uses(c, v)
                         /\ \E k \in 1..Len(f.code[b]) : f.code[b][k].id = v /\ Folded(f.code[b][k].op),
         NEW d, d = [c EXCEPT ![b] = Kept(c[b], wait)]
  PROVE  Ended(f, c, d, b)
<1>1. d[b] = Kept(c[b], wait) /\ \A a \in Block \ {b} : d[a] = c[a]
  OBVIOUS
<1>2. Len(c[b]) \in Nat /\ Len(c[b]) = Len(f.code[b])
  BY FunctionFacts DEF IsCode, SameBlock
<1>3. PICK m : Selects(c[b], wait, d[b], Len(c[b]), m)
  BY <1>1, <1>2, KeptSelects
<1>4. /\ Len(d[b]) \in Nat
      /\ m \in [1..Len(d[b]) -> 1..Len(c[b])]
      /\ \A k \in 1..Len(d[b]) : d[b][k] = c[b][m[k]]
      /\ \A k, l \in 1..Len(d[b]) : k < l => m[k] < m[l]
      /\ \A l \in 1..Len(c[b]) : (\A k \in 1..Len(d[b]) : m[k] # l) => c[b][l].id \in wait
  BY <1>3 DEF Selects
<1>5. ASSUME NEW v, Uses(d, v) PROVE Uses(c, v)
  <2>1. PICK a \in Block : \E k \in 1..Len(d[a]) : \E n \in 1..Len(d[a][k].args) : d[a][k].args[n] = v
    BY <1>5 DEF Uses
  <2>2. PICK k \in 1..Len(d[a]) : \E n \in 1..Len(d[a][k].args) : d[a][k].args[n] = v
    BY <2>1
  <2>3. \E l \in 1..Len(c[a]) : d[a][k] = c[a][l]
    BY <1>1, <1>4
  <2> QED BY <2>2, <2>3 DEF Uses
<1>6. ASSUME NEW k \in 1..Len(d[b]) PROVE Version(f, d[b][k], f.code[b][m[k]])
  <2>1. m[k] \in 1..Len(f.code[b]) /\ d[b][k] = c[b][m[k]]
    BY <1>2, <1>4
  <2> QED BY <2>1 DEF SameBlock
<1>7. ASSUME NEW l \in 1..Len(f.code[b]), \A k \in 1..Len(d[b]) : m[k] # l
      PROVE  Gone(d, f.code[b][l])
  <2>1. c[b][l].id \in wait
    BY <1>2, <1>4, <1>7
  <2>2. c[b][l].id = f.code[b][l].id
    BY DEF SameBlock, Version
  <2>3. /\ ~Uses(c, f.code[b][l].id)
        /\ \E k \in 1..Len(f.code[b]) : f.code[b][k].id = f.code[b][l].id /\ Folded(f.code[b][k].op)
    BY <2>1, <2>2
  <2>4. PICK k \in 1..Len(f.code[b]) : f.code[b][k].id = f.code[b][l].id /\ Folded(f.code[b][k].op)
    BY <2>3
  <2>5. Defines(f.code[b][k])
    BY <2>4, TypedFacts
  <2>6. k = l
    BY <2>4, <2>5, OneDefinition
  <2> QED BY <1>5, <2>3, <2>4, <2>6 DEF Gone
<1>8. Thinned(f, d, b, m)
  BY <1>2, <1>4, <1>6, <1>7 DEF Thinned
<1>9. ASSUME NEW a \in Block \ {b}, NEW g, Thinned(f, c, a, g) PROVE Thinned(f, d, a, g)
  <2>1. \A i : Gone(c, i) => Gone(d, i)
    BY <1>5 DEF Gone
  <2>2. d[a] = c[a]
    BY <1>1
  <2> QED BY <1>9, <2>1, <2>2 DEF Thinned
<1>10. \A a \in Block \ {b} : SameBlock(f, c, a) => SameBlock(f, d, a)
  BY <1>1 DEF SameBlock
<1> QED BY <1>8, <1>9, <1>10 DEF Ended

-----------------------------------------------------------------------------
(***************************************************************************)
(* The run of code whose blocks are such thinnings follows the run of the  *)
(* code before: what it has shown, the cells, and every value that is used *)
(* agree, until a division traps.                                          *)
(***************************************************************************)
Follows(f, c, n, o) ==
  \/ o.ub
  \/ /\ ~n.ub /\ n.inputs = o.inputs /\ Len(n.seen) = Len(o.seen)
     /\ \A k \in 1..Len(o.seen) : \A e \in DOMAIN o.seen[k] : Agrees(n.seen[k][e], o.seen[k][e])
     /\ \A e \in DOMAIN f.mem : Agrees(n.mem[e], o.mem[e])
     /\ \A v \in f.ids : Uses(c, v) => Agrees(n.env[v], o.env[v])

\* A constant that stands for a value agrees with it.
LEMMA ConstantAgrees ==
  ASSUME NEW f \in Functions, NEW in \in Inputs, NEW path \in Routes,
         NEW k \in 0..Len(f.code[Last(path)]), NEW y, NEW x, Stands(f, y, x), IsLiteral(y)
  PROVE  RunOf(f, in, path, k).ub \/ Agrees(y, Read(RunOf(f, in, path, k), x))
<1> DEFINE o == RunOf(f, in, path, k)
<1>1. CASE y = x
  <2>1. Read(o, x) = x
    <3> HIDE DEF o
    <3> QED BY <1>1 DEF Read, IsLiteral
  <2> QED BY <1>1, <2>1 DEF Agrees
<1>2. CASE x \in f.ids /\ Known(f, x, y)
  <2>1. o.ub \/ Agrees(y, o.env[x])
    BY <1>2 DEF Known
  <2>2. Read(o, x) = o.env[x]
    <3> HIDE DEF o
    <3> QED BY <1>2, IdsAreVariables DEF Read
  <2> HIDE DEF o
  <2> QED BY <2>1, <2>2 DEF o
<1> QED BY <1>1, <1>2 DEF Stands

Matched(i, y, x) ==
  /\ Len(i.args) \in Nat /\ Len(x) = Len(i.args) /\ Len(y) = Len(i.args)
  /\ x = [m \in 1..Len(i.args) |-> x[m]] /\ y = [m \in 1..Len(i.args) |-> y[m]]
  /\ \A m \in 1..Len(i.args) : Agrees(y[m], x[m])

LEMMA ReadsAgree ==
  ASSUME NEW f \in Functions, NEW c, NEW in \in Inputs, NEW path \in Routes,
         NEW k \in Nat, k < Len(f.code[Last(path)]), NEW j, Version(f, j, f.code[Last(path)][k + 1]),
         \A m \in 1..Len(j.args) : j.args[m] \in f.ids => Uses(c, j.args[m]),
         ~RunOf(f, in, path, k).ub, NEW n, Follows(f, c, n, RunOf(f, in, path, k))
  PROVE  Matched(f.code[Last(path)][k + 1], Reads(j, n),
                 Reads(f.code[Last(path)][k + 1], RunOf(f, in, path, k)))
<1> DEFINE i == f.code[Last(path)][k + 1]
           o == RunOf(f, in, path, k)
           x == Reads(i, o)
           y == Reads(j, n)
<1>1. Last(path) \in Block /\ k + 1 \in 1..Len(f.code[Last(path)]) /\ k \in 0..Len(f.code[Last(path)])
  BY RouteEnds, FunctionFacts DEF IsCode
<1>2. Typed(f, i) /\ Len(i.args) \in Nat
  BY <1>1, TypedFacts
<1>3. Len(j.args) = Len(i.args) /\ \A m \in 1..Len(i.args) : Stands(f, j.args[m], i.args[m])
  BY DEF Version
<1>4. \A v \in f.ids : Uses(c, v) => Agrees(n.env[v], o.env[v])
  BY DEF Follows
<1>5. ASSUME NEW l, NEW z, Stands(f, z, l), IsLiteral(z) PROVE Agrees(z, Read(o, l))
  BY <1>1, <1>5, ConstantAgrees
<1> HIDE DEF i, o
<1>6. /\ Len(x) = Len(i.args) /\ Len(y) = Len(i.args)
      /\ x = [m \in 1..Len(i.args) |-> x[m]] /\ y = [m \in 1..Len(i.args) |-> y[m]]
      /\ \A m \in 1..Len(i.args) : x[m] = Read(o, i.args[m]) /\ y[m] = Read(n, j.args[m])
  BY <1>2, <1>3 DEF Reads
<1> HIDE DEF x, y
<1>7. ASSUME NEW m \in 1..Len(i.args) PROVE Agrees(y[m], x[m])
  <2> DEFINE a == i.args[m]
             z == j.args[m]
  <2>1. Stands(f, z, a) /\ (z \in f.ids => Uses(c, z)) /\ (a \in f.ids \/ IsLiteral(a))
    BY <1>2, <1>3 DEF Typed
  <2>2. x[m] = Read(o, a) /\ y[m] = Read(n, z)
    BY <1>6
  <2> HIDE DEF a, z
  <2>3. CASE IsLiteral(z)
    <3>1. Read(n, z) = z
      BY <2>3 DEF Read, IsLiteral
    <3> QED BY <1>5, <2>1, <2>2, <2>3, <3>1
  <2>4. CASE ~IsLiteral(z)
    <3>1. z = a /\ a \in f.ids
      BY <2>1, <2>4 DEF Stands
    <3>2. z[1] = "v"
      BY <3>1, IdsAreVariables
    <3> QED BY <1>4, <2>1, <2>2, <3>1, <3>2 DEF Read
  <2> QED BY <2>3, <2>4
<1>8. Matched(i, y, x)
  BY <1>2, <1>6, <1>7 DEF Matched
<1> QED BY <1>8 DEF i, o, x, y

\* If the values before the pass cannot trap, those after it do not.
LEMMA TrapAgrees ==
  ASSUME NEW i, NEW j, j.op = i.op, i.op = "sdiv" => Len(i.args) = 2,
         NEW x, NEW y, Matched(i, y, x), TrapsOn(j, y)
  PROVE  TrapsOn(i, x)
<1>1. i.op = "sdiv" /\ MayTrap(y[1], y[2])
  BY DEF TrapsOn
<1>2. Agrees(y[1], x[1]) /\ Agrees(y[2], x[2])
  <2> DEFINE n == Len(i.args)
  <2>2. n = 2
    BY <1>1
  <2> HIDE DEF n
  <2>1. 1 \in 1..n /\ 2 \in 1..n
    BY <2>2
  <2> QED BY <2>1 DEF Matched, n
<1>3. MayTrap(x[1], x[2])
  BY <1>1, <1>2 DEF MayTrap, Agrees
<1> QED BY <1>1, <1>3 DEF TrapsOn

LEMMA GivenAgrees ==
  ASSUME NEW f, NEW in, NEW i, NEW j, j.op = i.op, j.loc = i.loc,
         NEW o, NEW n, Matched(i, Reads(j, n), Reads(i, o)), Gives(i.op),
         i.op = "load" => Agrees(n.mem[f.cellOf[i.loc]], o.mem[f.cellOf[i.loc]]),
         n.inputs = o.inputs
  PROVE  Agrees(Given(f, in, j, n), Given(f, in, i, o))
<1> DEFINE x == Reads(i, o)
           y == Reads(j, n)
<1>1. CASE i.op = "load"
  BY <1>1 DEF Given
<1>2. CASE i.op = "input"
  BY <1>2 DEF Given, Agrees
<1>3. CASE i.op \notin {"load", "input"}
  <2>1. Given(f, in, i, o) = IF \E k \in 1..Len(x) : x[k] = Undef THEN Undef ELSE Result(i.op, x)
    BY <1>3 DEF Given
  <2>2. Given(f, in, j, n) = IF \E k \in 1..Len(y) : y[k] = Undef THEN Undef ELSE Result(i.op, y)
    BY <1>3 DEF Given
  <2> HIDE DEF x, y
  <2>3. /\ Len(i.args) \in Nat /\ Len(x) = Len(i.args) /\ Len(y) = Len(i.args)
        /\ x = [m \in 1..Len(i.args) |-> x[m]] /\ y = [m \in 1..Len(i.args) |-> y[m]]
        /\ \A m \in 1..Len(i.args) : Agrees(y[m], x[m])
    BY DEF Matched, x, y
  <2>4. CASE \E k \in 1..Len(x) : x[k] = Undef
    BY <2>1, <2>4 DEF Agrees
  <2>5. CASE ~\E k \in 1..Len(x) : x[k] = Undef
    <3>1. \A m \in 1..Len(i.args) : y[m] = x[m]
      BY <2>3, <2>5 DEF Agrees
    <3>2. y = x
      BY <2>3, <3>1
    <3> QED BY <2>1, <2>2, <3>2 DEF Agrees
  <2> QED BY <2>4, <2>5
<1> QED BY <1>1, <1>2, <1>3

LEMMA PointerFacts ==
  ASSUME NEW f \in Functions, NEW p \in DOMAIN f.cellOf
  PROVE  f.cellOf[p] \in DOMAIN f.mem /\ f.type[p] \in {"i32", "float"}
BY FunctionFacts DEF Pointers

\* One instruction that is kept.
LEMMA StepFollows ==
  ASSUME NEW f \in Functions, NEW c, NEW in \in Inputs, NEW path \in Routes,
         NEW k \in Nat, k < Len(f.code[Last(path)]), NEW j, Version(f, j, f.code[Last(path)][k + 1]),
         \A m \in 1..Len(j.args) : j.args[m] \in f.ids => Uses(c, j.args[m]),
         NEW n, IsState(f, n), Follows(f, c, n, RunOf(f, in, path, k))
  PROVE  Follows(f, c, Step(f, in, j, n), RunOf(f, in, path, k + 1))
<1> DEFINE i == f.code[Last(path)][k + 1]
           o == RunOf(f, in, path, k)
           x == Reads(i, o)
           y == Reads(j, n)
           oo == RunOf(f, in, path, k + 1)
           nn == Step(f, in, j, n)
<1>1. Last(path) \in Block /\ k + 1 \in 1..Len(f.code[Last(path)])
  BY RouteEnds, FunctionFacts DEF IsCode
<1>2. Typed(f, i)
  BY <1>1, TypedFacts
<1>3. IsState(f, o)
  BY RunState, FunctionFacts DEF RunOf
<1>4. oo = Step(f, in, i, o)
  BY RunsAre DEF RunOf
<1>5. ~o.ub => Matched(i, y, x)
  BY ReadsAgree
<1>6. j.op = i.op /\ j.loc = i.loc /\ j.id = i.id
  BY DEF Version
<1> HIDE DEF i, o, oo, nn
<1>7. CASE o.ub
  <2>1. o.ub = TRUE
    BY <1>3, <1>7 DEF IsState
  <2>2. oo = o
    BY <1>4, <2>1, StepTrapped
  <2>3. Follows(f, c, nn, oo)
    BY <1>7, <2>2 DEF Follows
  <2> QED BY <2>3 DEF oo, nn
<1>8. CASE ~o.ub
  <2>1. /\ ~n.ub /\ n.inputs = o.inputs /\ Len(n.seen) = Len(o.seen)
        /\ \A l \in 1..Len(o.seen) : \A e \in DOMAIN o.seen[l] : Agrees(n.seen[l][e], o.seen[l][e])
        /\ \A e \in DOMAIN f.mem : Agrees(n.mem[e], o.mem[e])
        /\ \A v \in f.ids : Uses(c, v) => Agrees(n.env[v], o.env[v])
    BY <1>8 DEF Follows, o
  <2>2. Stepped(f, in, i, o, oo)
    BY <1>3, <1>4, <1>8, StepParts
  <2>3. Stepped(f, in, j, n, nn)
    BY <2>1, StepParts DEF nn
  <2>4. Matched(i, y, x)
    BY <1>5, <1>8
  <2>5. CASE TrapsOn(i, x)
    <3>1. oo.ub
      BY <2>2, <2>5 DEF Stepped
    <3>2. Follows(f, c, nn, oo)
      BY <3>1 DEF Follows
    <3> QED BY <3>2 DEF oo, nn
  <2>6. CASE ~TrapsOn(i, x)
    <3>1. ~TrapsOn(j, y)
      <4>1. i.op = "sdiv" => Len(i.args) = 2
        BY <1>2 DEF Typed, IntOp
      <4> HIDE DEF x, y
      <4> QED BY <1>6, <2>4, <2>6, <4>1, TrapAgrees
    <3>2. ~nn.ub /\ nn.inputs = oo.inputs
      BY <1>6, <2>1, <2>2, <2>3, <3>1 DEF Stepped
    <3>3. /\ Len(nn.seen) = Len(oo.seen)
          /\ \A l \in 1..Len(oo.seen) : \A e \in DOMAIN oo.seen[l] : Agrees(nn.seen[l][e], oo.seen[l][e])
      <4>1. CASE i.op \in {"output", "call"}
        <5> DEFINE so == Shows(f, i, o)
                   sn == Shows(f, j, n)
        <5>1. oo.seen = Append(o.seen, so) /\ nn.seen = Append(n.seen, sn)
          BY <1>6, <2>2, <2>3, <4>1 DEF Stepped
        <5>2. \A e \in DOMAIN so : Agrees(sn[e], so[e])
          <6>1. CASE i.op = "output"
            <7>1. 1 \in 1..Len(i.args)
              BY <1>2, <6>1 DEF Typed
            <7>2. Agrees(y[1], x[1])
              BY <2>4, <7>1 DEF Matched
            <7>3. so = [e \in {"out"} |-> x[1]] /\ sn = [e \in {"out"} |-> y[1]]
              BY <1>6, <6>1 DEF Shows
            <7> QED BY <7>2, <7>3
          <6>2. CASE i.op # "output"
            <7> DEFINE G == {q \in DOMAIN f.cellOf : IsGlobal(q)}
            <7>1. so = [p \in G |-> o.mem[f.cellOf[p]]] /\ sn = [p \in G |-> n.mem[f.cellOf[p]]]
              BY <1>6, <6>2 DEF Shows
            <7>2. ASSUME NEW p \in G PROVE Agrees(n.mem[f.cellOf[p]], o.mem[f.cellOf[p]])
              BY <2>1, PointerFacts
            <7> HIDE DEF G
            <7> QED BY <7>1, <7>2
          <6> QED BY <6>1, <6>2
        <5> HIDE DEF so, sn
        <5>3. (\E T : o.seen \in Seq(T)) /\ (\E T : n.seen \in Seq(T))
          BY <1>3 DEF IsState
        <5>4. /\ Len(oo.seen) = Len(o.seen) + 1 /\ oo.seen[Len(o.seen) + 1] = so
              /\ \A l \in 1..Len(o.seen) : oo.seen[l] = o.seen[l]
          BY <5>1, <5>3, SeqGrows
        <5>5. /\ Len(nn.seen) = Len(n.seen) + 1 /\ nn.seen[Len(n.seen) + 1] = sn
              /\ \A l \in 1..Len(n.seen) : nn.seen[l] = n.seen[l]
          BY <5>1, <5>3, SeqGrows
        <5>6. Len(o.seen) \in Nat
          BY <5>3
        <5>7. ASSUME NEW l \in 1..Len(oo.seen) PROVE l \in 1..Len(o.seen) \/ l = Len(o.seen) + 1
          BY <5>4, <5>6
        <5> QED BY <2>1, <5>2, <5>4, <5>5, <5>7
      <4>2. CASE i.op \notin {"output", "call"}
        BY <1>6, <2>1, <2>2, <2>3, <4>2 DEF Stepped
      <4> QED BY <4>1, <4>2
    <3>d. DOMAIN o.mem = DOMAIN f.mem /\ DOMAIN n.mem = DOMAIN f.mem /\ DOMAIN o.env = f.ids /\ DOMAIN n.env = f.ids
      BY <1>3 DEF IsState
    <3>4. ASSUME NEW e \in DOMAIN f.mem PROVE Agrees(nn.mem[e], oo.mem[e])
      <4>1. CASE i.op = "store"
        <5>1. 1 \in 1..Len(i.args)
          BY <1>2, <4>1 DEF Typed
        <5>2. Agrees(y[1], x[1])
          BY <2>4, <5>1 DEF Matched
        <5>3. /\ oo.mem = [o.mem EXCEPT ![f.cellOf[i.loc]] = x[1]]
              /\ nn.mem = [n.mem EXCEPT ![f.cellOf[i.loc]] = y[1]]
          BY <1>6, <2>2, <2>3, <4>1 DEF Stepped
        <5> HIDE DEF x, y
        <5> QED BY <2>1, <3>d, <5>2, <5>3
      <4>2. CASE i.op = "call"
        <5>1. oo.mem = Called(f, in, o) /\ nn.mem = Called(f, in, n)
          BY <1>6, <2>2, <2>3, <4>2 DEF Stepped
        <5> QED BY <2>1, <3>d, <5>1 DEF Called, Agrees
      <4>3. CASE i.op \notin {"store", "call"}
        <5>1. oo.mem = o.mem /\ nn.mem = n.mem
          BY <1>6, <2>2, <2>3, <4>3 DEF Stepped
        <5> QED BY <2>1, <5>1
      <4> QED BY <4>1, <4>2, <4>3
    <3>5. ASSUME NEW v \in f.ids, Uses(c, v) PROVE Agrees(nn.env[v], oo.env[v])
      <4>1. CASE Gives(i.op)
        <5> DEFINE go == Given(f, in, i, o)
                   gn == Given(f, in, j, n)
        <5>1. i.op = "load" => Agrees(n.mem[f.cellOf[i.loc]], o.mem[f.cellOf[i.loc]])
          BY <1>2, <2>1, PointerFacts DEF Typed
        <5>2. Agrees(gn, go)
          <6> HIDE DEF x, y
          <6>1. Matched(i, Reads(j, n), Reads(i, o))
            BY <2>4 DEF x, y
          <6> QED BY <1>6, <2>1, <4>1, <5>1, <6>1, GivenAgrees
        <5>3. oo.env = [o.env EXCEPT ![i.id] = go] /\ nn.env = [n.env EXCEPT ![i.id] = gn]
          <6> HIDE DEF go, gn
          <6> QED BY <1>6, <2>2, <2>3, <2>6, <3>1, <4>1 DEF Stepped, go, gn
        <5> HIDE DEF go, gn
        <5> QED BY <2>1, <3>5, <3>d, <5>2, <5>3
      <4>2. CASE ~Gives(i.op)
        <5>1. oo.env = o.env /\ nn.env = n.env
          BY <1>6, <2>2, <2>3, <4>2 DEF Stepped
        <5> QED BY <2>1, <3>5, <5>1
      <4> QED BY <4>1, <4>2
    <3>6. Follows(f, c, nn, oo)
      BY <3>2, <3>3, <3>4, <3>5 DEF Follows
    <3> QED BY <3>6 DEF oo, nn
  <2> QED BY <2>5, <2>6
<1> QED BY <1>7, <1>8

\* One that is deleted.
LEMMA DeletedFollows ==
  ASSUME NEW f \in Functions, NEW c, NEW in \in Inputs, NEW path \in Routes,
         NEW k \in Nat, k < Len(f.code[Last(path)]), Gone(c, f.code[Last(path)][k + 1]),
         NEW n, Follows(f, c, n, RunOf(f, in, path, k))
  PROVE  Follows(f, c, n, RunOf(f, in, path, k + 1))
<1> DEFINE i == f.code[Last(path)][k + 1]
           o == RunOf(f, in, path, k)
           oo == RunOf(f, in, path, k + 1)
<1>1. Last(path) \in Block /\ k + 1 \in 1..Len(f.code[Last(path)])
  BY RouteEnds, FunctionFacts DEF IsCode
<1>2. IsState(f, o)
  BY RunState, FunctionFacts DEF RunOf
<1>3. oo = Step(f, in, i, o)
  BY RunsAre DEF RunOf
<1>4. Folded(i.op) /\ ~Uses(c, i.id)
  BY DEF Gone
<1>5. i.op \notin {"input", "output", "store", "call"}
  BY <1>4 DEF Folded, Computes, IntOp, FloatOp, CmpOp, CastOp
<1> HIDE DEF i, o, oo
<1>6. CASE o.ub
  <2>1. o.ub = TRUE
    BY <1>2, <1>6 DEF IsState
  <2>2. oo = o
    BY <1>3, <2>1, StepTrapped
  <2>3. Follows(f, c, n, oo)
    BY <1>6, <2>2 DEF Follows
  <2> QED BY <2>3 DEF oo
<1>7. CASE ~o.ub
  <2>1. Stepped(f, in, i, o, oo)
    BY <1>2, <1>3, <1>7, StepParts
  <2>2. oo.inputs = o.inputs /\ oo.seen = o.seen /\ oo.mem = o.mem
    BY <1>5, <2>1 DEF Stepped
  <2>3. \A v \in f.ids : v # i.id => oo.env[v] = o.env[v]
    <3>1. DOMAIN o.env = f.ids
      BY <1>2 DEF IsState
    <3>2. oo.env = o.env \/ oo.env = [o.env EXCEPT ![i.id] = Given(f, in, i, o)]
      BY <2>1 DEF Stepped
    <3> QED BY <3>1, <3>2
  <2>4. Follows(f, c, n, o)
    BY DEF o
  <2>5. Follows(f, c, n, oo)
    BY <1>4, <1>7, <2>2, <2>3, <2>4 DEF Follows
  <2> QED BY <2>5 DEF oo
<1> QED BY <1>6, <1>7

\* The phis of a block.
LEMMA ArriveFollows ==
  ASSUME NEW f \in Functions, NEW c, NEW in \in Inputs, NEW path \in Routes,
         NEW b \in Block, NEW m, Thinned(f, c, b, m),
         NEW n, IsState(f, n), Follows(f, c, n, RunOf(f, in, path, Len(f.code[Last(path)])))
  PROVE  Follows(f, c, Arrive(c, n, Last(path), b),
                 Arrive(f.code, RunOf(f, in, path, Len(f.code[Last(path)])), Last(path), b))
<1> DEFINE prev == Last(path)
           top == Len(f.code[prev])
           o == RunOf(f, in, path, top)
           oo == Arrive(f.code, o, prev, b)
           nn == Arrive(c, n, prev, b)
<1>1. prev \in Block /\ top \in Nat /\ top \in 0..top
  BY RouteEnds, FunctionFacts DEF IsCode
<1>2. IsState(f, o)
  BY <1>1, RunState, FunctionFacts DEF RunOf
<1>3. Follows(f, c, n, o)
  OBVIOUS
<1>4. ASSUME NEW y, NEW x, Stands(f, y, x), IsLiteral(y), ~o.ub PROVE Agrees(y, Read(o, x))
  BY <1>1, <1>4, ConstantAgrees
<1> HIDE DEF prev, top, o, oo, nn
<1>5. Arrived(f, f.code, o, prev, b, oo)
  BY <1>2, ArriveParts DEF oo
<1>6. Arrived(f, c, n, prev, b, nn)
  BY ArriveParts DEF nn
<1>7. /\ Len(c[b]) \in Nat
      /\ m \in [1..Len(c[b]) -> 1..Len(f.code[b])]
      /\ \A k \in 1..Len(c[b]) : Version(f, c[b][k], f.code[b][m[k]])
      /\ \A l \in 1..Len(f.code[b]) : (\A k \in 1..Len(c[b]) : m[k] # l) => Gone(c, f.code[b][l])
  BY DEF Thinned
<1>8. ASSUME NEW v \in f.ids, Uses(c, v), ~o.ub
      PROVE  Agrees(Carried(c, n, prev, b, v), Carried(f.code, o, prev, b, v))
  <2> DEFINE P == {k \in 1..Len(f.code[b]) : f.code[b][k].op = "phi" /\ f.code[b][k].id = v}
             Q == {k \in 1..Len(c[b]) : c[b][k].op = "phi" /\ c[b][k].id = v}
  <2>1. ASSUME NEW k \in 1..Len(c[b])
        PROVE  m[k] \in 1..Len(f.code[b]) /\ (k \in Q <=> m[k] \in P)
    <3>1. m[k] \in 1..Len(f.code[b]) /\ Version(f, c[b][k], f.code[b][m[k]])
      BY <1>7
    <3> QED BY <3>1 DEF Version
  <2>2. ASSUME NEW l \in P PROVE \E k \in 1..Len(c[b]) : m[k] = l
    <3>1. ~Gone(c, f.code[b][l])
      BY <1>8 DEF Gone
    <3> QED BY <1>7, <3>1
  <2>3. ASSUME NEW k \in P, NEW l \in P PROVE k = l
    <3>1. /\ k \in 1..Len(f.code[b]) /\ l \in 1..Len(f.code[b])
          /\ Defines(f.code[b][k]) /\ f.code[b][k].id = f.code[b][l].id
      BY DEF Defines
    <3> QED BY <3>1, OneDefinition
  <2>4. CASE P = {}
    <3>1. Q = {}
      BY <2>1, <2>4
    <3>2. Carried(c, n, prev, b, v) = n.env[v]
      BY <3>1 DEF Carried
    <3>3. Carried(f.code, o, prev, b, v) = o.env[v]
      BY <2>4 DEF Carried
    <3>4. Agrees(n.env[v], o.env[v])
      BY <1>3, <1>8 DEF Follows
    <3> QED BY <3>2, <3>3, <3>4
  <2>5. CASE P # {}
    <3> DEFINE k == CHOOSE k \in Q : TRUE
               l == CHOOSE l \in P : TRUE
    <3>1. l \in P
      BY <2>5
    <3>2. Q # {}
      BY <2>1, <2>2, <3>1
    <3>3. k \in Q
      BY <3>2
    <3> HIDE DEF P, Q
    <3>4. Carried(c, n, prev, b, v) =
            LET from == {j \in 1..Len(c[b][k].from) : c[b][k].from[j] = prev}
            IN  IF from = {} THEN Undef ELSE Read(n, c[b][k].args[CHOOSE j \in from : TRUE])
      BY <3>2 DEF Carried, Q
    <3>5. Carried(f.code, o, prev, b, v) =
            LET from == {j \in 1..Len(f.code[b][l].from) : f.code[b][l].from[j] = prev}
            IN  IF from = {} THEN Undef ELSE Read(o, f.code[b][l].args[CHOOSE j \in from : TRUE])
      BY <2>5 DEF Carried, P
    <3> HIDE DEF k, l
    <3>6. k \in 1..Len(c[b]) /\ l \in 1..Len(f.code[b]) /\ m[k] = l
      BY <2>1, <2>3, <3>1, <3>3 DEF P, Q
    <3> DEFINE i == f.code[b][l]
               j == c[b][k]
               from_ == {q \in 1..Len(i.from) : i.from[q] = prev}
               q == CHOOSE q \in from_ : TRUE
    <3>7. Version(f, j, i) /\ Typed(f, i) /\ i.op = "phi"
      BY <1>7, <3>1, <3>6, TypedFacts DEF P
    <3> HIDE DEF i, j
    <3>8. j.from = i.from /\ Len(i.from) = Len(i.args) /\ Len(j.args) = Len(i.args)
      BY <3>7 DEF Version, Typed
    <3>9. /\ Carried(c, n, prev, b, v) = IF from_ = {} THEN Undef ELSE Read(n, j.args[q])
          /\ Carried(f.code, o, prev, b, v) = IF from_ = {} THEN Undef ELSE Read(o, i.args[q])
      BY <3>4, <3>5, <3>8 DEF i, j
    <3>10. CASE from_ = {}
      BY <3>9, <3>10 DEF Agrees
    <3>11. CASE from_ # {}
      <4>1. q \in from_
        BY <3>11
      <4>2. q \in 1..Len(i.args)
        BY <3>8, <4>1
      <4> HIDE DEF q, from_
      <4> DEFINE y == j.args[q]
                 x == i.args[q]
      <4>3. Stands(f, y, x) /\ (x \in f.ids \/ IsLiteral(x))
        BY <3>7, <4>2 DEF Version, Typed
      <4>4. Uses(c, y)
        BY <3>6, <3>8, <4>2 DEF Uses, j
      <4>5. Carried(c, n, prev, b, v) = Read(n, y) /\ Carried(f.code, o, prev, b, v) = Read(o, x)
        BY <3>9, <3>11
      <4> HIDE DEF y, x
      <4>6. CASE IsLiteral(y)
        <5>1. Read(n, y) = y
          BY <4>6 DEF Read, IsLiteral
        <5> QED BY <1>4, <1>8, <4>3, <4>5, <4>6, <5>1
      <4>7. CASE ~IsLiteral(y)
        <5>1. y = x /\ x \in f.ids
          BY <4>3, <4>7 DEF Stands
        <5>2. Read(n, y) = n.env[x] /\ Read(o, x) = o.env[x]
          BY <5>1, IdsAreVariables DEF Read
        <5>3. Agrees(n.env[x], o.env[x])
          BY <1>3, <1>8, <4>4, <5>1 DEF Follows
        <5> QED BY <4>5, <5>2, <5>3
      <4> QED BY <4>6, <4>7
    <3> QED BY <3>10, <3>11
  <2> QED BY <2>4, <2>5
<1>9. Follows(f, c, nn, oo)
  <2>1. oo.ub = o.ub /\ oo.mem = o.mem /\ oo.seen = o.seen /\ oo.inputs = o.inputs
    BY <1>5 DEF Arrived
  <2>2. nn.ub = n.ub /\ nn.mem = n.mem /\ nn.seen = n.seen /\ nn.inputs = n.inputs
    BY <1>6 DEF Arrived
  <2>3. ASSUME ~o.ub, NEW v \in f.ids, Uses(c, v) PROVE Agrees(nn.env[v], oo.env[v])
    BY <1>5, <1>6, <1>8, <2>3 DEF Arrived
  <2> QED BY <1>3, <2>1, <2>2, <2>3 DEF Follows
<1> QED BY <1>9 DEF oo, nn, o, top, prev

\* A block, and then every way through blocks.
LEMMA BlockFollows ==
  ASSUME NEW f \in Functions, NEW c, IsCode(c), NEW in \in Inputs, NEW path \in Routes,
         NEW m, Thinned(f, c, Last(path), m),
         Follows(f, c, RunTo(f, c, in, path, 0), RunOf(f, in, path, 0))
  PROVE  Follows(f, c, RunTo(f, c, in, path, Len(c[Last(path)])), RunOf(f, in, path, Len(f.code[Last(path)])))
<1> DEFINE b == Last(path)
           L == Len(f.code[b])
           M == Len(c[b])
           Old(k) == RunOf(f, in, path, k)
           New(k) == RunTo(f, c, in, path, k)
           Cut(k, n) == n \in 0..M /\ (n = 0 \/ m[n] <= k) /\ (n = M \/ k < m[n + 1])
           Some == {k \in Nat : k <= L => \A n \in 0..M : Cut(k, n) => Follows(f, c, New(n), Old(k))}
<1>1. b \in Block /\ L \in Nat /\ M \in Nat
  BY RouteEnds, FunctionFacts DEF IsCode
<1>2. /\ m \in [1..M -> 1..L]
      /\ \A k \in 1..M : Version(f, c[b][k], f.code[b][m[k]])
      /\ \A k, l \in 1..M : k < l => m[k] < m[l]
      /\ \A l \in 1..L : (\A k \in 1..M : m[k] # l) => Gone(c, f.code[b][l])
  BY DEF Thinned
<1>3. \A k \in Nat : IsState(f, New(k)) /\ New(k + 1) = Step(f, in, c[b][k + 1], New(k))
  BY RunState, RunsAre
<1>4. Follows(f, c, New(0), Old(0))
  OBVIOUS
<1>5. ASSUME NEW k \in Nat, k < L, Gone(c, f.code[b][k + 1]), NEW n, Follows(f, c, n, Old(k))
      PROVE  Follows(f, c, n, Old(k + 1))
  BY <1>5, DeletedFollows
<1>6. ASSUME NEW k \in Nat, k < L, NEW j, Version(f, j, f.code[b][k + 1]),
             \A l \in 1..Len(j.args) : j.args[l] \in f.ids => Uses(c, j.args[l]),
             NEW n, IsState(f, n), Follows(f, c, n, Old(k))
      PROVE  Follows(f, c, Step(f, in, j, n), Old(k + 1))
  BY <1>6, StepFollows
<1> HIDE DEF L, M, Old, New, b
<1>7. 0 \in Some
  <2>1. ASSUME NEW n \in 0..M, Cut(0, n) PROVE n = 0
    <3>1. n # 0 => n \in 1..M
      BY <1>1
    <3> QED BY <1>1, <1>2, <2>1, <3>1
  <2> QED BY <1>4, <2>1
<1>8. ASSUME NEW k \in Nat, k \in Some PROVE k + 1 \in Some
  <2> SUFFICES ASSUME k + 1 <= L, NEW n \in 0..M, Cut(k + 1, n) PROVE Follows(f, c, New(n), Old(k + 1))
    OBVIOUS
  <2>1. k < L /\ k + 1 \in 1..L
    BY <1>1
  <2>2. \A p \in 0..M : Cut(k, p) => Follows(f, c, New(p), Old(k))
    <3>1. k <= L
      BY <1>1, <2>1
    <3> HIDE DEF Cut
    <3> QED BY <1>8, <3>1
  <2>3. CASE n # 0 /\ m[n] = k + 1
    <3> DEFINE p == n - 1
               j == c[b][n]
    <3>1. n \in 1..M /\ p \in 0..M /\ p \in Nat /\ p + 1 = n
      BY <1>1, <2>3
    <3>2. p = 0 \/ m[p] <= k
      <4>1. p # 0 => p \in 1..M /\ p < n
        BY <1>1, <3>1
      <4>2. p # 0 => m[p] < m[n] /\ m[p] \in 1..L
        BY <1>2, <3>1, <4>1
      <4>3. p # 0 => m[p] <= k
        BY <1>1, <2>3, <4>2
      <4> QED BY <4>3
    <3>3. Cut(k, p)
      BY <2>3, <3>1, <3>2
    <3>4. Version(f, j, f.code[b][k + 1])
      BY <1>2, <2>3, <3>1
    <3>5. \A l \in 1..Len(j.args) : Uses(c, j.args[l])
      BY <1>1, <3>1 DEF Uses, M
    <3>6. New(n) = Step(f, in, j, New(p)) /\ IsState(f, New(p))
      BY <1>3, <3>1
    <3>7. Follows(f, c, New(p), Old(k))
      BY <2>2, <3>1, <3>3
    <3> HIDE DEF p, j
    <3> QED BY <1>6, <2>1, <3>4, <3>5, <3>6, <3>7
  <2>4. CASE n = 0 \/ m[n] # k + 1
    <3>1. ASSUME NEW l \in 1..M, m[l] = k + 1 PROVE FALSE
      <4>1. l # n /\ n \in Nat /\ l \in Nat
        BY <1>1, <2>4, <3>1
      <4>2. CASE l < n
        <5>1. n \in 1..M /\ m[n] \in 1..L
          BY <1>1, <1>2, <4>2
        <5>2. m[l] < m[n]
          BY <1>2, <4>2, <5>1
        <5> QED BY <1>1, <3>1, <4>2, <5>1, <5>2
      <4>3. CASE n < l
        <5>1. n + 1 \in 1..M /\ m[n + 1] \in 1..L /\ n # M
          BY <1>1, <1>2, <4>3
        <5>2. k + 1 < m[n + 1]
          BY <5>1
        <5>3. n + 1 = l \/ m[n + 1] < m[l]
          BY <1>2, <4>1, <4>3, <5>1
        <5> QED BY <1>1, <3>1, <5>1, <5>2, <5>3
      <4> QED BY <4>1, <4>2, <4>3
    <3>2. Gone(c, f.code[b][k + 1])
      BY <1>2, <2>1, <3>1
    <3>3. Cut(k, n)
      <4>1. n # 0 => n \in 1..M /\ m[n] \in 1..L
        BY <1>1, <1>2
      <4>2. n # M => n + 1 \in 1..M /\ m[n + 1] \in 1..L
        BY <1>1, <1>2
      <4>3. n = 0 \/ m[n] <= k
        BY <1>1, <2>4, <4>1
      <4>4. n = M \/ k < m[n + 1]
        BY <1>1, <4>2
      <4> QED BY <4>3, <4>4
    <3>4. Follows(f, c, New(n), Old(k))
      BY <2>2, <3>3
    <3> QED BY <1>5, <2>1, <3>2, <3>4
  <2> QED BY <2>3, <2>4
<1> HIDE DEF Some
<1>9. Nat \subseteq Some
  BY <1>7, <1>8, NatSet
<1>10. L \in Some
  BY <1>1, <1>9
<1>11. Cut(L, M)
  <2>1. M # 0 => M \in 1..M /\ m[M] \in 1..L
    BY <1>1, <1>2
  <2> QED BY <1>1, <2>1
<1>12. Follows(f, c, New(M), Old(L))
  BY <1>1, <1>10, <1>11 DEF Some
<1> QED BY <1>12 DEF New, Old, M, L, b

LEMMA StartFollows ==
  ASSUME NEW f, NEW c
  PROVE  Follows(f, c, Start(f), Start(f))
<1> DEFINE s == Start(f)
<1>1. s.ub = FALSE /\ s.seen = <<>>
  BY DEF Start
<1> HIDE DEF s
<1>2. Follows(f, c, s, s)
  BY <1>1 DEF Follows, Agrees
<1> QED BY <1>2 DEF s

LEMMA RouteFollows ==
  ASSUME NEW f \in Functions, NEW c, \A b \in Block : \E m : Thinned(f, c, b, m), NEW in \in Inputs
  PROVE  \A path \in Routes :
           Follows(f, c, RunTo(f, c, in, path, Len(c[Last(path)])), RunOf(f, in, path, Len(f.code[Last(path)])))
<1> DEFINE Old(path) == RunOf(f, in, path, Len(f.code[Last(path)]))
           New(path) == RunTo(f, c, in, path, Len(c[Last(path)]))
           Good == {path \in Routes : Follows(f, c, New(path), Old(path))}
<1>1. IsCode(c)
  BY DEF Thinned, IsCode
<1>2. ASSUME NEW path \in Routes, Follows(f, c, RunTo(f, c, in, path, 0), RunOf(f, in, path, 0))
      PROVE  path \in Good
  <2>1. Last(path) \in Block
    BY RouteEnds
  <2>2. PICK m : Thinned(f, c, Last(path), m)
    BY <2>1
  <2> QED BY <1>1, <1>2, <2>2, BlockFollows
<1>3. ASSUME NEW b \in Block PROVE <<b>> \in Good
  <2> DEFINE p == <<b>>
  <2>1. p \in Routes
    BY DEF Routes
  <2>2. RunTo(f, c, in, p, 0) = Start(f) /\ RunOf(f, in, p, 0) = Start(f)
    BY RunsAre DEF RunOf
  <2> HIDE DEF p, Good
  <2>3. Follows(f, c, RunTo(f, c, in, p, 0), RunOf(f, in, p, 0))
    BY <2>2, StartFollows
  <2>4. p \in Good
    BY <1>2, <2>1, <2>3
  <2> QED BY <2>4 DEF p
<1>4. ASSUME NEW path \in Routes, NEW b \in Block, path \in Good PROVE Append(path, b) \in Good
  <2> DEFINE p == Append(path, b)
  <2>1. p \in Routes
    BY RouteGrows
  <2>2. /\ RunTo(f, c, in, p, 0) = Arrive(c, New(path), Last(path), b)
        /\ RunOf(f, in, p, 0) = Arrive(f.code, Old(path), Last(path), b)
    BY RunsAre DEF RunOf
  <2>3. PICK m : Thinned(f, c, b, m)
    OBVIOUS
  <2>4. Len(c[Last(path)]) \in Nat
    BY <1>1, RouteEnds DEF IsCode
  <2>5. IsState(f, New(path))
    BY <1>1, <2>4, RunState
  <2>6. Follows(f, c, New(path), Old(path))
    BY <1>4
  <2> HIDE DEF p, Good, New
  <2>7. Follows(f, c, Arrive(c, New(path), Last(path), b), Arrive(f.code, Old(path), Last(path), b))
    BY <2>3, <2>5, <2>6, ArriveFollows
  <2>8. p \in Good
    BY <1>2, <2>1, <2>2, <2>7
  <2> QED BY <2>8 DEF p
<1> HIDE DEF Good
<1>5. Routes \subseteq Good
  BY <1>3, <1>4, RouteInduction
<1> QED BY <1>5 DEF Good

\* So that is what MeaningKept asks of the code at the end.
LEMMA ThinnedIsSame ==
  ASSUME NEW f \in Functions, NEW c, \A b \in Block : \E m : Thinned(f, c, b, m), NEW in \in Inputs,
         NEW path \in Routes
  PROVE  SameAlong(f, f.code, c, in, path)
<1> DEFINE o == RunTo(f, f.code, in, path, Len(f.code[Last(path)]))
           n == RunTo(f, c, in, path, Len(c[Last(path)]))
<1>1. Follows(f, c, n, o)
  BY RouteFollows DEF RunOf
<1>2. SameAlong(f, f.code, c, in, path) =
        (o.ub \/ /\ ~n.ub /\ Len(o.seen) = Len(n.seen)
                 /\ \A k \in 1..Len(o.seen) :
                      \A e \in DOMAIN o.seen[k] : Agrees(n.seen[k][e], o.seen[k][e])
                 /\ \A p \in DOMAIN f.cellOf :
                      IsGlobal(p) => Agrees(n.mem[f.cellOf[p]], o.mem[f.cellOf[p]]))
  BY DEF SameAlong, Last
<1> HIDE DEF o, n
<1>3. \A p \in DOMAIN f.cellOf : f.cellOf[p] \in DOMAIN f.mem
  BY PointerFacts
<1> QED BY <1>1, <1>2, <1>3 DEF Follows

-----------------------------------------------------------------------------
(***************************************************************************)
(* The tables: of the right kinds, and true on every run to this place.    *)
(***************************************************************************)
Kinds(f, list, global, type) ==
  \A p \in DOMAIN list :
    /\ p \in DOMAIN f.cellOf /\ p \in Accessed(f, "store") /\ IsGlobal(p) = global /\ f.type[p] = type
    /\ IsLiteral(list[p]) /\ IsFloat(f, list[p]) = (type = "float")
HoldsIn(f, list, s) ==
  \A p \in DOMAIN list \cap Accessed(f, "load") : Agrees(list[p], s.mem[f.cellOf[p]])
HoldsAt(f, b, k, list) ==
  \A in \in Inputs, path \in Routes : Last(path) = b =>
    RunOf(f, in, path, k).ub \/ HoldsIn(f, list, RunOf(f, in, path, k))

LEMMA OneMore ==
  ASSUME NEW f \in Functions, NEW in \in Inputs, NEW path \in Routes,
         NEW k \in 1..Len(f.code[Last(path)]), ~RunOf(f, in, path, k).ub
  PROVE  /\ ~RunOf(f, in, path, k - 1).ub /\ IsState(f, RunOf(f, in, path, k - 1))
         /\ Stepped(f, in, f.code[Last(path)][k], RunOf(f, in, path, k - 1), RunOf(f, in, path, k))
<1> DEFINE i == f.code[Last(path)][k]
           o == RunOf(f, in, path, k - 1)
           oo == RunOf(f, in, path, k)
<1>1. Last(path) \in Block /\ k - 1 \in Nat /\ (k - 1) + 1 = k
  BY RouteEnds, FunctionFacts DEF IsCode
<1>2. IsState(f, o)
  BY <1>1, RunState, FunctionFacts DEF RunOf
<1>3. oo = Step(f, in, i, o)
  <2>1. RunTo(f, f.code, in, path, (k - 1) + 1) =
          Step(f, in, f.code[Last(path)][(k - 1) + 1], RunTo(f, f.code, in, path, k - 1))
    BY <1>1, RunsAre
  <2> QED BY <1>1, <2>1 DEF RunOf
<1>5. ~oo.ub
  OBVIOUS
<1> HIDE DEF i, o, oo
<1>4. ~o.ub
  <2>1. o.ub = TRUE => oo = o
    BY <1>3, StepTrapped
  <2> QED BY <1>2, <1>5, <2>1 DEF IsState
<1>6. Stepped(f, in, i, o, oo)
  BY <1>2, <1>3, <1>4, StepParts
<1> QED BY <1>2, <1>4, <1>6 DEF i, o, oo

LEMMA UntouchedHolds ==
  ASSUME NEW f \in Functions, NEW b \in Block, NEW k \in 1..Len(f.code[b]), NEW list,
         f.code[b][k].op \notin {"store", "call"}, HoldsAt(f, b, k - 1, list)
  PROVE  HoldsAt(f, b, k, list)
<1> SUFFICES ASSUME NEW in \in Inputs, NEW path \in Routes, Last(path) = b, ~RunOf(f, in, path, k).ub
             PROVE  HoldsIn(f, list, RunOf(f, in, path, k))
  BY DEF HoldsAt
<1> DEFINE o == RunOf(f, in, path, k - 1)
           oo == RunOf(f, in, path, k)
<1>1. ~o.ub /\ Stepped(f, in, f.code[b][k], o, oo)
  BY OneMore
<1>2. HoldsIn(f, list, o)
  BY <1>1 DEF HoldsAt
<1> HIDE DEF o, oo
<1>3. oo.mem = o.mem
  BY <1>1 DEF Stepped
<1>4. HoldsIn(f, list, oo)
  BY <1>2, <1>3 DEF HoldsIn
<1> QED BY <1>4 DEF oo

LEMMA CallHolds ==
  ASSUME NEW f \in Functions, NEW b \in Block, NEW k \in 1..Len(f.code[b]), NEW list, NEW global, NEW type,
         Kinds(f, list, global, type), f.code[b][k].op = "call", global = FALSE \/ DOMAIN list = {},
         HoldsAt(f, b, k - 1, list)
  PROVE  HoldsAt(f, b, k, list)
<1> SUFFICES ASSUME NEW in \in Inputs, NEW path \in Routes, Last(path) = b, ~RunOf(f, in, path, k).ub
             PROVE  HoldsIn(f, list, RunOf(f, in, path, k))
  BY DEF HoldsAt
<1> DEFINE o == RunOf(f, in, path, k - 1)
           oo == RunOf(f, in, path, k)
<1>1. ~o.ub /\ IsState(f, o) /\ Stepped(f, in, f.code[b][k], o, oo)
  BY OneMore
<1>2. HoldsIn(f, list, o)
  BY <1>1 DEF HoldsAt
<1> HIDE DEF o, oo
<1>3. oo.mem = Called(f, in, o)
  BY <1>1 DEF Stepped
<1>4. ASSUME NEW p \in DOMAIN list \cap Accessed(f, "load")
      PROVE  Agrees(list[p], oo.mem[f.cellOf[p]])
  <2>1. p \in DOMAIN f.cellOf /\ ~IsGlobal(p)
    BY DEF Kinds
  <2>2. f.cellOf[p] \notin GlobalCells(f)
    <3> SUFFICES ASSUME NEW q \in DOMAIN f.cellOf, IsGlobal(q), f.cellOf[q] = f.cellOf[p] PROVE FALSE
      BY DEF GlobalCells
    <3>1. q # p
      BY <2>1
    <3>2. Pointers(f)
      BY FunctionFacts
    <3> QED BY <2>1, <3>1, <3>2 DEF Pointers
  <2>3. f.cellOf[p] \in DOMAIN o.mem
    BY <1>1, <2>1, PointerFacts DEF IsState
  <2>4. oo.mem[f.cellOf[p]] = o.mem[f.cellOf[p]]
    BY <1>3, <2>2, <2>3 DEF Called
  <2> QED BY <1>2, <2>4 DEF HoldsIn
<1>5. HoldsIn(f, list, oo)
  BY <1>4 DEF HoldsIn
<1> QED BY <1>5 DEF oo

\* Other entries stay, and the one of the pointer is the constant stored.
LEMMA StoreHolds ==
  ASSUME NEW f \in Functions, NEW b \in Block, NEW k \in 1..Len(f.code[b]), NEW list, NEW global, NEW type,
         Kinds(f, list, global, type), f.code[b][k].op = "store", HoldsAt(f, b, k - 1, list),
         NEW j, Version(f, j, f.code[b][k]),
         NEW new, \A q \in DOMAIN new :
                    IF q = j.loc THEN IsLiteral(j.args[1]) /\ new[q] = j.args[1]
                    ELSE q \in DOMAIN list /\ new[q] = list[q]
  PROVE  HoldsAt(f, b, k, new)
<1> SUFFICES ASSUME NEW in \in Inputs, NEW path \in Routes, Last(path) = b, ~RunOf(f, in, path, k).ub
             PROVE  HoldsIn(f, new, RunOf(f, in, path, k))
  BY DEF HoldsAt
<1> DEFINE i == f.code[b][k]
           o == RunOf(f, in, path, k - 1)
           oo == RunOf(f, in, path, k)
           y == j.args[1]
           x == i.args[1]
<1>1. ~o.ub /\ IsState(f, o) /\ Stepped(f, in, i, o, oo)
  BY OneMore
<1>2. HoldsIn(f, list, o)
  BY <1>1 DEF HoldsAt
<1>3. Typed(f, i) /\ i.op = "store" /\ Version(f, j, i)
  BY TypedFacts
<1>4. 1 \in 1..Len(i.args) /\ i.loc \in DOMAIN f.cellOf
  BY <1>3 DEF Typed
<1>5. j.loc = i.loc /\ Stands(f, y, x)
  BY <1>3, <1>4 DEF Version
<1>6. IsLiteral(y) => Agrees(y, Read(o, x))
  <2>1. k - 1 \in 0..Len(f.code[Last(path)])
    BY FunctionFacts DEF IsCode
  <2> HIDE DEF y, x
  <2> QED BY <1>1, <1>5, <2>1, ConstantAgrees
<1> HIDE DEF o, oo, i, y
<1>7. oo.mem = [o.mem EXCEPT ![f.cellOf[i.loc]] = Read(o, x)]
  <2>1. oo.mem = [o.mem EXCEPT ![f.cellOf[i.loc]] = Reads(i, o)[1]]
    BY <1>1, <1>3 DEF Stepped
  <2>2. Reads(i, o)[1] = Read(o, x)
    BY <1>4 DEF Reads
  <2> QED BY <2>1, <2>2
<1>8. DOMAIN o.mem = DOMAIN f.mem
  BY <1>1 DEF IsState
<1>9. ASSUME NEW q \in DOMAIN new \cap Accessed(f, "load")
      PROVE  Agrees(new[q], oo.mem[f.cellOf[q]])
  <2>1. CASE q = i.loc
    <3>1. IsLiteral(y) /\ new[q] = y
      BY <1>5, <2>1 DEF y
    <3>2. oo.mem[f.cellOf[q]] = Read(o, x)
      BY <1>4, <1>7, <1>8, <2>1, PointerFacts
    <3> QED BY <1>6, <3>1, <3>2
  <2>2. CASE q # i.loc
    <3>1. q \in DOMAIN list /\ new[q] = list[q]
      BY <1>5, <2>2
    <3>2. q \in DOMAIN f.cellOf /\ q \in Accessed(f, "store")
      BY <3>1 DEF Kinds
    <3>3. f.cellOf[q] # f.cellOf[i.loc]
      <4>1. Pointers(f)
        BY FunctionFacts
      <4> QED BY <1>4, <2>2, <3>2, <4>1 DEF Pointers
    <3>4. f.cellOf[q] \in DOMAIN o.mem
      BY <1>8, <3>2, PointerFacts
    <3>5. oo.mem[f.cellOf[q]] = o.mem[f.cellOf[q]]
      BY <1>7, <3>3, <3>4
    <3> QED BY <1>2, <3>1, <3>5 DEF HoldsIn
  <2> QED BY <2>1, <2>2
<1>10. HoldsIn(f, new, oo)
  BY <1>9 DEF HoldsIn
<1> QED BY <1>10 DEF oo

\* An operation on constants gives the constant computed from them.
LEMMA FoldKnown ==
  ASSUME NEW f \in Functions, NEW b \in Block, NEW k \in 1..Len(f.code[b]),
         NEW j, Version(f, j, f.code[b][k]), Computes(j.op),
         \A m \in 1..Len(j.args) : IsLiteral(j.args[m]),
         NEW c, Agrees(c, Result(j.op, [m \in 1..Len(j.args) |-> j.args[m]]))
  PROVE  Known(f, j.id, c)
<1> DEFINE i == f.code[b][k]
           a == [m \in 1..Len(i.args) |-> j.args[m]]
<1>1. Len(i.args) \in Nat
  BY TypedFacts
<1>2. /\ j.op = i.op /\ j.id = i.id /\ Len(j.args) = Len(i.args)
      /\ \A m \in 1..Len(i.args) : Stands(f, j.args[m], i.args[m])
  BY DEF Version
<1>3. Gives(i.op) /\ Computes(i.op) /\ Agrees(c, Result(i.op, a))
  BY <1>2 DEF Gives
<1>4. ASSUME NEW in \in Inputs, NEW path \in Routes, Last(path) = b
      PROVE  LET s == RunOf(f, in, path, k - 1)
             IN  s.ub \/ TrapsOn(i, Reads(i, s)) \/ Agrees(c, Given(f, in, i, s))
  <2> DEFINE s == RunOf(f, in, path, k - 1)
             x == Reads(i, s)
  <2> SUFFICES ASSUME ~s.ub PROVE Agrees(c, Given(f, in, i, s))
    OBVIOUS
  <2>1. k - 1 \in 0..Len(f.code[Last(path)])
    BY <1>4, FunctionFacts DEF IsCode
  <2>2. ASSUME NEW m \in 1..Len(i.args) PROVE Agrees(j.args[m], Read(s, i.args[m]))
    BY <1>2, <2>1, ConstantAgrees
  <2> HIDE DEF s, i
  <2>3. x = [m \in 1..Len(i.args) |-> x[m]] /\ Len(x) = Len(i.args) /\ \A m \in 1..Len(i.args) : x[m] = Read(s, i.args[m])
    BY <1>1 DEF Reads
  <2>4. i.op \notin {"load", "input"}
    BY <1>3 DEF Computes, IntOp, FloatOp, CmpOp, CastOp
  <2>5. Given(f, in, i, s) = IF \E m \in 1..Len(x) : x[m] = Undef THEN Undef ELSE Result(i.op, x)
    BY <2>4 DEF Given
  <2> HIDE DEF x
  <2>6. CASE \E m \in 1..Len(x) : x[m] = Undef
    BY <2>5, <2>6 DEF Agrees
  <2>7. CASE ~\E m \in 1..Len(x) : x[m] = Undef
    <3>1. \A m \in 1..Len(i.args) : x[m] = j.args[m]
      BY <2>2, <2>3, <2>7 DEF Agrees
    <3>2. x = a
      BY <2>3, <3>1
    <3> QED BY <1>3, <2>5, <2>7, <3>2
  <2> QED BY <2>6, <2>7
<1>5. Known(f, i.id, c)
  BY <1>3, <1>4, KnownFrom
<1> QED BY <1>2, <1>5

\* A load gives the constant the table has for its pointer.
LEMMA LoadKnown ==
  ASSUME NEW f \in Functions, NEW b \in Block, NEW k \in 1..Len(f.code[b]),
         f.code[b][k].op = "load", NEW list, HoldsAt(f, b, k - 1, list), f.code[b][k].loc \in DOMAIN list
  PROVE  Known(f, f.code[b][k].id, list[f.code[b][k].loc])
<1> DEFINE i == f.code[b][k]
           c == list[i.loc]
<1>1. i \in InstrsOf(f.code) /\ i.op = "load" /\ Gives(i.op)
  BY TypedFacts DEF Gives
<1> HIDE DEF c
<1>2. ASSUME NEW in \in Inputs, NEW path \in Routes, Last(path) = b
      PROVE  LET s == RunOf(f, in, path, k - 1)
             IN  s.ub \/ TrapsOn(i, Reads(i, s)) \/ Agrees(c, Given(f, in, i, s))
  <2> DEFINE s == RunOf(f, in, path, k - 1)
  <2>1. s.ub \/ HoldsIn(f, list, s)
    BY <1>2 DEF HoldsAt
  <2> HIDE DEF s, i
  <2>2. i.loc \in DOMAIN list \cap Accessed(f, "load")
    BY <1>1 DEF Accessed, i
  <2>3. Given(f, in, i, s) = s.mem[f.cellOf[i.loc]]
    BY <1>1 DEF Given
  <2>4. s.ub \/ Agrees(c, Given(f, in, i, s))
    BY <2>1, <2>2, <2>3 DEF HoldsIn, c
  <2> QED BY <2>4 DEF s
<1>3. Known(f, i.id, c)
  BY <1>1, <1>2, KnownFrom
<1> QED BY <1>3 DEF c

\* A division of constants that traps in the compiler traps in the program.
LEMMA TrapCertain ==
  ASSUME NEW f \in Functions, NEW b \in Block, NEW k \in 1..Len(f.code[b]),
         NEW j, Version(f, j, f.code[b][k]),
         \A m \in 1..Len(j.args) : IsLiteral(j.args[m]),
         Traps(j.op, j.args[1][2], j.args[2][2]),
         NEW in \in Inputs, NEW path \in Routes, Last(path) = b
  PROVE  RunOf(f, in, path, k).ub
<1> DEFINE i == f.code[b][k]
           o == RunOf(f, in, path, k - 1)
           oo == RunOf(f, in, path, k)
           x == Reads(i, o)
<1> SUFFICES ASSUME ~oo.ub PROVE FALSE
  OBVIOUS
<1>1. ~o.ub /\ Stepped(f, in, i, o, oo)
  BY OneMore
<1>2. /\ j.op = i.op /\ Len(j.args) = Len(i.args)
      /\ \A m \in 1..Len(i.args) : Stands(f, j.args[m], i.args[m])
  BY DEF Version
<1>3. j.op = "sdiv" /\ (j.args[2][2] = 0 \/ (j.args[1][2] = IntMin /\ j.args[2][2] = -1))
  BY DEF Traps
<1>4. Typed(f, i)
  BY TypedFacts
<1>5. k - 1 \in 0..Len(f.code[Last(path)])
  BY FunctionFacts DEF IsCode
<1>6. ASSUME NEW m \in 1..Len(i.args) PROVE Agrees(j.args[m], Read(o, i.args[m]))
  BY <1>1, <1>2, <1>5, ConstantAgrees
<1> HIDE DEF i, o, oo
<1>7. 1 \in 1..Len(i.args) /\ 2 \in 1..Len(i.args)
  BY <1>2, <1>3, <1>4 DEF Typed, IntOp
<1>8. Agrees(j.args[1], x[1]) /\ Agrees(j.args[2], x[2])
  BY <1>6, <1>7 DEF Reads
<1> HIDE DEF x
<1>9. MayTrap(x[1], x[2])
  BY <1>3, <1>8 DEF MayTrap, Agrees
<1>10. TrapsOn(i, x)
  BY <1>2, <1>3, <1>9 DEF TrapsOn
<1> QED BY <1>1, <1>10 DEF Stepped, oo, x

-----------------------------------------------------------------------------
(***************************************************************************)
(* The inductive invariant.  Until something slips: the code is a thinning *)
(* of what was given, as it was but for constants where the pass has not   *)
(* ended a block; what waits to be deleted is not used; and the tables say *)
(* what every run to this instruction has in the cells.                    *)
(***************************************************************************)
TypeInv ==
  /\ func_ \in Functions /\ pc \in {"run", "crash", "done"}
  /\ at \in 1..(Len(func_.blocks) + 1) /\ ip \in Nat \ {0}
  /\ DOMAIN code = Block
  /\ pc = "crash" => at <= Len(func_.blocks)

Ahead(b) == \A n \in 1..(at - 1) : func_.blocks[n] # b
CodeIsThinned ==
  \A b \in Block : (\E m : Thinned(func_, code, b, m)) /\ (Ahead(b) => SameBlock(func_, code, b))
WaitingIsUnused ==
  \A v \in wait_delete :
    /\ ~Uses(code, v)
    /\ \E k \in 1..Len(func_.code[bb]) : func_.code[bb][k].id = v /\ Folded(func_.code[bb][k].op)
TablesHaveKinds ==
  /\ Kinds(func_, ConstantInt_var_list, FALSE, "i32") /\ Kinds(func_, ConstantFP_var_list, FALSE, "float")
  /\ Kinds(func_, global_int_list, TRUE, "i32") /\ Kinds(func_, global_fp_list, TRUE, "float")
TablesHold(k) ==
  /\ HoldsAt(func_, bb, k, ConstantInt_var_list) /\ HoldsAt(func_, bb, k, ConstantFP_var_list)
  /\ HoldsAt(func_, bb, k, global_int_list) /\ HoldsAt(func_, bb, k, global_fp_list)
CrashIsTrap ==
  pc = "crash" => \A in \in Inputs, path \in Routes : Last(path) = bb => RunOf(func_, in, path, ip).ub

Sound ==
  /\ CodeIsThinned /\ WaitingIsUnused /\ TablesHaveKinds
  /\ at <= Len(func_.blocks) => ip <= Len(func_.code[bb]) + 1 /\ TablesHold(ip - 1)
  /\ CrashIsTrap
ConstInv == TypeInv /\ (slips = {} => Sound)

LEMMA EmptyTables ==
  /\ \A f, global, type : Kinds(f, Empty, global, type)
  /\ \A f, b, k : HoldsAt(f, b, k, Empty)
<1>1. DOMAIN Empty = {}
  BY DEF Empty
<1> QED BY <1>1 DEF Kinds, HoldsAt, HoldsIn

LEMMA CurrentBlock ==
  ASSUME TypeInv, at <= Len(func_.blocks)
  PROVE  /\ bb \in Block /\ Ahead(bb)
         /\ \A b \in Block : (\A n \in 1..at : func_.blocks[n] # b) => Ahead(b) /\ b # bb
<1>1. func_.blocks \in Seq(Block) /\ at \in 1..Len(func_.blocks)
  BY FunctionFacts DEF TypeInv
<1>2. bb \in Block
  BY <1>1 DEF bb
<1>3. ASSUME NEW n \in 1..(at - 1) PROVE func_.blocks[n] # func_.blocks[at]
  <2>1. n \in 1..Len(func_.blocks) /\ n # at
    BY <1>1
  <2>2. \A l, r \in 1..Len(func_.blocks) : func_.blocks[l] = func_.blocks[r] => l = r
    BY FunctionsAssumption DEF TypeInv, WellFormed
  <2> QED BY <1>1, <2>1, <2>2
<1>4. ASSUME NEW b \in Block, \A n \in 1..at : func_.blocks[n] # b PROVE Ahead(b) /\ b # bb
  <2>1. at \in 1..at /\ \A n \in 1..(at - 1) : n \in 1..at
    BY <1>1
  <2> QED BY <1>4, <2>1 DEF Ahead, bb
<1> QED BY <1>2, <1>3, <1>4 DEF Ahead, bb

LEMMA CurrentInstruction ==
  ASSUME TypeInv, Sound, Running
  PROVE  /\ func_ \in Functions /\ bb \in Block /\ ip \in 1..Len(func_.code[bb])
         /\ Version(func_, instr, func_.code[bb][ip]) /\ Typed(func_, func_.code[bb][ip])
         /\ TablesHold(ip - 1)
<1>1. /\ pc = "run" /\ at <= Len(func_.blocks) /\ ip <= Len(code[bb]) /\ func_ \in Functions /\ ip \in Nat \ {0}
  BY DEF Running, TypeInv
<1>2. bb \in Block /\ Ahead(bb)
  BY <1>1, CurrentBlock
<1>3. SameBlock(func_, code, bb)
  BY <1>2 DEF Sound, CodeIsThinned
<1>4. ip \in 1..Len(func_.code[bb])
  <2>1. Len(func_.code[bb]) \in Nat
    BY <1>1, <1>2, FunctionFacts DEF IsCode
  <2> QED BY <1>1, <1>3, <2>1 DEF SameBlock
<1>5. Version(func_, instr, func_.code[bb][ip])
  BY <1>3, <1>4 DEF SameBlock, instr
<1>6. Typed(func_, func_.code[bb][ip])
  BY <1>1, <1>2, <1>4, TypedFacts
<1>7. TablesHold(ip - 1)
  BY <1>1 DEF Sound
<1> QED BY <1>1, <1>2, <1>4, <1>5, <1>6, <1>7

\* An instruction that stays.
LEMMA KeepSound ==
  ASSUME TypeInv, Sound, Running, Keep, Advance, TablesHaveKinds',
         HoldsAt(func_, bb, ip, ConstantInt_var_list') /\ HoldsAt(func_, bb, ip, ConstantFP_var_list'),
         HoldsAt(func_, bb, ip, global_int_list') /\ HoldsAt(func_, bb, ip, global_fp_list')
  PROVE  (TypeInv /\ Sound)'
<1>1. /\ func_ \in Functions /\ bb \in Block /\ ip \in 1..Len(func_.code[bb])
  BY CurrentInstruction
<1>2. /\ ip' = ip + 1 /\ func_' = func_ /\ pc' = pc /\ at' = at /\ code' = code /\ wait_delete' = wait_delete
      /\ pc = "run" /\ at <= Len(func_.blocks)
  BY DEF Advance, Keep, Running
<1>3. bb' = bb
  BY <1>2 DEF bb
<1>4. TypeInv'
  BY <1>2 DEF TypeInv
<1>5. CodeIsThinned'
  BY <1>2 DEF Sound, CodeIsThinned, Ahead
<1>6. WaitingIsUnused'
  BY <1>2, <1>3 DEF Sound, WaitingIsUnused
<1>7. ip' <= Len(func_.code[bb]) + 1
  BY <1>1, <1>2, FunctionFacts DEF IsCode
<1>8. TablesHold(ip - 1)'
  <2>1. ip' - 1 = ip
    BY <1>1, <1>2
  <2> QED BY <1>2, <1>3, <2>1 DEF TablesHold
<1>9. CrashIsTrap'
  BY <1>2 DEF CrashIsTrap
<1> QED BY <1>2, <1>3, <1>4, <1>5, <1>6, <1>7, <1>8, <1>9 DEF Sound

\* An instruction that is replaced by a constant.
LEMMA ReplaceSound ==
  ASSUME TypeInv, Sound, Running, Folded(instr.op), NEW c, IsLiteral(c),
         IsFloat(func_, c) = IsFloat(func_, instr.id), Known(func_, instr.id, c),
         ReplaceBy(c), Advance, UNCHANGED <<locals, globals>>
  PROVE  (TypeInv /\ Sound)'
<1> DEFINE v == instr.id
           i == func_.code[bb][ip]
<1>1. /\ func_ \in Functions /\ bb \in Block /\ ip \in 1..Len(func_.code[bb])
      /\ Version(func_, instr, i) /\ TablesHold(ip - 1)
  BY CurrentInstruction
<1>2. /\ ip' = ip + 1 /\ func_' = func_ /\ pc' = pc /\ at' = at
      /\ wait_delete' = wait_delete \cup {v} /\ code' = Substitute(c)
      /\ pc = "run" /\ at <= Len(func_.blocks)
  BY DEF Advance, ReplaceBy, Running
<1>3. bb' = bb
  BY <1>2 DEF bb
<1>4. i.id = v /\ i.op = instr.op /\ Folded(i.op)
  BY <1>1 DEF Version
<1>5. v \in func_.ids
  BY <1>1, <1>4, TypedFacts
<1>6. i.op \notin {"store", "call"}
  BY <1>4 DEF Folded, Computes, IntOp, FloatOp, CmpOp, CastOp
<1>7. code' = [b \in Block |-> [k \in 1..Len(code[b]) |-> Replaced(code[b][k], v, c)]]
  BY <1>2 DEF Substitute, Replaced
<1>8. \A b \in Block : \E m : Thinned(func_, code, b, m)
  BY DEF Sound, CodeIsThinned
<1>9. IsFloat(func_, c) = IsFloat(func_, v) /\ Known(func_, v, c)
  OBVIOUS
<1> HIDE DEF v, i
<1>10. Substituted(func_, code, code', v)
  <2> DEFINE d == code'
  <2>1. d = [b \in Block |-> [k \in 1..Len(code[b]) |-> Replaced(code[b][k], v, c)]]
    BY <1>7
  <2> HIDE DEF d
  <2>2. Substituted(func_, code, d, v)
    BY <1>1, <1>5, <1>8, <1>9, <2>1, SubstituteKeeps
  <2> QED BY <2>2 DEF d
<1>11. TypeInv'
  BY <1>2, <1>7 DEF TypeInv
<1>12. CodeIsThinned'
  <2>1. \A b \in Block : Ahead(b)' = Ahead(b)
    BY <1>2 DEF Ahead
  <2>2. ASSUME NEW b \in Block
        PROVE  (\E m : Thinned(func_, code', b, m)) /\ (Ahead(b) => SameBlock(func_, code', b))
    BY <1>10 DEF Sound, CodeIsThinned, Substituted
  <2> QED BY <1>2, <2>1, <2>2 DEF CodeIsThinned
<1>13. WaitingIsUnused'
  <2>1. ASSUME NEW w \in wait_delete'
        PROVE  /\ ~Uses(code', w)
               /\ \E k \in 1..Len(func_.code[bb]) : func_.code[bb][k].id = w /\ Folded(func_.code[bb][k].op)
    <3>1. CASE w = v
      BY <1>1, <1>4, <1>10, <3>1 DEF i, Substituted
    <3>2. CASE w # v
      <4>1. w \in wait_delete
        BY <1>2, <3>2
      <4>2. /\ ~Uses(code, w)
            /\ \E k \in 1..Len(func_.code[bb]) : func_.code[bb][k].id = w /\ Folded(func_.code[bb][k].op)
        BY <4>1 DEF Sound, WaitingIsUnused
      <4>3. w \in func_.ids
        BY <1>1, <4>2, TypedFacts
      <4> QED BY <1>10, <4>2, <4>3 DEF Substituted
    <3> QED BY <3>1, <3>2
  <2> QED BY <1>2, <1>3, <2>1 DEF WaitingIsUnused
<1>14. TablesHaveKinds'
  BY <1>2 DEF Sound, TablesHaveKinds, locals, globals
<1>15. ip' <= Len(func_.code[bb]) + 1
  BY <1>1, <1>2, FunctionFacts DEF IsCode
<1>16. TablesHold(ip - 1)'
  <2>1. ip' - 1 = ip
    BY <1>1, <1>2
  <2>2. /\ HoldsAt(func_, bb, ip, ConstantInt_var_list) /\ HoldsAt(func_, bb, ip, ConstantFP_var_list)
        /\ HoldsAt(func_, bb, ip, global_int_list) /\ HoldsAt(func_, bb, ip, global_fp_list)
    BY <1>1, <1>6, UntouchedHolds DEF TablesHold, i
  <2> QED BY <1>2, <1>3, <2>1, <2>2 DEF TablesHold, locals, globals
<1>17. CrashIsTrap'
  BY <1>2 DEF CrashIsTrap
<1> QED BY <1>2, <1>3, <1>11, <1>12, <1>13, <1>14, <1>15, <1>16, <1>17 DEF Sound

LEMMA AllLiteral ==
  ASSUME AllInt \/ AllFP
  PROVE  \A m \in 1..Len(instr.args) : IsLiteral(instr.args[m])
BY DEF AllInt, AllFP, IsInt, IsFP, IsLiteral

\* What an operation on constants computes, from what the fold makes of it.
LEMMA ComputedSound ==
  ASSUME TypeInv, Sound, Running, Computes(instr.op), AllInt \/ AllFP, NEW c, IsLiteral(c),
         IsFloat(func_, c) = IsFloat(func_, instr.id),
         Agrees(c, Result(instr.op, [m \in 1..Len(instr.args) |-> instr.args[m]])),
         ReplaceBy(c), Advance, UNCHANGED <<locals, globals>>
  PROVE  (TypeInv /\ Sound)'
<1>1. /\ func_ \in Functions /\ bb \in Block /\ ip \in 1..Len(func_.code[bb])
      /\ Version(func_, instr, func_.code[bb][ip])
  BY CurrentInstruction
<1>2. \A m \in 1..Len(instr.args) : IsLiteral(instr.args[m])
  BY AllLiteral
<1>3. Known(func_, instr.id, c)
  BY <1>1, <1>2, FoldKnown
<1>4. Folded(instr.op)
  BY DEF Folded
<1> QED BY <1>3, <1>4, ReplaceSound

\* The kinds of the operands and of what is computed.
LEMMA CurrentKinds ==
  ASSUME TypeInv, Sound, Running
  PROVE  /\ instr.op \in IntOp \cup FloatOp \cup CmpOp => Len(instr.args) = 2
         /\ instr.op \in CastOp \cup {"zext", "store", "output"} => Len(instr.args) = 1
         /\ instr.op \in IntOp \cup CmpOp \cup {"fptosi", "zext"} => ~IsFloat(func_, instr.id)
         /\ instr.op \in FloatOp \cup {"sitofp"} => IsFloat(func_, instr.id)
         /\ instr.op \in CastOp => IsFloat(func_, instr.args[1]) = (instr.op = "fptosi")
         /\ instr.op \in {"load", "store"} => instr.loc \in DOMAIN func_.cellOf
         /\ instr.op = "load" => IsFloat(func_, instr.id) = (func_.type[instr.loc] = "float")
         /\ instr.op = "store" => IsFloat(func_, instr.args[1]) = (func_.type[instr.loc] = "float")
<1> DEFINE i == func_.code[bb][ip]
           j == instr
<1>1. Version(func_, j, i) /\ Typed(func_, i)
  BY CurrentInstruction
<1> HIDE DEF i, j
<1>2. j.op = i.op /\ j.id = i.id /\ j.loc = i.loc /\ Len(j.args) = Len(i.args)
  BY <1>1 DEF Version
<1>3. Len(i.args) = 1 => IsFloat(func_, j.args[1]) = IsFloat(func_, i.args[1])
  BY <1>1 DEF Version, Stands
<1>4. /\ i.op \in IntOp \cup FloatOp \cup CmpOp => Len(i.args) = 2
      /\ i.op \in CastOp \cup {"zext", "store", "output"} => Len(i.args) = 1
      /\ i.op \in IntOp \cup CmpOp \cup {"fptosi", "zext"} => ~IsFloat(func_, i.id)
      /\ i.op \in FloatOp \cup {"sitofp"} => IsFloat(func_, i.id)
      /\ i.op \in CastOp => IsFloat(func_, i.args[1]) = (i.op = "fptosi")
      /\ i.op \in {"load", "store"} => i.loc \in DOMAIN func_.cellOf
      /\ i.op = "load" => IsFloat(func_, i.id) = (func_.type[i.loc] = "float")
      /\ i.op = "store" => IsFloat(func_, i.args[1]) = (func_.type[i.loc] = "float")
  BY <1>1 DEF Typed
<1>5. /\ j.op \in IntOp \cup FloatOp \cup CmpOp => Len(j.args) = 2
      /\ j.op \in CastOp \cup {"zext", "store", "output"} => Len(j.args) = 1
      /\ j.op \in IntOp \cup CmpOp \cup {"fptosi", "zext"} => ~IsFloat(func_, j.id)
      /\ j.op \in FloatOp \cup {"sitofp"} => IsFloat(func_, j.id)
      /\ j.op \in {"load", "store"} => j.loc \in DOMAIN func_.cellOf
      /\ j.op = "load" => IsFloat(func_, j.id) = (func_.type[j.loc] = "float")
  BY <1>2, <1>4
<1>6. j.op \in CastOp => IsFloat(func_, j.args[1]) = (j.op = "fptosi")
  BY <1>2, <1>3, <1>4
<1>7. j.op = "store" => IsFloat(func_, j.args[1]) = (func_.type[j.loc] = "float")
  BY <1>2, <1>3, <1>4
<1> QED BY <1>5, <1>6, <1>7 DEF j

\* A literal is an int or a float.
LEMMA LiteralKinds ==
  ASSUME NEW f, NEW x
  PROVE  /\ IsInt(x) <=> IsLiteral(x) /\ ~IsFloat(f, x)
         /\ IsFP(x) <=> IsLiteral(x) /\ IsFloat(f, x)
BY DEF IsInt, IsFP, IsLiteral, IsFloat

LEMMA BinarySound ==
  ASSUME TypeInv, Sound, FoldBinary
  PROVE  (TypeInv /\ Sound)'
<1> DEFINE a == instr.args[1]
           b == instr.args[2]
           op == instr.op
<1>1. /\ Running /\ op \in IntOp \cup FloatOp /\ (AllInt \/ AllFP)
      /\ UNCHANGED <<locals, globals>>
  BY DEF FoldBinary
<1>2. /\ func_ \in Functions /\ bb \in Block /\ ip \in 1..Len(func_.code[bb])
      /\ Version(func_, instr, func_.code[bb][ip])
  BY <1>1, CurrentInstruction
<1>3. /\ Len(instr.args) = 2
      /\ op \in IntOp => ~IsFloat(func_, instr.id)
      /\ op \in FloatOp => IsFloat(func_, instr.id)
  BY <1>1, CurrentKinds
<1>4. CASE Traps(op, a[2], b[2])
  <2>1. pc' = "crash" /\ Keep /\ UNCHANGED <<func_, at, ip>>
    BY <1>4 DEF FoldBinary
  <2>2. /\ code' = code /\ wait_delete' = wait_delete /\ func_' = func_ /\ at' = at /\ ip' = ip /\ bb' = bb
        /\ at <= Len(func_.blocks)
    BY <1>1, <2>1 DEF Keep, bb, Running
  <2>3. \A m \in 1..Len(instr.args) : IsLiteral(instr.args[m])
    BY <1>1, AllLiteral
  <2>4. \A in \in Inputs, path \in Routes : Last(path) = bb => RunOf(func_, in, path, ip).ub
    BY <1>2, <1>4, <2>3, TrapCertain
  <2>5. CrashIsTrap'
    BY <2>2, <2>4 DEF CrashIsTrap
  <2>6. TypeInv'
    BY <2>1, <2>2 DEF TypeInv
  <2>7. CodeIsThinned' /\ WaitingIsUnused'
    BY <2>2 DEF Sound, CodeIsThinned, Ahead, WaitingIsUnused
  <2>8. TablesHaveKinds'
    BY <1>1, <2>2 DEF Sound, TablesHaveKinds, locals, globals
  <2>9. (at <= Len(func_.blocks) => ip <= Len(func_.code[bb]) + 1 /\ TablesHold(ip - 1))'
    BY <1>1, <2>2 DEF Sound, TablesHold, locals, globals
  <2> QED BY <2>5, <2>6, <2>7, <2>8, <2>9 DEF Sound
<1>5. CASE ~Traps(op, a[2], b[2])
  <2> DEFINE c == computeBinary(op, a, b)
             x == [m \in 1..Len(instr.args) |-> instr.args[m]]
  <2>1. ReplaceBy(c) /\ Advance
    BY <1>5 DEF FoldBinary
  <2>2. x[1] = a /\ x[2] = b
    BY <1>3
  <2>3. Computes(op)
    BY <1>1 DEF Computes
  <2> HIDE DEF a, b, x
  <2>4. IsLiteral(c) /\ IsFloat(func_, c) = IsFloat(func_, instr.id)
    <3> HIDE DEF op
    <3>1. op \in IntOp => op \notin FloatOp
      BY DEF IntOp, FloatOp
    <3> QED BY <1>1, <1>3, <3>1 DEF computeBinary, IsLiteral, IsFloat, op
  <2>5. c = Result(op, x)
    <3> HIDE DEF op
    <3>1. CASE op \in IntOp
      <4>1. Result(op, x) = <<"i32", Arithmetic(op, x[1][2], x[2][2])>>
        BY <3>1 DEF Result, IntOp, FloatOp, CmpOp
      <4> QED BY <2>2, <3>1, <4>1 DEF computeBinary
    <3>2. CASE op \in FloatOp
      <4>1. Result(op, x) = <<"float", Arithmetic(op, x[1][2], x[2][2])>> /\ op \notin IntOp
        BY <3>2 DEF Result, IntOp, FloatOp, CmpOp
      <4> QED BY <2>2, <4>1 DEF computeBinary
    <3> QED BY <1>1, <3>1, <3>2 DEF op
  <2> HIDE DEF c
  <2>6. Agrees(c, Result(instr.op, [m \in 1..Len(instr.args) |-> instr.args[m]]))
    BY <2>5 DEF Agrees, x
  <2> QED BY <1>1, <2>1, <2>3, <2>4, <2>6, ComputedSound
<1> QED BY <1>4, <1>5

LEMMA CompareSound ==
  ASSUME TypeInv, Sound, FoldCompare, slips = {}, slips' = {}
  PROVE  (TypeInv /\ Sound)'
<1> DEFINE a == instr.args[1]
           b == instr.args[2]
           op == instr.op
           c == computeCMP(op, a, b)
           x == [m \in 1..Len(instr.args) |-> instr.args[m]]
<1>1. /\ Running /\ op \in CmpOp /\ (AllInt \/ AllFP) /\ ReplaceBy(c) /\ Advance
      /\ UNCHANGED <<locals, globals>>
  BY DEF FoldCompare
<1>2. Len(instr.args) = 2 /\ ~IsFloat(func_, instr.id)
  BY <1>1, CurrentKinds
<1>3. x[1] = a /\ x[2] = b
  BY <1>2
<1>4. Computes(op)
  BY <1>1 DEF Computes
<1>5. Compare(op, a[2], b[2]) = Compare(op, RoundFloat(a[2]), RoundFloat(b[2]))
  <2> DEFINE differ == Compare(op, a[2], b[2]) # Compare(op, RoundFloat(a[2]), RoundFloat(b[2]))
  <2>1. slips' = IF differ THEN slips \cup {"rounded"} ELSE slips
    BY DEF FoldCompare
  <2> HIDE DEF differ
  <2>2. ~differ
    BY <2>1
  <2> QED BY <2>2 DEF differ
<1> HIDE DEF a, b, x
<1>6. IsLiteral(c) /\ IsFloat(func_, c) = IsFloat(func_, instr.id)
  BY <1>2 DEF computeCMP, Bit, IsLiteral, IsFloat
<1>7. c = Result(op, x)
  <2> HIDE DEF op
  <2>1. Result(op, x) = Bit(Compare(op, x[1][2], x[2][2]))
    BY <1>1 DEF Result, IntOp, FloatOp, CmpOp, op
  <2> QED BY <1>3, <1>5, <2>1 DEF computeCMP
<1> HIDE DEF c
<1>8. Agrees(c, Result(instr.op, [m \in 1..Len(instr.args) |-> instr.args[m]]))
  BY <1>7 DEF Agrees, x
<1> QED BY <1>1, <1>4, <1>6, <1>8, ComputedSound

LEMMA CastSound ==
  ASSUME TypeInv, Sound, FoldCast
  PROVE  (TypeInv /\ Sound)'
<1> DEFINE a == instr.args[1]
           op == instr.op
           x == [m \in 1..Len(instr.args) |-> instr.args[m]]
<1>1. /\ Running /\ op \in CastOp /\ (AllInt \/ AllFP) /\ Advance
      /\ UNCHANGED <<locals, globals>>
  BY DEF FoldCast
<1>2. PICK c \in Converted(op, a) : ReplaceBy(c)
  BY DEF FoldCast
<1>3. /\ Len(instr.args) = 1 /\ IsFloat(func_, a) = (op = "fptosi")
      /\ IsFloat(func_, instr.id) = (op = "sitofp")
  <2>1. op \in {"sitofp", "fptosi"}
    BY <1>1 DEF CastOp
  <2>2. IsFloat(func_, instr.id) \in BOOLEAN
    BY DEF IsFloat
  <2> QED BY <1>1, <2>1, <2>2, CurrentKinds
<1>4. x[1] = a /\ IsLiteral(a)
  BY <1>1, <1>3, AllLiteral
<1>5. Computes(op)
  BY <1>1 DEF Computes
<1>6. op \in {"sitofp", "fptosi"}
  BY <1>1 DEF CastOp
<1> HIDE DEF a, x
<1>7. IsLiteral(c) /\ IsFloat(func_, c) = IsFloat(func_, instr.id) /\ Agrees(c, Result(op, x))
  <2> HIDE DEF op
  <2>1. CASE op = "sitofp"
    <3>1. IsInt(a)
      BY <1>3, <1>4, <2>1, LiteralKinds
    <3>2. c = <<"float", RoundFloat(a[2])>>
      BY <3>1 DEF Converted
    <3>3. Result(op, x) = <<"float", RoundFloat(x[1][2])>>
      BY <2>1 DEF Result, IntOp, FloatOp, CmpOp
    <3>4. IsFloat(func_, instr.id)
      BY <1>3, <2>1 DEF op
    <3>5. IsFloat(func_, c) = TRUE
      BY <3>2 DEF IsFloat
    <3>6. IsFloat(func_, instr.id) = TRUE
      BY <3>4 DEF IsFloat
    <3> QED BY <1>4, <3>2, <3>3, <3>5, <3>6 DEF IsLiteral, Agrees
  <2>2. CASE op = "fptosi"
    <3>1. ~IsInt(a)
      BY <1>3, <1>4, <2>2, LiteralKinds
    <3>2. Result(op, x) = IF x[1][2] \in IntRange THEN <<"i32", x[1][2]>> ELSE Undef
      BY <2>2 DEF Result, IntOp, FloatOp, CmpOp
    <3>3. c \in (IF a[2] \in IntRange THEN {<<"i32", a[2]>>} ELSE {<<"i32", n>> : n \in IntRange})
      BY <3>1 DEF Converted
    <3> DEFINE fits == a[2] \in IntRange
    <3>4. fits => c = <<"i32", a[2]>>
      BY <3>3
    <3>5. ~fits => \E n : c = <<"i32", n>>
      BY <3>3
    <3>6. c[1] = "i32"
      BY <3>4, <3>5
    <3>7. Agrees(c, Result(op, x))
      <4> HIDE DEF fits
      <4> QED BY <1>4, <3>2, <3>4 DEF Agrees, fits
    <3>8. IsFloat(func_, c) = FALSE
      BY <3>6 DEF IsFloat
    <3>9. IsFloat(func_, instr.id) = FALSE
      BY <1>3, <2>2 DEF op, IsFloat
    <3> QED BY <3>6, <3>7, <3>8, <3>9 DEF IsLiteral
  <2> QED BY <1>6, <2>1, <2>2 DEF op
<1>8. Agrees(c, Result(instr.op, [m \in 1..Len(instr.args) |-> instr.args[m]]))
  BY <1>7 DEF x
<1> QED BY <1>1, <1>2, <1>5, <1>7, <1>8, ComputedSound

LEMMA ZextSound ==
  ASSUME TypeInv, Sound, FoldZext
  PROVE  (TypeInv /\ Sound)'
<1> DEFINE c == <<"i32", instr.args[1][2]>>
           x == [m \in 1..Len(instr.args) |-> instr.args[m]]
<1>1. /\ Running /\ instr.op = "zext" /\ AllInt /\ ReplaceBy(c) /\ Advance
      /\ UNCHANGED <<locals, globals>>
  BY DEF FoldZext
<1>2. Len(instr.args) = 1 /\ ~IsFloat(func_, instr.id)
  BY <1>1, CurrentKinds
<1>3. x[1] = instr.args[1]
  BY <1>2
<1>4. Computes(instr.op)
  BY <1>1 DEF Computes
<1> HIDE DEF x
<1>5. IsLiteral(c) /\ IsFloat(func_, c) = IsFloat(func_, instr.id)
  BY <1>2 DEF IsLiteral, IsFloat
<1>6. c = Result(instr.op, x)
  <2>1. Result(instr.op, x) = <<"i32", x[1][2]>>
    BY <1>1 DEF Result, IntOp, FloatOp, CmpOp
  <2> QED BY <1>3, <2>1
<1> HIDE DEF c
<1>7. Agrees(c, Result(instr.op, [m \in 1..Len(instr.args) |-> instr.args[m]]))
  BY <1>6 DEF Agrees, x
<1> QED BY <1>1, <1>4, <1>5, <1>7, ComputedSound

\* A table after a store: the pointer's entry is what is stored, if it has one.
Updates(new, list, global, type) ==
  \A q \in DOMAIN new :
    IF q = instr.loc
    THEN /\ IsLiteral(instr.args[1]) /\ IsFloat(func_, instr.args[1]) = (type = "float")
         /\ IsGlobal(instr.loc) = global /\ new[q] = instr.args[1]
    ELSE q \in DOMAIN list /\ new[q] = list[q]

LEMMA StoreSound ==
  ASSUME TypeInv, Sound, Running, instr.op = "store", NEW list, NEW global, NEW type \in {"i32", "float"},
         Kinds(func_, list, global, type), HoldsAt(func_, bb, ip - 1, list),
         NEW new, Updates(new, list, global, type)
  PROVE  Kinds(func_, new, global, type) /\ HoldsAt(func_, bb, ip, new)
<1> DEFINE i == func_.code[bb][ip]
           j == instr
           y == j.args[1]
<1>1. /\ func_ \in Functions /\ bb \in Block /\ ip \in 1..Len(func_.code[bb]) /\ Version(func_, j, i)
  BY CurrentInstruction
<1>2. /\ j.loc \in DOMAIN func_.cellOf /\ IsFloat(func_, y) = (func_.type[j.loc] = "float")
  BY CurrentKinds
<1>3. func_.type[j.loc] \in {"i32", "float"}
  BY <1>1, <1>2, PointerFacts
<1>4. i.op = "store" /\ i.loc = j.loc /\ i \in InstrsOf(func_.code)
  BY <1>1, TypedFacts DEF Version
<1>5. \A q \in DOMAIN new :
        IF q = j.loc
        THEN IsLiteral(y) /\ IsFloat(func_, y) = (type = "float") /\ IsGlobal(j.loc) = global /\ new[q] = y
        ELSE q \in DOMAIN list /\ new[q] = list[q]
  BY DEF Updates
<1> HIDE DEF i, j, y
<1>6. j.loc \in Accessed(func_, "store")
  BY <1>4 DEF Accessed
<1>7. ASSUME NEW p \in DOMAIN new
      PROVE  /\ p \in DOMAIN func_.cellOf /\ p \in Accessed(func_, "store")
             /\ IsGlobal(p) = global /\ func_.type[p] = type
             /\ IsLiteral(new[p]) /\ IsFloat(func_, new[p]) = (type = "float")
  <2>1. CASE p = j.loc
    <3>1. /\ IsLiteral(y) /\ IsFloat(func_, y) = (type = "float") /\ IsGlobal(j.loc) = global /\ new[p] = y
      BY <1>5, <2>1
    <3>2. func_.type[p] = type
      BY <1>2, <1>3, <2>1, <3>1
    <3> QED BY <1>2, <1>6, <2>1, <3>1, <3>2
  <2>2. CASE p # j.loc
    <3>1. p \in DOMAIN list /\ new[p] = list[p]
      BY <1>5, <2>2
    <3> QED BY <3>1 DEF Kinds
  <2> QED BY <2>1, <2>2
<1>8. Kinds(func_, new, global, type)
  BY <1>7 DEF Kinds
<1>9. \A q \in DOMAIN new : IF q = j.loc THEN IsLiteral(j.args[1]) /\ new[q] = j.args[1]
                            ELSE q \in DOMAIN list /\ new[q] = list[q]
  BY <1>5 DEF y
<1>10. HoldsAt(func_, bb, ip, new)
  BY <1>1, <1>4, <1>9, StoreHolds DEF i
<1> QED BY <1>8, <1>10

LEMMA StoreGlobalSound ==
  ASSUME TypeInv, Sound, StoreGlobal
  PROVE  (TypeInv /\ Sound)'
<1> DEFINE v == instr.args[1]
           g == instr.loc
<1>1. /\ Running /\ instr.op = "store" /\ IsGlobal(g) = TRUE /\ Keep /\ Advance
      /\ UNCHANGED <<locals, slips>>
  BY DEF StoreGlobal, IsStore
<1>2. /\ global_int_list' = IF IsInt(v) THEN With(global_int_list, g, v)
                            ELSE IF ~IsFP(v) /\ func_.type[g] = "i32"
                            THEN Except(global_int_list, g) ELSE global_int_list
      /\ global_fp_list'  = IF IsFP(v) THEN With(global_fp_list, g, v)
                            ELSE IF ~IsInt(v) /\ func_.type[g] = "float"
                            THEN Except(global_fp_list, g) ELSE global_fp_list
  BY DEF StoreGlobal
<1>3. /\ g \in DOMAIN func_.cellOf /\ IsFloat(func_, v) = (func_.type[g] = "float")
  BY <1>1, CurrentKinds
<1>4. func_ \in Functions /\ TablesHold(ip - 1)
  BY <1>1, CurrentInstruction
<1>5. /\ IsInt(v) <=> IsLiteral(v) /\ ~IsFloat(func_, v)
      /\ IsFP(v) <=> IsLiteral(v) /\ IsFloat(func_, v)
      /\ IsFloat(func_, v) \in BOOLEAN
  BY LiteralKinds DEF IsFloat
<1>6. ConstantInt_var_list' = ConstantInt_var_list /\ ConstantFP_var_list' = ConstantFP_var_list
  BY <1>1 DEF locals
<1>7. /\ Kinds(func_, ConstantInt_var_list, FALSE, "i32") /\ Kinds(func_, ConstantFP_var_list, FALSE, "float")
      /\ Kinds(func_, global_int_list, TRUE, "i32") /\ Kinds(func_, global_fp_list, TRUE, "float")
  BY DEF Sound, TablesHaveKinds
<1> DEFINE T(list, new, global, type) == Kinds(func_, new, global, type) /\ HoldsAt(func_, bb, ip, new)
<1>8. T(ConstantInt_var_list, ConstantInt_var_list', FALSE, "i32")
  <2>1. Updates(ConstantInt_var_list, ConstantInt_var_list, FALSE, "i32")
    BY <1>1, <1>7 DEF Updates, Kinds
  <2> QED BY <1>1, <1>4, <1>6, <1>7, <2>1, StoreSound DEF TablesHold
<1>9. T(ConstantFP_var_list, ConstantFP_var_list', FALSE, "float")
  <2>1. Updates(ConstantFP_var_list, ConstantFP_var_list, FALSE, "float")
    BY <1>1, <1>7 DEF Updates, Kinds
  <2> QED BY <1>1, <1>4, <1>6, <1>7, <2>1, StoreSound DEF TablesHold
<1>10. T(global_int_list, global_int_list', TRUE, "i32")
  <2> DEFINE old == global_int_list
             new == global_int_list'
  <2>1. Updates(new, old, TRUE, "i32")
    <3>1. CASE IsInt(v)
      <4>1. new = With(old, g, v)
        BY <1>2, <3>1
      <4> HIDE DEF new, old
      <4> QED BY <1>1, <1>5, <3>1, <4>1 DEF Updates, With
    <3>2. CASE ~IsInt(v) /\ ~IsFP(v) /\ func_.type[g] = "i32"
      <4>1. new = Except(old, g)
        BY <1>2, <3>2
      <4> HIDE DEF new, old
      <4> QED BY <4>1 DEF Updates, Except
    <3>3. CASE ~IsInt(v) /\ (IsFP(v) \/ func_.type[g] # "i32")
      <4>1. new = old
        BY <1>2, <3>3
      <4>2. func_.type[g] # "i32"
        BY <1>3, <1>5, <3>3
      <4>3. g \notin DOMAIN old
        BY <1>7, <4>2 DEF Kinds
      <4> HIDE DEF new, old
      <4> QED BY <4>1, <4>3 DEF Updates
    <3> QED BY <3>1, <3>2, <3>3
  <2>2. Kinds(func_, old, TRUE, "i32") /\ HoldsAt(func_, bb, ip - 1, old)
    BY <1>4, <1>7 DEF TablesHold
  <2> HIDE DEF new, old
  <2>3. T(old, new, TRUE, "i32")
    BY <1>1, <2>1, <2>2, StoreSound
  <2> QED BY <2>3 DEF new, old
<1>11. T(global_fp_list, global_fp_list', TRUE, "float")
  <2> DEFINE old == global_fp_list
             new == global_fp_list'
  <2>1. Updates(new, old, TRUE, "float")
    <3>1. CASE IsFP(v)
      <4>1. new = With(old, g, v)
        BY <1>2, <3>1
      <4> HIDE DEF new, old
      <4> QED BY <1>1, <1>5, <3>1, <4>1 DEF Updates, With
    <3>2. CASE ~IsFP(v) /\ ~IsInt(v) /\ func_.type[g] = "float"
      <4>1. new = Except(old, g)
        BY <1>2, <3>2
      <4> HIDE DEF new, old
      <4> QED BY <4>1 DEF Updates, Except
    <3>3. CASE ~IsFP(v) /\ (IsInt(v) \/ func_.type[g] # "float")
      <4>1. new = old
        BY <1>2, <3>3
      <4>2. func_.type[g] # "float"
        BY <1>3, <1>5, <3>3
      <4>3. g \notin DOMAIN old
        BY <1>7, <4>2 DEF Kinds
      <4> HIDE DEF new, old
      <4> QED BY <4>1, <4>3 DEF Updates
    <3> QED BY <3>1, <3>2, <3>3
  <2>2. Kinds(func_, old, TRUE, "float") /\ HoldsAt(func_, bb, ip - 1, old)
    BY <1>4, <1>7 DEF TablesHold
  <2> HIDE DEF new, old
  <2>3. T(old, new, TRUE, "float")
    BY <1>1, <2>1, <2>2, StoreSound
  <2> QED BY <2>3 DEF new, old
<1>12. TablesHaveKinds'
  <2>1. func_' = func_
    BY <1>1 DEF Advance
  <2> QED BY <1>8, <1>9, <1>10, <1>11, <2>1 DEF TablesHaveKinds
<1> QED BY <1>1, <1>8, <1>9, <1>10, <1>11, <1>12, KeepSound

LEMMA StoreLocalSound ==
  ASSUME TypeInv, Sound, StoreLocal, slips = {}, slips' = {}
  PROVE  (TypeInv /\ Sound)'
<1> DEFINE v == instr.args[1]
           p == instr.loc
           stale(list) == p \in DOMAIN list /\ list[p] # v
<1>1. /\ Running /\ instr.op = "store" /\ IsGlobal(p) = FALSE /\ Keep /\ Advance
      /\ UNCHANGED globals
  <2>1. IsGlobal(p) \in BOOLEAN
    BY DEF IsGlobal
  <2> QED BY <2>1 DEF StoreLocal, IsStore
<1>2. /\ ConstantInt_var_list' = IF IsInt(v) THEN Insert(ConstantInt_var_list, p, v)
                                 ELSE IF IsFP(v) THEN ConstantInt_var_list
                                 ELSE Forget(ConstantInt_var_list, p)
      /\ ConstantFP_var_list'  = IF IsInt(v) THEN ConstantFP_var_list
                                 ELSE IF IsFP(v) THEN Insert(ConstantFP_var_list, p, v)
                                 ELSE Forget(ConstantFP_var_list, p)
  BY DEF StoreLocal
<1>13. ~(IsInt(v) /\ stale(ConstantInt_var_list)) /\ ~(IsFP(v) /\ stale(ConstantFP_var_list))
  <2> DEFINE any == (IsInt(v) /\ stale(ConstantInt_var_list)) \/ (IsFP(v) /\ stale(ConstantFP_var_list))
  <2>1. slips' = IF any THEN slips \cup {"kept"} ELSE slips
    BY DEF StoreLocal
  <2> HIDE DEF any
  <2>2. ~any
    BY <2>1
  <2> QED BY <2>2 DEF any
<1>3. /\ p \in DOMAIN func_.cellOf /\ IsFloat(func_, v) = (func_.type[p] = "float")
  BY <1>1, CurrentKinds
<1>4. func_ \in Functions /\ TablesHold(ip - 1)
  BY <1>1, CurrentInstruction
<1>5. /\ IsInt(v) <=> IsLiteral(v) /\ ~IsFloat(func_, v)
      /\ IsFP(v) <=> IsLiteral(v) /\ IsFloat(func_, v)
      /\ IsFloat(func_, v) \in BOOLEAN
  BY LiteralKinds DEF IsFloat
<1>6. global_int_list' = global_int_list /\ global_fp_list' = global_fp_list
  BY <1>1 DEF globals
<1>7. /\ Kinds(func_, ConstantInt_var_list, FALSE, "i32") /\ Kinds(func_, ConstantFP_var_list, FALSE, "float")
      /\ Kinds(func_, global_int_list, TRUE, "i32") /\ Kinds(func_, global_fp_list, TRUE, "float")
  BY DEF Sound, TablesHaveKinds
<1> DEFINE T(list, new, global, type) == Kinds(func_, new, global, type) /\ HoldsAt(func_, bb, ip, new)
<1>8. T(global_int_list, global_int_list', TRUE, "i32")
  <2>1. Updates(global_int_list, global_int_list, TRUE, "i32")
    BY <1>1, <1>7 DEF Updates, Kinds
  <2> QED BY <1>1, <1>4, <1>6, <1>7, <2>1, StoreSound DEF TablesHold
<1>9. T(global_fp_list, global_fp_list', TRUE, "float")
  <2>1. Updates(global_fp_list, global_fp_list, TRUE, "float")
    BY <1>1, <1>7 DEF Updates, Kinds
  <2> QED BY <1>1, <1>4, <1>6, <1>7, <2>1, StoreSound DEF TablesHold
<1>10. T(ConstantInt_var_list, ConstantInt_var_list', FALSE, "i32")
  <2> DEFINE old == ConstantInt_var_list
             new == ConstantInt_var_list'
  <2>1. Updates(new, old, FALSE, "i32")
    <3>1. CASE IsInt(v)
      <4>1. new = Insert(old, p, v) /\ ~stale(old)
        BY <1>2, <1>13, <3>1
      <4> HIDE DEF new, old
      <4> QED BY <1>1, <1>5, <3>1, <4>1 DEF Updates, Insert, With
    <3>2. CASE ~IsInt(v) /\ ~IsFP(v)
      <4>1. new = Except(old, p)
        BY <1>2, <3>2 DEF Forget
      <4> HIDE DEF new, old
      <4> QED BY <4>1 DEF Updates, Except
    <3>3. CASE IsFP(v)
      <4>1. ~IsInt(v) /\ func_.type[p] # "i32"
        BY <1>3, <1>5, <3>3
      <4>2. new = old
        BY <1>2, <3>3, <4>1
      <4>3. p \notin DOMAIN old
        BY <1>7, <4>1 DEF Kinds
      <4> HIDE DEF new, old
      <4> QED BY <4>2, <4>3 DEF Updates
    <3> QED BY <3>1, <3>2, <3>3
  <2>2. Kinds(func_, old, FALSE, "i32") /\ HoldsAt(func_, bb, ip - 1, old)
    BY <1>4, <1>7 DEF TablesHold
  <2> HIDE DEF new, old
  <2>3. T(old, new, FALSE, "i32")
    BY <1>1, <2>1, <2>2, StoreSound
  <2> QED BY <2>3 DEF new, old
<1>11. T(ConstantFP_var_list, ConstantFP_var_list', FALSE, "float")
  <2> DEFINE old == ConstantFP_var_list
             new == ConstantFP_var_list'
  <2>1. Updates(new, old, FALSE, "float")
    <3>1. CASE IsFP(v)
      <4>0. ~IsInt(v)
        BY <1>5, <3>1
      <4>1. new = Insert(old, p, v) /\ ~stale(old)
        BY <1>2, <1>13, <3>1, <4>0
      <4> HIDE DEF new, old
      <4> QED BY <1>1, <1>5, <3>1, <4>1 DEF Updates, Insert, With
    <3>2. CASE ~IsInt(v) /\ ~IsFP(v)
      <4>1. new = Except(old, p)
        BY <1>2, <3>2 DEF Forget
      <4> HIDE DEF new, old
      <4> QED BY <4>1 DEF Updates, Except
    <3>3. CASE IsInt(v)
      <4>1. func_.type[p] # "float"
        BY <1>3, <1>5, <3>3
      <4>2. new = old
        BY <1>2, <3>3
      <4>3. p \notin DOMAIN old
        BY <1>7, <4>1 DEF Kinds
      <4> HIDE DEF new, old
      <4> QED BY <4>2, <4>3 DEF Updates
    <3> QED BY <3>1, <3>2, <3>3
  <2>2. Kinds(func_, old, FALSE, "float") /\ HoldsAt(func_, bb, ip - 1, old)
    BY <1>4, <1>7 DEF TablesHold
  <2> HIDE DEF new, old
  <2>3. T(old, new, FALSE, "float")
    BY <1>1, <2>1, <2>2, StoreSound
  <2> QED BY <2>3 DEF new, old
<1>12. TablesHaveKinds'
  <2>1. func_' = func_
    BY <1>1 DEF Advance
  <2> QED BY <1>8, <1>9, <1>10, <1>11, <2>1 DEF TablesHaveKinds
<1> QED BY <1>1, <1>8, <1>9, <1>10, <1>11, <1>12, KeepSound

LEMMA LoadSound ==
  ASSUME TypeInv, Sound, Running, instr.op = "load", Advance, UNCHANGED <<locals, globals>>,
         NEW list, NEW global, NEW type, Kinds(func_, list, global, type),
         HoldsAt(func_, bb, ip - 1, list),
         instr.loc \in DOMAIN list, ReplaceBy(list[instr.loc])
  PROVE  (TypeInv /\ Sound)'
<1> DEFINE i == func_.code[bb][ip]
           j == instr
           c == list[j.loc]
<1>1. /\ func_ \in Functions /\ bb \in Block /\ ip \in 1..Len(func_.code[bb]) /\ Version(func_, j, i)
  BY CurrentInstruction
<1>2. i.op = "load" /\ i.loc = j.loc /\ i.id = j.id
  BY <1>1 DEF Version
<1>3. /\ IsFloat(func_, j.id) = (func_.type[j.loc] = "float")
  BY CurrentKinds
<1>4. IsLiteral(c) /\ IsFloat(func_, c) = (type = "float") /\ func_.type[j.loc] = type
  BY DEF Kinds
<1>5. Known(func_, j.id, c)
  <2>1. Known(func_, i.id, list[i.loc])
    BY <1>1, <1>2, LoadKnown
  <2> QED BY <1>2, <2>1
<1>6. Folded(j.op)
  BY DEF Folded
<1>7. IsFloat(func_, c) = IsFloat(func_, j.id)
  BY <1>3, <1>4
<1>8. ReplaceBy(c) /\ IsLiteral(c) /\ Folded(instr.op) /\ Known(func_, instr.id, c)
      /\ IsFloat(func_, c) = IsFloat(func_, instr.id)
  BY <1>4, <1>5, <1>6, <1>7
<1> HIDE DEF c, i, j
<1> QED BY <1>8, ReplaceSound

\* An instruction that is passed over and touches no cell.
LEMMA QuietSound ==
  ASSUME TypeInv, Sound, Running, instr.op \notin {"store", "call"}, Keep, Advance,
         UNCHANGED <<locals, globals>>
  PROVE  (TypeInv /\ Sound)'
<1>1. /\ func_ \in Functions /\ bb \in Block /\ ip \in 1..Len(func_.code[bb])
      /\ Version(func_, instr, func_.code[bb][ip]) /\ TablesHold(ip - 1)
  BY CurrentInstruction
<1>2. func_.code[bb][ip].op \notin {"store", "call"}
  BY <1>1 DEF Version
<1>3. /\ HoldsAt(func_, bb, ip, ConstantInt_var_list) /\ HoldsAt(func_, bb, ip, ConstantFP_var_list)
      /\ HoldsAt(func_, bb, ip, global_int_list) /\ HoldsAt(func_, bb, ip, global_fp_list)
  BY <1>1, <1>2, UntouchedHolds DEF TablesHold
<1>4. TablesHaveKinds'
  BY DEF Sound, TablesHaveKinds, locals, globals, Advance
<1> QED BY <1>3, <1>4, KeepSound DEF locals, globals

LEMMA LoadGlobalSound ==
  ASSUME TypeInv, Sound, LoadGlobal
  PROVE  (TypeInv /\ Sound)'
<1> DEFINE list == IF func_.type[instr.loc] = "i32" THEN global_int_list ELSE global_fp_list
           type == IF func_.type[instr.loc] = "i32" THEN "i32" ELSE "float"
<1>1. /\ Running /\ instr.op = "load" /\ Advance /\ UNCHANGED <<locals, globals>>
  BY DEF LoadGlobal, IsLoad
<1>2. IF instr.loc \in DOMAIN list THEN ReplaceBy(list[instr.loc]) ELSE Keep
  BY DEF LoadGlobal
<1>3. TablesHold(ip - 1)
  BY <1>1, CurrentInstruction
<1>4. Kinds(func_, list, TRUE, type) /\ HoldsAt(func_, bb, ip - 1, list)
  BY <1>3 DEF Sound, TablesHaveKinds, TablesHold
<1> HIDE DEF list, type
<1>5. CASE instr.loc \in DOMAIN list
  BY <1>1, <1>2, <1>4, <1>5, LoadSound
<1>6. CASE instr.loc \notin DOMAIN list
  BY <1>1, <1>2, <1>6, QuietSound
<1> QED BY <1>5, <1>6

LEMMA LoadLocalSound ==
  ASSUME TypeInv, Sound, LoadLocal
  PROVE  (TypeInv /\ Sound)'
<1>1. /\ Running /\ instr.op = "load" /\ Advance /\ UNCHANGED <<locals, globals>>
  BY DEF LoadLocal, IsLoad
<1>2. IF instr.loc \in DOMAIN ConstantInt_var_list
      THEN ReplaceBy(ConstantInt_var_list[instr.loc])
      ELSE IF instr.loc \in DOMAIN ConstantFP_var_list
      THEN ReplaceBy(ConstantFP_var_list[instr.loc])
      ELSE Keep
  BY DEF LoadLocal
<1>3. TablesHold(ip - 1)
  BY <1>1, CurrentInstruction
<1>4. Kinds(func_, ConstantInt_var_list, FALSE, "i32") /\ HoldsAt(func_, bb, ip - 1, ConstantInt_var_list)
  BY <1>3 DEF Sound, TablesHaveKinds, TablesHold
<1>5. Kinds(func_, ConstantFP_var_list, FALSE, "float") /\ HoldsAt(func_, bb, ip - 1, ConstantFP_var_list)
  BY <1>3 DEF Sound, TablesHaveKinds, TablesHold
<1>6. CASE instr.loc \in DOMAIN ConstantInt_var_list
  <2>1. ReplaceBy(ConstantInt_var_list[instr.loc])
    BY <1>2, <1>6
  <2> QED BY <1>1, <1>4, <1>6, <2>1, LoadSound
<1>7. CASE instr.loc \notin DOMAIN ConstantInt_var_list /\ instr.loc \in DOMAIN ConstantFP_var_list
  <2>1. ReplaceBy(ConstantFP_var_list[instr.loc])
    BY <1>2, <1>7
  <2> QED BY <1>1, <1>5, <1>7, <2>1, LoadSound
<1>8. CASE instr.loc \notin DOMAIN ConstantInt_var_list /\ instr.loc \notin DOMAIN ConstantFP_var_list
  <2>1. Keep
    BY <1>2, <1>8
  <2> QED BY <1>1, <2>1, QuietSound
<1> QED BY <1>6, <1>7, <1>8

LEMMA PassOverSound ==
  ASSUME TypeInv, Sound, PassOver, slips = {}, slips' = {}
  PROVE  (TypeInv /\ Sound)'
<1>1. /\ Running /\ instr.op \notin {"store", "load"} /\ Keep /\ Advance /\ UNCHANGED <<locals, globals>>
  BY DEF PassOver
<1>2. CASE instr.op # "call"
  BY <1>1, <1>2, QuietSound
<1>3. CASE instr.op = "call"
  <2>1. DOMAIN global_int_list = {} /\ DOMAIN global_fp_list = {}
    <3> DEFINE any == DOMAIN global_int_list \cup DOMAIN global_fp_list
    <3>1. slips' = IF instr.op = "call" /\ any # {} THEN slips \cup {"called"} ELSE slips
      BY DEF PassOver
    <3> HIDE DEF any
    <3>2. any = {}
      BY <1>3, <3>1
    <3> QED BY <3>2 DEF any
  <2>2. /\ func_ \in Functions /\ bb \in Block /\ ip \in 1..Len(func_.code[bb])
        /\ Version(func_, instr, func_.code[bb][ip]) /\ TablesHold(ip - 1)
    BY <1>1, CurrentInstruction
  <2>3. func_.code[bb][ip].op = "call"
    BY <1>3, <2>2 DEF Version
  <2>4. TablesHaveKinds
    BY DEF Sound
  <2>5. HoldsAt(func_, bb, ip, ConstantInt_var_list) /\ HoldsAt(func_, bb, ip, ConstantFP_var_list)
    BY <2>2, <2>3, <2>4, CallHolds DEF TablesHold, TablesHaveKinds
  <2>6. HoldsAt(func_, bb, ip, global_int_list) /\ HoldsAt(func_, bb, ip, global_fp_list)
    BY <2>1, <2>2, <2>3, <2>4, CallHolds DEF TablesHold, TablesHaveKinds
  <2>7. TablesHaveKinds'
    BY <1>1, <2>4 DEF TablesHaveKinds, locals, globals, Advance
  <2> QED BY <1>1, <2>5, <2>6, <2>7, KeepSound DEF locals, globals
<1> QED BY <1>2, <1>3

LEMMA EndBlockSound ==
  ASSUME TypeInv, Sound, EndBlock
  PROVE  (TypeInv /\ Sound)'
<1> DEFINE d == [code EXCEPT ![bb] = Kept(code[bb], wait_delete)]
<1>1. /\ pc = "run" /\ at <= Len(func_.blocks) /\ code' = d /\ wait_delete' = {}
      /\ ConstantInt_var_list' = Empty /\ ConstantFP_var_list' = Empty
      /\ global_int_list' = Empty /\ global_fp_list' = Empty
      /\ at' = at + 1 /\ ip' = 1 /\ func_' = func_ /\ pc' = pc
  BY DEF EndBlock, Fresh
<1>2. /\ func_ \in Functions /\ at \in Nat /\ at >= 1 /\ Len(func_.blocks) \in Nat /\ DOMAIN code = Block
  BY FunctionFacts DEF TypeInv
<1>3. /\ bb \in Block /\ Ahead(bb)
      /\ \A b \in Block : (\A n \in 1..at : func_.blocks[n] # b) => Ahead(b) /\ b # bb
  BY <1>1, CurrentBlock
<1>4. SameBlock(func_, code, bb)
  BY <1>3 DEF Sound, CodeIsThinned
<1>5. \A v \in wait_delete :
        /\ ~Uses(code, v)
        /\ \E k \in 1..Len(func_.code[bb]) : func_.code[bb][k].id = v /\ Folded(func_.code[bb][k].op)
  BY DEF Sound, WaitingIsUnused
<1>d. d = [code EXCEPT ![bb] = Kept(code[bb], wait_delete)]
  OBVIOUS
<1> HIDE DEF d
<1>6. Ended(func_, code, d, bb)
  BY <1>2, <1>3, <1>4, <1>5, <1>d, KeptThins
<1>7. TypeInv'
  <2>1. DOMAIN code' = Block
    BY <1>1, <1>2, <1>d
  <2> QED BY <1>1, <1>2, <2>1 DEF TypeInv
<1>8. CodeIsThinned'
  <2>1. ASSUME NEW b \in Block, Ahead(b)' PROVE Ahead(b) /\ b # bb
    <3>1. (at + 1) - 1 = at
      BY <1>2
    <3> QED BY <1>1, <1>3, <2>1, <3>1 DEF Ahead
  <2>2. ASSUME NEW b \in Block
        PROVE  (\E m : Thinned(func_, d, b, m)) /\ (Ahead(b)' => SameBlock(func_, d, b))
    <3>1. (\E m : Thinned(func_, code, b, m)) /\ (Ahead(b) => SameBlock(func_, code, b))
      BY DEF Sound, CodeIsThinned
    <3> QED BY <1>6, <2>1, <3>1 DEF Ended
  <2> QED BY <1>1, <2>2 DEF CodeIsThinned
<1>9. WaitingIsUnused'
  BY <1>1 DEF WaitingIsUnused
<1>10. TablesHaveKinds'
  BY <1>1, EmptyTables DEF TablesHaveKinds
<1>11. (at <= Len(func_.blocks) => ip <= Len(func_.code[bb]) + 1 /\ TablesHold(ip - 1))'
  <2>1. at' <= Len(func_'.blocks) => bb' \in Block
    <3>1. func_.blocks \in Seq(Block)
      BY <1>2, FunctionFacts
    <3> QED BY <1>1, <1>2, <3>1 DEF bb
  <2>2. at' <= Len(func_'.blocks) => ip' <= Len(func_'.code[bb']) + 1
    BY <1>1, <1>2, <2>1, FunctionFacts DEF IsCode
  <2>3. TablesHold(ip - 1)'
    BY <1>1, EmptyTables DEF TablesHold
  <2> QED BY <2>2, <2>3
<1>12. CrashIsTrap'
  BY <1>1 DEF CrashIsTrap
<1> QED BY <1>7, <1>8, <1>9, <1>10, <1>11, <1>12 DEF Sound

LEMMA FinishSound ==
  ASSUME TypeInv, Sound, Finish
  PROVE  (TypeInv /\ Sound)'
<1>1. /\ pc' = "done" /\ func_' = func_ /\ at' = at /\ ip' = ip /\ code' = code /\ wait_delete' = wait_delete
      /\ UNCHANGED <<locals, globals>>
  BY DEF Finish
<1>2. bb' = bb
  BY <1>1 DEF bb
<1>3. TypeInv'
  BY <1>1 DEF TypeInv
<1>4. CodeIsThinned' /\ WaitingIsUnused'
  BY <1>1, <1>2 DEF Sound, CodeIsThinned, Ahead, WaitingIsUnused
<1>5. TablesHaveKinds'
  BY <1>1 DEF Sound, TablesHaveKinds, locals, globals
<1>6. (at <= Len(func_.blocks) => ip <= Len(func_.code[bb]) + 1 /\ TablesHold(ip - 1))'
  BY <1>1, <1>2 DEF Sound, TablesHold, locals, globals
<1>7. CrashIsTrap'
  BY <1>1 DEF CrashIsTrap
<1> QED BY <1>3, <1>4, <1>5, <1>6, <1>7 DEF Sound

-----------------------------------------------------------------------------
(***************************************************************************)
(* The whole pass: every step keeps the invariant, and it gives what the   *)
(* runs check.                                                             *)
(***************************************************************************)
LEMMA StayInBlock ==
  ASSUME TypeInv, Running, func_' = func_, at' = at, pc' \in {"run", "crash"},
         DOMAIN code' = Block, ip' = ip \/ ip' = ip + 1
  PROVE  TypeInv'
<1>1. at <= Len(func_.blocks)
  BY DEF Running
<1> QED BY <1>1 DEF TypeInv

LEMMA SubstituteTypes ==
  ASSUME TypeInv, NEW c, Running, ReplaceBy(c), Advance
  PROVE  TypeInv'
<1>1. DOMAIN code' = Block
  BY DEF ReplaceBy, Substitute
<1>2. func_' = func_ /\ at' = at /\ pc' = "run" /\ ip' = ip + 1
  BY DEF Advance, Running
<1> QED BY <1>1, <1>2, StayInBlock

LEMMA KeepTypes ==
  ASSUME TypeInv, Running, Keep, Advance
  PROVE  TypeInv'
<1>1. DOMAIN code' = Block
  BY DEF Keep, TypeInv
<1>2. func_' = func_ /\ at' = at /\ pc' = "run" /\ ip' = ip + 1
  BY DEF Advance, Running
<1> QED BY <1>1, <1>2, StayInBlock

LEMMA TypeStep ==
  ASSUME TypeInv, [Next]_vars
  PROVE  TypeInv'
<1>1. CASE FoldBinary
  <2>1. Running
    BY <1>1 DEF FoldBinary
  <2>2. \/ pc' = "crash" /\ Keep /\ UNCHANGED <<func_, at, ip>>
        \/ ReplaceBy(computeBinary(instr.op, instr.args[1], instr.args[2])) /\ Advance
    BY <1>1 DEF FoldBinary
  <2>3. CASE pc' = "crash" /\ Keep /\ UNCHANGED <<func_, at, ip>>
    <3>1. DOMAIN code' = Block
      BY <2>3 DEF Keep, TypeInv
    <3> QED BY <2>1, <2>3, <3>1, StayInBlock
  <2> QED BY <2>1, <2>2, <2>3, SubstituteTypes
<1>2. CASE FoldCompare
  <2>1. Running /\ Advance /\ ReplaceBy(computeCMP(instr.op, instr.args[1], instr.args[2]))
    BY <1>2 DEF FoldCompare
  <2> QED BY <2>1, SubstituteTypes
<1>3. CASE FoldCast
  <2>1. PICK c \in Converted(instr.op, instr.args[1]) : ReplaceBy(c)
    BY <1>3 DEF FoldCast
  <2>2. Running /\ Advance
    BY <1>3 DEF FoldCast
  <2> QED BY <2>1, <2>2, SubstituteTypes
<1>4. CASE FoldZext
  <2>1. Running /\ Advance /\ ReplaceBy(<<"i32", instr.args[1][2]>>)
    BY <1>4 DEF FoldZext
  <2> QED BY <2>1, SubstituteTypes
<1>5. CASE StoreGlobal \/ StoreLocal
  <2>1. Running /\ Keep /\ Advance
    BY <1>5 DEF StoreGlobal, StoreLocal, IsStore
  <2> QED BY <2>1, KeepTypes
<1>6. CASE LoadGlobal
  <2> DEFINE list == IF func_.type[instr.loc] = "i32" THEN global_int_list ELSE global_fp_list
  <2>1. Running /\ Advance /\ (ReplaceBy(list[instr.loc]) \/ Keep)
    BY <1>6 DEF LoadGlobal, IsLoad
  <2> HIDE DEF list
  <2> QED BY <2>1, SubstituteTypes, KeepTypes
<1>7. CASE LoadLocal
  <2>1. Running /\ Advance
    BY <1>7 DEF LoadLocal, IsLoad
  <2>2. \/ ReplaceBy(ConstantInt_var_list[instr.loc]) \/ ReplaceBy(ConstantFP_var_list[instr.loc]) \/ Keep
    BY <1>7 DEF LoadLocal
  <2> QED BY <2>1, <2>2, SubstituteTypes, KeepTypes
<1>8. CASE PassOver
  <2>1. Running /\ Keep /\ Advance
    BY <1>8 DEF PassOver
  <2> QED BY <2>1, KeepTypes
<1>9. CASE EndBlock
  <2>1. /\ at <= Len(func_.blocks) /\ at' = at + 1 /\ ip' = 1 /\ func_' = func_ /\ pc' = "run"
        /\ DOMAIN code' = DOMAIN code
    BY <1>9 DEF EndBlock
  <2>2. Len(func_.blocks) \in Nat
    BY FunctionFacts DEF TypeInv
  <2> QED BY <2>1, <2>2 DEF TypeInv
<1>10. CASE Finish
  BY <1>10 DEF Finish, TypeInv
<1>11. CASE UNCHANGED vars
  BY <1>11 DEF vars, TypeInv
<1> QED BY <1>1, <1>2, <1>3, <1>4, <1>5, <1>6, <1>7, <1>8, <1>9, <1>10, <1>11 DEF Next

LEMMA ConstInvInit ==
  ASSUME Init
  PROVE  ConstInv
<1>1. /\ func_ \in Functions /\ pc = "run" /\ at = 1 /\ ip = 1 /\ code = func_.code /\ wait_delete = {}
      /\ ConstantInt_var_list = Empty /\ ConstantFP_var_list = Empty
      /\ global_int_list = Empty /\ global_fp_list = Empty
  BY DEF Init
<1>2. /\ Len(func_.blocks) >= 1 /\ func_.blocks \in Seq(Block) /\ IsCode(func_.code) /\ DOMAIN func_.code = Block
  BY <1>1, FunctionFacts
<1>3. TypeInv
  BY <1>1, <1>2 DEF TypeInv
<1>4. ASSUME NEW b \in Block PROVE SameBlock(func_, code, b) /\ \E m : Thinned(func_, code, b, m)
  <2>1. Len(func_.code[b]) \in Nat
    BY <1>2 DEF IsCode
  <2>3. \A k \in 1..Len(func_.code[b]) : Version(func_, func_.code[b][k], func_.code[b][k])
    BY DEF Version, Stands
  <2> DEFINE m == [k \in 1..Len(func_.code[b]) |-> k]
  <2>4. m \in [1..Len(func_.code[b]) -> 1..Len(func_.code[b])] /\ \A k \in 1..Len(func_.code[b]) : m[k] = k
    OBVIOUS
  <2> HIDE DEF m
  <2>5. \A n \in 1..Len(func_.code[b]) : ~(\A k \in 1..Len(func_.code[b]) : m[k] # n)
    BY <2>4
  <2>6. Thinned(func_, code, b, m)
    BY <1>1, <2>1, <2>3, <2>4, <2>5 DEF Thinned
  <2> QED BY <1>1, <2>3, <2>6 DEF SameBlock
<1>5. CodeIsThinned
  BY <1>4 DEF CodeIsThinned
<1>6. WaitingIsUnused /\ TablesHaveKinds /\ TablesHold(ip - 1)
  BY <1>1, EmptyTables DEF WaitingIsUnused, TablesHaveKinds, TablesHold
<1>7. bb \in Block /\ ip <= Len(func_.code[bb]) + 1
  BY <1>1, <1>2 DEF bb, IsCode
<1>8. CrashIsTrap
  BY <1>1 DEF CrashIsTrap
<1> QED BY <1>3, <1>5, <1>6, <1>7, <1>8 DEF ConstInv, Sound

LEMMA SlipsGrow ==
  ASSUME [Next]_vars, slips' = {}
  PROVE  slips = {}
BY DEF Next, vars, FoldBinary, FoldCompare, FoldCast, FoldZext, StoreGlobal, StoreLocal,
       LoadGlobal, LoadLocal, PassOver, EndBlock, Finish

LEMMA ConstInvStep ==
  ASSUME ConstInv, [Next]_vars
  PROVE  ConstInv'
<1>1. TypeInv'
  BY TypeStep DEF ConstInv
<1>2. ASSUME slips' = {} PROVE Sound'
  <2>1. TypeInv /\ Sound /\ slips = {}
    BY <1>2, SlipsGrow DEF ConstInv
  <2>2. CASE FoldBinary
    BY <2>1, <2>2, BinarySound
  <2>3. CASE FoldCompare
    BY <1>2, <2>1, <2>3, CompareSound
  <2>4. CASE FoldCast
    BY <2>1, <2>4, CastSound
  <2>5. CASE FoldZext
    BY <2>1, <2>5, ZextSound
  <2>6. CASE StoreGlobal
    BY <2>1, <2>6, StoreGlobalSound
  <2>7. CASE StoreLocal
    BY <1>2, <2>1, <2>7, StoreLocalSound
  <2>8. CASE LoadGlobal
    BY <2>1, <2>8, LoadGlobalSound
  <2>9. CASE LoadLocal
    BY <2>1, <2>9, LoadLocalSound
  <2>10. CASE PassOver
    BY <1>2, <2>1, <2>10, PassOverSound
  <2>11. CASE EndBlock
    BY <2>1, <2>11, EndBlockSound
  <2>12. CASE Finish
    BY <2>1, <2>12, FinishSound
  <2>13. CASE UNCHANGED vars
    <3>1. /\ UNCHANGED <<func_, pc, at, ip, code, wait_delete>>
          /\ UNCHANGED <<ConstantInt_var_list, ConstantFP_var_list, global_int_list, global_fp_list>>
      BY <2>13 DEF vars, locals, globals
    <3>2. bb' = bb
      BY <3>1 DEF bb
    <3>3. CodeIsThinned' /\ WaitingIsUnused'
      BY <2>1, <3>1, <3>2 DEF Sound, CodeIsThinned, Ahead, WaitingIsUnused
    <3>4. TablesHaveKinds'
      BY <2>1, <3>1 DEF Sound, TablesHaveKinds
    <3>5. (at <= Len(func_.blocks) => ip <= Len(func_.code[bb]) + 1 /\ TablesHold(ip - 1))'
      BY <2>1, <3>1, <3>2 DEF Sound, TablesHold
    <3>6. CrashIsTrap'
      BY <2>1, <3>1, <3>2 DEF Sound, CrashIsTrap
    <3> QED BY <3>3, <3>4, <3>5, <3>6 DEF Sound
  <2> QED BY <2>2, <2>3, <2>4, <2>5, <2>6, <2>7, <2>8, <2>9, <2>10, <2>11, <2>12, <2>13 DEF Next
<1> QED BY <1>1, <1>2 DEF ConstInv

\* While nothing has slipped, each block of the function holds the instructions
\* it held, in order, with literals for values that are known, less some that
\* nothing uses; the tables are true on every run; and a division that stopped
\* the compiler traps on every run that comes to it.
THEOREM ConstInvariant == Spec => []ConstInv
<1>1. Init => ConstInv
  BY ConstInvInit
<1>2. ConstInv /\ [Next]_vars => ConstInv'
  BY ConstInvStep
<1> QED BY <1>1, <1>2, PTL DEF Spec

LEMMA PathsAreRoutes ==
  ASSUME TypeInv, NEW path \in PathsFrom(func_.succ, Entry, PathBound)
  PROVE  path \in Routes
<1>1. /\ func_.blocks \in Seq(Block) /\ Len(func_.blocks) >= 1 /\ DOMAIN func_.succ = Block
  BY FunctionFacts DEF TypeInv
<1>2. Entry \in Block
  BY <1>1 DEF Entry
<1> DEFINE succ == func_.succ
           entry == Entry
<1>3. DOMAIN succ = Block /\ entry \in Block /\ path \in PathsFrom(succ, entry, PathBound)
  BY <1>1, <1>2
<1> HIDE DEF succ, entry
<1>4. path \in Seq(Block) /\ Len(path) >= 1
  BY <1>3, PathBoundAssumption, PathsAreBlocks
<1>5. path # <<>>
  BY <1>4
<1> QED BY <1>4, <1>5 DEF Routes

LEMMA PathsEnd ==
  ASSUME TypeInv, NEW path \in PathsTo(bb)
  PROVE  path \in Routes /\ Last(path) = bb
BY PathsAreRoutes DEF PathsTo, Last

\* What the tables say of a pointer is what its cell holds when the program is
\* at this instruction, for every path and every input, unless something slipped.
THEOREM TablesTrue == Spec => []TablesAreContents
<1>1. ConstInv => TablesAreContents
  <2> SUFFICES ASSUME ConstInv, Running, slips = {}, NEW path \in PathsTo(bb), NEW in \in Inputs
               PROVE  LET s == RunTo(func_, func_.code, in, path, ip - 1)
                      IN  s.ub \/ /\ Holds(ConstantInt_var_list, s) /\ Holds(ConstantFP_var_list, s)
                                  /\ Holds(global_int_list, s) /\ Holds(global_fp_list, s)
    BY DEF TablesAreContents
  <2>1. TypeInv /\ Sound
    BY DEF ConstInv
  <2>2. path \in Routes /\ Last(path) = bb
    BY <2>1, PathsEnd
  <2>3. TablesHold(ip - 1)
    BY <2>1, CurrentInstruction
  <2> DEFINE s == RunTo(func_, func_.code, in, path, ip - 1)
  <2>4. s = RunOf(func_, in, path, ip - 1)
    BY DEF RunOf
  <2> HIDE DEF s
  <2>5. ASSUME NEW list, HoldsAt(func_, bb, ip - 1, list) PROVE s.ub \/ Holds(list, s)
    <3>1. s.ub \/ HoldsIn(func_, list, s)
      BY <2>2, <2>4, <2>5 DEF HoldsAt
    <3> QED BY <3>1 DEF HoldsIn, Holds
  <2>6. \/ s.ub
        \/ /\ Holds(ConstantInt_var_list, s) /\ Holds(ConstantFP_var_list, s)
           /\ Holds(global_int_list, s) /\ Holds(global_fp_list, s)
    BY <2>3, <2>5 DEF TablesHold
  <2> QED BY <2>6 DEF s
<1> QED BY <1>1, ConstInvariant, PTL

\* A division that stops the compiler stops every run that comes to it, unless
\* something slipped.
THEOREM CrashTraps == Spec => []CrashIsUndefined
<1>1. ConstInv => CrashIsUndefined
  <2> SUFFICES ASSUME ConstInv, pc = "crash", slips = {}, NEW path \in PathsTo(bb), NEW in \in Inputs
               PROVE  RunTo(func_, func_.code, in, path, ip).ub
    BY DEF CrashIsUndefined
  <2>1. TypeInv /\ CrashIsTrap
    BY DEF ConstInv, Sound
  <2>2. path \in Routes /\ Last(path) = bb
    BY <2>1, PathsEnd
  <2> QED BY <2>1, <2>2 DEF CrashIsTrap, RunOf
<1> QED BY <1>1, ConstInvariant, PTL

\* The pass keeps the meaning of every function, unless something slipped:
\* along every path and for every input it shows the same and leaves the same
\* in the globals.
THEOREM MeaningPreserved == Spec => []MeaningKept
<1>1. ConstInv => MeaningKept
  <2> SUFFICES ASSUME ConstInv, slips = {}, NEW in \in Inputs,
                      NEW path \in PathsFrom(func_.succ, Entry, PathBound)
               PROVE  SameAlong(func_, func_.code, code, in, path)
    BY DEF MeaningKept
  <2>1. TypeInv /\ func_ \in Functions /\ \A b \in Block : \E m : Thinned(func_, code, b, m)
    BY DEF ConstInv, TypeInv, Sound, CodeIsThinned
  <2>2. path \in Routes
    BY <2>1, PathsAreRoutes
  <2> DEFINE f == func_
             c == code
  <2>3. f \in Functions /\ \A b \in Block : \E m : Thinned(f, c, b, m)
    BY <2>1
  <2> HIDE DEF f, c
  <2>4. SameAlong(f, f.code, c, in, path)
    BY <2>2, <2>3, ThinnedIsSame
  <2> QED BY <2>4 DEF f, c
<1> QED BY <1>1, ConstInvariant, PTL
=============================================================================
