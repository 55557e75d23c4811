-------------------------- MODULE FlowGraphProofs --------------------------
(***************************************************************************)
(* Facts about the vocabulary of FlowGraph, for every finite graph: Reach  *)
(* is the least set that is closed under the edges, what dominance means   *)
(* along one edge, which components and natural loops a graph has and how  *)
(* they are nested.  The proofs about the passes rest on them.             *)
(***************************************************************************)
EXTENDS FlowGraph, FiniteSetTheorems, WellFoundedInduction, TLAPS

\* A set of numbers that is not empty has a least one.
LEMMA LeastNat ==
  ASSUME NEW S \in SUBSET Nat, S # {}
  PROVE  \E n \in S : \A k \in S : n <= k
<1> DEFINE R == OpToRel(<, Nat)
<1>1. IsWellFoundedOn(R, Nat)
  BY NatLessThanWellFounded
<1>2. PICK n \in S : \A k \in S : <<k, n>> \notin R
  <2> HIDE DEF R
  <2> QED BY <1>1, WFMin
<1>3. \A k \in S : ~(k < n)
  BY <1>2 DEF OpToRel
<1> QED BY <1>3

\* Induction, with a set in the place of the property.
LEMMA NatSet ==
  ASSUME NEW S, 0 \in S, \A n \in Nat : n \in S => n + 1 \in S
  PROVE  Nat \subseteq S
<1> DEFINE T == Nat \ S
<1> SUFFICES ASSUME T # {} PROVE FALSE
  OBVIOUS
<1>1. PICK n \in T : \A k \in T : n <= k
  <2> T \in SUBSET Nat OBVIOUS
  <2> HIDE DEF T
  <2> QED BY LeastNat
<1>2. n # 0 /\ n - 1 \in Nat /\ n - 1 \notin T
  BY <1>1
<1>3. n - 1 \in S /\ (n - 1) + 1 \in S
  BY <1>2
<1> QED BY <1>3, <1>1

\* What a function makes of a finite set is finite.
LEMMA ImageFinite ==
  ASSUME NEW S, IsFiniteSet(S), NEW f, f = [x \in S |-> f[x]]
  PROVE  IsFiniteSet({f[x] : x \in S})
<1> DEFINE T == {f[x] : x \in S}
<1>1. f \in Surjection(S, T) BY DEF Surjection
<1> HIDE DEF T
<1>2. IsFiniteSet(T) BY <1>1, FS_Surjection
<1> QED BY <1>2 DEF T

\* Pairs of one first part are as many as their second parts.
LEMMA CountPairs ==
  ASSUME NEW S, IsFiniteSet(S), NEW l
  PROVE  IsFiniteSet({<<l, k>> : k \in S}) /\ Cardinality({<<l, k>> : k \in S}) = Cardinality(S)
<1> DEFINE T == {<<l, k>> : k \in S}
           f == [k \in S |-> <<l, k>>]
<1>1. f \in Surjection(S, T) BY DEF Surjection
<1>2. f \in Injection(S, T) BY DEF Injection, IsInjective
<1> HIDE DEF T, f
<1>3. IsFiniteSet(T) /\ Cardinality(T) = Cardinality(S) BY <1>1, <1>2, FS_Surjection
<1> QED BY <1>3 DEF T

\* A list without repetition has at most as many entries as there are elements
\* to take them from, and names them all when it has as many.
LEMMA DistinctEntries ==
  ASSUME NEW T, IsFiniteSet(T), NEW m \in Nat, NEW f \in [1..m -> T],
         \A j, l \in 1..m : f[j] = f[l] => j = l
  PROVE  m <= Cardinality(T) /\ (m = Cardinality(T) => T = {f[j] : j \in 1..m})
<1>1. f \in Injection(1..m, T) BY DEF Injection, IsInjective
<1>2. Cardinality(1..m) = m BY FS_Interval
<1>3. m <= Cardinality(T) /\ (m = Cardinality(T) => f \in Surjection(1..m, T))
  BY <1>1, <1>2, FS_Injection
<1> QED BY <1>3 DEF Surjection

\* f has x at 0, and applies step at every number.
Iterates(f, T, step, x) ==
  f \in [Nat -> T] /\ f[0] = x /\ \A n \in Nat : f[n + 1] = step[f[n]]

\* A function can be applied again and again.
LEMMA IteratesExists ==
  ASSUME NEW T, NEW step \in [T -> T], NEW x \in T
  PROVE  \E f : Iterates(f, T, step, x)
<1> DEFINE A(n) == {h \in [0..n -> T] : h[0] = x /\ \A i \in 0..(n - 1) : h[i + 1] = step[h[i]]}
           Some == {n \in Nat : A(n) # {}}
<1>1. 0 \in Some
  <2>1. [i \in 0..0 |-> x] \in A(0)
    OBVIOUS
  <2> QED BY <2>1
<1>2. ASSUME NEW n \in Nat, n \in Some PROVE n + 1 \in Some
  <2>1. PICK h \in A(n) : TRUE
    BY <1>2
  <2> DEFINE g == [i \in 0..(n + 1) |-> IF i = n + 1 THEN step[h[n]] ELSE h[i]]
  <2>2. h \in [0..n -> T] /\ h[0] = x /\ \A i \in 0..(n - 1) : h[i + 1] = step[h[i]]
    BY <2>1
  <2>3. g \in [0..(n + 1) -> T] /\ g[0] = x
    BY <2>2
  <2>4. ASSUME NEW i \in 0..((n + 1) - 1) PROVE g[i + 1] = step[g[i]]
    <3>1. CASE i = n
      <4>1. g[n + 1] = step[h[n]] /\ g[n] = h[n] OBVIOUS
      <4> QED BY <4>1, <3>1
    <3>2. CASE i # n
      <4>1. i \in 0..(n - 1) /\ i + 1 \in 0..n /\ i \in 0..(n+1) /\ i + 1 \in 0..(n + 1) /\ i + 1 # n + 1 /\ i # n + 1
        BY <3>2
      <4> QED BY <4>1, <2>2
    <3> QED BY <3>1, <3>2
  <2>5. g \in A(n + 1)
    BY <2>3, <2>4
  <2>6. n + 1 \in Nat OBVIOUS
  <2> HIDE DEF A, g
  <2> QED BY <2>5, <2>6
<1>3. \A n \in Nat : A(n) # {}
  <2> HIDE DEF Some
  <2>1. Nat \subseteq Some BY <1>1, <1>2, NatSet
  <2> QED BY <2>1 DEF Some
<1>4. ASSUME NEW n \in Nat, NEW m \in Nat, n <= m, NEW h \in A(n), NEW g \in A(m)
      PROVE  h[n] = g[n]
  <2> DEFINE Same == {i \in Nat : i <= n => h[i] = g[i]}
  <2>1. 0 \in Same
    OBVIOUS
  <2>2. ASSUME NEW i \in Nat, i \in Same PROVE i + 1 \in Same
    <3> SUFFICES ASSUME i + 1 <= n PROVE h[i + 1] = g[i + 1]
      OBVIOUS
    <3>1. i \in 0..(n - 1) /\ i \in 0..(m - 1)
      BY <1>4
    <3> QED BY <3>1, <2>2
  <2> HIDE DEF Same
  <2>3. Nat \subseteq Same BY <2>1, <2>2, NatSet
  <2> QED BY <2>3 DEF Same
<1> DEFINE top(n) == CHOOSE h \in A(n) : TRUE
           f == [n \in Nat |-> top(n)[n]]
<1>5. ASSUME NEW n \in Nat PROVE top(n) \in A(n)
  <2> HIDE DEF A
  <2> QED BY <1>3
<1>6. ASSUME NEW n \in Nat, NEW h \in A(n) PROVE h[0] = x /\ h[n] \in T
  OBVIOUS
<1>7. ASSUME NEW n \in Nat, NEW h \in A(n + 1) PROVE h[n + 1] = step[h[n]]
  <2>1. n \in 0..((n + 1) - 1) OBVIOUS
  <2> QED BY <2>1
<1> HIDE DEF A, top
<1>8. f \in [Nat -> T] /\ f[0] = x
  BY <1>5, <1>6
<1>9. ASSUME NEW n \in Nat PROVE f[n + 1] = step[f[n]]
  <2>1. top(n) \in A(n) /\ top(n + 1) \in A(n + 1) /\ n + 1 \in Nat /\ n <= n + 1 BY <1>5
  <2>2. top(n)[n] = top(n + 1)[n] BY <2>1, <1>4
  <2> QED BY <2>1, <2>2, <1>7
<1> QED BY <1>8, <1>9 DEF Iterates

-----------------------------------------------------------------------------
\* The equations of Within, for a graph on the blocks in Node.
LEMMA WithinSteps ==
  ASSUME NEW Node, NEW succ \in [Node -> SUBSET Node], NEW from \in SUBSET Node
  PROVE  /\ Within(succ, from) \in [Nat -> SUBSET Node]
         /\ Within(succ, from)[0] = from
         /\ \A n \in Nat : Within(succ, from)[n + 1] =
              Within(succ, from)[n] \cup UNION {succ[b] : b \in Within(succ, from)[n]}
<1> DEFINE step == [X \in SUBSET Node |-> X \cup UNION {succ[b] : b \in X}]
           eq(g) == g = [n \in Nat |-> IF n = 0 THEN from
                           ELSE g[n-1] \cup (UNION {succ[b] : b \in g[n-1]})]
<1>1. step \in [SUBSET Node -> SUBSET Node]
  <2>1. \A X \in SUBSET Node : X \cup UNION {succ[b] : b \in X} \in SUBSET Node
    OBVIOUS
  <2> QED BY <2>1
<1>2. PICK f : Iterates(f, SUBSET Node, step, from)
  <2> HIDE DEF step
  <2> QED BY <1>1, IteratesExists
<1>20. f \in [Nat -> SUBSET Node] /\ f[0] = from /\ \A n \in Nat : f[n + 1] = step[f[n]]
  BY <1>2 DEF Iterates
<1>3. ASSUME NEW n \in Nat PROVE f[n + 1] = f[n] \cup UNION {succ[b] : b \in f[n]}
  <2>1. f[n] \in SUBSET Node BY <1>20
  <2> QED BY <2>1, <1>20
<1>4. eq(f)
  <2>1. ASSUME NEW n \in Nat PROVE f[n] = IF n = 0 THEN from ELSE f[n-1] \cup (UNION {succ[b] : b \in f[n-1]})
    <3>1. CASE n = 0 BY <3>1, <1>20
    <3>2. CASE n # 0
      <4>1. n - 1 \in Nat /\ (n - 1) + 1 = n BY <3>2
      <4>2. f[(n - 1) + 1] = f[n-1] \cup UNION {succ[b] : b \in f[n-1]} BY <4>1, <1>3
      <4> QED BY <4>1, <4>2, <3>2
    <3> QED BY <3>1, <3>2
  <2>2. f = [n \in Nat |-> f[n]] BY <1>20
  <2> HIDE DEF step
  <2> QED BY <2>1, <2>2
<1>5. Within(succ, from) = CHOOSE g : eq(g)
  BY DEF Within
<1> DEFINE w == Within(succ, from)
<1>6. eq(w)
  <2> HIDE DEF eq, w
  <2>1. eq(CHOOSE g : eq(g)) BY <1>4
  <2> QED BY <2>1, <1>5 DEF w
<1> HIDE DEF w
<1>7. w[0] = from
  BY <1>6
<1>8. ASSUME NEW n \in Nat PROVE w[n + 1] = w[n] \cup UNION {succ[b] : b \in w[n]}
  <2>1. n + 1 \in Nat /\ n + 1 # 0 /\ (n + 1) - 1 = n OBVIOUS
  <2>2. w[n + 1] = IF n + 1 = 0 THEN from ELSE w[(n + 1)-1] \cup (UNION {succ[b] : b \in w[(n + 1)-1]})
    BY <1>6, <2>1
  <2> QED BY <2>1, <2>2
<1>9. w \in [Nat -> SUBSET Node]
  <2> DEFINE Good == {n \in Nat : w[n] \in SUBSET Node}
  <2>1. 0 \in Good BY <1>7
  <2>2. ASSUME NEW n \in Nat, n \in Good PROVE n + 1 \in Good
    BY <2>2, <1>8
  <2>3. Nat \subseteq Good
    <3> HIDE DEF Good
    <3> QED BY <2>1, <2>2, NatSet
  <2>4. w = [n \in Nat |-> w[n]] BY <1>6
  <2> QED BY <2>3, <2>4
<1> QED BY <1>7, <1>8, <1>9 DEF w

\* Reach is the least set with `from' in it that no edge leaves.
LEMMA ReachIsLeast ==
  ASSUME NEW Node, IsFiniteSet(Node), NEW succ \in [Node -> SUBSET Node],
         NEW from \in SUBSET Node
  PROVE  /\ Reach(succ, from) \in SUBSET Node
         /\ from \subseteq Reach(succ, from)
         /\ \A b \in Reach(succ, from) : succ[b] \subseteq Reach(succ, from)
         /\ \A S : from \subseteq S /\ (\A b \in S \cap Node : succ[b] \subseteq S)
                     => Reach(succ, from) \subseteq S
<1> DEFINE w == Within(succ, from)
           N == Cardinality(Node)
<1>1. /\ w \in [Nat -> SUBSET Node] /\ w[0] = from
      /\ \A n \in Nat : w[n + 1] = w[n] \cup UNION {succ[b] : b \in w[n]}
  BY WithinSteps
<1>2. N \in Nat /\ Reach(succ, from) = w[N]
  <2>1. DOMAIN succ = Node OBVIOUS
  <2> QED BY <2>1, FS_CardinalityType DEF Reach
<1> HIDE DEF w
<1>3. ASSUME NEW n \in Nat PROVE w[n] \subseteq w[n + 1] /\ from \subseteq w[n]
  <2> DEFINE Good == {k \in Nat : from \subseteq w[k]}
  <2>1. 0 \in Good BY <1>1
  <2>2. ASSUME NEW k \in Nat, k \in Good PROVE k + 1 \in Good BY <2>2, <1>1
  <2>3. Nat \subseteq Good
    <3> HIDE DEF Good
    <3> QED BY <2>1, <2>2, NatSet
  <2> QED BY <2>3, <1>1
<1>4. ASSUME NEW S, from \subseteq S, \A b \in S \cap Node : succ[b] \subseteq S
      PROVE  w[N] \subseteq S
  <2> DEFINE Good == {n \in Nat : w[n] \subseteq S}
  <2>1. 0 \in Good BY <1>1, <1>4
  <2>2. ASSUME NEW n \in Nat, n \in Good PROVE n + 1 \in Good
    <3>1. w[n] \subseteq S \cap Node BY <2>2, <1>1
    <3>2. UNION {succ[b] : b \in w[n]} \subseteq S BY <3>1, <1>4
    <3> QED BY <3>2, <1>1, <2>2
  <2>3. Nat \subseteq Good
    <3> HIDE DEF Good
    <3> QED BY <2>1, <2>2, NatSet
  <2> QED BY <2>3, <1>2
\* Until the sets stop growing, each is larger than the one before.
<1>5. PICK n \in 0..N : w[n] = w[n + 1]
  <2> SUFFICES ASSUME \A n \in 0..N : w[n] # w[n + 1] PROVE FALSE
    OBVIOUS
  <2> DEFINE Large == {n \in Nat : n <= N + 1 => Cardinality(w[n]) >= n}
  <2>1. 0 \in Large
    <3>1. w[0] \in SUBSET Node BY <1>1
    <3>2. Cardinality(w[0]) \in Nat BY <3>1, FS_Subset, FS_CardinalityType
    <3> QED BY <3>2
  <2>2. ASSUME NEW n \in Nat, n \in Large PROVE n + 1 \in Large
    <3> SUFFICES ASSUME n + 1 <= N + 1 PROVE Cardinality(w[n + 1]) >= n + 1
      OBVIOUS
    <3>1. n \in 0..N /\ Cardinality(w[n]) >= n /\ w[n] # w[n + 1] BY <1>2, <2>2
    <3>2. w[n + 1] \in SUBSET Node /\ w[n] \in SUBSET w[n + 1] BY <1>1, <1>3
    <3>3. IsFiniteSet(w[n + 1]) BY <3>2, FS_Subset
    <3>4. /\ IsFiniteSet(w[n]) /\ Cardinality(w[n]) <= Cardinality(w[n + 1])
          /\ Cardinality(w[n]) # Cardinality(w[n + 1])
      BY <3>1, <3>2, <3>3, FS_Subset
    <3>5. Cardinality(w[n]) \in Nat /\ Cardinality(w[n + 1]) \in Nat
      BY <3>3, <3>4, FS_CardinalityType
    <3> QED BY <3>1, <3>4, <3>5
  <2>3. N + 1 \in Large
    <3> HIDE DEF Large
    <3>1. Nat \subseteq Large BY <2>1, <2>2, NatSet
    <3> QED BY <3>1, <1>2
  <2>4. w[N + 1] \in SUBSET Node BY <1>1, <1>2
  <2>5. Cardinality(w[N + 1]) <= N /\ Cardinality(w[N + 1]) \in Nat
    BY <2>4, FS_Subset, FS_CardinalityType
  <2> QED BY <2>3, <2>5, <1>2
<1>6. w[N] = w[n]
  <2> DEFINE Still == {k \in Nat : w[n + k] = w[n]}
  <2>1. 0 \in Still OBVIOUS
  <2>2. ASSUME NEW k \in Nat, k \in Still PROVE k + 1 \in Still
    <3>1. n + k \in Nat /\ n \in Nat /\ n + (k + 1) = (n + k) + 1 BY <1>2
    <3>2. w[(n + k) + 1] = w[n + k] \cup UNION {succ[b] : b \in w[n + k]} BY <3>1, <1>1
    <3>3. w[n + 1] = w[n] \cup UNION {succ[b] : b \in w[n]} BY <3>1, <1>1
    <3> QED BY <3>1, <3>2, <3>3, <2>2, <1>5
  <2>3. N - n \in Nat /\ n + (N - n) = N BY <1>2
  <2>4. N - n \in Still
    <3> HIDE DEF Still
    <3> QED BY <2>1, <2>2, <2>3, NatSet
  <2> QED BY <2>3, <2>4
<1>7. \A b \in w[N] : succ[b] \subseteq w[N]
  <2>1. w[n] = w[n] \cup UNION {succ[b] : b \in w[n]} BY <1>1, <1>2, <1>5
  <2> QED BY <2>1, <1>6
<1> QED BY <1>1, <1>2, <1>3, <1>4, <1>7

-----------------------------------------------------------------------------
\* A graph on the blocks in Node, with its entry.
Graph(Node, succ, entry) ==
  IsFiniteSet(Node) /\ succ \in [Node -> SUBSET Node] /\ entry \in Node

LEMMA ReachFromEntry ==
  ASSUME NEW Node, NEW succ, NEW entry, Graph(Node, succ, entry)
  PROVE  /\ Reach(succ, {entry}) \in SUBSET Node
         /\ entry \in Reach(succ, {entry})
         /\ \A b \in Reach(succ, {entry}) : succ[b] \subseteq Reach(succ, {entry})
<1>1. {entry} \in SUBSET Node BY DEF Graph
<1> QED BY <1>1, ReachIsLeast DEF Graph

\* Whatever no edge leaves holds all that can be reached.
LEMMA ReachInside ==
  ASSUME NEW Node, NEW succ, NEW entry, Graph(Node, succ, entry),
         NEW S, entry \in S, \A b \in S \cap Node : succ[b] \subseteq S
  PROVE  Reach(succ, {entry}) \subseteq S
<1> DEFINE from == {entry}
<1>1. from \in SUBSET Node /\ from \subseteq S BY DEF Graph
<1>2. IsFiniteSet(Node) /\ succ \in [Node -> SUBSET Node] BY DEF Graph
<1> HIDE DEF from
<1>3. Reach(succ, from) \subseteq S BY <1>1, <1>2, ReachIsLeast
<1> QED BY <1>3 DEF from

\* The graph without the edges of d, and what can be reached in it.
Stop(succ, d) == Without(succ, {d})
Around(succ, entry, d) == Reach(Stop(succ, d), {entry})

LEMMA StopGraph ==
  ASSUME NEW Node, NEW succ, NEW entry, Graph(Node, succ, entry), NEW d
  PROVE  /\ Graph(Node, Stop(succ, d), entry)
         /\ \A b \in Node : b = d => Stop(succ, d)[b] = {}
         /\ \A b \in Node : b # d => Stop(succ, d)[b] = succ[b]
<1>1. /\ Stop(succ, d) \in [Node -> SUBSET Node]
      /\ \A b \in Node : Stop(succ, d)[b] = IF b = d THEN {} ELSE succ[b]
  BY DEF Stop, Without, Graph
<1> QED BY <1>1 DEF Graph

LEMMA AroundInside ==
  ASSUME NEW Node, NEW succ, NEW entry, Graph(Node, succ, entry), NEW d,
         NEW S, entry \in S, \A b \in S \cap Node : b # d => succ[b] \subseteq S
  PROVE  Around(succ, entry, d) \subseteq S
<1>1. Graph(Node, Stop(succ, d), entry) BY StopGraph
<1>2. \A b \in S \cap Node : Stop(succ, d)[b] \subseteq S
  BY StopGraph
<1>3. Reach(Stop(succ, d), {entry}) \subseteq S BY <1>1, <1>2, ReachInside
<1> QED BY <1>3 DEF Around

LEMMA AroundSteps ==
  ASSUME NEW Node, NEW succ, NEW entry, Graph(Node, succ, entry), NEW d
  PROVE  /\ Around(succ, entry, d) \in SUBSET Node
         /\ entry \in Around(succ, entry, d)
         /\ Around(succ, entry, d) \subseteq Reach(succ, {entry})
         /\ \A b \in Around(succ, entry, d) : b # d => succ[b] \subseteq Around(succ, entry, d)
<1>1. Graph(Node, Stop(succ, d), entry) BY StopGraph
<1>2. /\ Around(succ, entry, d) \in SUBSET Node /\ entry \in Around(succ, entry, d)
      /\ \A b \in Around(succ, entry, d) : Stop(succ, d)[b] \subseteq Around(succ, entry, d)
  BY <1>1, ReachFromEntry DEF Around
<1>3. \A b \in Around(succ, entry, d) : b # d => succ[b] \subseteq Around(succ, entry, d)
  BY <1>2, StopGraph
<1>4. Around(succ, entry, d) \subseteq Reach(succ, {entry})
  <2> DEFINE S == Reach(succ, {entry})
  <2>1. entry \in S /\ \A b \in S \cap Node : b # d => succ[b] \subseteq S
    BY ReachFromEntry
  <2> HIDE DEF S
  <2>2. Around(succ, entry, d) \subseteq S
    BY <2>1, AroundInside
  <2> QED BY <2>2 DEF S
<1> QED BY <1>2, <1>3, <1>4

\* Dominates, with this name.
LEMMA DominatesAround ==
  ASSUME NEW succ, NEW entry, NEW d, NEW b
  PROVE  Dominates(succ, entry, d, b) <=> (d = b \/ d = entry \/ b \notin Around(succ, entry, d))
BY DEF Dominates, Around, Stop

\* To dominate b is to cut it off, or to be b or the entry.
LEMMA DominatesByCut ==
  ASSUME NEW Node, NEW succ, NEW entry, Graph(Node, succ, entry), NEW d, NEW b, NEW S,
         entry \in S, \A c \in S \cap Node : c # d => succ[c] \subseteq S \cup {d},
         b \notin S
  PROVE  Dominates(succ, entry, d, b)
<1> SUFFICES ASSUME d # b, d # entry PROVE b \notin Around(succ, entry, d)
  BY DominatesAround
<1> DEFINE T == S \cup {d}
<1>1. entry \in T /\ \A c \in T \cap Node : c # d => succ[c] \subseteq T
  OBVIOUS
<1>2. b \notin T
  OBVIOUS
<1> HIDE DEF T
<1>3. Around(succ, entry, d) \subseteq T BY <1>1, AroundInside
<1> QED BY <1>2, <1>3

\* A dominator of b other than b dominates the predecessors of b.
LEMMA DominatesPredecessor ==
  ASSUME NEW Node, NEW succ, NEW entry, Graph(Node, succ, entry), NEW d, NEW b, NEW p \in Node,
         Dominates(succ, entry, d, b), d # b, b \in succ[p]
  PROVE  Dominates(succ, entry, d, p)
<1> SUFFICES ASSUME d # p, d # entry, p \in Around(succ, entry, d) PROVE FALSE
  BY DominatesAround
<1>1. b \in Around(succ, entry, d)
  BY AroundSteps
<1> QED BY <1>1, DominatesAround

\* What dominates all predecessors of b that can be reached dominates b.
LEMMA DominatesJoin ==
  ASSUME NEW Node, NEW succ, NEW entry, Graph(Node, succ, entry), NEW d, NEW b, b # entry,
         \A p \in Reach(succ, {entry}) : b \in succ[p] => Dominates(succ, entry, d, p)
  PROVE  Dominates(succ, entry, d, b)
<1> SUFFICES ASSUME d # b, d # entry PROVE Dominates(succ, entry, d, b)
  BY DominatesAround
<1> DEFINE S == Around(succ, entry, d) \ {b}
<1>1. /\ entry \in Around(succ, entry, d) /\ Around(succ, entry, d) \subseteq Reach(succ, {entry})
      /\ \A c \in Around(succ, entry, d) : c # d => succ[c] \subseteq Around(succ, entry, d)
  BY AroundSteps
<1>2. ASSUME NEW c \in S \cap Node, c # d PROVE succ[c] \subseteq S \cup {d}
  <2>1. c \in Around(succ, entry, d) /\ succ[c] \subseteq Around(succ, entry, d) BY <1>1, <1>2
  <2>2. ~Dominates(succ, entry, d, c) BY <2>1, <1>2, DominatesAround
  <2>3. b \notin succ[c] BY <2>1, <2>2, <1>1
  <2> QED BY <2>1, <2>3
<1>3. entry \in S /\ b \notin S BY <1>1
<1> HIDE DEF S
<1> QED BY <1>2, <1>3, DominatesByCut

LEMMA DominatesTransitive ==
  ASSUME NEW Node, NEW succ, NEW entry, Graph(Node, succ, entry), NEW a, NEW b, NEW c,
         Dominates(succ, entry, a, b), Dominates(succ, entry, b, c)
  PROVE  Dominates(succ, entry, a, c)
<1> DEFINE A == Around(succ, entry, a)
           B == Around(succ, entry, b)
<1>1. entry \in A /\ \A y \in A : y # a => succ[y] \subseteq A
  BY AroundSteps
<1>2. entry \in B /\ \A y \in B : y # b => succ[y] \subseteq B
  BY AroundSteps
<1> SUFFICES ASSUME a # c, a # entry, c \in A PROVE FALSE
  BY DominatesAround
<1>3. CASE a = b BY <1>3, DominatesAround
<1>4. CASE a # b
  <2>1. b \notin A BY <1>4, DominatesAround
  <2>2. b # c /\ b # entry /\ c \notin B BY <2>1, <1>1, DominatesAround
  <2> DEFINE S == A \cap B
  <2>3. entry \in S /\ \A y \in S \cap Node : y # a => succ[y] \subseteq S
    BY <1>1, <1>2, <2>1
  <2>4. c \in S
    <3> HIDE DEF S
    <3>1. Around(succ, entry, a) \subseteq S BY <2>3, AroundInside
    <3> QED BY <3>1
  <2> QED BY <2>2, <2>4
<1> QED BY <1>3, <1>4

\* Nothing else dominates the entry.
LEMMA EntryDominated ==
  ASSUME NEW Node, NEW succ, NEW entry, Graph(Node, succ, entry), NEW d,
         Dominates(succ, entry, d, entry)
  PROVE  d = entry
BY AroundSteps, DominatesAround

-----------------------------------------------------------------------------
\* Two blocks that dominate each other are one.
LEMMA DominatesAntisymmetric ==
  ASSUME NEW Node, NEW succ, NEW entry, Graph(Node, succ, entry),
         NEW a \in Reach(succ, {entry}), NEW b,
         Dominates(succ, entry, a, b), Dominates(succ, entry, b, a)
  PROVE  a = b
<1> SUFFICES ASSUME a # b PROVE FALSE
  OBVIOUS
<1> DEFINE A == Around(succ, entry, a)
           B == Around(succ, entry, b)
<1>1. a # entry /\ b # entry
  BY EntryDominated
<1>2. b \notin A /\ a \notin B
  BY <1>1, DominatesAround
<1>3. /\ entry \in A /\ \A y \in A : y # a => succ[y] \subseteq A
      /\ entry \in B /\ \A y \in B : y # b => succ[y] \subseteq B
  BY AroundSteps
<1> DEFINE S == A \cap B
<1>4. entry \in S /\ \A y \in S \cap Node : succ[y] \subseteq S
  BY <1>2, <1>3
<1>5. a \notin S BY <1>2
<1> HIDE DEF S
<1>6. Reach(succ, {entry}) \subseteq S BY <1>4, ReachInside
<1> QED BY <1>5, <1>6

\* The dominators of a block are in a row.
LEMMA DominatorsOrdered ==
  ASSUME NEW Node, NEW succ, NEW entry, Graph(Node, succ, entry),
         NEW x \in Reach(succ, {entry}), NEW a, NEW b,
         Dominates(succ, entry, a, x), Dominates(succ, entry, b, x)
  PROVE  Dominates(succ, entry, a, b) \/ Dominates(succ, entry, b, a)
<1> SUFFICES ASSUME ~Dominates(succ, entry, a, b), ~Dominates(succ, entry, b, a) PROVE FALSE
  OBVIOUS
<1> DEFINE A == Around(succ, entry, a)
           B == Around(succ, entry, b)
<1>1. a # b /\ a # entry /\ b # entry /\ b \in A /\ a \in B
  BY DominatesAround
<1>2. x # a /\ x # b
  OBVIOUS
<1>3. x \notin A /\ x \notin B
  BY <1>1, <1>2, DominatesAround
<1>4. /\ entry \in A /\ \A y \in A : y # a => succ[y] \subseteq A
      /\ \A y \in B : y # b => succ[y] \subseteq B
  BY AroundSteps
<1> DEFINE S == A \cup B
<1>5. entry \in S /\ \A y \in S \cap Node : succ[y] \subseteq S
  BY <1>1, <1>4
<1>6. x \notin S BY <1>3
<1> HIDE DEF S
<1>7. Reach(succ, {entry}) \subseteq S BY <1>5, ReachInside
<1> QED BY <1>6, <1>7

\* How many blocks dominate b: the depth of b in the dominator tree.
Depth(succ, entry, b) == Cardinality({d \in Reach(succ, {entry}) : Dominates(succ, entry, d, b)})

LEMMA DepthGrows ==
  ASSUME NEW Node, NEW succ, NEW entry, Graph(Node, succ, entry),
         NEW a \in Reach(succ, {entry}), NEW b \in Reach(succ, {entry}),
         StrictlyDominates(succ, entry, a, b)
  PROVE  /\ Depth(succ, entry, a) \in Nat /\ Depth(succ, entry, b) \in 0..Cardinality(Node)
         /\ Depth(succ, entry, a) < Depth(succ, entry, b)
<1> DEFINE Doms(x) == {d \in Reach(succ, {entry}) : Dominates(succ, entry, d, x)}
<1>1. a # b /\ Dominates(succ, entry, a, b) BY DEF StrictlyDominates
<1>2. b \in Doms(b) BY DEF Dominates
<1>3. b \notin Doms(a) BY <1>1, DominatesAntisymmetric
<1>4. Doms(a) \subseteq Doms(b)
  BY <1>1, DominatesTransitive
<1>5. Reach(succ, {entry}) \in SUBSET Node /\ IsFiniteSet(Node)
  BY ReachFromEntry DEF Graph
<1>6. Doms(b) \in SUBSET Node BY <1>5
<1>7. Depth(succ, entry, a) = Cardinality(Doms(a)) /\ Depth(succ, entry, b) = Cardinality(Doms(b))
  BY DEF Depth
<1> HIDE DEF Doms
<1>8. IsFiniteSet(Doms(b)) /\ Cardinality(Doms(b)) <= Cardinality(Node)
  BY <1>5, <1>6, FS_Subset
<1>9. /\ IsFiniteSet(Doms(a)) /\ Cardinality(Doms(a)) <= Cardinality(Doms(b))
      /\ Cardinality(Doms(a)) # Cardinality(Doms(b))
  BY <1>2, <1>3, <1>4, <1>8, FS_Subset
<1>10. /\ Cardinality(Doms(a)) \in Nat /\ Cardinality(Doms(b)) \in Nat
       /\ Cardinality(Node) \in Nat
  BY <1>5, <1>8, <1>9, FS_CardinalityType
<1> QED BY <1>7, <1>8, <1>9, <1>10

\* Every block that can be reached but the entry has an immediate dominator.
LEMMA ImmediateDominatorExists ==
  ASSUME NEW Node, NEW succ, NEW entry, Graph(Node, succ, entry),
         NEW b \in Reach(succ, {entry}), b # entry
  PROVE  \E c \in Reach(succ, {entry}) : IsImmediateDominator(succ, entry, c, b)
<1> DEFINE SD == {d \in Reach(succ, {entry}) : StrictlyDominates(succ, entry, d, b)}
           N == Cardinality(Node)
           dep(d) == Depth(succ, entry, d)
           Gaps == {N - dep(d) : d \in SD}
<1>1. entry \in SD
  BY ReachFromEntry DEF StrictlyDominates, Dominates
<1>2. \A d \in SD : dep(d) \in Nat /\ dep(d) < dep(b) /\ dep(b) \in 0..N
  BY DepthGrows
<1>3. N \in Nat BY FS_CardinalityType DEF Graph
<1>4. \A d \in SD : N - dep(d) \in Nat
  <2> HIDE DEF SD, N, dep
  <2> QED BY <1>2, <1>3
<1>5. PICK g \in Gaps : \A h \in Gaps : g <= h
  <2>1. Gaps \in SUBSET Nat /\ Gaps # {} BY <1>1, <1>4
  <2> HIDE DEF Gaps
  <2> QED BY <2>1, LeastNat
<1>6. PICK c \in SD : g = N - dep(c) BY <1>5
<1>7. ASSUME NEW e \in Reach(succ, {entry}), StrictlyDominates(succ, entry, e, b)
      PROVE  Dominates(succ, entry, e, c)
  <2> SUFFICES ASSUME ~Dominates(succ, entry, e, c) PROVE FALSE
    OBVIOUS
  <2>1. Dominates(succ, entry, c, e)
    BY <1>7, DominatorsOrdered DEF StrictlyDominates
  <2>2. e # c BY DEF Dominates
  <2>3. dep(c) < dep(e) BY <2>1, <2>2, DepthGrows DEF StrictlyDominates
  <2>4. e \in SD BY <1>7
  <2> HIDE DEF SD, N, dep
  <2>5. N - dep(c) <= N - dep(e) BY <1>5, <1>6, <2>4
  <2>6. dep(c) \in Nat /\ dep(e) \in Nat BY <1>2, <2>4
  <2> QED BY <1>3, <2>3, <2>5, <2>6
<1>8. c \in Reach(succ, {entry}) /\ StrictlyDominates(succ, entry, c, b) OBVIOUS
<1> QED BY <1>7, <1>8 DEF IsImmediateDominator

\* Induction down the dominator tree.
LEMMA TreeInduction ==
  ASSUME NEW Node, NEW succ, NEW entry, Graph(Node, succ, entry), NEW S, entry \in S,
         \A c \in S \cap Reach(succ, {entry}) : \A b \in Reach(succ, {entry}) :
           IsImmediateDominator(succ, entry, c, b) => b \in S
  PROVE  Reach(succ, {entry}) \subseteq S
<1> DEFINE Rest == Reach(succ, {entry}) \ S
           dep(d) == Depth(succ, entry, d)
           Depths == {dep(d) : d \in Rest}
<1> SUFFICES ASSUME Rest # {} PROVE FALSE
  OBVIOUS
<1>1. ASSUME NEW d \in Rest
      PROVE  \E c \in (S \cap Reach(succ, {entry})) \cup Rest :
               IsImmediateDominator(succ, entry, c, d) /\ dep(c) < dep(d) /\ dep(c) \in Nat /\ dep(d) \in Nat
  <2>1. d \in Reach(succ, {entry}) /\ d # entry OBVIOUS
  <2>2. PICK c \in Reach(succ, {entry}) : IsImmediateDominator(succ, entry, c, d)
    BY <2>1, ImmediateDominatorExists
  <2>3. StrictlyDominates(succ, entry, c, d) BY <2>2 DEF IsImmediateDominator
  <2>4. dep(c) < dep(d) /\ dep(c) \in Nat /\ dep(d) \in 0..Cardinality(Node) BY <2>1, <2>3, DepthGrows
  <2>5. Cardinality(Node) \in Nat BY FS_CardinalityType DEF Graph
  <2>6. dep(d) \in Nat BY <2>4, <2>5
  <2> QED BY <2>2, <2>4, <2>6
<1>2. PICK n \in Depths : \A k \in Depths : n <= k
  <2>1. Depths \in SUBSET Nat /\ Depths # {} BY <1>1
  <2> HIDE DEF Depths
  <2> QED BY <2>1, LeastNat
<1>3. PICK d \in Rest : n = dep(d) BY <1>2
<1>4. PICK c \in (S \cap Reach(succ, {entry})) \cup Rest :
        IsImmediateDominator(succ, entry, c, d) /\ dep(c) < dep(d) /\ dep(c) \in Nat /\ dep(d) \in Nat
  BY <1>1
<1>5. c \notin Rest
  <2> SUFFICES ASSUME c \in Rest PROVE FALSE OBVIOUS
  <2>1. dep(d) <= dep(c) BY <1>2, <1>3
  <2> HIDE DEF dep
  <2> QED BY <1>4, <2>1
<1>6. d \in Reach(succ, {entry}) /\ d \notin S OBVIOUS
<1> HIDE DEF Rest
<1> QED BY <1>4, <1>5, <1>6

\* Whatever can be reached has a predecessor that can be, or is the start.
LEMMA ReachHasPredecessor ==
  ASSUME NEW Node, NEW succ, NEW entry, Graph(Node, succ, entry),
         NEW b \in Reach(succ, {entry}), b # entry
  PROVE  \E p \in Reach(succ, {entry}) : b \in succ[p]
<1> SUFFICES ASSUME \A p \in Reach(succ, {entry}) : b \notin succ[p] PROVE FALSE
  OBVIOUS
<1> DEFINE S == Reach(succ, {entry}) \ {b}
<1>1. entry \in Reach(succ, {entry})
      /\ \A c \in Reach(succ, {entry}) : succ[c] \subseteq Reach(succ, {entry})
  BY ReachFromEntry
<1>2. entry \in S BY <1>1
<1>3. \A c \in S \cap Node : succ[c] \subseteq S BY <1>1
<1>4. b \notin S OBVIOUS
<1> HIDE DEF S
<1>5. Reach(succ, {entry}) \subseteq S BY <1>2, <1>3, ReachInside
<1> QED BY <1>4, <1>5

\* An immediate dominator is one block.
LEMMA ImmediateDominatorUnique ==
  ASSUME NEW Node, NEW succ, NEW entry, Graph(Node, succ, entry),
         NEW a \in Reach(succ, {entry}), NEW c \in Reach(succ, {entry}), NEW b,
         IsImmediateDominator(succ, entry, a, b), IsImmediateDominator(succ, entry, c, b)
  PROVE  a = c
<1>1. Dominates(succ, entry, a, c) /\ Dominates(succ, entry, c, a)
  BY DEF IsImmediateDominator
<1> QED BY <1>1, DominatesAntisymmetric

\* From a strict dominator of b the tree leads to b through one of its children.
LEMMA ChildTowards ==
  ASSUME NEW Node, NEW succ, NEW entry, Graph(Node, succ, entry),
         NEW a \in Reach(succ, {entry}), NEW b \in Reach(succ, {entry}),
         StrictlyDominates(succ, entry, a, b)
  PROVE  \E c \in DominatorChildren(succ, entry, a) : Dominates(succ, entry, c, b)
<1> DEFINE Towards(x) == \E c \in DominatorChildren(succ, entry, a) : Dominates(succ, entry, c, x)
           S == {x \in Reach(succ, {entry}) : StrictlyDominates(succ, entry, a, x) => Towards(x)}
<1>1. entry \in S
  BY ReachFromEntry, EntryDominated DEF StrictlyDominates
<1>2. ASSUME NEW c \in S \cap Reach(succ, {entry}), NEW x \in Reach(succ, {entry}),
             IsImmediateDominator(succ, entry, c, x), StrictlyDominates(succ, entry, a, x)
      PROVE  Towards(x)
  <2>1. CASE c = a
    <3>1. x \in DominatorChildren(succ, entry, a) BY <1>2, <2>1 DEF DominatorChildren
    <3> QED BY <3>1 DEF Dominates
  <2>2. CASE c # a
    <3>1. StrictlyDominates(succ, entry, a, c)
      BY <1>2, <2>2 DEF IsImmediateDominator, StrictlyDominates
    <3>2. PICK d \in DominatorChildren(succ, entry, a) : Dominates(succ, entry, d, c)
      BY <1>2, <3>1
    <3>3. Dominates(succ, entry, c, x) BY <1>2 DEF IsImmediateDominator, StrictlyDominates
    <3>4. Dominates(succ, entry, d, x) BY <3>2, <3>3, DominatesTransitive
    <3> QED BY <3>4
  <2> QED BY <2>1, <2>2
<1>3. \A c \in S \cap Reach(succ, {entry}) : \A x \in Reach(succ, {entry}) :
        IsImmediateDominator(succ, entry, c, x) => x \in S
  BY <1>2
<1>4. Reach(succ, {entry}) \subseteq S
  <2> HIDE DEF S
  <2> QED BY <1>1, <1>3, TreeInduction
<1> QED BY <1>4

-----------------------------------------------------------------------------
\* What can be reached past no block of `storing'.
Silent(succ, entry, storing) == Reach(Without(succ, storing), {entry})

LEMMA SilentSteps ==
  ASSUME NEW Node, NEW succ, NEW entry, Graph(Node, succ, entry), NEW storing
  PROVE  /\ entry \in Silent(succ, entry, storing)
         /\ Silent(succ, entry, storing) \subseteq Node
         /\ \A b \in Silent(succ, entry, storing) :
              b \notin storing => succ[b] \subseteq Silent(succ, entry, storing)
         /\ \A b \in Silent(succ, entry, storing) : b # entry =>
              \E p \in Silent(succ, entry, storing) \ storing : b \in succ[p]
<1> DEFINE cut == Without(succ, storing)
<1>1. cut \in [Node -> SUBSET Node] /\ \A b \in Node : cut[b] = IF b \in storing THEN {} ELSE succ[b]
  BY DEF Without, Graph
<1>2. Graph(Node, cut, entry) BY <1>1 DEF Graph
<1>3. Silent(succ, entry, storing) = Reach(cut, {entry}) BY DEF Silent
<1> HIDE DEF cut
<1>4. /\ Reach(cut, {entry}) \in SUBSET Node /\ entry \in Reach(cut, {entry})
      /\ \A b \in Reach(cut, {entry}) : cut[b] \subseteq Reach(cut, {entry})
  BY <1>2, ReachFromEntry
<1>5. ASSUME NEW b \in Reach(cut, {entry}), b # entry
      PROVE  \E p \in Reach(cut, {entry}) \ storing : b \in succ[p]
  <2>1. PICK p \in Reach(cut, {entry}) : b \in cut[p] BY <1>2, <1>5, ReachHasPredecessor
  <2>2. p \in Node BY <1>4
  <2> QED BY <1>1, <2>1, <2>2
<1> QED BY <1>1, <1>3, <1>4, <1>5

\* P holds the dominance frontier of every block of `storing' and of P: the
\* blocks that get a phi once the frontier is closed.
FrontierClosed(succ, entry, storing, P) ==
  \A q \in (storing \cup P) \cap Reach(succ, {entry}) : DominanceFrontier(succ, entry, q) \subseteq P

\* A path that is silent up to the immediate dominator c of x goes on silently
\* to x when x has no phi: what it would pass under c would put a phi into x.
LEMMA SilentBelow ==
  ASSUME NEW Node, NEW succ, NEW entry, Graph(Node, succ, entry), NEW storing, NEW P,
         FrontierClosed(succ, entry, storing, P),
         NEW x \in Reach(succ, {entry}), NEW c \in Reach(succ, {entry}),
         IsImmediateDominator(succ, entry, c, x),
         c \in Silent(succ, entry, storing), c \notin storing, x \notin P
  PROVE  x \in Silent(succ, entry, storing)
<1> SUFFICES ASSUME x \notin Silent(succ, entry, storing) PROVE FALSE
  OBVIOUS
<1> DEFINE live == Reach(succ, {entry})
           quiet == Silent(succ, entry, storing)
           dom(a, b) == Dominates(succ, entry, a, b)
           region == {z \in live : c # z /\ dom(c, z)}
           Q == {q \in (storing \cup P) \cap region : q # x}
           U == {z \in region : \E q \in Q : dom(q, z)}
           R == {z \in live : ~dom(x, z) /\ (z \in region => z \in quiet \cup U)}
<1>1. c # x /\ dom(c, x) /\ \A e \in live : e # x /\ dom(e, x) => dom(e, c)
  BY DEF IsImmediateDominator, StrictlyDominates
<1>2. live \in SUBSET Node /\ entry \in live /\ \A z \in live : succ[z] \subseteq live
  BY ReachFromEntry
<1>3. x # entry
  BY SilentSteps
<1>4. entry \in R
  <2>1. ~dom(x, entry) BY <1>3, EntryDominated
  <2>2. entry \notin region BY EntryDominated
  <2> QED BY <1>2, <2>1, <2>2
\* One edge.
<1>5. ASSUME NEW z \in R, NEW y \in succ[z] PROVE y \in R
  <2>1. z \in live /\ y \in live /\ z \in Node BY <1>2
  <2>2. ASSUME NEW d, dom(d, y), d # y PROVE dom(d, z)
    BY <2>1, <2>2, DominatesPredecessor
  \* Where q dominates z, it dominates y, or y is on its frontier.
  <2>3. ASSUME NEW q \in Q, dom(q, z), y \in region PROVE y \in U
    <3>1. CASE dom(q, y) BY <3>1, <2>3
    <3>2. CASE ~dom(q, y)
      <4>1. z \in Predecessors(succ, y) \cap live BY <2>1 DEF Predecessors, Graph
      <4>2. y \in DominanceFrontier(succ, entry, q)
        BY <3>2, <4>1, <2>1, <2>3 DEF DominanceFrontier, StrictlyDominates
      <4>3. y \in P BY <4>2 DEF FrontierClosed
      <4>4. y \in Q BY <4>3, <2>3
      <4>5. dom(y, y) BY DEF Dominates
      <4> QED BY <4>4, <4>5, <2>3
    <3> QED BY <3>1, <3>2
  <2>4. ASSUME y \in region PROVE y \in quiet \cup U
    <3>1. CASE z \notin region
      <4>1. z = c BY <2>1, <2>2, <2>4, <3>1
      <4>2. y \in quiet BY <4>1, SilentSteps
      <4> QED BY <4>2
    <3>2. CASE z \in region /\ z \in U
      <4>1. PICK q \in Q : dom(q, z) BY <3>2
      <4> QED BY <4>1, <2>3, <2>4
    <3>3. CASE z \in region /\ z \in quiet /\ z \notin storing
      <4>1. y \in quiet BY <3>3, SilentSteps
      <4> QED BY <4>1
    <3>4. CASE z \in region /\ z \in storing
      <4>1. dom(z, z) BY DEF Dominates
      <4>2. z # x BY <4>1
      <4>3. z \in Q BY <3>4, <4>2
      <4> QED BY <4>1, <4>3, <2>3, <2>4
    <3> QED BY <3>1, <3>2, <3>3, <3>4
  <2>5. ~dom(x, y)
    <3> SUFFICES ASSUME dom(x, y) PROVE FALSE
      OBVIOUS
    <3>1. y = x BY <2>2
    <3>2. x \in region BY <1>1
    <3>3. x \in U BY <2>4, <3>1, <3>2
    <3>4. PICK q \in Q : dom(q, x) BY <3>3
    <3>5. dom(q, c) /\ dom(c, q) /\ c # q BY <3>4, <1>1
    <3> HIDE DEF Q
    <3> QED BY <3>5, DominatesAntisymmetric
  <2> QED BY <2>1, <2>4, <2>5
<1>6. \A z \in R \cap Node : succ[z] \subseteq R BY <1>5
<1>7. x \notin R BY DEF Dominates
<1> HIDE DEF R
<1>8. live \subseteq R BY <1>4, <1>6, ReachInside
<1> QED BY <1>7, <1>8

\* A block is reached silently if none of its dominators has a phi and none of
\* its strict dominators stores.
LEMMA NoPhiNoStore ==
  ASSUME NEW Node, NEW succ, NEW entry, Graph(Node, succ, entry), NEW storing, NEW P,
         FrontierClosed(succ, entry, storing, P), NEW b \in Reach(succ, {entry}),
         \A d \in Reach(succ, {entry}) : Dominates(succ, entry, d, b) => d \notin P,
         \A d \in Reach(succ, {entry}) : StrictlyDominates(succ, entry, d, b) => d \notin storing
  PROVE  b \in Silent(succ, entry, storing)
<1> DEFINE live == Reach(succ, {entry})
           Clear(x) == /\ \A d \in live : Dominates(succ, entry, d, x) => d \notin P
                       /\ \A d \in live : StrictlyDominates(succ, entry, d, x) => d \notin storing
           S == {x \in live : Clear(x) => x \in Silent(succ, entry, storing)}
<1>1. entry \in S BY ReachFromEntry, SilentSteps
<1>2. ASSUME NEW c \in S \cap live, NEW x \in live, IsImmediateDominator(succ, entry, c, x), Clear(x)
      PROVE  x \in Silent(succ, entry, storing)
  <2>1. Dominates(succ, entry, c, x) /\ c # x
    BY <1>2 DEF IsImmediateDominator, StrictlyDominates
  <2>2. \A d \in live : Dominates(succ, entry, d, c) => Dominates(succ, entry, d, x) /\ d # x
    BY <2>1, DominatesTransitive, DominatesAntisymmetric
  <2>3. Clear(c)
    BY <2>2, <1>2 DEF StrictlyDominates
  <2>4. c \in Silent(succ, entry, storing) BY <2>3
  <2>5. c \notin storing /\ x \notin P
    <3>1. Dominates(succ, entry, x, x) BY DEF Dominates
    <3> QED BY <3>1, <2>1, <1>2 DEF StrictlyDominates
  <2> QED BY <1>2, <2>4, <2>5, SilentBelow
<1>3. \A c \in S \cap live : \A x \in live : IsImmediateDominator(succ, entry, c, x) => x \in S
  BY <1>2
<1>4. live \subseteq S
  <2> HIDE DEF S
  <2> QED BY <1>1, <1>3, TreeInduction
<1> QED BY <1>4

-----------------------------------------------------------------------------
(***************************************************************************)
(* Strongly connected components.                                          *)
(***************************************************************************)
LEMMA ReachEdge ==
  ASSUME NEW Node, NEW succ, NEW x, Graph(Node, succ, x), NEW y \in succ[x]
  PROVE  y \in Reach(succ, {x})
BY ReachFromEntry

\* What y leads to x leads to, if x leads to y.
LEMMA ReachTransitive ==
  ASSUME NEW Node, NEW succ, NEW x, Graph(Node, succ, x), NEW y \in Reach(succ, {x})
  PROVE  Graph(Node, succ, y) /\ Reach(succ, {y}) \subseteq Reach(succ, {x})
<1>1. /\ Reach(succ, {x}) \in SUBSET Node
      /\ \A b \in Reach(succ, {x}) : succ[b] \subseteq Reach(succ, {x})
  BY ReachFromEntry
<1>2. Graph(Node, succ, y)
  BY <1>1 DEF Graph
<1>3. \A b \in Reach(succ, {x}) \cap Node : succ[b] \subseteq Reach(succ, {x})
  BY <1>1
<1>4. Reach(succ, {y}) \subseteq Reach(succ, {x})
  BY <1>2, <1>3, ReachInside
<1> QED BY <1>2, <1>4

\* The blocks that b leads to and that lead to b.
Connected(succ, b) == {c \in Reach(succ, {b}) : b \in Reach(succ, {c})}

LEMMA ConnectedSame ==
  ASSUME NEW Node, NEW succ, NEW x, Graph(Node, succ, x), NEW y \in Connected(succ, x)
  PROVE  Connected(succ, y) = Connected(succ, x)
<1>1. y \in Reach(succ, {x}) /\ x \in Reach(succ, {y})
  BY DEF Connected
<1>2. Graph(Node, succ, y) /\ Reach(succ, {y}) \subseteq Reach(succ, {x})
  BY <1>1, ReachTransitive
<1>3. Reach(succ, {x}) \subseteq Reach(succ, {y})
  BY <1>1, <1>2, ReachTransitive
<1>4. ASSUME NEW c \in Reach(succ, {x})
      PROVE  x \in Reach(succ, {c}) <=> y \in Reach(succ, {c})
  <2>1. Graph(Node, succ, c)
    BY ReachTransitive
  <2>2. x \in Reach(succ, {c}) => Reach(succ, {x}) \subseteq Reach(succ, {c})
    BY <2>1, ReachTransitive
  <2>3. y \in Reach(succ, {c}) => Reach(succ, {y}) \subseteq Reach(succ, {c})
    BY <2>1, ReachTransitive
  <2> QED BY <1>1, <2>2, <2>3
<1> QED BY <1>2, <1>3, <1>4 DEF Connected

\* One step and then any number, or none at all.
LEMMA ReachUnfold ==
  ASSUME NEW Node, NEW succ, NEW b, Graph(Node, succ, b)
  PROVE  /\ Reach(succ, succ[b]) \subseteq Reach(succ, {b})
         /\ Reach(succ, {b}) \subseteq {b} \cup Reach(succ, succ[b])
<1>1. IsFiniteSet(Node) /\ succ \in [Node -> SUBSET Node] /\ succ[b] \in SUBSET Node
  BY DEF Graph
<1> DEFINE R == Reach(succ, succ[b])
           B == Reach(succ, {b})
<1>2. /\ R \in SUBSET Node /\ succ[b] \subseteq R
      /\ \A c \in R : succ[c] \subseteq R
      /\ \A S : succ[b] \subseteq S /\ (\A c \in S \cap Node : succ[c] \subseteq S) => R \subseteq S
  BY <1>1, ReachIsLeast
<1>3. B \in SUBSET Node /\ b \in B /\ \A c \in B : succ[c] \subseteq B
  BY ReachFromEntry
<1>4. R \subseteq B
  BY <1>2, <1>3
<1>5. b \in {b} \cup R /\ \A c \in ({b} \cup R) \cap Node : succ[c] \subseteq {b} \cup R
  BY <1>2
<1>6. B \subseteq {b} \cup R
  <2> DEFINE S == {b} \cup R
  <2>1. b \in S /\ \A c \in S \cap Node : succ[c] \subseteq S
    BY <1>5
  <2> HIDE DEF S
  <2>2. Reach(succ, {b}) \subseteq S
    BY <2>1, ReachInside
  <2> QED BY <2>2 DEF S
<1> QED BY <1>4, <1>6

\* Components says which blocks make a component: those connected with a block
\* that is connected with another one.
LEMMA ComponentsAreConnected ==
  ASSUME NEW Node, IsFiniteSet(Node), NEW succ \in [Node -> SUBSET Node]
  PROVE  Components(succ) = {C \in {Connected(succ, b) : b \in Node} : \E x, y \in C : x # y}
<1> DEFINE together(b) == {c \in Reach(succ, succ[b]) : b \in Reach(succ, succ[c])}
           Small == {c \in SUBSET Node : Cardinality(c) < 2}
           Two(C) == \E x, y \in C : x # y
<1>1. ASSUME NEW b \in Node, NEW c \in Node, c # b
      PROVE  c \in together(b) <=> c \in Connected(succ, b)
  <2>1. Graph(Node, succ, b) /\ Graph(Node, succ, c)
    BY DEF Graph
  <2>2. /\ Reach(succ, succ[b]) \subseteq Reach(succ, {b})
        /\ Reach(succ, {b}) \subseteq {b} \cup Reach(succ, succ[b])
        /\ Reach(succ, succ[c]) \subseteq Reach(succ, {c})
        /\ Reach(succ, {c}) \subseteq {c} \cup Reach(succ, succ[c])
    BY <2>1, ReachUnfold
  <2> QED BY <1>1, <2>2 DEF Connected
<1>2. ASSUME NEW b \in Node
      PROVE  together(b) \in SUBSET Node /\ Connected(succ, b) \in SUBSET Node
             /\ b \in Connected(succ, b)
  <2>1. Graph(Node, succ, b) /\ succ[b] \in SUBSET Node
    BY DEF Graph
  <2>2. Reach(succ, succ[b]) \in SUBSET Node
    BY <2>1, ReachIsLeast
  <2>3. Reach(succ, {b}) \in SUBSET Node /\ b \in Reach(succ, {b})
    BY <2>1, ReachFromEntry
  <2> QED BY <2>2, <2>3 DEF Connected
<1>3. ASSUME NEW b \in Node, NEW c \in together(b), c # b
      PROVE  b \in together(b)
  <2>1. /\ Graph(Node, succ, b) /\ Graph(Node, succ, c) /\ succ[b] \in SUBSET Node
        /\ succ[c] \in SUBSET Node
    BY <1>2 DEF Graph
  <2>2. /\ c \in Reach(succ, succ[b]) /\ b \in Reach(succ, succ[c])
        /\ succ[c] \subseteq Reach(succ, succ[b])
        /\ \A d \in Reach(succ, succ[b]) : succ[d] \subseteq Reach(succ, succ[b])
    BY <2>1, ReachIsLeast
  <2> DEFINE R == Reach(succ, succ[b])
  <2>3. Reach(succ, succ[c]) \subseteq R
    <3>1. \A S : succ[c] \subseteq S /\ (\A d \in S \cap Node : succ[d] \subseteq S)
                   => Reach(succ, succ[c]) \subseteq S
      BY <2>1, ReachIsLeast
    <3> QED BY <3>1, <2>2
  <2> QED BY <2>2, <2>3
<1>4. ASSUME NEW C \in SUBSET Node
      PROVE  C \notin Small <=> Two(C)
  <2>1. IsFiniteSet(C)
    BY FS_Subset
  <2>2. CASE C = {}
    BY <2>2, FS_EmptySet
  <2>3. CASE C # {}
    <3>1. PICK x \in C : TRUE
      BY <2>3
    <3>2. IsFiniteSet(C \ {x}) /\ Cardinality(C \ {x}) = Cardinality(C) - 1
          /\ Cardinality(C) \in Nat /\ Cardinality(C \ {x}) \in Nat
      BY <2>1, <3>1, FS_RemoveElement, FS_CardinalityType
    <3>3. Cardinality(C \ {x}) = 0 <=> C \ {x} = {}
      BY <3>2, FS_EmptySet
    <3>4. Cardinality(C) < 2 <=> C \ {x} = {}
      BY <3>2, <3>3
    <3> QED BY <3>1, <3>4
  <2> QED BY <2>2, <2>3
<1>5. ASSUME NEW b \in Node, Two(together(b))
      PROVE  together(b) = Connected(succ, b)
  <2> b \in together(b)
    BY <1>5, <1>3
  <2> QED BY <1>1, <1>2
<1>6. ASSUME NEW b \in Node, Two(Connected(succ, b))
      PROVE  together(b) = Connected(succ, b)
  <2>1. PICK c \in Connected(succ, b) : c # b
    BY <1>6
  <2>2. c \in together(b) /\ b \in together(b)
    BY <2>1, <1>1, <1>2, <1>3
  <2> QED BY <2>2, <1>1, <1>2
<1>7. Components(succ) = {together(b) : b \in Node} \ Small
  BY DEF Components
<1> HIDE DEF together, Small
<1>8. \A b \in Node : together(b) \notin Small <=> Two(together(b))
  BY <1>2, <1>4
<1> QED BY <1>5, <1>6, <1>7, <1>8

-----------------------------------------------------------------------------
(***************************************************************************)
(* Natural loops, in a graph without dead blocks.  What the graph has      *)
(* inside a set of blocks is written Inside.                               *)
(***************************************************************************)
AllLive(Node, succ, entry) == Graph(Node, succ, entry) /\ Reach(succ, {entry}) = Node
Inside(succ, N) == [b \in N |-> succ[b] \cap N]

LEMMA InsideGraph ==
  ASSUME NEW Node, NEW succ, NEW entry, Graph(Node, succ, entry),
         NEW N \in SUBSET Node, NEW x \in N
  PROVE  Graph(N, Inside(succ, N), x) /\ \A b \in N : Inside(succ, N)[b] = succ[b] \cap N
<1>1. IsFiniteSet(N)
  BY FS_Subset DEF Graph
<1> QED BY <1>1 DEF Graph, Inside

LEMMA InLoop ==
  ASSUME NEW Node, NEW succ, NEW entry, AllLive(Node, succ, entry), NEW h \in Node
  PROVE  /\ h \in NaturalLoop(succ, entry, h) /\ NaturalLoop(succ, entry, h) \subseteq Node
         /\ \A x : x # h =>
              (x \in NaturalLoop(succ, entry, h) <=>
                 x \in Node /\ \E u \in BackEdgesTo(succ, entry, h) : u # h /\ u \in Around(succ, x, h))
         /\ \A u : u \in BackEdgesTo(succ, entry, h) <=>
                     u \in Node /\ h \in succ[u] /\ Dominates(succ, entry, h, u)
BY DEF NaturalLoop, BackEdgesTo, Predecessors, Around, Stop, AllLive, Graph

\* A loop is entered at its header only.
LEMMA LoopBackward ==
  ASSUME NEW Node, NEW succ, NEW entry, AllLive(Node, succ, entry), NEW h \in Node,
         NEW p \in Node, NEW x \in NaturalLoop(succ, entry, h), x # h, x \in succ[p]
  PROVE  p \in NaturalLoop(succ, entry, h)
<1>1. CASE p = h
  BY <1>1, InLoop
<1>2. CASE p # h
  <2>1. PICK u \in BackEdgesTo(succ, entry, h) : u # h /\ u \in Around(succ, x, h)
    BY InLoop
  <2>2. Graph(Node, succ, p) /\ x \in Node
    BY InLoop DEF AllLive, Graph
  <2>3. Graph(Node, Stop(succ, h), p) /\ x \in Stop(succ, h)[p]
    BY <1>2, <2>2, StopGraph
  <2>4. Around(succ, x, h) \subseteq Around(succ, p, h)
    BY <2>3, ReachEdge, ReachTransitive DEF Around
  <2> QED BY <1>2, <2>1, <2>4, InLoop
<1> QED BY <1>1, <1>2

\* A header dominates its loop.
LEMMA LoopDominated ==
  ASSUME NEW Node, NEW succ, NEW entry, AllLive(Node, succ, entry), NEW h \in Node,
         NEW x \in NaturalLoop(succ, entry, h)
  PROVE  Dominates(succ, entry, h, x)
<1> SUFFICES ASSUME x # h, h # entry, x \in Around(succ, entry, h) PROVE FALSE
  BY DominatesAround
<1>1. PICK u \in BackEdgesTo(succ, entry, h) : u # h /\ u \in Around(succ, x, h)
  BY InLoop
<1>2. Graph(Node, Stop(succ, h), entry)
  BY StopGraph DEF AllLive
<1>3. Around(succ, x, h) \subseteq Around(succ, entry, h)
  BY <1>2, ReachTransitive DEF Around
<1>4. Dominates(succ, entry, h, u)
  BY <1>1, InLoop
<1> QED BY <1>1, <1>3, <1>4, DominatesAround

\* What goes back to a header that dominates it is in the loop.
LEMMA LatchInLoop ==
  ASSUME NEW Node, NEW succ, NEW entry, AllLive(Node, succ, entry), NEW h \in Node,
         NEW u \in BackEdgesTo(succ, entry, h)
  PROVE  u \in NaturalLoop(succ, entry, h)
<1>1. CASE u = h
  BY <1>1, InLoop
<1>2. CASE u # h
  <2>1. u \in Node /\ Graph(Node, succ, u)
    BY InLoop DEF AllLive, Graph
  <2>2. u \in Around(succ, u, h)
    BY <2>1, AroundSteps
  <2> QED BY <1>2, <2>1, <2>2, InLoop
<1> QED BY <1>1, <1>2

\* The blocks of a loop lead to each other without leaving it.
LEMMA LoopConnected ==
  ASSUME NEW Node, NEW succ, NEW entry, AllLive(Node, succ, entry), NEW h \in Node,
         NEW N \in SUBSET Node, NaturalLoop(succ, entry, h) \subseteq N,
         NEW x \in NaturalLoop(succ, entry, h)
  PROVE  /\ h \in Reach(Inside(succ, N), {x})
         /\ x \in Reach(Inside(succ, N), {h})
<1> DEFINE L == NaturalLoop(succ, entry, h)
           A == Reach(Inside(succ, N), {x})
           B == Reach(Inside(succ, N), {h})
<1>1. h \in L /\ h \in N /\ x \in N /\ \A p \in Node : \A c \in L : c # h /\ c \in succ[p] => p \in L
  BY InLoop, LoopBackward
<1>2. /\ Graph(Node, succ, entry) /\ \A b \in Node : succ[b] \subseteq Node
  BY DEF AllLive, Graph
<1>3. ASSUME NEW y \in N
      PROVE  LET Y == Reach(Inside(succ, N), {y})
             IN  Y \subseteq N /\ y \in Y /\ \A b \in Y : succ[b] \cap N \subseteq Y
  <2> DEFINE in == Inside(succ, N)
  <2>1. Graph(N, in, y) /\ \A b \in N : in[b] = succ[b] \cap N
    BY <1>2, InsideGraph
  <2> HIDE DEF in
  <2>2. Reach(in, {y}) \in SUBSET N /\ y \in Reach(in, {y})
        /\ \A b \in Reach(in, {y}) : in[b] \subseteq Reach(in, {y})
    BY <2>1, ReachFromEntry
  <2> QED BY <2>1, <2>2 DEF in
<1>4. /\ A \subseteq N /\ x \in A /\ \A b \in A : succ[b] \cap N \subseteq A
      /\ B \subseteq N /\ h \in B /\ \A b \in B : succ[b] \cap N \subseteq B
  BY <1>1, <1>3
<1> HIDE DEF A, B
<1>5. h \in A
  <2> SUFFICES ASSUME h \notin A PROVE FALSE
    OBVIOUS
  <2>1. PICK u \in BackEdgesTo(succ, entry, h) : u # h /\ u \in Around(succ, x, h)
    BY <1>4, InLoop
  <2> DEFINE S == A \cup (Node \ L) \cup {h}
  <2>2. x \in S /\ \A b \in S \cap Node : b # h => succ[b] \subseteq S
    BY <1>1, <1>2, <1>4
  <2>3. Graph(Node, succ, x)
    BY <1>1 DEF AllLive, Graph
  <2> HIDE DEF S
  <2>4. Around(succ, x, h) \subseteq S
    BY <2>2, <2>3, AroundInside
  <2>5. u \in L /\ u \in Node /\ h \in succ[u]
    BY <2>1, LatchInLoop, InLoop
  <2>6. u \in A
    BY <2>1, <2>4, <2>5 DEF S
  <2> QED BY <1>1, <1>4, <2>5, <2>6
<1>6. x \in B
  <2> SUFFICES ASSUME x \notin B PROVE FALSE
    OBVIOUS
  <2> DEFINE S == Node \ (L \ B)
  <2>1. entry \in S
    <3>1. entry \in L => h = entry
      BY <1>2, LoopDominated, EntryDominated
    <3> QED BY <1>2, <1>4, <3>1 DEF Graph
  <2>2. \A b \in S \cap Node : succ[b] \subseteq S
    BY <1>1, <1>2, <1>4
  <2> HIDE DEF S
  <2>3. Reach(succ, {entry}) \subseteq S
    BY <1>2, <2>1, <2>2, ReachInside
  <2>4. x \in Node
    BY InLoop
  <2> QED BY <2>3, <2>4 DEF AllLive, S
<1> QED BY <1>5, <1>6 DEF A, B

\* Two loops are nested, or have no block in common.
LEMMA LoopNested ==
  ASSUME NEW Node, NEW succ, NEW entry, AllLive(Node, succ, entry), NEW a \in Node, NEW b \in Node,
         a \in NaturalLoop(succ, entry, b)
  PROVE  NaturalLoop(succ, entry, a) \subseteq NaturalLoop(succ, entry, b)
<1> DEFINE A == NaturalLoop(succ, entry, a)
           B == NaturalLoop(succ, entry, b)
<1> SUFFICES ASSUME NEW x \in A, x \notin B, a # b PROVE FALSE
  OBVIOUS
<1>1. b \notin A
  <2> SUFFICES ASSUME b \in A PROVE FALSE
    OBVIOUS
  <2>1. Dominates(succ, entry, a, b) /\ Dominates(succ, entry, b, a)
    BY LoopDominated
  <2> QED BY <2>1, DominatesAntisymmetric DEF AllLive
<1>2. A \in SUBSET Node /\ a \in A
  BY InLoop
<1>3. a \in Reach(Inside(succ, A), {x})
  BY <1>2, LoopConnected
<1> DEFINE S == A \ B
<1>4. \A p \in S : \A c \in succ[p] \cap A : c \in S
  BY <1>1, <1>2, LoopBackward
<1>5. Graph(A, Inside(succ, A), x) /\ \A p \in A : Inside(succ, A)[p] = succ[p] \cap A
  BY <1>2, InsideGraph DEF AllLive
<1>6. x \in S /\ \A p \in S \cap A : Inside(succ, A)[p] \subseteq S
  BY <1>4, <1>5
<1> HIDE DEF S
<1>7. Reach(Inside(succ, A), {x}) \subseteq S
  BY <1>5, <1>6, ReachInside
<1> QED BY <1>3, <1>7 DEF S

LEMMA LoopsApart ==
  ASSUME NEW Node, NEW succ, NEW entry, AllLive(Node, succ, entry), NEW a \in Node, NEW b \in Node,
         NEW x \in NaturalLoop(succ, entry, a), x \in NaturalLoop(succ, entry, b)
  PROVE  \/ NaturalLoop(succ, entry, a) \subseteq NaturalLoop(succ, entry, b)
         \/ NaturalLoop(succ, entry, b) \subseteq NaturalLoop(succ, entry, a)
<1> DEFINE A == NaturalLoop(succ, entry, a)
           B == NaturalLoop(succ, entry, b)
<1>1. CASE a \in B
  BY <1>1, LoopNested
<1>2. CASE b \in A
  BY <1>2, LoopNested
<1>3. CASE a \notin B /\ b \notin A
  <2>1. B \in SUBSET Node /\ b \in B
    BY InLoop
  <2>2. x \in Reach(Inside(succ, B), {b})
    BY <2>1, LoopConnected
  <2> DEFINE S == B \ A
  <2>3. \A p \in S : \A c \in succ[p] \cap B : c \in S
    BY <1>3, <2>1, LoopBackward
  <2>4. Graph(B, Inside(succ, B), b) /\ \A p \in B : Inside(succ, B)[p] = succ[p] \cap B
    BY <2>1, InsideGraph DEF AllLive
  <2>5. b \in S /\ \A p \in S \cap B : Inside(succ, B)[p] \subseteq S
    BY <1>3, <2>1, <2>3, <2>4
  <2> HIDE DEF S
  <2>6. Reach(Inside(succ, B), {b}) \subseteq S
    BY <2>4, <2>5, ReachInside
  <2> QED BY <2>2, <2>6 DEF S
<1> QED BY <1>1, <1>2, <1>3

-----------------------------------------------------------------------------
\* The edges that do not go back to a dominator.
Onward(succ, entry) == [b \in DOMAIN succ |-> {c \in succ[b] : ~Dominates(succ, entry, c, b)}]

LEMMA OnwardAcyclic ==
  ASSUME NEW Node, NEW succ, NEW entry, AllLive(Node, succ, entry), Reducible(succ, entry)
  PROVE  /\ \A b \in Node : /\ Graph(Node, Onward(succ, entry), b)
                            /\ Onward(succ, entry)[b] =
                                 {c \in succ[b] : ~Dominates(succ, entry, c, b)}
         /\ \A b \in Node : b \notin Reach(Onward(succ, entry), Onward(succ, entry)[b])
BY DEF Onward, Reducible, AllLive, Graph

\* In a set of blocks of a reducible graph some block has only edges back to it.
LEMMA FirstOfSet ==
  ASSUME NEW Node, NEW succ, NEW entry, AllLive(Node, succ, entry), Reducible(succ, entry),
         NEW C \in SUBSET Node, C # {}
  PROVE  \E h \in C : \A p \in C : h \in succ[p] => Dominates(succ, entry, h, p)
<1> DEFINE on == Onward(succ, entry)
           Ahead(b) == Reach(on, {b})
           N == Cardinality(Node)
           Gaps == {N - Cardinality(Ahead(b)) : b \in C}
<1>1. \A b \in Node : /\ Graph(Node, on, b) /\ on[b] \in SUBSET Node
                      /\ on[b] = {c \in succ[b] : ~Dominates(succ, entry, c, b)}
                      /\ b \notin Reach(on, on[b])
  BY OnwardAcyclic DEF Graph
<1> HIDE DEF on
<1>2. ASSUME NEW b \in Node
      PROVE  /\ Ahead(b) \in SUBSET Node /\ b \in Ahead(b)
             /\ IsFiniteSet(Ahead(b)) /\ Cardinality(Ahead(b)) \in Nat
             /\ Cardinality(Ahead(b)) <= N /\ N \in Nat
  <2>1. Ahead(b) \in SUBSET Node /\ b \in Ahead(b)
    BY <1>1, ReachFromEntry
  <2>2. IsFiniteSet(Node)
    BY DEF AllLive, Graph
  <2> HIDE DEF Ahead
  <2> QED BY <2>1, <2>2, FS_Subset, FS_CardinalityType
<1>3. ASSUME NEW p \in Node, NEW h \in on[p]
      PROVE  h \in Node /\ Cardinality(Ahead(h)) < Cardinality(Ahead(p))
  <2>1. h \in Node /\ h \in Ahead(p)
    BY <1>1, <1>3, ReachEdge
  <2>2. Ahead(h) \subseteq Ahead(p)
    BY <1>1, <2>1, ReachTransitive
  <2>3. p \notin Ahead(h)
    <3>1. on[p] \in SUBSET Node /\ IsFiniteSet(Node) /\ on \in [Node -> SUBSET Node]
      BY <1>1 DEF Graph
    <3> DEFINE R == Reach(on, on[p])
    <3>2. h \in R /\ \A b \in R : on[b] \subseteq R
      BY <3>1, ReachIsLeast
    <3> HIDE DEF R
    <3>3. Ahead(h) \subseteq R
      BY <1>1, <2>1, <3>2, ReachInside
    <3> QED BY <1>1, <3>3 DEF R
  <2> HIDE DEF Ahead
  <2>4. Cardinality(Ahead(h)) <= Cardinality(Ahead(p)) /\ Cardinality(Ahead(h)) # Cardinality(Ahead(p))
    BY <1>2, <2>1, <2>2, <2>3, FS_Subset
  <2> QED BY <1>2, <2>1, <2>4
<1> HIDE DEF Ahead
<1>4. \A b \in C : N - Cardinality(Ahead(b)) \in Nat
  BY <1>2
<1>5. Gaps \in SUBSET Nat /\ Gaps # {}
  BY <1>4
<1>6. PICK n \in Gaps : \A k \in Gaps : n <= k
  BY <1>5, LeastNat
<1>7. PICK h \in C : n = N - Cardinality(Ahead(h))
  OBVIOUS
<1>8. ASSUME NEW p \in C, h \in succ[p], ~Dominates(succ, entry, h, p)
      PROVE  FALSE
  <2>1. h \in on[p]
    BY <1>1, <1>8
  <2>2. Cardinality(Ahead(h)) < Cardinality(Ahead(p))
    BY <1>3, <2>1
  <2>3. n <= N - Cardinality(Ahead(p))
    BY <1>6, <1>8
  <2> QED BY <1>2, <1>7, <2>2, <2>3
<1> QED BY <1>8

-----------------------------------------------------------------------------
(***************************************************************************)
(* The components of what is left of a reducible graph when headers have   *)
(* been taken out, each after those of the loops around its own, are its   *)
(* outermost loops that are left.                                          *)
(***************************************************************************)
IsComponent(succ, N, C) ==
  /\ \E x, y \in C : x # y
  /\ \E b \in N : C = Connected(Inside(succ, N), b)

LEMMA ComponentConnected ==
  ASSUME NEW Node, NEW succ, NEW entry, Graph(Node, succ, entry), NEW N \in SUBSET Node,
         NEW C, IsComponent(succ, N, C)
  PROVE  /\ C \in SUBSET N /\ \E x, y \in C : x # y
         /\ \A b \in C : C = Connected(Inside(succ, N), b)
<1> DEFINE in == Inside(succ, N)
<1>1. PICK b \in N : C = Connected(in, b)
  BY DEF IsComponent
<1>2. Graph(N, in, b)
  BY InsideGraph
<1>3. C \in SUBSET N
  BY <1>1, <1>2, ReachFromEntry DEF Connected
<1> HIDE DEF in
<1>4. \A c \in C : C = Connected(in, c)
  BY <1>1, <1>2, ConnectedSame
<1> QED BY <1>3, <1>4 DEF IsComponent, in

\* What is reached from a component and leads back to one of its blocks is in it.
LEMMA ComponentBetween ==
  ASSUME NEW Node, NEW succ, NEW entry, Graph(Node, succ, entry), NEW N \in SUBSET Node,
         NEW C, IsComponent(succ, N, C), NEW x \in C, NEW h \in C,
         NEW u \in Reach(Inside(succ, N), {x}), h \in succ[u]
  PROVE  u \in C
<1> DEFINE in == Inside(succ, N)
<1>1. C \in SUBSET N /\ C = Connected(in, x)
  BY ComponentConnected
<1>2. /\ Graph(N, in, x) /\ Graph(N, in, h) /\ u \in N
      /\ \A b \in N : in[b] = succ[b] \cap N
  <2>1. x \in N /\ h \in N
    BY <1>1
  <2>2. Graph(N, in, x) /\ Graph(N, in, h) /\ \A b \in N : in[b] = succ[b] \cap N
    BY <2>1, InsideGraph
  <2> HIDE DEF in
  <2>3. Reach(in, {x}) \in SUBSET N
    BY <2>2, ReachFromEntry
  <2> QED BY <2>2, <2>3 DEF in
<1> HIDE DEF in
<1>3. u \in Reach(in, {x})
  BY DEF in
<1>4. Graph(N, in, u) /\ h \in in[u]
  BY <1>1, <1>2 DEF Graph
<1>5. h \in Reach(in, {u})
  BY <1>4, ReachEdge
<1>6. Reach(in, {h}) \subseteq Reach(in, {u})
  BY <1>4, <1>5, ReachTransitive
<1>7. x \in Reach(in, {h})
  BY <1>1 DEF Connected
<1> QED BY <1>1, <1>3, <1>6, <1>7 DEF Connected

\* One block of a component dominates all of it, and is branched back to from it.
LEMMA ComponentHeader ==
  ASSUME NEW Node, NEW succ, NEW entry, AllLive(Node, succ, entry), Reducible(succ, entry),
         NEW N \in SUBSET Node, NEW C, IsComponent(succ, N, C)
  PROVE  \E h \in C : /\ \A x \in C : Dominates(succ, entry, h, x)
                      /\ BackEdgesTo(succ, entry, h) # {}
<1> DEFINE in == Inside(succ, N)
<1>0. Graph(Node, succ, entry)
  BY DEF AllLive
<1>1. /\ Graph(Node, succ, entry)
      /\ C \in SUBSET N /\ C \in SUBSET Node /\ \E x, y \in C : x # y
      /\ \A b \in C : C = Connected(in, b)
  <2>1. C \in SUBSET N /\ (\E x, y \in C : x # y) /\ \A b \in C : C = Connected(in, b)
    BY <1>0, ComponentConnected
  <2> QED BY <1>0, <2>1
<1>2. PICK h \in C : \A p \in C : h \in succ[p] => Dominates(succ, entry, h, p)
  BY <1>1, FirstOfSet
<1>3. \A b \in N : Graph(N, in, b) /\ in[b] = succ[b] \cap N
  BY <1>1, InsideGraph
<1>4. \A x \in C : \A u \in Reach(in, {x}) : h \in succ[u] => u \in C
  BY <1>1, <1>2, ComponentBetween
<1> HIDE DEF in
<1>5. \A x \in C : h \in Reach(in, {x})
  BY <1>1, <1>2 DEF Connected
<1>6. ASSUME NEW x \in C, ~Dominates(succ, entry, h, x)
      PROVE  FALSE
  <2> DEFINE T == Around(succ, entry, h)
             S == {y \in Reach(in, {x}) : y \in T /\ y # h}
  <2>1. h # x /\ h # entry /\ x \in T
    BY <1>6, DominatesAround
  <2>2. \A y \in T : y # h => succ[y] \subseteq T
    BY <1>1, AroundSteps
  <2>3. Graph(N, in, x) /\ Reach(in, {x}) \in SUBSET N /\ x \in Reach(in, {x})
        /\ \A y \in Reach(in, {x}) : in[y] \subseteq Reach(in, {x})
    BY <1>1, <1>3, ReachFromEntry
  <2>4. ASSUME NEW y \in S PROVE h \notin succ[y]
    <3>1. h \in succ[y] => y \in C
      BY <1>4
    <3>2. h \in succ[y] => Dominates(succ, entry, h, y)
      BY <1>2, <3>1
    <3> QED BY <2>1, <3>2, DominatesAround
  <2>5. x \in S /\ \A y \in S \cap N : in[y] \subseteq S
    BY <1>3, <2>1, <2>2, <2>3, <2>4
  <2> HIDE DEF S
  <2>6. Reach(in, {x}) \subseteq S
    BY <2>3, <2>5, ReachInside
  <2> QED BY <1>5, <2>6 DEF S
<1>7. BackEdgesTo(succ, entry, h) # {}
  <2>1. PICK y \in C : y # h
    BY <1>1
  <2>2. Graph(N, in, y) /\ h \in Reach(in, {y})
    BY <1>1, <1>3, <1>5
  <2>3. PICK p \in Reach(in, {y}) : h \in in[p]
    BY <2>1, <2>2, ReachHasPredecessor
  <2>4. p \in N
    BY <2>2, ReachFromEntry
  <2>5. h \in succ[p]
    BY <1>3, <2>3, <2>4
  <2>6. p \in C
    BY <1>4, <2>5
  <2>7. Dominates(succ, entry, h, p)
    BY <1>2, <2>5, <2>6
  <2>8. p \in BackEdgesTo(succ, entry, h)
    BY <1>1, <2>5, <2>6, <2>7, InLoop
  <2> QED BY <2>8
<1> QED BY <1>6, <1>7

\* The headers of the loops around the one of h are all in R.
OuterIn(succ, entry, h, R) ==
  \A g \in LoopHeaders(succ, entry) : h \in NaturalLoop(succ, entry, g) /\ g # h => g \in R

LEMMA IsHeader ==
  ASSUME NEW Node, NEW succ, NEW entry, AllLive(Node, succ, entry)
  PROVE  \A h : h \in LoopHeaders(succ, entry) <=>
           h \in Node /\ BackEdgesTo(succ, entry, h) # {} /\ NaturalLoop(succ, entry, h) # {h}
BY DEF LoopHeaders, AllLive

LEMMA LoopIsLeft ==
  ASSUME NEW Node, NEW succ, NEW entry, AllLive(Node, succ, entry), NEW R,
         \A r \in R : OuterIn(succ, entry, r, R),
         NEW h \in LoopHeaders(succ, entry), h \notin R
  PROVE  NaturalLoop(succ, entry, h) \subseteq Node \ R
<1>1. NaturalLoop(succ, entry, h) \subseteq Node
  BY IsHeader, InLoop
<1>2. \A r \in R : r \notin NaturalLoop(succ, entry, h)
  BY DEF OuterIn
<1> QED BY <1>1, <1>2

LEMMA LoopInComponent ==
  ASSUME NEW Node, NEW succ, NEW entry, AllLive(Node, succ, entry), NEW R,
         \A r \in R : OuterIn(succ, entry, r, R),
         NEW h \in LoopHeaders(succ, entry), h \notin R
  PROVE  /\ h \in Node \ R
         /\ NaturalLoop(succ, entry, h) \subseteq Connected(Inside(succ, Node \ R), h)
         /\ IsComponent(succ, Node \ R, Connected(Inside(succ, Node \ R), h))
<1> DEFINE L == NaturalLoop(succ, entry, h)
           N == Node \ R
<1>1. L \subseteq N /\ N \in SUBSET Node
  BY LoopIsLeft
<1>2. h \in Node /\ h \in L /\ L # {h}
  BY IsHeader, InLoop
<1> HIDE DEF N
<1>3. ASSUME NEW x \in L PROVE x \in Connected(Inside(succ, N), h)
  <2>1. h \in Reach(Inside(succ, N), {x}) /\ x \in Reach(Inside(succ, N), {h})
    BY <1>1, <1>2, LoopConnected
  <2> QED BY <2>1 DEF Connected
<1>4. L \subseteq Connected(Inside(succ, N), h) /\ h \in N
  BY <1>1, <1>2, <1>3
<1>5. \E x, y \in Connected(Inside(succ, N), h) : x # y
  BY <1>2, <1>4
<1> QED BY <1>4, <1>5 DEF IsComponent, N

\* Each component is a loop, all loops around it have been taken out, and it
\* is entered at its header only.
LEMMA ComponentIsLoop ==
  ASSUME NEW Node, NEW succ, NEW entry, AllLive(Node, succ, entry), Reducible(succ, entry), NEW R,
         \A r \in R : OuterIn(succ, entry, r, R),
         NEW C, IsComponent(succ, Node \ R, C)
  PROVE  \E h \in LoopHeaders(succ, entry) :
           h \in C /\ C = NaturalLoop(succ, entry, h) /\ OuterIn(succ, entry, h, R)
<1> DEFINE N == Node \ R
           in == Inside(succ, N)
<1>1. /\ Graph(Node, succ, entry) /\ N \in SUBSET Node
      /\ C \in SUBSET N /\ \E x, y \in C : x # y
      /\ \A b \in C : C = Connected(in, b)
  BY ComponentConnected DEF AllLive
<1>2. PICK h \in C : /\ \A x \in C : Dominates(succ, entry, h, x)
                     /\ BackEdgesTo(succ, entry, h) # {}
  BY <1>1, ComponentHeader
<1> DEFINE L == NaturalLoop(succ, entry, h)
<1>3. \A b \in N : Graph(N, in, b) /\ in[b] = succ[b] \cap N
  BY <1>1, InsideGraph
<1>4. \A x \in C : \A u \in Reach(in, {x}) : h \in succ[u] => u \in C
  BY <1>1, <1>2, ComponentBetween
<1>5. h \in Node /\ h \notin R /\ h \in L
  BY <1>1, <1>2, InLoop
<1> HIDE DEF in
<1>6. C \subseteq L
  <2> SUFFICES ASSUME NEW x \in C, x \notin L PROVE FALSE
    OBVIOUS
  <2> DEFINE A == Around(succ, x, h)
             S == {y \in Reach(in, {x}) : y \in A /\ y # h}
  <2>1. x # h /\ h \in Reach(in, {x})
    BY <1>1, <1>2, <1>5 DEF Connected
  <2>2. \A u \in BackEdgesTo(succ, entry, h) : u # h => u \notin A
    BY <1>1, <1>5, <2>1, InLoop
  <2>3. Graph(Node, succ, x)
    BY <1>1 DEF Graph
  <2>4. x \in A /\ \A y \in A : y # h => succ[y] \subseteq A
    BY <2>3, AroundSteps
  <2>5. Graph(N, in, x) /\ Reach(in, {x}) \in SUBSET N /\ x \in Reach(in, {x})
        /\ \A y \in Reach(in, {x}) : in[y] \subseteq Reach(in, {x})
    <3>1. x \in N
      BY <1>1
    <3> HIDE DEF N
    <3> QED BY <1>3, <3>1, ReachFromEntry
  <2> HIDE DEF A
  <2>6. ASSUME NEW y \in S PROVE h \notin succ[y]
    <3> SUFFICES ASSUME h \in succ[y] PROVE FALSE
      OBVIOUS
    <3>1. y \in C
      BY <1>4
    <3>2. y \in BackEdgesTo(succ, entry, h)
      BY <1>1, <1>2, <1>5, <3>1, InLoop
    <3> QED BY <2>2, <3>2
  <2>7. x \in S /\ \A y \in S \cap N : in[y] \subseteq S
    <3>1. x \in S
      BY <2>1, <2>4, <2>5
    <3>2. ASSUME NEW y \in S PROVE in[y] \subseteq S
      <4>1. y \in N /\ y \in Reach(in, {x}) /\ y \in A /\ y # h
        BY <2>5
      <4>2. in[y] = succ[y] \cap N
        BY <1>3, <4>1
      <4>3. in[y] \subseteq Reach(in, {x}) /\ succ[y] \subseteq A /\ h \notin succ[y]
        BY <2>4, <2>5, <2>6, <4>1
      <4> QED BY <4>2, <4>3
    <3> QED BY <3>1, <3>2
  <2> HIDE DEF S
  <2>8. Reach(in, {x}) \subseteq S
    BY <2>5, <2>7, ReachInside
  <2> QED BY <2>1, <2>8 DEF S
<1>7. h \in LoopHeaders(succ, entry)
  BY <1>1, <1>2, <1>5, <1>6, IsHeader
<1>8. L \subseteq C
  BY <1>1, <1>5, <1>7, LoopInComponent DEF in
<1>9. OuterIn(succ, entry, h, R)
  <2> SUFFICES ASSUME NEW g \in LoopHeaders(succ, entry), h \in NaturalLoop(succ, entry, g),
                      g # h, g \notin R
               PROVE  FALSE
    BY DEF OuterIn
  <2>1. /\ g \in N /\ NaturalLoop(succ, entry, g) \subseteq Connected(in, g)
        /\ IsComponent(succ, N, Connected(in, g))
    BY LoopInComponent DEF in
  <2>2. g \in Node /\ g \in NaturalLoop(succ, entry, g)
    BY <2>1, InLoop
  <2>3. h \in Connected(in, g) /\ g \in Connected(in, g)
    BY <2>1, <2>2
  <2>4. Connected(in, g) = Connected(in, h)
    BY <1>1, <2>1, <2>3, ComponentConnected DEF in
  <2>5. g \in C
    BY <1>1, <1>2, <2>3, <2>4
  <2>6. Dominates(succ, entry, h, g) /\ Dominates(succ, entry, g, h)
    BY <1>2, <2>2, <2>5, LoopDominated
  <2>7. g \in Reach(succ, {entry})
    BY <2>2 DEF AllLive
  <2> QED BY <1>1, <2>6, <2>7, DominatesAntisymmetric
<1> QED BY <1>2, <1>6, <1>7, <1>8, <1>9

-----------------------------------------------------------------------------
\* A loop its header is entered into from one block only: that block dominates
\* the loop.
LEMMA EntranceDominates ==
  ASSUME NEW Node, NEW succ, NEW entry, AllLive(Node, succ, entry), NEW h \in Node, NEW p,
         Predecessors(succ, h) \ NaturalLoop(succ, entry, h) = {p},
         NEW x \in NaturalLoop(succ, entry, h)
  PROVE  p \in Node /\ p \notin NaturalLoop(succ, entry, h) /\ Dominates(succ, entry, p, x)
<1> DEFINE L == NaturalLoop(succ, entry, h)
           S == Node \ L
<1>1. Graph(Node, succ, entry) /\ L \subseteq Node /\ h \in L
  BY InLoop DEF AllLive
<1>2. /\ DOMAIN succ = Node /\ entry \in Node /\ \A b \in Node : succ[b] \subseteq Node
  BY <1>1 DEF Graph
<1>3. p \in Node /\ p \notin L /\ h \in succ[p]
  BY <1>2 DEF Predecessors
<1>4. \A c \in S : h \in succ[c] => c = p
  BY <1>2 DEF Predecessors
<1>5. entry \in S
  <2> SUFFICES ASSUME entry \in L PROVE FALSE
    BY <1>2
  <2>1. h = entry
    BY <1>1, LoopDominated, EntryDominated
  <2>2. Dominates(succ, entry, h, p)
    BY <2>1 DEF Dominates
  <2>3. p \in BackEdgesTo(succ, entry, h)
    BY <1>3, <2>2, InLoop
  <2> QED BY <1>3, <2>3, LatchInLoop
<1>6. \A c \in S : \A y \in succ[c] : y \in L => c = p
  BY <1>4, LoopBackward
<1>7. \A c \in S \cap Node : c # p => succ[c] \subseteq S \cup {p}
  BY <1>2, <1>6
<1>8. x \notin S
  OBVIOUS
<1> HIDE DEF S
<1>9. Dominates(succ, entry, p, x)
  BY <1>1, <1>5, <1>7, <1>8, DominatesByCut
<1> QED BY <1>3, <1>9

\* What is outside of a loop and dominates a block of it dominates its header,
\* and the blocks it is entered from.
LEMMA DominatorOutside ==
  ASSUME NEW Node, NEW succ, NEW entry, AllLive(Node, succ, entry), NEW h \in Node,
         NEW x \in NaturalLoop(succ, entry, h), NEW d, d \notin NaturalLoop(succ, entry, h),
         Dominates(succ, entry, d, x), NEW p \in Node, h \in succ[p]
  PROVE  Dominates(succ, entry, d, p)
<1> DEFINE L == NaturalLoop(succ, entry, h)
           A == Around(succ, entry, d)
<1>1. Graph(Node, succ, entry) /\ L \in SUBSET Node /\ h \in L
  BY InLoop DEF AllLive
<1>2. Dominates(succ, entry, d, h)
  <2> SUFFICES ASSUME ~Dominates(succ, entry, d, h) PROVE FALSE
    OBVIOUS
  <2>1. d # entry /\ h \in A
    BY DominatesAround
  <2>2. \A b \in A : b # d => succ[b] \subseteq A
    BY <1>1, AroundSteps
  <2>3. Graph(L, Inside(succ, L), h) /\ \A b \in L : Inside(succ, L)[b] = succ[b] \cap L
    BY <1>1, InsideGraph
  <2>4. \A b \in A \cap L : Inside(succ, L)[b] \subseteq A
    BY <2>2, <2>3
  <2> HIDE DEF A
  <2>5. Reach(Inside(succ, L), {h}) \subseteq A
    BY <2>1, <2>3, <2>4, ReachInside
  <2>6. x \in Reach(Inside(succ, L), {h})
    BY <1>1, LoopConnected
  <2>7. x \in A
    BY <2>5, <2>6
  <2> QED BY <2>1, <2>7, DominatesAround DEF A
<1> QED BY <1>1, <1>2, DominatesPredecessor
=============================================================================
