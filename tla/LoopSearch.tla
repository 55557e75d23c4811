----------------------------- MODULE LoopSearch -----------------------------
(***************************************************************************)
(* LoopSearch::run of src/optimization/LoopSearch.cpp for one function:    *)
(* the components Tarjan's algorithm finds are loops; each loop's base is  *)
(* taken out of the graph and the search begins again for the loops        *)
(* inside.  The other functions of a module have other blocks, so the      *)
(* tables they add to share no key.                                        *)
(*                                                                         *)
(* The sets of nodes and of components are unordered_sets of pointers:     *)
(* they are gone through in any order.  The index -1 of a node not visited *)
(* is Unvisited.  pc = "crash" is base->bb of a base that is null.  The    *)
(* passes that ask for loops run the search and go on at pc = "found".     *)
(***************************************************************************)
EXTENDS Integers, FlowGraph

CONSTANTS
  Block,       \* basic blocks
  Graphs,      \* the graphs the pass may be given: [blocks, entry, succ]
  NoBlock      \* a null pointer

\* A function has finitely many blocks.
ASSUME BlockAssumption == IsFiniteSet(Block)
ASSUME GraphsAssumption ==
  \A f \in Graphs : /\ f.blocks \subseteq Block /\ f.entry \in f.blocks
                    /\ f.succ \in [f.blocks -> SUBSET f.blocks]
ASSUME NoBlockAssumption == NoBlock \notin Block

VARIABLES
  func,                      \* the function
  pc,
  nodes, succs, prevs,       \* the graph that is left
  reserved,                  \* bases taken out of it
  index, lowlink, index_count, stack,
  calls,                     \* traverse: a node and its successors to visit
  sccs,                      \* the result of the search, then what is left of it
  base2loop, bb2base         \* the loops found, and the base of the last one of a block

graph  == <<nodes, succs, prevs, reserved>>
tarjan == <<index, lowlink, index_count, stack, calls>>
loops  == <<base2loop, bb2base>>
search == <<func, pc, graph, tarjan, sccs, loops>>

Unvisited == -1
Elements(s) == {s[i] : i \in 1..Len(s)}
NotVisited == [n \in Block |-> Unvisited]

build_cfg ==
  /\ func \in Graphs
  /\ pc = "search"
  /\ nodes = func.blocks
  /\ succs = [n \in Block |-> IF n \in func.blocks THEN func.succ[n] ELSE {}]
  /\ prevs = [n \in Block |-> IF n \in func.blocks THEN Predecessors(func.succ, n) ELSE {}]
  /\ reserved = {}
  /\ index = NotVisited /\ lowlink = NotVisited
  /\ index_count = 0 /\ stack = <<>> /\ calls = <<>>
  /\ sccs = {}
  /\ base2loop = [n \in {} |-> {}] /\ bb2base = [n \in {} |-> NoBlock]

-----------------------------------------------------------------------------
onStack(n) == n \in Elements(stack)
min(a, b) == IF b < a THEN b ELSE a
top  == calls[Len(calls)]
node == top.node

Enter(n) ==
  /\ index' = [index EXCEPT ![n] = index_count]
  /\ lowlink' = [lowlink EXCEPT ![n] = index_count]
  /\ index_count' = index_count + 1
  /\ stack' = Append(stack, n)

\* strongly_connected_components: a node not visited yet.
Root ==
  /\ pc = "search" /\ calls = <<>>
  /\ \E n \in nodes :
       /\ index[n] = Unvisited
       /\ Enter(n)
       /\ calls' = <<[node |-> n, left |-> succs[n]]>>
  /\ UNCHANGED <<func, pc, graph, sccs, loops>>

\* traverse: the next successor.
Seen_Visited(su) == index[su] # Unvisited
Seen(su) == onStack(su)
Successor ==
  /\ pc = "search" /\ calls # <<>>
  /\ \E su \in top.left :
       LET rest == [calls EXCEPT ![Len(calls)].left = @ \ {su}]
       IN  IF index[su] = Unvisited
           THEN Enter(su) /\ calls' = Append(rest, [node |-> su, left |-> succs[su]])
           ELSE /\ calls' = rest
                /\ lowlink' = IF Seen(su) THEN [lowlink EXCEPT ![node] = min(index[su], @)]
                              ELSE lowlink
                /\ UNCHANGED <<index, index_count, stack>>
  /\ UNCHANGED <<func, pc, graph, sccs, loops>>

\* The nodes popped when n is the first of its component: n and those above.
Popped(n) ==
  LET at == CHOOSE i \in 1..Len(stack) : stack[i] = n
  IN  SubSeq(stack, at, Len(stack))

\* traverse returns; its caller lowers its own lowlink.
LowerCaller_None(n) == lowlink
LowerCaller(n) ==
  IF Len(calls) = 1 THEN lowlink
  ELSE [lowlink EXCEPT ![calls[Len(calls) - 1].node] = min(lowlink[n], @)]
Return ==
  /\ pc = "search" /\ calls # <<>> /\ top.left = {}
  /\ IF index[node] = lowlink[node]
     THEN /\ stack' = SubSeq(stack, 1, Len(stack) - Len(Popped(node)))
          /\ sccs' = IF Len(Popped(node)) = 1 THEN sccs ELSE sccs \cup {Elements(Popped(node))}
     ELSE UNCHANGED <<stack, sccs>>
  /\ lowlink' = LowerCaller(node)
  /\ calls' = SubSeq(calls, 1, Len(calls) - 1)
  /\ UNCHANGED <<func, pc, graph, index, index_count, loops>>

AllVisited == pc = "search" /\ calls = <<>> /\ \A n \in nodes : index[n] # Unvisited
Searched ==
  /\ AllVisited /\ sccs # {}
  /\ pc' = "bases"
  /\ UNCHANGED <<func, graph, tarjan, sccs, loops>>

\* No component is left: the nodes are deleted, the loops stay.
Clear ==
  /\ AllVisited /\ sccs = {}
  /\ pc' = "found"
  /\ reserved' = {} /\ nodes' = {}
  /\ succs' = [n \in Block |-> {}] /\ prevs' = [n \in Block |-> {}]
  /\ index' = NotVisited /\ lowlink' = NotVisited /\ index_count' = 0
  /\ UNCHANGED <<func, stack, calls, sccs, loops>>

-----------------------------------------------------------------------------
\* find_loop_base: a node entered from outside the loop, or else one entered
\* from a base already taken out; the last one gone through.
Entered(scc) == {n \in scc : prevs[n] \ scc # {}}
Candidates_EnteredOnly(scc) == IF Entered(scc) = {} THEN {NoBlock} ELSE Entered(scc)
Candidates(scc) ==
  LET fromReserved == scc \cap UNION {succs[r] : r \in reserved}
  IN  IF Entered(scc) # {} THEN Entered(scc)
      ELSE IF fromReserved # {} THEN fromReserved ELSE {NoBlock}

\* Step 6: the base and the edges to it go; its own edges stay.
Remaining(base) ==
  [nodes |-> nodes \ {base},
   succs |-> [n \in Block |-> IF n \in prevs[base] THEN succs[n] \ {base} ELSE succs[n]],
   prevs |-> [n \in Block |-> IF n \in succs[base] THEN prevs[n] \ {base} ELSE prevs[n]]]

\* Steps 3 to 6 for one component.
Inner(scc, base) == [n \in DOMAIN bb2base \cup scc |-> IF n \in scc THEN base ELSE bb2base[n]]
Base ==
  /\ pc = "bases"
  /\ \E scc \in sccs : \E base \in Candidates(scc) :
       IF base = NoBlock
       THEN pc' = "crash" /\ UNCHANGED <<graph, sccs, loops>>
       ELSE /\ base2loop' = [n \in DOMAIN base2loop \cup {base} |->
                               IF n \in DOMAIN base2loop THEN base2loop[n] ELSE scc]
            /\ bb2base' = Inner(scc, base)
            /\ reserved' = reserved \cup {base}
            /\ nodes' = Remaining(base).nodes
            /\ succs' = Remaining(base).succs
            /\ prevs' = Remaining(base).prevs
            /\ sccs' = sccs \ {scc}
            /\ UNCHANGED pc
  /\ UNCHANGED <<func, tarjan>>

\* The search begins again in what is left.
Again ==
  /\ pc = "bases" /\ sccs = {}
  /\ pc' = "search"
  /\ index' = [n \in Block |-> IF n \in nodes THEN Unvisited ELSE index[n]]
  /\ lowlink' = [n \in Block |-> IF n \in nodes THEN Unvisited ELSE lowlink[n]]
  /\ index_count' = 0 /\ stack' = <<>>
  /\ UNCHANGED <<func, graph, calls, sccs, loops>>

Search == Root \/ Successor \/ Return \/ Searched \/ Clear \/ Base \/ Again

-----------------------------------------------------------------------------
\* get_inner_loop and get_parent_loop of a loop with base b; {} is nullptr.
get_inner_loop(bb) == IF bb \in DOMAIN bb2base THEN base2loop[bb2base[bb]] ELSE {}

\* The first predecessor outside the loop decides.
Outside(b) == Predecessors(func.succ, b) \ base2loop[b]
get_parent_loop_Any(b, prev) == get_inner_loop(prev)
get_parent_loop(b, prev) ==
  IF b \in get_inner_loop(prev) THEN get_inner_loop(prev) ELSE {}

-----------------------------------------------------------------------------
\* What the search returns are the strongly connected components of two blocks
\* or more of the graph that is left, in whatever order it visits the nodes.
ComponentsFound ==
  AllVisited => sccs = Components([n \in nodes |-> succs[n]])

\* Each loop is left out of the graph by its base only, and none is lost:
\* for a graph without dead blocks in which loops are entered by their header,
\* the loops found are its natural loops.
Live == Reach(func.succ, {func.entry}) = func.blocks
Structured == Live /\ Reducible(func.succ, func.entry)
LoopsAreNaturalLoops ==
  pc = "found" /\ Structured =>
    /\ DOMAIN base2loop = LoopHeaders(func.succ, func.entry)
    /\ \A b \in DOMAIN base2loop : base2loop[b] = NaturalLoop(func.succ, func.entry, b)

\* The smallest loop with block b, if it is in one.
LoopsAround(b) == {base2loop[h] : h \in {x \in DOMAIN base2loop : b \in base2loop[x]}}
Smallest(S) == IF S = {} THEN {} ELSE CHOOSE l \in S : \A m \in S : l \subseteq m

\* A block outside that the loop of b is entered from belongs to every loop
\* around it, and to no other: the block the builder makes before a while.
Preheader(b) == \E p \in Block : Outside(b) = {p} /\ LoopsAround(p) = LoopsAround(b) \ {base2loop[b]}

\* get_parent_loop gives the smallest loop around a loop, or none; when the
\* loop has a block before it, always that loop.
ParentIsEnclosing ==
  pc = "found" /\ Structured =>
    \A b \in DOMAIN base2loop : \A prev \in Outside(b) :
      LET enclosing == Smallest(LoopsAround(b) \ {base2loop[b]})
      IN  \/ get_parent_loop(b, prev) = enclosing
          \/ get_parent_loop(b, prev) = {} /\ ~Preheader(b)

\* No base is null in a graph without dead blocks whose entry is in no loop.
CrashesOnlyOnDeadOrEntryLoop ==
  pc = "crash" => ~Live \/ func.entry \in Reach(func.succ, func.succ[func.entry])
=============================================================================
