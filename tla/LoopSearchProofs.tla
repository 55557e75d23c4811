-------------------------- MODULE LoopSearchProofs --------------------------
(***************************************************************************)
(* Proofs about LoopSearch, as LoopInvHoist runs it.  Layers:              *)
(*   Typed      the variables of the search have their types;              *)
(*   GraphLeft  what is left of the graph when the bases are out;          *)
(*   OnTheStack, Called, Explored                                          *)
(*              the order in which the nodes on the stack and the calls    *)
(*              were made, and which successors have been visited;         *)
(*   Joined     a call leads to what is above it on the stack, and         *)
(*              everything on the stack leads to a call below it;          *)
(*   Lowest     a lowlink is the index of a node that is reached, and no   *)
(*              edge looked at leads to a lower one;                       *)
(*   Complete   the components returned are those made of nodes that are   *)
(*              off the stack;                                             *)
(*   LoopsSoFar the components are the natural loops none of whose headers *)
(*              outside has been taken out, and each base is a header;     *)
(*   HoistInv   the pass: where each instruction is, what waits to move,   *)
(*              and which loops have nothing left that could.              *)
(***************************************************************************)
EXTENDS LoopInvHoist, FlowGraphProofs, SequenceTheorems

-----------------------------------------------------------------------------
\* The types of what the search keeps; the search goes on at "search" only
\* with what belongs to the nodes that are left.
CallRecord == [node: Block, left: SUBSET Block]
Typed ==
  /\ pc \in {"search", "bases", "crash", "found", "next", "examine", "move", "done"}
  /\ nodes \in SUBSET Block /\ reserved \in SUBSET Block
  /\ succs \in [Block -> SUBSET Block] /\ prevs \in [Block -> SUBSET Block]
  /\ index \in [Block -> Int] /\ lowlink \in [Block -> Int]
  /\ index_count \in Nat
  /\ stack \in Seq(Block)
  /\ calls \in Seq(CallRecord)

Searching == pc \in {"search", "bases", "crash"}

\* Only edges to a base have been taken out, and each node that is left knows
\* its predecessors among the others.
GraphLeft ==
  /\ func \in Graphs
  /\ Searching =>
       /\ reserved \subseteq func.blocks
       /\ nodes = func.blocks \ reserved
       /\ \A n \in func.blocks : /\ succs[n] \subseteq func.succ[n]
                                 /\ func.succ[n] \ reserved \subseteq succs[n]
       /\ \A n \in nodes : succs[n] \subseteq nodes
       /\ \A n \in nodes : prevs[n] = {p \in nodes : n \in func.succ[p]}

-----------------------------------------------------------------------------
Left == [n \in nodes |-> succs[n]]
LeadsTo(x, y) == y \in Reach(Left, {x})
Visited == {n \in nodes : index[n] # Unvisited}
OnStack == Elements(stack)
Returned == Visited \ OnStack
Caller(k) == calls[k].node
Calling == {Caller(k) : k \in 1..Len(calls)}

OnTheStack ==
  /\ OnStack \subseteq Visited
  /\ \A n \in Visited : index[n] \in 0..(index_count - 1)
  /\ \A j, k \in 1..Len(stack) : j < k => index[stack[j]] < index[stack[k]]

Called ==
  /\ Calling \subseteq OnStack
  /\ \A k \in 1..Len(calls) : calls[k].left \subseteq succs[Caller(k)]
  /\ \A j, k \in 1..Len(calls) : j < k => index[Caller(j)] < index[Caller(k)]
  /\ \A k \in 1..(Len(calls) - 1) : Caller(k + 1) \in succs[Caller(k)]

\* The successors of x that traverse has gone through.
GoneThrough(x) ==
  {su \in succs[x] : \A k \in 1..Len(calls) : x = Caller(k) => su \notin calls[k].left}
Explored ==
  /\ \A n \in Visited : GoneThrough(n) \subseteq Visited
  /\ \A n \in Returned : succs[n] \subseteq Returned

Joined ==
  /\ \A k \in 1..Len(calls) : \A x \in OnStack :
       index[Caller(k)] <= index[x] => LeadsTo(Caller(k), x)
  /\ \A x \in OnStack : \E k \in 1..Len(calls) :
       index[Caller(k)] <= index[x] /\ LeadsTo(x, Caller(k))

\* x was visited by the k-th call itself or by calls it made that returned.
VisitedBy(k, x) ==
  /\ index[Caller(k)] <= index[x]
  /\ k < Len(calls) => index[x] < index[Caller(k + 1)]
Lowest ==
  /\ \A x \in OnStack :
       /\ lowlink[x] <= index[x]
       /\ \E y \in OnStack : lowlink[x] = index[y] /\ LeadsTo(x, y)
  /\ \A k \in 1..Len(calls) : \A x \in OnStack : VisitedBy(k, x) =>
       \A z \in GoneThrough(x) \cap OnStack : lowlink[Caller(k)] <= index[z]

Complete == sccs = {C \in Components(Left) : C \subseteq Returned}

SearchInv == pc = "search" => /\ OnTheStack /\ Called /\ Explored
                              /\ Joined /\ Lowest /\ Complete

-----------------------------------------------------------------------------
\* Between two searches the components are what the last search returned: sets
\* of nodes that lead to each other in the function, no two with a common node.
Cyclic(C) == \A x, y \in C : y \in Reach(func.succ, {x})
Apart ==
  pc \in {"bases", "crash"} =>
    /\ calls = <<>>
    /\ \A C \in sccs : /\ C \subseteq nodes /\ Cyclic(C)
                       /\ \E x, y \in C : x # y
    /\ \A C, D \in sccs : C = D \/ C \cap D = {}

\* A null base: nothing is known to lead into the component.
NoWayIn ==
  pc = "crash" => \E C \in sccs : /\ Entered(C) = {}
                                  /\ C \cap UNION {succs[r] : r \in reserved} = {}

LoopSearchInv == Typed /\ GraphLeft /\ SearchInv /\ Apart /\ NoWayIn

-----------------------------------------------------------------------------
(***************************************************************************)
(* The steps.  Whatever the pass does after the search touches nothing of  *)
(* what the search has kept.                                               *)
(***************************************************************************)
Later ==
  /\ pc \in {"found", "next", "examine", "move"}
  /\ pc' \in {"next", "examine", "move", "done"}
  /\ UNCHANGED <<func, graph, tarjan, sccs, loops>>

LEMMA SearchSteps ==
  ASSUME [Next]_vars
  PROVE  Search \/ Later \/ UNCHANGED search
<1>1. CASE UNCHANGED vars
  BY <1>1 DEF vars
<1>2. CASE Search /\ UNCHANGED hoist
  BY <1>2
<1>3. CASE /\ (CollectLoops \/ Begin \/ Outward \/ TakeBlock \/ Examine \/ EndBlock \/ Examined
                 \/ Move \/ Moved \/ Finish)
           /\ UNCHANGED <<func, graph, tarjan, sccs, loops>>
  <2>1. CASE CollectLoops
    BY <1>3, <2>1 DEF CollectLoops, Later
  <2>2. CASE Begin
    BY <1>3, <2>2 DEF Begin, Examining, Later
  <2>3. CASE Outward
    BY <1>3, <2>3 DEF Outward, Examining, Later
  <2>4. CASE TakeBlock \/ Examine \/ EndBlock \/ Examined
    BY <1>3, <2>4 DEF TakeBlock, Examine, EndBlock, Examined, Later
  <2>5. CASE Move \/ Moved \/ Finish
    BY <1>3, <2>5 DEF Move, Moved, Finish, Later
  <2> QED BY <1>3, <2>1, <2>2, <2>3, <2>4, <2>5
<1> QED BY <1>1, <1>2, <1>3 DEF Next

\* A base that is not null is taken out of the graph.
TakesOut(scc, base) ==
  /\ base # NoBlock
  /\ reserved' = reserved \cup {base}
  /\ nodes' = Remaining(base).nodes
  /\ succs' = Remaining(base).succs
  /\ prevs' = Remaining(base).prevs
  /\ sccs' = sccs \ {scc}
  /\ UNCHANGED pc

LEMMA TopCall ==
  ASSUME Typed, calls # <<>>
  PROVE  /\ Len(calls) \in Nat \ {0}
         /\ top = calls[Len(calls)] /\ node = Caller(Len(calls))
         /\ node \in Block /\ top.left \in SUBSET Block
         /\ top \in CallRecord
<1>1. calls \in Seq(CallRecord) /\ calls # <<>>
  BY DEF Typed
<1>2. Len(calls) \in Nat \ {0}
  BY <1>1
<1>3. calls[Len(calls)] \in CallRecord
  BY <1>1
<1> QED BY <1>2, <1>3 DEF top, node, Caller, CallRecord

LEMMA TypedInit == Init => Typed /\ GraphLeft
<1> SUFFICES ASSUME Init PROVE Typed /\ GraphLeft
  OBVIOUS
<1>1. /\ func.blocks \subseteq Block /\ func.entry \in func.blocks
      /\ func.succ \in [func.blocks -> SUBSET func.blocks] /\ func \in Graphs
  BY GraphsAssumption DEF Init, build_cfg
<1>2. Typed
  BY <1>1 DEF Init, build_cfg, Typed, NotVisited, Unvisited, Predecessors
<1>3. GraphLeft
  BY <1>1 DEF Init, build_cfg, GraphLeft, Searching, Predecessors
<1> QED BY <1>2, <1>3

-----------------------------------------------------------------------------
(***************************************************************************)
(* What the actions of the search do to the entries of its sequences.      *)
(***************************************************************************)
\* traverse begins for n, which the last call, if there is one, comes to.
Entering(n) ==
  /\ pc = "search" /\ n \in nodes /\ index[n] = Unvisited
  /\ Len(stack') = Len(stack) + 1
  /\ \A k \in 1..Len(stack) : stack'[k] = stack[k]
  /\ stack'[Len(stack) + 1] = n
  /\ Len(calls') = Len(calls) + 1
  /\ \A k \in 1..Len(calls) :
       /\ calls'[k].node = calls[k].node
       /\ k < Len(calls) => calls'[k].left = calls[k].left
       /\ k = Len(calls) => n \in calls[k].left /\ calls'[k].left = calls[k].left \ {n}
  /\ calls'[Len(calls) + 1] = [node |-> n, left |-> succs[n]]
  /\ index' = [index EXCEPT ![n] = index_count]
  /\ lowlink' = [lowlink EXCEPT ![n] = index_count]
  /\ index_count' = index_count + 1
  /\ UNCHANGED <<func, pc, graph, sccs, loops>>

\* A successor of the last call's node that has been visited.
Looking(su) ==
  /\ pc = "search" /\ calls # <<>> /\ su \in calls[Len(calls)].left /\ index[su] # Unvisited
  /\ Len(calls') = Len(calls)
  /\ \A k \in 1..Len(calls) :
       /\ calls'[k].node = calls[k].node
       /\ k < Len(calls) => calls'[k].left = calls[k].left
       /\ k = Len(calls) => calls'[k].left = calls[k].left \ {su}
  /\ lowlink' = IF su \in OnStack
                THEN [lowlink EXCEPT ![Caller(Len(calls))] = min(index[su], @)] ELSE lowlink
  /\ UNCHANGED <<func, pc, graph, sccs, loops, index, index_count, stack>>

\* The last call returns; its node is the at-th of the stack.
Returning(at_) ==
  /\ pc = "search" /\ calls # <<>> /\ calls[Len(calls)].left = {}
  /\ at_ \in 1..Len(stack) /\ stack[at_] = Caller(Len(calls))
  /\ Len(calls') = Len(calls) - 1
  /\ \A k \in 1..(Len(calls) - 1) : calls'[k] = calls[k]
  /\ IF index[Caller(Len(calls))] = lowlink[Caller(Len(calls))]
     THEN /\ Len(stack') = at_ - 1
          /\ \A k \in 1..(at_ - 1) : stack'[k] = stack[k]
          /\ sccs' = IF at_ = Len(stack) THEN sccs
                     ELSE sccs \cup {{stack[k] : k \in at_..Len(stack)}}
     ELSE UNCHANGED <<stack, sccs>>
  /\ lowlink' = IF Len(calls) = 1 THEN lowlink
                ELSE [lowlink EXCEPT ![Caller(Len(calls) - 1)] =
                        min(lowlink[Caller(Len(calls))], @)]
  /\ UNCHANGED <<func, pc, graph, index, index_count, loops>>

LEMMA WithoutOne ==
  ASSUME NEW c \in Seq(CallRecord), NEW n, c # <<>>
  PROVE  LET rest == [c EXCEPT ![Len(c)].left = @ \ {n}]
         IN  /\ rest \in Seq(CallRecord) /\ Len(rest) = Len(c)
             /\ \A k \in 1..Len(c) :
                  /\ rest[k].node = c[k].node
                  /\ k < Len(c) => rest[k].left = c[k].left
                  /\ k = Len(c) => rest[k].left = c[k].left \ {n}
<1> DEFINE new == [c[Len(c)] EXCEPT !.left = @ \ {n}]
           rest == [c EXCEPT ![Len(c)] = new]
<1>1. Len(c) \in 1..Len(c)
  BY EmptySeq
<1>2. c[Len(c)] \in CallRecord
  BY <1>1, ElementOfSeq
<1>3. new \in CallRecord /\ new.node = c[Len(c)].node /\ new.left = c[Len(c)].left \ {n}
  BY <1>2 DEF CallRecord
<1> HIDE DEF new
<1>4. /\ rest \in Seq(CallRecord) /\ Len(rest) = Len(c)
      /\ \A k \in 1..Len(c) : rest[k] = IF k = Len(c) THEN new ELSE c[k]
  BY <1>1, <1>3, ExceptSeq
<1>5. Len(c) \in Nat
  BY LenProperties
<1>6. \A k \in 1..Len(c) :
        /\ rest[k].node = c[k].node
        /\ k < Len(c) => rest[k].left = c[k].left
        /\ k = Len(c) => rest[k].left = c[k].left \ {n}
  <2> HIDE DEF rest
  <2> TAKE k \in 1..Len(c)
  <2>1. CASE k = Len(c)
    BY <1>3, <1>4, <2>1
  <2>2. CASE k < Len(c)
    BY <1>4, <1>5, <2>2
  <2> QED BY <2>1, <2>2, <1>5
<1> QED BY <1>4, <1>6 DEF new

LEMMA EnterStack ==
  ASSUME Typed, NEW n \in Block, Enter(n)
  PROVE  /\ stack' \in Seq(Block)
         /\ Len(stack') = Len(stack) + 1
         /\ \A k \in 1..Len(stack) : stack'[k] = stack[k]
         /\ stack'[Len(stack) + 1] = n
<1>1. stack \in Seq(Block) /\ stack' = Append(stack, n)
  BY DEF Typed, Enter
<1> QED BY <1>1, AppendProperties

LEMMA RootEnters ==
  ASSUME Typed, Root
  PROVE  \E n \in nodes : Entering(n) /\ stack' \in Seq(Block) /\ calls' \in Seq(CallRecord)
<1>1. PICK n \in nodes :
        /\ index[n] = Unvisited /\ Enter(n)
        /\ calls' = <<[node |-> n, left |-> succs[n]]>>
  BY DEF Root
<1> DEFINE r == [node |-> n, left |-> succs[n]]
<1>2. n \in Block /\ r \in CallRecord
  BY <1>1 DEF Typed, CallRecord
<1>3. calls = <<>> /\ Len(calls) = 0
  BY DEF Root
<1> HIDE DEF r
<1>4. /\ calls' \in Seq(CallRecord) /\ Len(calls') = Len(calls) + 1
      /\ calls'[Len(calls) + 1] = r
      /\ 1..Len(calls) = {}
  BY <1>1, <1>2, <1>3 DEF r
<1>5. /\ stack' \in Seq(Block) /\ Len(stack') = Len(stack) + 1
      /\ \A k \in 1..Len(stack) : stack'[k] = stack[k]
      /\ stack'[Len(stack) + 1] = n
  BY <1>1, <1>2, EnterStack
<1>6. Entering(n)
  BY <1>1, <1>4, <1>5 DEF Entering, Enter, Root, r
<1> QED BY <1>4, <1>5, <1>6

LEMMA SuccessorLooks ==
  ASSUME Typed, GraphLeft, OnTheStack, Called, Successor
  PROVE  /\ stack' \in Seq(Block) /\ calls' \in Seq(CallRecord)
         /\ \E su \in Block : Entering(su) \/ Looking(su)
<1> DEFINE rest(su) == [calls EXCEPT ![Len(calls)].left = @ \ {su}]
<1>1. PICK su \in top.left :
        IF index[su] = Unvisited
        THEN Enter(su) /\ calls' = Append(rest(su), [node |-> su, left |-> succs[su]])
        ELSE /\ calls' = rest(su)
             /\ lowlink' = IF Seen(su) THEN [lowlink EXCEPT ![node] = min(index[su], @)]
                           ELSE lowlink
             /\ UNCHANGED <<index, index_count, stack>>
  BY DEF Successor
<1>2. /\ calls \in Seq(CallRecord) /\ calls # <<>>
      /\ Len(calls) \in Nat \ {0} /\ top = calls[Len(calls)] /\ node = Caller(Len(calls))
      /\ node \in Block /\ top.left \in SUBSET Block /\ su \in Block
  BY <1>1, TopCall DEF Successor, Typed
<1>3. su \in nodes
  <2>1. node \in nodes /\ top.left \subseteq succs[node]
    <3>1. Len(calls) \in 1..Len(calls)
      BY <1>2
    <3>2. node \in Calling /\ top.left \subseteq succs[node]
      BY <3>1, <1>2 DEF Called, Calling
    <3> QED BY <3>2 DEF Called, OnTheStack, Visited
  <2> QED BY <2>1, <1>1 DEF GraphLeft, Searching, Successor
<1>4. /\ rest(su) \in Seq(CallRecord) /\ Len(rest(su)) = Len(calls)
      /\ \A k \in 1..Len(calls) :
           /\ rest(su)[k].node = calls[k].node
           /\ k < Len(calls) => rest(su)[k].left = calls[k].left
           /\ k = Len(calls) => rest(su)[k].left = calls[k].left \ {su}
  BY <1>2, WithoutOne
<1> HIDE DEF rest
<1>5. CASE index[su] = Unvisited
  <2> DEFINE r == [node |-> su, left |-> succs[su]]
  <2>1. r \in CallRecord
    BY <1>2 DEF Typed, CallRecord
  <2>2. calls' = Append(rest(su), r)
    BY <1>1, <1>5
  <2> HIDE DEF r
  <2>3. /\ calls' \in Seq(CallRecord) /\ Len(calls') = Len(calls) + 1
        /\ \A k \in 1..Len(calls) : calls'[k] = rest(su)[k]
        /\ calls'[Len(calls) + 1] = r
    BY <1>4, <2>1, <2>2, AppendProperties
  <2>4. /\ stack' \in Seq(Block) /\ Len(stack') = Len(stack) + 1
        /\ \A k \in 1..Len(stack) : stack'[k] = stack[k]
        /\ stack'[Len(stack) + 1] = su
    BY <1>1, <1>2, <1>5, EnterStack
  <2>5. Entering(su)
    BY <1>1, <1>2, <1>3, <1>4, <1>5, <2>3, <2>4 DEF Entering, Enter, Successor, r
  <2> QED BY <1>2, <2>3, <2>4, <2>5
<1>6. CASE index[su] # Unvisited
  <2>1. Looking(su)
    BY <1>1, <1>2, <1>4, <1>6 DEF Looking, Successor, Seen, onStack, OnStack
  <2> QED BY <1>1, <1>2, <1>4, <1>6, <2>1 DEF Typed
<1> QED BY <1>5, <1>6

LEMMA ReturnLowers ==
  ASSUME Typed, Called, Return
  PROVE  /\ stack' \in Seq(Block) /\ calls' \in Seq(CallRecord)
         /\ \E at_ \in 1..Len(stack) : Returning(at_)
<1> DEFINE at_ == CHOOSE i \in 1..Len(stack) : stack[i] = node
<1>1. /\ calls \in Seq(CallRecord) /\ calls # <<>> /\ stack \in Seq(Block)
      /\ Len(calls) \in Nat \ {0} /\ top = calls[Len(calls)] /\ node = Caller(Len(calls))
      /\ Len(stack) \in Nat
  BY TopCall DEF Return, Typed
<1>2. at_ \in 1..Len(stack) /\ stack[at_] = node
  <2>1. Len(calls) \in 1..Len(calls)
    BY <1>1
  <2>2. node \in OnStack
    BY <2>1, <1>1 DEF Called, Calling
  <2>3. \E i \in 1..Len(stack) : stack[i] = node
    BY <2>2 DEF OnStack, Elements
  <2> QED BY <2>3
<1>3. Popped(node) = SubSeq(stack, at_, Len(stack))
  BY DEF Popped
<1> HIDE DEF at_
<1>4. /\ Len(Popped(node)) = Len(stack) - at_ + 1
      /\ \A k \in 1..(Len(stack) - at_ + 1) : Popped(node)[k] = stack[at_ + k - 1]
  BY <1>1, <1>2, <1>3, SubSeqProperties
<1>5. Elements(Popped(node)) = {stack[k] : k \in at_..Len(stack)}
  <2>1. ASSUME NEW k \in at_..Len(stack)
        PROVE  stack[k] \in Elements(Popped(node))
    <3>1. k - at_ + 1 \in 1..(Len(stack) - at_ + 1) /\ at_ + (k - at_ + 1) - 1 = k
      BY <1>1, <1>2
    <3> QED BY <3>1, <1>4 DEF Elements
  <2>2. ASSUME NEW k \in 1..(Len(stack) - at_ + 1)
        PROVE  /\ at_ + k - 1 \in at_..Len(stack)
               /\ Popped(node)[k] = stack[at_ + k - 1]
    BY <1>1, <1>2, <1>4
  <2>3. Elements(Popped(node)) \subseteq {stack[k] : k \in at_..Len(stack)}
    BY <2>2, <1>4 DEF Elements
  <2> QED BY <2>1, <2>3
<1>6. /\ SubSeq(stack, 1, at_ - 1) \in Seq(Block) /\ Len(SubSeq(stack, 1, at_ - 1)) = at_ - 1
      /\ \A k \in 1..(at_ - 1) : SubSeq(stack, 1, at_ - 1)[k] = stack[k]
  BY <1>1, <1>2, SubSeqProperties
<1>7. /\ SubSeq(calls, 1, Len(calls) - 1) \in Seq(CallRecord)
      /\ Len(SubSeq(calls, 1, Len(calls) - 1)) = Len(calls) - 1
      /\ \A k \in 1..(Len(calls) - 1) : SubSeq(calls, 1, Len(calls) - 1)[k] = calls[k]
  <2>1. \A k \in 1..(Len(calls) - 1) : calls[k] \in CallRecord
    BY <1>1, ElementOfSeq
  <2> DEFINE n == Len(calls) - 1
  <2>2. n \in Nat /\ n \in Int
    BY <1>1
  <2>3. \A k \in 1..n : calls[k] \in CallRecord
    BY <2>1
  <2> HIDE DEF n
  <2>4. /\ SubSeq(calls, 1, n) \in Seq(CallRecord)
        /\ Len(SubSeq(calls, 1, n)) = IF 1 <= n THEN n - 1 + 1 ELSE 0
        /\ \A k \in 1..(n - 1 + 1) : SubSeq(calls, 1, n)[k] = calls[1 + k - 1]
    BY <2>2, <2>3, SubSeqProperties
  <2>5. /\ Len(SubSeq(calls, 1, n)) = n /\ n - 1 + 1 = n
        /\ \A k \in 1..n : SubSeq(calls, 1, n)[k] = calls[k]
    BY <2>2, <2>4
  <2> QED BY <2>4, <2>5 DEF n
<1>8. calls' = SubSeq(calls, 1, Len(calls) - 1)
  BY DEF Return
<1>9. CASE index[node] = lowlink[node]
  <2>1. Len(stack) - Len(Popped(node)) = at_ - 1 /\ (Len(Popped(node)) = 1 <=> at_ = Len(stack))
    BY <1>1, <1>2, <1>4
  <2>2. /\ stack' = SubSeq(stack, 1, at_ - 1)
        /\ sccs' = IF at_ = Len(stack) THEN sccs
                   ELSE sccs \cup {{stack[k] : k \in at_..Len(stack)}}
    BY <2>1, <1>5, <1>9 DEF Return
  <2>3. Returning(at_)
    BY <1>1, <1>2, <1>6, <1>7, <1>8, <1>9, <2>2 DEF Returning, Return, LowerCaller, Caller
  <2> QED BY <1>2, <1>6, <1>7, <1>8, <2>2, <2>3
<1>10. CASE index[node] # lowlink[node]
  <2>1. UNCHANGED <<stack, sccs>>
    BY <1>10 DEF Return
  <2>2. Returning(at_)
    BY <1>1, <1>2, <1>7, <1>8, <1>10, <2>1 DEF Returning, Return, LowerCaller, Caller
  <2> QED BY <1>1, <1>2, <1>7, <1>8, <2>1, <2>2
<1> QED BY <1>9, <1>10

LEMMA BaseTakesOut ==
  ASSUME Typed, Apart, Base
  PROVE  \/ pc = "bases" /\ pc' = "crash" /\ UNCHANGED <<func, graph, tarjan, sccs, loops>>
         \/ \E scc \in sccs : \E base \in scc : TakesOut(scc, base)
<1>1. PICK scc \in sccs : \E base \in Candidates(scc) :
       IF base = NoBlock
       THEN pc' = "crash" /\ UNCHANGED <<graph, sccs, loops>>
       ELSE TakesOut(scc, base)
  BY DEF Base, TakesOut
<1>2. PICK base \in Candidates(scc) :
       IF base = NoBlock
       THEN pc' = "crash" /\ UNCHANGED <<graph, sccs, loops>>
       ELSE TakesOut(scc, base)
  BY <1>1
<1>3. base # NoBlock => base \in scc
  BY <1>2 DEF Candidates, Entered
<1> QED BY <1>2, <1>3 DEF Base

LEMMA TypedStep ==
  ASSUME LoopSearchInv, [Next]_vars
  PROVE  Typed'
<1>1. Typed /\ GraphLeft /\ Apart /\ (pc = "search" => OnTheStack /\ Called)
  BY DEF LoopSearchInv, SearchInv
<1> USE DEF graph, tarjan, loops
<1>2. CASE Later \/ UNCHANGED search
  BY <1>1, <1>2 DEF Later, Typed, search
<1>3. CASE Root \/ Successor
  <2>1. stack' \in Seq(Block) /\ calls' \in Seq(CallRecord) /\ \E su \in Block : Entering(su) \/ Looking(su)
    BY <1>1, <1>3, RootEnters, SuccessorLooks DEF Typed, Successor
  <2>2. PICK su \in Block : Entering(su) \/ Looking(su)
    BY <2>1
  <2>3. index' \in [Block -> Int] /\ lowlink' \in [Block -> Int] /\ index_count' \in Nat
    BY <2>2, <1>1 DEF Typed, Entering, Looking, min
  <2> QED BY <2>1, <2>2, <2>3, <1>1 DEF Typed, Entering, Looking
<1>4. CASE Return
  <2>1. /\ stack' \in Seq(Block) /\ calls' \in Seq(CallRecord)
        /\ \E k \in 1..Len(stack) : Returning(k)
    BY <1>1, <1>4, ReturnLowers DEF Return
  <2>2. PICK k \in 1..Len(stack) : Returning(k)
    BY <2>1
  <2>3. lowlink' \in [Block -> Int]
    <3>1. Caller(Len(calls)) \in Block
      BY <1>1, <1>4, TopCall DEF Return
    <3>2. lowlink \in [Block -> Int]
      BY <1>1 DEF Typed
    <3>3. \/ lowlink' = lowlink
          \/ lowlink' = [lowlink EXCEPT ![Caller(Len(calls) - 1)] =
                          min(lowlink[Caller(Len(calls))], @)]
      BY <2>2 DEF Returning
    <3> QED BY <3>1, <3>2, <3>3 DEF min
  <2> QED BY <2>1, <2>2, <2>3, <1>1 DEF Typed, Returning
<1>5. CASE Searched
  BY <1>1, <1>5 DEF Searched, AllVisited, Typed
<1>6. CASE Clear
  <2>1. index' \in [Block -> Int] /\ lowlink' \in [Block -> Int]
    BY <1>6 DEF Clear, NotVisited, Unvisited
  <2>2. succs' \in [Block -> SUBSET Block] /\ prevs' \in [Block -> SUBSET Block]
    BY <1>6 DEF Clear
  <2> QED BY <2>1, <2>2, <1>1, <1>6 DEF Clear, AllVisited, Typed
<1>7. CASE Again
  <2>1. index' \in [Block -> Int] /\ lowlink' \in [Block -> Int]
    BY <1>1, <1>7 DEF Again, Unvisited, Typed
  <2>2. stack' \in Seq(Block)
    BY <1>7 DEF Again
  <2> QED BY <2>1, <2>2, <1>1, <1>7 DEF Again, Typed
<1>8. CASE Base
  <2>1. CASE pc = "bases" /\ pc' = "crash" /\ UNCHANGED <<func, graph, tarjan, sccs, loops>>
    BY <1>1, <2>1 DEF Typed
  <2>2. CASE \E scc \in sccs : \E base \in scc : TakesOut(scc, base)
    <3>1. PICK scc \in sccs, base \in Block : TakesOut(scc, base)
      BY <2>2, <1>1, <1>8 DEF Base, Apart, Typed
    <3>2. succs' \in [Block -> SUBSET Block] /\ prevs' \in [Block -> SUBSET Block]
      BY <3>1, <1>1 DEF Typed, TakesOut, Remaining
    <3> QED BY <3>1, <3>2, <1>1, <1>8 DEF Base, Typed, TakesOut, Remaining
  <2> QED BY <2>1, <2>2, <1>1, <1>8, BaseTakesOut
<1> QED BY <1>2, <1>3, <1>4, <1>5, <1>6, <1>7, <1>8, SearchSteps DEF Search

-----------------------------------------------------------------------------
(***************************************************************************)
(* The graph that is left.                                                 *)
(***************************************************************************)
LEMMA FunctionTyped ==
  ASSUME GraphLeft
  PROVE  /\ func.blocks \subseteq Block /\ func.entry \in func.blocks
         /\ func.succ \in [func.blocks -> SUBSET func.blocks]
         /\ IsFiniteSet(func.blocks)
<1>1. /\ func.blocks \subseteq Block /\ func.entry \in func.blocks
      /\ func.succ \in [func.blocks -> SUBSET func.blocks]
  BY GraphsAssumption DEF GraphLeft
<1>2. func.blocks \in SUBSET Block /\ IsFiniteSet(Block)
  BY <1>1, BlockAssumption
<1>3. IsFiniteSet(func.blocks)
  BY <1>2, FS_Subset
<1> QED BY <1>1, <1>3

LEMMA LeftWithoutBase ==
  ASSUME Typed, GraphLeft, Searching, NEW scc, NEW base \in nodes, TakesOut(scc, base),
         func' = func
  PROVE  GraphLeft'
<1> DEFINE succs2(n) == IF n \in prevs[base] THEN succs[n] \ {base} ELSE succs[n]
           prevs2(n) == IF n \in succs[base] THEN prevs[n] \ {base} ELSE prevs[n]
<1>1. /\ reserved \subseteq func.blocks
      /\ nodes = func.blocks \ reserved
      /\ \A n \in func.blocks : /\ succs[n] \subseteq func.succ[n]
                                /\ func.succ[n] \ reserved \subseteq succs[n]
      /\ \A n \in nodes : succs[n] \subseteq nodes
      /\ \A n \in nodes : prevs[n] = {p \in nodes : n \in func.succ[p]}
      /\ nodes \subseteq Block /\ func \in Graphs
  BY DEF GraphLeft, Typed
<1>2. /\ nodes' = nodes \ {base} /\ reserved' = reserved \cup {base}
      /\ \A n \in Block : succs'[n] = succs2(n) /\ prevs'[n] = prevs2(n)
  BY DEF TakesOut, Remaining
<1>3. func.blocks \subseteq Block
  BY FunctionTyped
<1>4. base \in func.blocks /\ base \notin reserved
  BY <1>1
<1>5. ASSUME NEW n \in func.blocks
      PROVE  /\ succs'[n] \subseteq func.succ[n]
             /\ func.succ[n] \ reserved' \subseteq succs'[n]
  <2>1. succs'[n] = succs[n] \/ succs'[n] = succs[n] \ {base}
    BY <1>2, <1>3
  <2> QED BY <1>1, <1>2, <2>1
<1>6. ASSUME NEW n \in nodes'
      PROVE  /\ n \in nodes /\ n # base /\ n \in Block /\ n \notin reserved /\ n \in func.blocks
             /\ succs'[n] = succs2(n) /\ prevs'[n] = prevs2(n)
  BY <1>1, <1>2
<1> HIDE DEF succs2, prevs2
<1>7. ASSUME NEW n \in nodes'
      PROVE  succs'[n] \subseteq nodes'
  <2>1. base \notin succs'[n]
    <3>1. n \in prevs[base] <=> base \in func.succ[n]
      BY <1>1, <1>6
    <3>2. base \in succs[n] => n \in prevs[base]
      BY <3>1, <1>1, <1>6
    <3> QED BY <3>2, <1>6 DEF succs2
  <2>2. succs'[n] \subseteq succs[n]
    BY <1>6 DEF succs2
  <2>3. succs[n] \subseteq nodes
    BY <1>1, <1>6
  <2> QED BY <2>1, <2>2, <2>3, <1>2
<1>8. ASSUME NEW n \in nodes'
      PROVE  prevs'[n] = {p \in nodes' : n \in func.succ[p]}
  <2>1. prevs[n] = {p \in nodes : n \in func.succ[p]}
    BY <1>1, <1>6
  <2>2. base \in prevs[n] => n \in succs[base]
    BY <2>1, <1>1, <1>6, <1>4
  <2>3. prevs'[n] = prevs[n] \ {base}
    BY <2>2, <1>6 DEF prevs2
  <2> QED BY <2>1, <2>3, <1>2
<1>9. /\ reserved' \subseteq func.blocks /\ nodes' = func.blocks \ reserved'
  BY <1>1, <1>2, <1>4
<1> QED BY <1>1, <1>5, <1>7, <1>8, <1>9 DEF GraphLeft

LEMMA GraphLeftStep ==
  ASSUME LoopSearchInv, [Next]_vars
  PROVE  GraphLeft'
<1>1. Typed /\ GraphLeft /\ Apart /\ (pc = "search" => OnTheStack /\ Called)
  BY DEF LoopSearchInv, SearchInv
<1>2. CASE Later \/ UNCHANGED search
  BY <1>1, <1>2 DEF Later, GraphLeft, Searching, search, graph
<1>3. CASE Root \/ Successor \/ Return \/ Searched \/ Again
  <2>1. UNCHANGED <<func, graph>> /\ pc \in {"search", "bases"}
    BY <1>3 DEF Root, Successor, Return, Searched, Again, AllVisited
  <2> QED BY <1>1, <2>1 DEF GraphLeft, Searching, graph
<1>4. CASE Clear
  BY <1>1, <1>4 DEF Clear, GraphLeft, Searching
<1>5. CASE Base
  <2>1. CASE pc = "bases" /\ pc' = "crash" /\ UNCHANGED <<func, graph, tarjan, sccs, loops>>
    BY <1>1, <2>1 DEF GraphLeft, Searching, graph
  <2>2. CASE \E scc \in sccs : \E base \in scc : TakesOut(scc, base)
    <3>1. PICK scc \in sccs, base \in nodes : TakesOut(scc, base)
      BY <2>2, <1>1, <1>5 DEF Base, Apart
    <3>2. Searching /\ func' = func
      BY <1>5 DEF Base, Searching
    <3> QED BY <3>1, <3>2, <1>1, LeftWithoutBase
  <2> QED BY <2>1, <2>2, <1>1, <1>5, BaseTakesOut
<1> QED BY <1>2, <1>3, <1>4, <1>5, SearchSteps DEF Search

-----------------------------------------------------------------------------
(***************************************************************************)
(* What leads where in it.                                                 *)
(***************************************************************************)
LEMMA LeftGraph ==
  ASSUME Typed, GraphLeft, Searching
  PROVE  /\ IsFiniteSet(nodes) /\ Left \in [nodes -> SUBSET nodes]
         /\ \A x \in nodes : Graph(nodes, Left, x) /\ Left[x] = succs[x]
<1>1. IsFiniteSet(nodes)
  <2>1. nodes \in SUBSET Block /\ IsFiniteSet(Block)
    BY BlockAssumption DEF Typed
  <2> QED BY <2>1, FS_Subset
<1>2. Left \in [nodes -> SUBSET nodes] /\ \A x \in nodes : Left[x] = succs[x]
  BY DEF GraphLeft, Left
<1> QED BY <1>1, <1>2 DEF Graph

LEMMA Leading ==
  ASSUME Typed, GraphLeft, Searching, NEW x \in nodes
  PROVE  /\ LeadsTo(x, x)
         /\ \A y : LeadsTo(x, y) => y \in nodes
         /\ \A y \in succs[x] : LeadsTo(x, y) /\ y \in nodes
         /\ \A y, z : LeadsTo(x, y) /\ LeadsTo(y, z) => LeadsTo(x, z)
         /\ \A y, z : LeadsTo(x, y) /\ z \in succs[y] => LeadsTo(x, z)
         /\ \A S : x \in S /\ (\A y \in S \cap nodes : succs[y] \subseteq S)
                    => \A y : LeadsTo(x, y) => y \in S
<1>1. Graph(nodes, Left, x) /\ \A y \in nodes : Left[y] = succs[y]
  BY LeftGraph
<1> DEFINE R == Reach(Left, {x})
<1>2. R \in SUBSET nodes /\ x \in R /\ \A b \in R : Left[b] \subseteq R
  BY <1>1, ReachFromEntry
<1>3. \A y \in R : Reach(Left, {y}) \subseteq R
  <2> TAKE y \in R
  <2> QED BY <1>1, ReachTransitive
<1>4. ASSUME NEW S, x \in S, \A y \in S \cap nodes : succs[y] \subseteq S
      PROVE  R \subseteq S
  <2>1. \A y \in S \cap nodes : Left[y] \subseteq S
    BY <1>1, <1>4
  <2> QED BY <1>1, <1>4, <2>1, ReachInside
<1> HIDE DEF R
<1>5. \A y : LeadsTo(x, y) <=> y \in R
  BY DEF LeadsTo, R
<1>6. \A y \in R : \A z : LeadsTo(y, z) => z \in R
  BY <1>3 DEF LeadsTo
<1> QED BY <1>1, <1>2, <1>4, <1>5, <1>6

-----------------------------------------------------------------------------
(***************************************************************************)
(* A node is entered.                                                      *)
(***************************************************************************)
LEMMA Lengths ==
  ASSUME Typed
  PROVE  /\ Len(stack) \in Nat /\ Len(calls) \in Nat
         /\ (calls = <<>> <=> Len(calls) = 0)
         /\ \A k \in 1..Len(stack) : stack[k] \in Block
         /\ \A k \in 1..Len(calls) : Caller(k) \in Block /\ calls[k].left \in SUBSET Block
<1>1. stack \in Seq(Block) /\ calls \in Seq(CallRecord)
  BY DEF Typed
<1>2. \A k \in 1..Len(calls) : calls[k] \in CallRecord
  BY <1>1, ElementOfSeq
<1>3. Len(stack) \in Nat /\ Len(calls) \in Nat /\ (calls = <<>> <=> Len(calls) = 0)
  BY <1>1, EmptySeq
<1> QED BY <1>1, <1>2, <1>3 DEF Caller, CallRecord

LEMMA EnterEffect ==
  ASSUME Typed, OnTheStack, Called, NEW n, Entering(n)
  PROVE  /\ n \in Block /\ n \in nodes /\ n \notin Visited /\ n \notin OnStack
         /\ OnStack' = OnStack \cup {n} /\ Visited' = Visited \cup {n}
         /\ Returned' = Returned /\ Left' = Left
         /\ index_count \in Nat /\ index_count' = index_count + 1
         /\ index'[n] = index_count /\ lowlink'[n] = index_count
         /\ \A x \in Visited : /\ index'[x] = index[x] /\ lowlink'[x] = lowlink[x]
                               /\ index[x] \in Int /\ lowlink[x] \in Int
                               /\ index[x] < index_count
         /\ \A k : k = Len(calls) + 1 => Caller(k)' = n
         /\ \A k \in 1..Len(calls) : Caller(k)' = Caller(k) /\ Caller(k) \in OnStack
         /\ GoneThrough(n)' = {}
         /\ \A x \in OnStack : GoneThrough(x)' \subseteq GoneThrough(x) \cup {n}
         /\ \A x \in Returned : GoneThrough(x)' = GoneThrough(x)
<1>1. /\ n \in nodes /\ nodes \subseteq Block /\ index \in [Block -> Int]
      /\ lowlink \in [Block -> Int] /\ index_count \in Nat
      /\ index[n] = Unvisited
      /\ index' = [index EXCEPT ![n] = index_count]
      /\ lowlink' = [lowlink EXCEPT ![n] = index_count]
      /\ index_count' = index_count + 1 /\ nodes' = nodes /\ succs' = succs
  BY DEF Typed, Entering, graph
<1>2. n \notin Visited /\ n \notin OnStack /\ OnStack \subseteq Visited
  BY <1>1 DEF Visited, OnTheStack
<1>3. Visited' = Visited \cup {n}
  BY <1>1 DEF Visited, Unvisited
<1>4. /\ Len(stack) \in Nat /\ Len(stack') = Len(stack) + 1
      /\ \A k \in 1..Len(stack) : stack'[k] = stack[k]
      /\ stack'[Len(stack) + 1] = n
  BY Lengths DEF Entering
<1>5. OnStack' = OnStack \cup {n}
  <2>1. OnStack' = {stack'[i] : i \in 1..(Len(stack) + 1)} /\ OnStack = {stack[i] : i \in 1..Len(stack)}
    BY <1>4 DEF OnStack, Elements
  <2>2. ASSUME NEW i \in 1..(Len(stack) + 1) PROVE stack'[i] \in OnStack \cup {n}
    BY <1>4, <2>1, <2>2
  <2>3. ASSUME NEW i \in 1..Len(stack) PROVE stack[i] \in OnStack'
    BY <1>4, <2>1
  <2>4. n \in OnStack'
    BY <1>4, <2>1
  <2> QED BY <2>1, <2>2, <2>3, <2>4
<1>6. Returned' = Returned
  BY <1>2, <1>3, <1>5 DEF Returned
<1>7. Left' = Left
  BY <1>1 DEF Left
<1>8. \A x \in Visited : /\ index'[x] = index[x] /\ lowlink'[x] = lowlink[x]
                         /\ index[x] \in Int /\ lowlink[x] \in Int
                         /\ index[x] < index_count
  BY <1>1, <1>2 DEF Visited, OnTheStack
<1>9. /\ Len(calls) \in Nat /\ Len(calls') = Len(calls) + 1
      /\ calls'[Len(calls) + 1].node = n /\ calls'[Len(calls) + 1].left = succs[n]
      /\ \A k \in 1..Len(calls) :
           /\ calls'[k].node = calls[k].node
           /\ calls'[k].left = calls[k].left \/ calls'[k].left = calls[k].left \ {n}
  BY Lengths DEF Entering
<1>10. \A k \in 1..Len(calls) : Caller(k)' = Caller(k) /\ Caller(k) \in OnStack /\ Caller(k) # n
  BY <1>2, <1>9 DEF Caller, Called, Calling
<1>11. GoneThrough(n)' = {}
  BY <1>1, <1>9 DEF GoneThrough, Caller
<1>12. ASSUME NEW x \in Visited
       PROVE  GoneThrough(x)' \subseteq GoneThrough(x) \cup {n}
  <2> SUFFICES ASSUME NEW su \in GoneThrough(x)', su # n PROVE su \in GoneThrough(x)
    OBVIOUS
  <2>1. su \in succs[x] /\ \A k \in 1..Len(calls') : x = calls'[k].node => su \notin calls'[k].left
    BY <1>1 DEF GoneThrough, Caller
  <2>2. ASSUME NEW k \in 1..Len(calls), x = Caller(k) PROVE su \notin calls[k].left
    <3>1. k \in 1..Len(calls') /\ x = calls'[k].node
      BY <2>2, <1>9, <1>10 DEF Caller
    <3> QED BY <3>1, <2>1, <1>9
  <2> QED BY <2>1, <2>2 DEF GoneThrough
<1>13. ASSUME NEW x \in Returned PROVE GoneThrough(x)' = GoneThrough(x)
  <2>1. x # n /\ \A k \in 1..Len(calls) : x # Caller(k)
    BY <1>2, <1>10 DEF Returned
  <2>2. \A k \in 1..Len(calls') : x # Caller(k)'
    BY <2>1, <1>9, <1>10 DEF Caller
  <2> QED BY <2>1, <2>2, <1>1 DEF GoneThrough
<1>14. index'[n] = index_count /\ lowlink'[n] = index_count
  BY <1>1
<1>15. \A k : k = Len(calls) + 1 => Caller(k)' = n
  BY <1>9 DEF Caller
<1>16. \A x \in OnStack : GoneThrough(x)' \subseteq GoneThrough(x) \cup {n}
  BY <1>2, <1>12
<1>17. \A x \in Returned : GoneThrough(x)' = GoneThrough(x)
  BY <1>13
<1>18. \A k \in 1..Len(calls) : Caller(k)' = Caller(k) /\ Caller(k) \in OnStack
  BY <1>10
<1>19. n \in Block /\ n \in nodes /\ index_count \in Nat /\ index_count' = index_count + 1
  BY <1>1
<1> HIDE DEF OnStack, Visited, Returned, GoneThrough, Caller
<1> QED BY <1>2, <1>3, <1>5, <1>6, <1>7, <1>8, <1>11, <1>14, <1>15, <1>16, <1>17, <1>18, <1>19

\* Whatever a search invariant says of the nodes on the stack and the calls
\* stays true when a node is entered.
SearchParts == OnTheStack /\ Called /\ Explored /\ Joined /\ Lowest /\ Complete

LEMMA EnterOrder ==
  ASSUME Typed, GraphLeft, SearchParts, NEW n, Entering(n)
  PROVE  (OnTheStack /\ Called)'
<1>1. OnTheStack /\ Called
  BY DEF SearchParts
<1>2. /\ n \notin Visited /\ n \notin OnStack
      /\ OnStack' = OnStack \cup {n} /\ Visited' = Visited \cup {n}
      /\ index_count \in Nat /\ index_count' = index_count + 1
      /\ index'[n] = index_count
      /\ \A x \in Visited : index'[x] = index[x] /\ index[x] \in Int /\ index[x] < index_count
      /\ \A k : k = Len(calls) + 1 => Caller(k)' = n
      /\ \A k \in 1..Len(calls) : Caller(k)' = Caller(k) /\ Caller(k) \in OnStack
  BY <1>1, EnterEffect
<1>3. OnStack \subseteq Visited /\ \A x \in Visited : index[x] \in 0..(index_count - 1)
  BY <1>1 DEF OnTheStack
<1>4. /\ Len(stack) \in Nat /\ Len(stack') = Len(stack) + 1
      /\ \A k \in 1..Len(stack) : stack'[k] = stack[k] /\ stack[k] \in OnStack
      /\ stack'[Len(stack) + 1] = n
  BY Lengths DEF Entering, OnStack, Elements
<1>5. /\ Len(calls) \in Nat /\ Len(calls') = Len(calls) + 1
      /\ calls'[Len(calls) + 1].left = succs[n] /\ succs' = succs
      /\ \A k \in 1..Len(calls) : calls'[k].left \subseteq calls[k].left
      /\ 1 <= Len(calls) => n \in calls[Len(calls)].left
  BY Lengths DEF Entering, graph
<1>6. /\ \A k \in 1..Len(calls) : calls[k].left \subseteq succs[Caller(k)]
      /\ \A j, k \in 1..Len(calls) : j < k => index[Caller(j)] < index[Caller(k)]
      /\ \A k \in 1..(Len(calls) - 1) : Caller(k + 1) \in succs[Caller(k)]
  BY <1>1 DEF Called
<1>7. OnTheStack'
  <2>1. OnStack' \subseteq Visited'
    BY <1>2, <1>3
  <2>2. \A x \in Visited' : index'[x] \in 0..(index_count' - 1)
    BY <1>2, <1>3
  <2>3. ASSUME NEW j \in 1..Len(stack'), NEW k \in 1..Len(stack'), j < k
        PROVE  index'[stack'[j]] < index'[stack'[k]]
    <3>1. j \in 1..Len(stack) /\ stack'[j] = stack[j] /\ stack[j] \in Visited
      BY <1>3, <1>4, <2>3
    <3>2. CASE k = Len(stack) + 1
      BY <1>2, <1>4, <3>1, <3>2
    <3>3. CASE k \in 1..Len(stack)
      BY <1>1, <1>2, <1>3, <1>4, <2>3, <3>1, <3>3 DEF OnTheStack
    <3> QED BY <1>4, <3>2, <3>3
  <2> QED BY <2>1, <2>2, <2>3 DEF OnTheStack
<1>8. Calling' \subseteq OnStack'
  <2> SUFFICES ASSUME NEW k \in 1..Len(calls') PROVE Caller(k)' \in OnStack'
    BY DEF Calling
  <2> QED BY <1>2, <1>5
<1>9. ASSUME NEW k \in 1..Len(calls') PROVE calls'[k].left \subseteq succs'[Caller(k)']
  <2>1. CASE k = Len(calls) + 1
    BY <1>2, <1>5, <2>1
  <2>2. CASE k \in 1..Len(calls)
    BY <1>2, <1>5, <1>6, <2>2
  <2> QED BY <1>5, <2>1, <2>2
<1>10. ASSUME NEW j \in 1..Len(calls'), NEW k \in 1..Len(calls'), j < k
       PROVE  index'[Caller(j)'] < index'[Caller(k)']
  <2>1. j \in 1..Len(calls) /\ Caller(j)' = Caller(j) /\ Caller(j) \in Visited
    BY <1>2, <1>3, <1>5, <1>10
  <2>2. CASE k = Len(calls) + 1
    BY <1>2, <2>1, <2>2
  <2>3. CASE k \in 1..Len(calls)
    BY <1>2, <1>3, <1>6, <1>10, <2>1, <2>3
  <2> QED BY <1>5, <2>2, <2>3
<1>11. ASSUME NEW k \in 1..(Len(calls') - 1) PROVE Caller(k + 1)' \in succs'[Caller(k)']
  <2>1. k \in 1..Len(calls) /\ Caller(k)' = Caller(k)
    BY <1>2, <1>5
  <2>2. CASE k = Len(calls)
    BY <1>2, <1>5, <1>6, <2>1, <2>2
  <2>3. CASE k \in 1..(Len(calls) - 1)
    <3>1. k + 1 \in 1..Len(calls) /\ Caller(k + 1)' = Caller(k + 1)
      BY <1>2, <1>5, <2>3
    <3> QED BY <1>5, <1>6, <2>1, <2>3, <3>1
  <2> QED BY <1>5, <2>1, <2>2, <2>3
<1>12. Called'
  BY <1>8, <1>9, <1>10, <1>11 DEF Called
<1> QED BY <1>7, <1>12

LEMMA EnterReach ==
  ASSUME Typed, GraphLeft, SearchParts, NEW n, Entering(n)
  PROVE  (Explored /\ Joined /\ Complete)'
<1>1. OnTheStack /\ Called /\ Explored /\ Joined /\ Complete
  BY DEF SearchParts
<1>2. /\ n \in nodes /\ n \notin Visited /\ n \notin OnStack
      /\ OnStack' = OnStack \cup {n} /\ Visited' = Visited \cup {n}
      /\ Returned' = Returned /\ Left' = Left
      /\ index_count \in Nat
      /\ index'[n] = index_count
      /\ \A x \in Visited : index'[x] = index[x] /\ index[x] \in Int /\ index[x] < index_count
      /\ \A k : k = Len(calls) + 1 => Caller(k)' = n
      /\ \A k \in 1..Len(calls) : Caller(k)' = Caller(k) /\ Caller(k) \in OnStack
      /\ GoneThrough(n)' = {}
      /\ \A x \in OnStack : GoneThrough(x)' \subseteq GoneThrough(x) \cup {n}
      /\ \A x \in Returned : GoneThrough(x)' = GoneThrough(x)
  BY <1>1, EnterEffect
<1>0. /\ Len(calls) \in Nat /\ Len(calls') = Len(calls) + 1
      /\ sccs' = sccs /\ succs' = succs /\ Searching
  BY Lengths DEF Entering, graph, Searching
<1> USE <1>0
<1>3. OnStack \subseteq Visited /\ Visited \subseteq nodes /\ Visited = OnStack \cup Returned
  BY <1>1 DEF OnTheStack, Visited, Returned
<1>4. Complete'
  BY <1>1, <1>2 DEF Complete
<1>5. Explored'
  <2>1. \A x \in Visited : GoneThrough(x) \subseteq Visited
    BY <1>1 DEF Explored
  <2>2. \A x \in Returned : succs[x] \subseteq Returned
    BY <1>1 DEF Explored
  <2>3. \A x \in Visited' : GoneThrough(x)' \subseteq Visited'
    BY <1>2, <1>3, <2>1
  <2> QED BY <1>2, <2>2, <2>3 DEF Explored
<1>6. \A x, y : LeadsTo(x, y)' <=> LeadsTo(x, y)
  BY <1>2 DEF LeadsTo
<1>7. ASSUME NEW k \in 1..Len(calls'), NEW x \in OnStack', index'[Caller(k)'] <= index'[x]
      PROVE  LeadsTo(Caller(k)', x)
  <2>1. CASE k = Len(calls) + 1
    <3>1. x = n
      BY <1>2, <1>3, <1>7, <2>1
    <3> QED BY <1>2, <2>1, <3>1, Leading
  <2>2. CASE k \in 1..Len(calls) /\ x \in OnStack
    <3>1. Caller(k)' = Caller(k) /\ Caller(k) \in Visited /\ x \in Visited
      BY <1>2, <1>3, <2>2
    <3>2. index[Caller(k)] <= index[x]
      BY <1>2, <1>7, <3>1
    <3> QED BY <1>1, <2>2, <3>1, <3>2 DEF Joined
  <2>3. CASE k \in 1..Len(calls) /\ x = n
    <3> DEFINE l == Len(calls)
    <3>1. l \in 1..Len(calls) /\ Caller(l) \in OnStack /\ Caller(k) \in OnStack
          /\ (k = l \/ k < l)
      BY <1>2, <2>3
    <3>2. n \in succs[Caller(l)]
      BY <1>1, <2>3, <3>1 DEF Entering, Called
    <3>3. index[Caller(k)] <= index[Caller(l)]
      BY <1>1, <1>2, <1>3, <2>3, <3>1 DEF Called
    <3>4. LeadsTo(Caller(k), Caller(l))
      BY <1>1, <2>3, <3>1, <3>3 DEF Joined
    <3>5. LeadsTo(Caller(k), n)
      BY <1>2, <1>3, <3>1, <3>2, <3>4, Leading
    <3> QED BY <3>5, <1>2, <2>3
  <2> QED BY <1>2, <2>1, <2>2, <2>3
<1>8. ASSUME NEW x \in OnStack'
      PROVE  \E k \in 1..Len(calls') : index'[Caller(k)'] <= index'[x] /\ LeadsTo(x, Caller(k)')
  <2>1. CASE x = n
    <3>1. Len(calls) + 1 \in 1..Len(calls') /\ LeadsTo(n, n)
      BY <1>2, Leading
    <3> QED BY <1>2, <2>1, <3>1
  <2>2. CASE x \in OnStack
    <3>1. PICK k \in 1..Len(calls) : index[Caller(k)] <= index[x] /\ LeadsTo(x, Caller(k))
      BY <1>1, <2>2 DEF Joined
    <3>2. k \in 1..Len(calls') /\ Caller(k)' = Caller(k) /\ Caller(k) \in Visited /\ x \in Visited
      BY <1>2, <1>3, <2>2
    <3> QED BY <1>2, <3>1, <3>2
  <2> QED BY <1>2, <2>1, <2>2
<1>9. Joined'
  BY <1>6, <1>7, <1>8 DEF Joined
<1> QED BY <1>4, <1>5, <1>9

LEMMA EnterLowest ==
  ASSUME Typed, GraphLeft, SearchParts, NEW n, Entering(n)
  PROVE  Lowest'
<1>1. OnTheStack /\ Called /\ Lowest
  BY DEF SearchParts
<1>2. /\ n \in nodes /\ n \notin Visited
      /\ OnStack' = OnStack \cup {n} /\ Left' = Left
      /\ index_count \in Nat
      /\ index'[n] = index_count /\ lowlink'[n] = index_count
      /\ \A x \in Visited : /\ index'[x] = index[x] /\ lowlink'[x] = lowlink[x]
                            /\ index[x] \in Int /\ lowlink[x] \in Int
                            /\ index[x] < index_count
      /\ \A k : k = Len(calls) + 1 => Caller(k)' = n
      /\ \A k \in 1..Len(calls) : Caller(k)' = Caller(k) /\ Caller(k) \in OnStack
      /\ GoneThrough(n)' = {}
      /\ \A x \in OnStack : GoneThrough(x)' \subseteq GoneThrough(x) \cup {n}
  BY <1>1, EnterEffect
<1>0. Len(calls) \in Nat /\ Len(calls') = Len(calls) + 1 /\ Searching
  BY Lengths DEF Entering, Searching
<1> USE <1>0
<1>3. OnStack \subseteq Visited
  BY <1>1 DEF OnTheStack
<1>4. \A x, y : LeadsTo(x, y)' <=> LeadsTo(x, y)
  BY <1>2 DEF LeadsTo
<1>5. ASSUME NEW x \in OnStack'
      PROVE  /\ lowlink'[x] <= index'[x]
             /\ \E y \in OnStack' : lowlink'[x] = index'[y] /\ LeadsTo(x, y)
  <2>1. CASE x = n
    BY <1>2, <2>1, Leading
  <2>2. CASE x \in OnStack
    <3>1. lowlink[x] <= index[x] /\ \E y \in OnStack : lowlink[x] = index[y] /\ LeadsTo(x, y)
      BY <1>1, <2>2 DEF Lowest
    <3> QED BY <1>2, <1>3, <2>2, <3>1
  <2> QED BY <1>2, <2>1, <2>2
<1>6. ASSUME NEW k \in 1..Len(calls'), NEW x \in OnStack', VisitedBy(k, x)',
             NEW z \in (GoneThrough(x) \cap OnStack)'
      PROVE  lowlink'[Caller(k)'] <= index'[z]
  <2>1. /\ index'[Caller(k)'] <= index'[x]
        /\ k < Len(calls') => index'[x] < index'[Caller(k + 1)']
    BY <1>6 DEF VisitedBy
  <2>2. CASE k = Len(calls) + 1
    <3>1. x = n
      BY <1>2, <1>3, <2>1, <2>2
    <3> QED BY <1>2, <3>1
  <2>3. CASE k \in 1..Len(calls)
    <3>1. x \in OnStack
      <4>1. CASE k = Len(calls)
        BY <1>2, <2>1, <4>1
      <4>2. CASE k < Len(calls)
        <5>1. k + 1 \in 1..Len(calls) /\ Caller(k + 1)' = Caller(k + 1) /\ Caller(k + 1) \in Visited
          BY <1>2, <1>3, <2>3, <4>2
        <5>2. index'[x] < index'[Caller(k + 1)'] /\ index'[Caller(k + 1)'] < index_count
          BY <1>2, <2>1, <4>2, <5>1
        <5>3. x # n
          <6> SUFFICES ASSUME x = n PROVE FALSE
            OBVIOUS
          <6>1. index'[x] = index_count /\ index'[Caller(k + 1)'] \in Int
            BY <1>2, <5>1
          <6> QED BY <1>2, <5>2, <6>1
        <5> QED BY <1>2, <5>3
      <4> QED BY <1>2, <2>3, <4>1, <4>2
    <3>2. VisitedBy(k, x)
      <4>1. index[Caller(k)] <= index[x]
        BY <1>2, <1>3, <2>1, <2>3, <3>1
      <4>2. ASSUME k < Len(calls) PROVE index[x] < index[Caller(k + 1)]
        <5>1. k + 1 \in 1..Len(calls) /\ k < Len(calls')
          BY <1>2, <2>3, <4>2
        <5> QED BY <1>2, <1>3, <2>1, <3>1, <5>1
      <4> QED BY <4>1, <4>2 DEF VisitedBy
    <3>3. CASE z = n
      <4>1. lowlink[Caller(k)] <= index[Caller(k)] /\ Caller(k) \in Visited
        BY <1>1, <1>2, <1>3, <2>3 DEF Lowest
      <4> QED BY <1>2, <2>3, <3>3, <4>1
    <3>4. CASE z # n
      <4>1. z \in GoneThrough(x) \cap OnStack /\ z \in Visited
        BY <1>2, <1>3, <3>1, <3>4
      <4>2. lowlink[Caller(k)] <= index[z]
        BY <1>1, <2>3, <3>1, <3>2, <4>1 DEF Lowest
      <4> QED BY <1>2, <1>3, <2>3, <4>1, <4>2
    <3> QED BY <3>3, <3>4
  <2> QED BY <1>2, <2>2, <2>3
<1>7. \A x \in OnStack' :
        /\ lowlink'[x] <= index'[x]
        /\ \E y \in OnStack' : lowlink'[x] = index'[y] /\ LeadsTo(x, y)'
  BY <1>4, <1>5
<1>8. \A k \in 1..Len(calls') : \A x \in OnStack' : VisitedBy(k, x)' =>
        \A z \in (GoneThrough(x) \cap OnStack)' : lowlink'[Caller(k)'] <= index'[z]
  BY <1>6
<1> QED BY <1>7, <1>8 DEF Lowest

-----------------------------------------------------------------------------
(***************************************************************************)
(* A successor that has been visited is gone through.                      *)
(***************************************************************************)
LEMMA LookEffect ==
  ASSUME Typed, GraphLeft, OnTheStack, Called, NEW su, Looking(su),
         NEW p, p = Caller(Len(calls))
  PROVE  /\ Len(calls) \in Nat \ {0} /\ Len(calls') = Len(calls)
         /\ p \in OnStack /\ p \in nodes /\ su \in succs[p] /\ su \in Visited
         /\ OnStack' = OnStack /\ Visited' = Visited /\ Returned' = Returned /\ Left' = Left
         /\ index' = index /\ index_count' = index_count /\ sccs' = sccs /\ succs' = succs
         /\ \A x \in Visited : index[x] \in Int /\ lowlink[x] \in Int
         /\ \A x \in Visited : lowlink'[x] <= lowlink[x]
         /\ \A x \in Visited :
              \/ lowlink'[x] = lowlink[x]
              \/ x = p /\ su \in OnStack /\ lowlink'[x] = index[su]
         /\ su \in OnStack => lowlink'[p] <= index[su]
         /\ \A k \in 1..Len(calls) : Caller(k)' = Caller(k) /\ Caller(k) \in OnStack
         /\ \A x : GoneThrough(x)' \subseteq GoneThrough(x) \cup {su}
         /\ \A x : x # p => GoneThrough(x)' \subseteq GoneThrough(x)
<1>1. /\ calls # <<>> /\ Len(calls) \in Nat /\ Len(calls) # 0
      /\ su \in calls[Len(calls)].left /\ index[su] # Unvisited /\ Len(calls') = Len(calls)
      /\ UNCHANGED <<func, pc, graph, sccs, loops, index, index_count, stack>>
  BY Lengths DEF Looking
<1>2. /\ index' = index /\ index_count' = index_count /\ sccs' = sccs /\ succs' = succs
      /\ nodes' = nodes /\ stack' = stack
  BY <1>1 DEF graph
<1>3. OnStack' = OnStack /\ Visited' = Visited /\ Returned' = Returned /\ Left' = Left
  BY <1>2 DEF OnStack, Elements, Visited, Returned, Left
<1>4. \A k \in 1..Len(calls) : Caller(k)' = Caller(k) /\ Caller(k) \in OnStack
  BY DEF Looking, Caller, Called, Calling
<1>5. p \in OnStack /\ p \in nodes /\ su \in succs[p]
  <2>1. Len(calls) \in 1..Len(calls)
    BY <1>1
  <2> QED BY <1>1, <1>4, <2>1 DEF Called, OnTheStack, Visited
<1>6. su \in Visited
  BY <1>1, <1>5 DEF GraphLeft, Searching, Looking, Visited
<1>7. /\ index \in [Block -> Int] /\ lowlink \in [Block -> Int]
      /\ Visited \subseteq Block /\ OnStack \subseteq Visited
  BY DEF Typed, Visited, OnTheStack
<1>8. \A x \in Visited : index[x] \in Int /\ lowlink[x] \in Int
  BY <1>7
<1>9. /\ \A x \in Visited : lowlink'[x] <= lowlink[x]
      /\ \A x \in Visited :
           \/ lowlink'[x] = lowlink[x]
           \/ x = p /\ su \in OnStack /\ lowlink'[x] = index[su]
      /\ su \in OnStack => lowlink'[p] <= index[su]
  <2>1. lowlink' = IF su \in OnStack THEN [lowlink EXCEPT ![p] = min(index[su], @)] ELSE lowlink
    BY DEF Looking
  <2>2. p \in Visited
    BY <1>5, <1>7
  <2> QED BY <1>6, <1>7, <1>8, <2>1, <2>2 DEF min
<1>10. \A k \in 1..Len(calls) :
         /\ calls'[k].node = calls[k].node
         /\ calls[k].left \subseteq calls'[k].left \cup {su}
         /\ calls[k].node # p => calls'[k].left = calls[k].left
  <2> TAKE k \in 1..Len(calls)
  <2>1. CASE k = Len(calls)
    BY <2>1 DEF Looking, Caller
  <2>2. CASE k < Len(calls)
    BY <2>2 DEF Looking, Caller
  <2> QED BY <1>1, <2>1, <2>2
<1>11. ASSUME NEW x, NEW z \in GoneThrough(x)', z # su \/ x # p
       PROVE  z \in GoneThrough(x)
  <2>1. z \in succs[x] /\ \A k \in 1..Len(calls) : x = calls'[k].node => z \notin calls'[k].left
    BY <1>1, <1>2 DEF GoneThrough, Caller
  <2>2. \A k \in 1..Len(calls) : x = calls[k].node => z \notin calls[k].left
    BY <1>10, <1>11, <2>1
  <2> QED BY <2>1, <2>2 DEF GoneThrough, Caller
<1>12. /\ \A x : GoneThrough(x)' \subseteq GoneThrough(x) \cup {su}
       /\ \A x : x # p => GoneThrough(x)' \subseteq GoneThrough(x)
  BY <1>11
<1> HIDE DEF OnStack, Visited, Returned, GoneThrough, Caller, Left
<1> QED BY <1>1, <1>2, <1>3, <1>4, <1>5, <1>6, <1>8, <1>9, <1>12

LEMMA LookKeeps ==
  ASSUME Typed, GraphLeft, SearchParts, NEW su, Looking(su)
  PROVE  SearchParts'
<1> DEFINE p == Caller(Len(calls))
<1>3. p = Caller(Len(calls))
  OBVIOUS
<1> HIDE DEF p
<1>1. OnTheStack /\ Called /\ Explored /\ Joined /\ Lowest /\ Complete /\ Searching
  BY DEF SearchParts, Looking, Searching
<1>2. /\ Len(calls) \in Nat \ {0} /\ Len(calls') = Len(calls)
      /\ p \in OnStack /\ p \in nodes /\ su \in succs[p] /\ su \in Visited
      /\ OnStack' = OnStack /\ Visited' = Visited /\ Returned' = Returned /\ Left' = Left
      /\ index' = index /\ index_count' = index_count /\ sccs' = sccs /\ succs' = succs
      /\ \A x \in Visited : index[x] \in Int /\ lowlink[x] \in Int
      /\ \A x \in Visited : lowlink'[x] <= lowlink[x]
      /\ \A x \in Visited :
           \/ lowlink'[x] = lowlink[x]
           \/ x = p /\ su \in OnStack /\ lowlink'[x] = index[su]
      /\ su \in OnStack => lowlink'[p] <= index[su]
      /\ \A k \in 1..Len(calls) : Caller(k)' = Caller(k) /\ Caller(k) \in OnStack
      /\ \A x : GoneThrough(x)' \subseteq GoneThrough(x) \cup {su}
      /\ \A x : x # p => GoneThrough(x)' \subseteq GoneThrough(x)
  BY <1>1, <1>3, LookEffect
<1>0. Len(calls) \in 1..Len(calls)
  BY <1>2
<1> USE <1>0
<1>4. OnStack \subseteq Visited
  BY <1>1 DEF OnTheStack
<1>5. /\ stack' = stack
      /\ \A k \in 1..Len(calls) : calls'[k].left \subseteq calls[k].left
  <2>1. stack' = stack
    BY DEF Looking
  <2>2. ASSUME NEW k \in 1..Len(calls) PROVE calls'[k].left \subseteq calls[k].left
    <3>1. CASE k = Len(calls)
      BY <3>1 DEF Looking
    <3>2. CASE k < Len(calls)
      BY <3>2 DEF Looking
    <3> QED BY <1>2, <3>1, <3>2
  <2> QED BY <2>1, <2>2
<1>6. OnTheStack'
  BY <1>1, <1>2, <1>5 DEF OnTheStack
<1>7. Called'
  <2>1. Calling' \subseteq OnStack'
    BY <1>2 DEF Calling
  <2>2. \A k \in 1..(Len(calls) - 1) : k + 1 \in 1..Len(calls) /\ k \in 1..Len(calls)
    BY <1>2
  <2>3. \A k \in 1..(Len(calls) - 1) : Caller(k + 1)' = Caller(k + 1) /\ Caller(k)' = Caller(k)
    BY <1>2, <2>2
  <2>4. \A k \in 1..(Len(calls') - 1) : Caller(k + 1)' \in succs'[Caller(k)']
    BY <1>1, <1>2, <2>3 DEF Called
  <2>5. \A k \in 1..Len(calls') : calls'[k].left \subseteq succs'[Caller(k)']
    BY <1>1, <1>2, <1>5 DEF Called
  <2>6. \A j, k \in 1..Len(calls') : j < k => index'[Caller(j)'] < index'[Caller(k)']
    BY <1>1, <1>2 DEF Called
  <2> QED BY <2>1, <2>4, <2>5, <2>6 DEF Called
<1>8. Explored'
  BY <1>1, <1>2 DEF Explored
<1>9. \A x, y : LeadsTo(x, y)' <=> LeadsTo(x, y)
  BY <1>2 DEF LeadsTo
<1>10. Joined'
  <2>1. ASSUME NEW k \in 1..Len(calls'), NEW x \in OnStack', index'[Caller(k)'] <= index'[x]
        PROVE  LeadsTo(Caller(k)', x)
    <3>1. k \in 1..Len(calls) /\ x \in OnStack /\ Caller(k)' = Caller(k)
          /\ index[Caller(k)] <= index[x]
      BY <1>2, <2>1
    <3> QED BY <1>1, <3>1 DEF Joined
  <2>2. ASSUME NEW x \in OnStack'
        PROVE  \E k \in 1..Len(calls') : index'[Caller(k)'] <= index'[x] /\ LeadsTo(x, Caller(k)')
    <3>1. PICK k \in 1..Len(calls) : index[Caller(k)] <= index[x] /\ LeadsTo(x, Caller(k))
      BY <1>1, <1>2 DEF Joined
    <3>2. Caller(k)' = Caller(k) /\ k \in 1..Len(calls')
      BY <1>2
    <3> QED BY <1>2, <3>1, <3>2
  <2> QED BY <1>9, <2>1, <2>2 DEF Joined
<1>11. Complete'
  BY <1>1, <1>2 DEF Complete
<1>12. ASSUME NEW x \in OnStack'
       PROVE  /\ lowlink'[x] <= index'[x]
              /\ \E y \in OnStack' : lowlink'[x] = index'[y] /\ LeadsTo(x, y)'
  <2>1. x \in OnStack /\ x \in Visited
    BY <1>2, <1>4
  <2>2. lowlink[x] <= index[x] /\ \E y \in OnStack : lowlink[x] = index[y] /\ LeadsTo(x, y)
    BY <1>1, <2>1 DEF Lowest
  <2>3. lowlink'[x] <= index'[x]
    BY <1>2, <2>1, <2>2
  <2>4. CASE lowlink'[x] = lowlink[x]
    BY <1>2, <1>9, <2>2, <2>3, <2>4
  <2>5. CASE x = p /\ su \in OnStack /\ lowlink'[x] = index[su]
    <3>1. LeadsTo(x, su)
      BY <1>1, <1>2, <2>5, Leading
    <3> QED BY <1>2, <1>9, <2>3, <2>5, <3>1
  <2> QED BY <1>2, <2>1, <2>4, <2>5
<1>13. ASSUME NEW k \in 1..Len(calls'), NEW x \in OnStack', VisitedBy(k, x)',
              NEW z \in (GoneThrough(x) \cap OnStack)'
       PROVE  lowlink'[Caller(k)'] <= index'[z]
  <2>1. /\ k \in 1..Len(calls) /\ x \in OnStack /\ x \in Visited /\ z \in OnStack /\ z \in Visited
        /\ Caller(k)' = Caller(k) /\ Caller(k) \in Visited
    BY <1>2, <1>4
  <2>2. VisitedBy(k, x)
    <3>1. index[Caller(k)] <= index[x]
      BY <1>2, <1>13, <2>1 DEF VisitedBy
    <3>2. ASSUME k < Len(calls) PROVE index[x] < index[Caller(k + 1)]
      <4>1. k + 1 \in 1..Len(calls)
        BY <1>2, <2>1, <3>2
      <4>2. Caller(k + 1)' = Caller(k + 1)
        BY <1>2, <4>1
      <4> QED BY <1>2, <1>13, <3>2, <4>2 DEF VisitedBy
    <3> QED BY <3>1, <3>2 DEF VisitedBy
  <2>3. CASE z \in GoneThrough(x)
    <3>1. lowlink[Caller(k)] <= index[z]
      BY <1>1, <2>1, <2>2, <2>3 DEF Lowest
    <3> QED BY <1>2, <2>1, <3>1
  <2>4. CASE x = p /\ z = su
    <3>1. k = Len(calls)
      <4> SUFFICES ASSUME k < Len(calls) PROVE FALSE
        BY <1>2, <2>1
      <4>1. k + 1 \in 1..Len(calls) /\ (k + 1 = Len(calls) \/ k + 1 < Len(calls))
        BY <1>2, <2>1
      <4>2. Caller(k + 1) \in Visited
        BY <1>2, <1>4, <4>1
      <4>3. index[Caller(k + 1)] <= index[p]
        <5>1. CASE k + 1 = Len(calls)
          BY <1>2, <1>3, <1>4, <5>1
        <5>2. CASE k + 1 < Len(calls)
          <6>1. index[Caller(k + 1)] < index[p]
            BY <1>1, <1>3, <4>1, <5>2 DEF Called
          <6> QED BY <1>2, <1>4, <4>2, <6>1
        <5> QED BY <4>1, <5>1, <5>2
      <4>4. index[p] < index[Caller(k + 1)]
        BY <2>2, <2>4 DEF VisitedBy
      <4> QED BY <1>2, <1>4, <4>2, <4>3, <4>4
    <3> QED BY <1>2, <1>3, <2>1, <2>4, <3>1
  <2>5. z \in GoneThrough(x) \/ (x = p /\ z = su)
    BY <1>2
  <2> QED BY <2>3, <2>4, <2>5
<1>14. Lowest'
  <2>1. \A k \in 1..Len(calls') : \A x \in OnStack' : VisitedBy(k, x)' =>
         \A z \in (GoneThrough(x) \cap OnStack)' : lowlink'[Caller(k)'] <= index'[z]
    BY <1>13
  <2> QED BY <1>12, <2>1 DEF Lowest
<1> QED BY <1>6, <1>7, <1>8, <1>10, <1>11, <1>14 DEF SearchParts

-----------------------------------------------------------------------------
(***************************************************************************)
(* A call returns.                                                         *)
(***************************************************************************)
LEMMA ReturnEffect ==
  ASSUME Typed, OnTheStack, Called, Lowest, NEW at_, Returning(at_),
         NEW c, c = Caller(Len(calls))
  PROVE  /\ Len(calls) \in Nat \ {0} /\ Len(calls') = Len(calls) - 1
         /\ at_ \in 1..Len(stack) /\ stack[at_] = c /\ Len(stack) \in Nat
         /\ c \in OnStack /\ OnStack \subseteq Visited /\ Visited \subseteq nodes
         /\ Visited' = Visited /\ Left' = Left
         /\ index' = index /\ index_count' = index_count /\ succs' = succs
         /\ \A x \in Visited : index[x] \in Int /\ lowlink[x] \in Int
         /\ \A x \in Visited : \/ lowlink'[x] = lowlink[x]
                               \/ /\ Len(calls) # 1 /\ x = Caller(Len(calls) - 1)
                                  /\ lowlink'[x] = lowlink[c] /\ lowlink[c] < lowlink[x]
         /\ Len(calls) # 1 => lowlink'[Caller(Len(calls) - 1)] <= lowlink[c]
         /\ \A k \in 1..(Len(calls) - 1) :
              /\ Caller(k)' = Caller(k) /\ Caller(k) \in OnStack
              /\ calls'[k] = calls[k]
              /\ index[Caller(k)] < index[c]
         /\ \A x : GoneThrough(x)' = GoneThrough(x)
<1>1. /\ calls # <<>> /\ Len(calls) \in Nat /\ Len(calls) # 0
      /\ calls[Len(calls)].left = {} /\ Len(calls') = Len(calls) - 1
      /\ \A k \in 1..(Len(calls) - 1) : calls'[k] = calls[k]
      /\ at_ \in 1..Len(stack) /\ stack[at_] = c /\ Len(stack) \in Nat
      /\ UNCHANGED <<func, pc, graph, index, index_count, loops>>
  BY Lengths DEF Returning
<1>2. /\ index' = index /\ index_count' = index_count /\ succs' = succs /\ nodes' = nodes
  BY <1>1 DEF graph
<1>3. Visited' = Visited /\ Left' = Left
  BY <1>2 DEF Visited, Left
<1>4. c \in OnStack /\ OnStack \subseteq Visited /\ Visited \subseteq nodes /\ nodes \subseteq Block
  BY <1>1 DEF OnStack, Elements, OnTheStack, Visited, Typed
<1>5. \A x \in Visited : index[x] \in Int /\ lowlink[x] \in Int
  BY <1>4 DEF Typed
<1>6. ASSUME NEW k \in 1..(Len(calls) - 1)
      PROVE  /\ Caller(k)' = Caller(k) /\ Caller(k) \in OnStack
             /\ calls'[k] = calls[k]
             /\ index[Caller(k)] < index[c]
  <2>1. k \in 1..Len(calls) /\ Len(calls) \in 1..Len(calls) /\ k < Len(calls)
    BY <1>1
  <2> QED BY <1>1, <2>1 DEF Caller, Called, Calling
<1>7. /\ \A x \in Visited : \/ lowlink'[x] = lowlink[x]
                            \/ /\ Len(calls) # 1 /\ x = Caller(Len(calls) - 1)
                               /\ lowlink'[x] = lowlink[c] /\ lowlink[c] < lowlink[x]
      /\ Len(calls) # 1 => lowlink'[Caller(Len(calls) - 1)] <= lowlink[c]
  <2>1. CASE Len(calls) = 1
    BY <2>1 DEF Returning
  <2>2. CASE Len(calls) # 1
    <3> DEFINE q == Caller(Len(calls) - 1)
    <3>1. Len(calls) - 1 \in 1..(Len(calls) - 1)
      BY <1>1, <2>2
    <3>2. q \in Visited
      BY <1>4, <1>6, <3>1
    <3>3. lowlink' = [lowlink EXCEPT ![q] = min(lowlink[c], @)]
      BY <2>2 DEF Returning
    <3>4. q = Caller(Len(calls) - 1) /\ lowlink \in [Block -> Int] /\ q \in Block
          /\ lowlink[c] \in Int /\ lowlink[q] \in Int
      BY <1>4, <1>5, <3>2 DEF Typed
    <3> HIDE DEF q
    <3>5. lowlink'[q] = min(lowlink[c], lowlink[q])
          /\ \A x \in Visited : x # q => lowlink'[x] = lowlink[x]
      BY <1>4, <3>3, <3>4
    <3>6. lowlink'[q] <= lowlink[c]
          /\ (lowlink'[q] = lowlink[q] \/ (lowlink'[q] = lowlink[c] /\ lowlink[c] < lowlink[q]))
      BY <3>4, <3>5 DEF min
    <3> QED BY <2>2, <3>4, <3>5, <3>6
  <2> QED BY <2>1, <2>2
<1>8. ASSUME NEW x PROVE GoneThrough(x)' = GoneThrough(x)
  <2>1. \A k \in 1..Len(calls) : k = Len(calls) \/ k \in 1..(Len(calls) - 1)
    BY <1>1
  <2>2. \A k \in 1..(Len(calls) - 1) : k \in 1..Len(calls)
    BY <1>1
  <2> QED BY <1>1, <1>2, <2>1, <2>2 DEF GoneThrough, Caller
<1> HIDE DEF OnStack, Visited, GoneThrough, Caller, Left
<1> QED BY <1>1, <1>2, <1>3, <1>4, <1>5, <1>6, <1>7, <1>8

\* It is not the first of its component: it leads to a node below it on the
\* stack, and all of it stays there.
LEMMA ReturnInside ==
  ASSUME Typed, GraphLeft, SearchParts, NEW at_, Returning(at_),
         index[Caller(Len(calls))] # lowlink[Caller(Len(calls))]
  PROVE  SearchParts'
<1> DEFINE c == Caller(Len(calls))
           m == Len(calls)
<1>1. c = Caller(Len(calls)) /\ index[c] # lowlink[c] /\ m = Len(calls)
  OBVIOUS
<1> HIDE DEF c, m
<1>2. OnTheStack /\ Called /\ Explored /\ Joined /\ Lowest /\ Complete /\ Searching
  BY DEF SearchParts, Returning, Searching
<1>3. /\ m \in Nat \ {0} /\ Len(calls') = m - 1
      /\ c \in OnStack /\ OnStack \subseteq Visited /\ Visited \subseteq nodes
      /\ Visited' = Visited /\ Left' = Left
      /\ index' = index /\ index_count' = index_count /\ succs' = succs
      /\ \A x \in Visited : index[x] \in Int /\ lowlink[x] \in Int
      /\ \A x \in Visited : \/ lowlink'[x] = lowlink[x]
                            \/ /\ m # 1 /\ x = Caller(m - 1)
                               /\ lowlink'[x] = lowlink[c] /\ lowlink[c] < lowlink[x]
      /\ m # 1 => lowlink'[Caller(m - 1)] <= lowlink[c]
      /\ \A k \in 1..(m - 1) : /\ Caller(k)' = Caller(k) /\ Caller(k) \in OnStack
                               /\ calls'[k] = calls[k]
                               /\ index[Caller(k)] < index[c]
      /\ \A x : GoneThrough(x)' = GoneThrough(x)
  BY <1>1, <1>2, ReturnEffect
<1>4. stack' = stack /\ sccs' = sccs /\ OnStack' = OnStack /\ Returned' = Returned
  <2>1. stack' = stack /\ sccs' = sccs
    BY <1>1 DEF Returning
  <2> QED BY <1>3, <2>1 DEF OnStack, Elements, Returned
<1>5. PICK y \in OnStack : lowlink[c] = index[y] /\ LeadsTo(c, y) /\ index[y] < index[c]
  <2>1. lowlink[c] <= index[c] /\ \E y \in OnStack : lowlink[c] = index[y] /\ LeadsTo(c, y)
    BY <1>2, <1>3 DEF Lowest
  <2> QED BY <1>1, <1>3, <2>1
<1>6. \A k \in 1..Len(calls') : k \in 1..(m - 1) /\ k \in 1..Len(calls)
  BY <1>1, <1>3
<1>7. OnTheStack'
  BY <1>2, <1>3, <1>4 DEF OnTheStack
<1>8. Called'
  <2>1. Calling' \subseteq OnStack'
    BY <1>3, <1>4, <1>6 DEF Calling
  <2>2. \A k \in 1..(m - 2) : k + 1 \in 1..(m - 1) /\ k \in 1..(m - 1)
    BY <1>3
  <2>3. \A k \in 1..(Len(calls') - 1) : Caller(k + 1)' = Caller(k + 1) /\ Caller(k)' = Caller(k)
                                      /\ k \in 1..(Len(calls) - 1)
    BY <1>1, <1>3, <2>2
  <2>4. \A k \in 1..(Len(calls') - 1) : Caller(k + 1)' \in succs'[Caller(k)']
    BY <1>2, <1>3, <2>3 DEF Called
  <2>5. \A k \in 1..Len(calls') : calls'[k].left \subseteq succs'[Caller(k)']
    BY <1>2, <1>3, <1>6 DEF Called
  <2>6. \A j, k \in 1..Len(calls') : j < k => index'[Caller(j)'] < index'[Caller(k)']
    BY <1>2, <1>3, <1>6 DEF Called
  <2> QED BY <2>1, <2>4, <2>5, <2>6 DEF Called
<1>9. Explored' /\ Complete'
  BY <1>2, <1>3, <1>4 DEF Explored, Complete
<1>10. \A x, z : LeadsTo(x, z)' <=> LeadsTo(x, z)
  BY <1>3 DEF LeadsTo
<1>11. \A k \in 1..Len(calls) : k = m \/ k \in 1..(m - 1)
  BY <1>1, <1>3
<1>12. PICK j \in 1..(m - 1) : index[Caller(j)] <= index[y] /\ LeadsTo(y, Caller(j))
  <2>1. PICK k \in 1..Len(calls) : index[Caller(k)] <= index[y] /\ LeadsTo(y, Caller(k))
    BY <1>2 DEF Joined
  <2>2. k # m
    BY <1>1, <1>3, <1>5, <2>1
  <2> QED BY <1>11, <2>1, <2>2
<1>13. Joined'
  <2>1. ASSUME NEW k \in 1..Len(calls'), NEW x \in OnStack', index'[Caller(k)'] <= index'[x]
        PROVE  LeadsTo(Caller(k)', x)
    BY <1>2, <1>3, <1>4, <1>6, <1>10, <2>1 DEF Joined
  <2>2. ASSUME NEW x \in OnStack'
        PROVE  \E k \in 1..Len(calls') : index'[Caller(k)'] <= index'[x] /\ LeadsTo(x, Caller(k)')
    <3>1. PICK k \in 1..Len(calls) : index[Caller(k)] <= index[x] /\ LeadsTo(x, Caller(k))
      BY <1>2, <1>4 DEF Joined
    <3>2. CASE k \in 1..(m - 1)
      BY <1>3, <1>10, <3>1, <3>2
    <3>3. CASE k = m
      <4>1. LeadsTo(x, c) /\ index[c] <= index[x] /\ x \in Visited /\ x \in nodes
        BY <1>1, <1>3, <1>4, <3>1, <3>3
      <4>2. LeadsTo(x, Caller(j))
        BY <1>2, <1>5, <1>12, <4>1, Leading
      <4>3. index[Caller(j)] <= index[x] /\ j \in 1..Len(calls') /\ Caller(j)' = Caller(j)
        BY <1>3, <1>5, <1>12, <4>1
      <4> QED BY <1>3, <1>10, <4>2, <4>3
    <3> QED BY <1>11, <3>2, <3>3
  <2> QED BY <1>10, <2>1, <2>2 DEF Joined
<1>14. ASSUME NEW x \in OnStack'
       PROVE  /\ lowlink'[x] <= index'[x]
              /\ \E z \in OnStack' : lowlink'[x] = index'[z] /\ LeadsTo(x, z)'
  <2>1. x \in OnStack /\ x \in Visited /\ x \in nodes
    BY <1>3, <1>4
  <2>2. lowlink[x] <= index[x] /\ \E z \in OnStack : lowlink[x] = index[z] /\ LeadsTo(x, z)
    BY <1>2, <2>1 DEF Lowest
  <2>3. CASE lowlink'[x] = lowlink[x]
    BY <1>3, <1>4, <1>10, <2>2, <2>3
  <2>4. CASE m # 1 /\ x = Caller(m - 1) /\ lowlink'[x] = lowlink[c] /\ lowlink[c] < lowlink[x]
    <3>1. m - 1 \in 1..(Len(calls) - 1) /\ (m - 1) + 1 = m
      BY <1>1, <1>3, <2>4
    <3>2. c \in succs[x]
      BY <1>1, <1>2, <2>4, <3>1 DEF Called
    <3>3. LeadsTo(x, c)
      BY <1>2, <2>1, <3>2, Leading
    <3>4. LeadsTo(x, y)
      BY <1>2, <1>5, <2>1, <3>3, Leading
    <3>5. lowlink'[x] <= index'[x]
      BY <1>3, <2>1, <2>2, <2>4
    <3> QED BY <1>3, <1>4, <1>5, <1>10, <2>4, <3>4, <3>5
  <2> QED BY <1>3, <2>1, <2>3, <2>4
<1>15. ASSUME NEW k \in 1..Len(calls'), NEW x \in OnStack', VisitedBy(k, x)',
              NEW z \in (GoneThrough(x) \cap OnStack)'
       PROVE  lowlink'[Caller(k)'] <= index'[z]
  <2>1. /\ k \in 1..(m - 1) /\ k \in 1..Len(calls) /\ x \in OnStack /\ x \in Visited
        /\ z \in GoneThrough(x) \cap OnStack /\ z \in Visited
        /\ Caller(k)' = Caller(k) /\ Caller(k) \in Visited
        /\ lowlink'[Caller(k)] <= lowlink[Caller(k)]
    <3>1. \A w \in Visited : lowlink'[w] <= lowlink[w]
      BY <1>3
    <3> QED BY <1>3, <1>4, <1>6, <3>1
  <2>2. index[Caller(k)] <= index[x]
    BY <1>3, <1>15, <2>1 DEF VisitedBy
  <2>3. \A w \in Visited : lowlink'[w] \in Int /\ lowlink[w] \in Int /\ index[w] \in Int
    BY <1>3
  <2>4. CASE k < m - 1
    <3>1. k + 1 \in 1..(m - 1) /\ k < Len(calls')
      BY <1>3, <2>1, <2>4
    <3>2. Caller(k + 1)' = Caller(k + 1)
      BY <1>3, <3>1
    <3>3. index[x] < index[Caller(k + 1)]
      BY <1>3, <1>15, <3>1, <3>2 DEF VisitedBy
    <3>4. VisitedBy(k, x)
      BY <2>2, <3>3 DEF VisitedBy
    <3>5. lowlink[Caller(k)] <= index[z]
      BY <1>2, <2>1, <3>4 DEF Lowest
    <3> QED BY <1>3, <2>1, <2>3, <3>5
  <2>5. CASE k = m - 1 /\ index[x] < index[c]
    <3>1. Caller(k + 1) = c
      <4>1. k + 1 = m
        BY <1>3, <2>5
      <4> QED BY <1>1, <4>1
    <3>2. VisitedBy(k, x)
      BY <2>2, <2>5, <3>1 DEF VisitedBy
    <3>3. lowlink[Caller(k)] <= index[z]
      BY <1>2, <2>1, <3>2 DEF Lowest
    <3> QED BY <1>3, <2>1, <2>3, <3>3
  <2>6. CASE k = m - 1 /\ index[c] <= index[x]
    <3>1. VisitedBy(m, x) /\ m \in 1..Len(calls) /\ Caller(m) = c
      BY <1>1, <1>3, <2>6 DEF VisitedBy
    <3>2. lowlink[c] <= index[z]
      BY <1>2, <2>1, <3>1 DEF Lowest
    <3>3. lowlink'[Caller(k)] <= lowlink[c]
      BY <1>3, <2>1, <2>6
    <3> QED BY <1>3, <2>1, <2>3, <3>2, <3>3
  <2>7. k < m - 1 \/ k = m - 1
    BY <1>3, <2>1
  <2>8. index[x] < index[c] \/ index[c] <= index[x]
    BY <1>3, <2>1
  <2> QED BY <2>4, <2>5, <2>6, <2>7, <2>8
<1>16. Lowest'
  <2>1. \A k \in 1..Len(calls') : \A x \in OnStack' : VisitedBy(k, x)' =>
         \A z \in (GoneThrough(x) \cap OnStack)' : lowlink'[Caller(k)'] <= index'[z]
    BY <1>15
  <2> QED BY <1>14, <2>1 DEF Lowest
<1> QED BY <1>7, <1>8, <1>9, <1>13, <1>16 DEF SearchParts

\* The nodes popped when the node of the last call is the first of its
\* component: they are connected with it, and they lead to nothing on the stack
\* below them.
LEMMA PoppedComponent ==
  ASSUME Typed, GraphLeft, SearchParts, calls # <<>>, calls[Len(calls)].left = {}, Searching,
         NEW c, c = Caller(Len(calls)), index[c] = lowlink[c],
         NEW S, S = {x \in OnStack : index[c] <= index[x]}
  PROVE  /\ c \in S /\ S = Connected(Left, c)
         /\ \A x \in S : succs[x] \subseteq S \cup Returned
<1>1. OnTheStack /\ Called /\ Explored /\ Joined /\ Lowest
  BY DEF SearchParts
<1> DEFINE m == Len(calls)
<1>2. /\ m = Len(calls) /\ m \in Nat \ {0} /\ m \in 1..Len(calls)
  BY Lengths
<1> HIDE DEF m
<1>3. /\ OnStack \subseteq Visited /\ Visited \subseteq nodes /\ nodes \subseteq Block
      /\ Returned = Visited \ OnStack
  BY <1>1 DEF OnTheStack, Visited, Returned, Typed
<1>4. \A x \in Visited : index[x] \in Int /\ lowlink[x] \in Int
  BY <1>3 DEF Typed
<1>5. c \in OnStack /\ c \in S
  BY <1>1, <1>2, <1>3, <1>4 DEF Called, Calling
<1>6. ASSUME NEW k \in 1..Len(calls), index[c] <= index[Caller(k)] PROVE k = m
  <2> SUFFICES ASSUME k < m PROVE FALSE
    BY <1>2
  <2>1. index[Caller(k)] < index[c] /\ Caller(k) \in Visited
    BY <1>1, <1>2, <1>3 DEF Called, Calling
  <2> QED BY <1>3, <1>4, <1>5, <1>6, <2>1
<1>7. ASSUME NEW x \in S PROVE succs[x] \subseteq S \cup Returned
  <2> SUFFICES ASSUME NEW z \in succs[x] PROVE z \in S \cup Returned
    OBVIOUS
  <2>1. z \in GoneThrough(x)
    <3>1. ASSUME NEW k \in 1..Len(calls), x = Caller(k) PROVE z \notin calls[k].left
      <4>1. k = m
        BY <1>6, <3>1
      <4> QED BY <1>2, <4>1
    <3> QED BY <3>1 DEF GoneThrough
  <2>2. z \in Visited
    BY <1>1, <1>3, <2>1 DEF Explored
  <2>3. ASSUME z \in OnStack PROVE z \in S
    <3>1. VisitedBy(m, x)
      BY <1>2 DEF VisitedBy
    <3>2. lowlink[c] <= index[z]
      BY <1>1, <1>2, <2>1, <2>3, <3>1 DEF Lowest
    <3> QED BY <2>3, <3>2
  <2> QED BY <1>3, <2>2, <2>3
<1>8. \A x \in Returned : succs[x] \subseteq Returned
  BY <1>1 DEF Explored
<1>9. ASSUME NEW x \in S, NEW z, LeadsTo(x, z) PROVE z \in S \cup Returned
  <2> DEFINE T == S \cup Returned
  <2>1. x \in T /\ \A w \in T \cap nodes : succs[w] \subseteq T
    BY <1>7, <1>8
  <2>2. x \in nodes
    BY <1>3
  <2> HIDE DEF T
  <2>3. \A y : LeadsTo(x, y) => y \in T
    BY <2>1, <2>2, Leading
  <2> QED BY <1>9, <2>3 DEF T
<1>10. ASSUME NEW x \in Returned, NEW z, LeadsTo(x, z) PROVE z \in Returned
  <2>1. \A w \in Returned \cap nodes : succs[w] \subseteq Returned
    BY <1>8
  <2>2. x \in nodes
    BY <1>3
  <2>3. \A y : LeadsTo(x, y) => y \in Returned
    BY <2>1, <2>2, Leading
  <2> QED BY <1>10, <2>3
<1>11. ASSUME NEW x \in S PROVE LeadsTo(c, x) /\ LeadsTo(x, c)
  <2>1. LeadsTo(c, x)
    BY <1>1, <1>2 DEF Joined
  <2>2. PICK k \in 1..Len(calls) : index[Caller(k)] <= index[x] /\ LeadsTo(x, Caller(k))
    BY <1>1 DEF Joined
  <2>3. Caller(k) \in OnStack
    BY <1>1 DEF Called, Calling
  <2>4. Caller(k) \in S
    BY <1>3, <1>9, <2>2, <2>3
  <2>5. k = m
    BY <1>6, <2>4
  <2> QED BY <1>2, <2>1, <2>2, <2>5
<1>12. ASSUME NEW y, LeadsTo(c, y), LeadsTo(y, c) PROVE y \in S
  <2>1. y \in S \cup Returned
    BY <1>5, <1>9, <1>12
  <2>2. y \notin Returned
    BY <1>3, <1>5, <1>10, <1>12
  <2> QED BY <2>1, <2>2
<1>13. Connected(Left, c) = {y \in Reach(Left, {c}) : LeadsTo(y, c)}
  BY DEF Connected, LeadsTo
<1>14. \A y : y \in Reach(Left, {c}) <=> LeadsTo(c, y)
  BY DEF LeadsTo
<1>15. S = Connected(Left, c)
  BY <1>11, <1>12, <1>13, <1>14
<1> QED BY <1>5, <1>7, <1>15

LEMMA ReturnComponent ==
  ASSUME Typed, GraphLeft, SearchParts, NEW at_, Returning(at_),
         index[Caller(Len(calls))] = lowlink[Caller(Len(calls))]
  PROVE  SearchParts'
<1> DEFINE c == Caller(Len(calls))
           m == Len(calls)
           S == {x \in OnStack : index[c] <= index[x]}
<1>1. c = Caller(Len(calls)) /\ index[c] = lowlink[c] /\ m = Len(calls)
  OBVIOUS
<1>a. S = {x \in OnStack : index[c] <= index[x]}
  OBVIOUS
<1> HIDE DEF c, m, S
<1>2. OnTheStack /\ Called /\ Explored /\ Joined /\ Lowest /\ Complete /\ Searching
  BY DEF SearchParts, Returning, Searching
<1>3. /\ m \in Nat \ {0} /\ Len(calls') = m - 1
      /\ at_ \in 1..Len(stack) /\ stack[at_] = c /\ Len(stack) \in Nat
      /\ c \in OnStack /\ OnStack \subseteq Visited /\ Visited \subseteq nodes
      /\ Visited' = Visited /\ Left' = Left
      /\ index' = index /\ index_count' = index_count /\ succs' = succs
      /\ \A x \in Visited : index[x] \in Int /\ lowlink[x] \in Int
      /\ \A x \in Visited : \/ lowlink'[x] = lowlink[x]
                            \/ /\ m # 1 /\ x = Caller(m - 1)
                               /\ lowlink'[x] = lowlink[c] /\ lowlink[c] < lowlink[x]
      /\ \A k \in 1..(m - 1) : /\ Caller(k)' = Caller(k) /\ Caller(k) \in OnStack
                               /\ calls'[k] = calls[k]
                               /\ index[Caller(k)] < index[c]
      /\ \A x : GoneThrough(x)' = GoneThrough(x)
  BY <1>1, <1>2, ReturnEffect
<1>4. /\ c \in S /\ S = Connected(Left, c)
      /\ \A x \in S : succs[x] \subseteq S \cup Returned
  <2>1. calls # <<>> /\ calls[Len(calls)].left = {}
    BY DEF Returning
  <2> QED BY <1>1, <1>a, <1>2, <2>1, PoppedComponent
<1>5. /\ Len(stack') = at_ - 1
      /\ \A k \in 1..(at_ - 1) : stack'[k] = stack[k]
      /\ sccs' = IF at_ = Len(stack) THEN sccs
                 ELSE sccs \cup {{stack[k] : k \in at_..Len(stack)}}
  BY <1>1 DEF Returning
<1>6. /\ \A k \in 1..Len(stack) : stack[k] \in OnStack /\ stack[k] \in Visited
      /\ \A j, k \in 1..Len(stack) : j < k => index[stack[j]] < index[stack[k]]
  BY <1>2, <1>3 DEF OnTheStack, OnStack, Elements
<1>7. S = {stack[k] : k \in at_..Len(stack)}
  <2>1. ASSUME NEW k \in at_..Len(stack) PROVE stack[k] \in S
    <3>1. k \in 1..Len(stack) /\ (k = at_ \/ at_ < k)
      BY <1>3
    <3>2. k = at_ => stack[k] = c
      BY <1>3
    <3>3. at_ < k => index[c] <= index[stack[k]]
      BY <1>3, <1>6, <3>1
    <3> QED BY <1>4, <1>6, <1>a, <3>1, <3>2, <3>3
  <2>2. ASSUME NEW x \in S PROVE \E k \in at_..Len(stack) : x = stack[k]
    <3>1. PICK k \in 1..Len(stack) : x = stack[k]
      BY <1>a DEF OnStack, Elements
    <3>2. ~(k < at_)
      <4> SUFFICES ASSUME k < at_ PROVE FALSE
        OBVIOUS
      <4>1. index[stack[k]] < index[c] /\ index[c] <= index[stack[k]]
        BY <1>3, <1>6, <1>a, <3>1
      <4> QED BY <1>3, <1>6, <3>1, <4>1
    <3> QED BY <1>3, <3>1, <3>2
  <2> QED BY <2>1, <2>2
<1>8. OnStack' = OnStack \ S
  <2>1. OnStack' = {stack[k] : k \in 1..(at_ - 1)}
    BY <1>5 DEF OnStack, Elements
  <2>2. OnStack = {stack[k] : k \in 1..Len(stack)}
    BY DEF OnStack, Elements
  <2>3. ASSUME NEW k \in 1..(at_ - 1) PROVE stack[k] \in OnStack /\ stack[k] \notin S
    <3>1. k \in 1..Len(stack) /\ k < at_
      BY <1>3
    <3>2. index[stack[k]] < index[c]
      BY <1>3, <1>6, <3>1
    <3> QED BY <1>3, <1>6, <1>a, <3>1, <3>2
  <2>4. \A k \in 1..Len(stack) : k \in 1..(at_ - 1) \/ k \in at_..Len(stack)
    BY <1>3
  <2> QED BY <1>7, <2>1, <2>2, <2>3, <2>4
<1>9. /\ S \subseteq OnStack /\ Returned' = Returned \cup S /\ Returned = Visited \ OnStack
      /\ \A x \in OnStack' : x \in OnStack /\ x \in Visited /\ index[x] < index[c]
      /\ \A x \in OnStack : index[x] < index[c] => x \in OnStack'
  <2>1. S \subseteq OnStack /\ Returned = Visited \ OnStack /\ Returned' = Visited' \ OnStack'
    BY <1>a DEF Returned
  <2>2. Returned' = Returned \cup S
    BY <1>3, <1>8, <2>1
  <2>3. \A x \in OnStack' : x \in OnStack /\ x \in Visited /\ index[x] < index[c]
    BY <1>3, <1>8, <1>a
  <2>4. \A x \in OnStack : index[x] < index[c] => x \in OnStack'
    BY <1>3, <1>8, <1>a
  <2> QED BY <2>1, <2>2, <2>3, <2>4
<1>10. \A k \in 1..Len(calls') : k \in 1..(m - 1) /\ k \in 1..Len(calls)
  BY <1>1, <1>3
<1>11. OnTheStack'
  <2>1. \A k \in 1..Len(stack') : k \in 1..Len(stack) /\ stack'[k] = stack[k]
    BY <1>3, <1>5
  <2>2. \A j, k \in 1..Len(stack') : j < k => index'[stack'[j]] < index'[stack'[k]]
    BY <1>3, <1>6, <2>1
  <2>3. OnStack' \subseteq Visited' /\ \A n \in Visited' : index'[n] \in 0..(index_count' - 1)
    BY <1>2, <1>3, <1>9 DEF OnTheStack
  <2> QED BY <2>2, <2>3 DEF OnTheStack
<1>12. Called'
  <2>1. Calling' \subseteq OnStack'
    BY <1>3, <1>9, <1>10 DEF Calling
  <2>2. \A k \in 1..(m - 2) : k + 1 \in 1..(m - 1) /\ k \in 1..(m - 1)
    BY <1>3
  <2>3. \A k \in 1..(Len(calls') - 1) : Caller(k + 1)' = Caller(k + 1) /\ Caller(k)' = Caller(k)
                                      /\ k \in 1..(Len(calls) - 1)
    BY <1>1, <1>3, <2>2
  <2>4. \A k \in 1..(Len(calls') - 1) : Caller(k + 1)' \in succs'[Caller(k)']
    BY <1>2, <1>3, <2>3 DEF Called
  <2>5. \A k \in 1..Len(calls') : calls'[k].left \subseteq succs'[Caller(k)']
    BY <1>2, <1>3, <1>10 DEF Called
  <2>6. \A j, k \in 1..Len(calls') : j < k => index'[Caller(j)'] < index'[Caller(k)']
    BY <1>2, <1>3, <1>10 DEF Called
  <2> QED BY <2>1, <2>4, <2>5, <2>6 DEF Called
<1>13. Explored'
  <2>1. \A x \in Visited : GoneThrough(x) \subseteq Visited
    BY <1>2 DEF Explored
  <2>2. \A x \in Returned : succs[x] \subseteq Returned
    BY <1>2 DEF Explored
  <2>3. \A x \in Returned' : succs'[x] \subseteq Returned'
    BY <1>3, <1>4, <1>9, <2>2
  <2>4. \A x \in Visited' : GoneThrough(x)' \subseteq Visited'
    BY <1>3, <2>1
  <2> QED BY <2>3, <2>4 DEF Explored
<1>14. \A x, z : LeadsTo(x, z)' <=> LeadsTo(x, z)
  BY <1>3 DEF LeadsTo
<1>15. \A k \in 1..Len(calls) : k = m \/ k \in 1..(m - 1)
  BY <1>1, <1>3
<1>16. Joined'
  <2>1. ASSUME NEW k \in 1..Len(calls'), NEW x \in OnStack', index'[Caller(k)'] <= index'[x]
        PROVE  LeadsTo(Caller(k)', x)
    <3>1. k \in 1..Len(calls) /\ x \in OnStack /\ Caller(k)' = Caller(k)
          /\ index[Caller(k)] <= index[x]
      BY <1>3, <1>9, <1>10, <2>1
    <3> QED BY <1>2, <3>1 DEF Joined
  <2>2. ASSUME NEW x \in OnStack'
        PROVE  \E k \in 1..Len(calls') : index'[Caller(k)'] <= index'[x] /\ LeadsTo(x, Caller(k)')
    <3>1. x \in OnStack /\ x \in Visited /\ index[x] < index[c]
      BY <1>9
    <3>2. PICK k \in 1..Len(calls) : index[Caller(k)] <= index[x] /\ LeadsTo(x, Caller(k))
      BY <1>2, <3>1 DEF Joined
    <3>3. k # m
      BY <1>1, <1>3, <3>1, <3>2
    <3>4. k \in 1..(m - 1)
      BY <1>15, <3>3
    <3> QED BY <1>3, <3>2, <3>4
  <2> QED BY <1>14, <2>1, <2>2 DEF Joined
<1>17. \A x \in OnStack' : lowlink'[x] = lowlink[x]
  <2> SUFFICES ASSUME NEW x \in OnStack', lowlink[c] < lowlink[x] PROVE FALSE
    BY <1>3, <1>9
  <2>1. lowlink[x] <= index[x] /\ x \in Visited /\ index[x] < index[c]
    BY <1>2, <1>9 DEF Lowest
  <2> QED BY <1>1, <1>3, <2>1
<1>18. ASSUME NEW x \in OnStack'
       PROVE  /\ lowlink'[x] <= index'[x]
              /\ \E z \in OnStack' : lowlink'[x] = index'[z] /\ LeadsTo(x, z)'
  <2>1. x \in OnStack /\ x \in Visited /\ index[x] < index[c]
    BY <1>9
  <2>2. lowlink[x] <= index[x] /\ \E z \in OnStack : lowlink[x] = index[z] /\ LeadsTo(x, z)
    BY <1>2, <2>1 DEF Lowest
  <2>3. PICK z \in OnStack : lowlink[x] = index[z] /\ LeadsTo(x, z)
    BY <2>2
  <2>4. index[z] < index[c]
    BY <1>3, <2>1, <2>2, <2>3
  <2>5. z \in OnStack'
    BY <1>9, <2>4
  <2> QED BY <1>3, <1>14, <1>17, <2>2, <2>3, <2>5
<1>19. ASSUME NEW k \in 1..Len(calls'), NEW x \in OnStack', VisitedBy(k, x)',
              NEW z \in (GoneThrough(x) \cap OnStack)'
       PROVE  lowlink'[Caller(k)'] <= index'[z]
  <2>1. /\ k \in 1..(m - 1) /\ k \in 1..Len(calls) /\ x \in OnStack /\ x \in Visited
        /\ index[x] < index[c]
        /\ z \in GoneThrough(x) \cap OnStack
        /\ Caller(k)' = Caller(k) /\ Caller(k) \in OnStack'
    BY <1>3, <1>9, <1>10
  <2>2. index[Caller(k)] <= index[x]
    BY <1>3, <1>19, <2>1 DEF VisitedBy
  <2>3. ASSUME k < Len(calls) PROVE index[x] < index[Caller(k + 1)]
    <3>1. CASE k = m - 1
      <4>1. Caller(k + 1) = c
        <5>1. k + 1 = Len(calls)
          BY <1>1, <1>3, <3>1
        <5> QED BY <1>1, <5>1
      <4> QED BY <2>1, <4>1
    <3>2. CASE k < m - 1
      <4>1. k + 1 \in 1..(m - 1) /\ k < Len(calls')
        BY <1>3, <2>1, <3>2
      <4>2. Caller(k + 1)' = Caller(k + 1)
        BY <1>3, <4>1
      <4> QED BY <1>3, <1>19, <4>1, <4>2 DEF VisitedBy
    <3> QED BY <1>3, <2>1, <3>1, <3>2
  <2>4. VisitedBy(k, x)
    BY <2>2, <2>3 DEF VisitedBy
  <2>5. lowlink[Caller(k)] <= index[z]
    BY <1>2, <2>1, <2>4 DEF Lowest
  <2> QED BY <1>3, <1>17, <2>1, <2>5
<1>20. Lowest'
  <2>1. \A k \in 1..Len(calls') : \A x \in OnStack' : VisitedBy(k, x)' =>
         \A z \in (GoneThrough(x) \cap OnStack)' : lowlink'[Caller(k)'] <= index'[z]
    BY <1>19
  <2> QED BY <1>18, <2>1 DEF Lowest
<1>21. Complete'
  <2> DEFINE All == {C \in {Connected(Left, b) : b \in nodes} : \E x, y \in C : x # y}
  <2>1. Components(Left) = All
    <3>1. IsFiniteSet(nodes) /\ Left \in [nodes -> SUBSET nodes]
      BY <1>2, LeftGraph
    <3> QED BY <3>1, ComponentsAreConnected
  <2>2. sccs = {C \in All : C \subseteq Returned}
    BY <1>2, <2>1 DEF Complete
  <2>3. ASSUME NEW C \in All, C \subseteq Returned \cup S, ~(C \subseteq Returned)
        PROVE  C = S
    <3>1. PICK b \in nodes : C = Connected(Left, b)
      OBVIOUS
    <3>2. PICK y \in C : y \in S
      BY <2>3
    <3>3. Graph(nodes, Left, b) /\ Graph(nodes, Left, c)
      BY <1>2, <1>3, LeftGraph
    <3>4. Connected(Left, y) = C
      BY <3>1, <3>2, <3>3, ConnectedSame
    <3>5. Connected(Left, y) = S
      BY <1>4, <3>2, <3>3, ConnectedSame
    <3> QED BY <3>4, <3>5
  <2>4. (\E x, y \in S : x # y) <=> at_ # Len(stack)
    <3>1. CASE at_ = Len(stack)
      <4>1. S = {c}
        BY <1>3, <1>7, <3>1
      <4> QED BY <3>1, <4>1
    <3>2. CASE at_ # Len(stack)
      <4>1. at_ + 1 \in at_..Len(stack) /\ at_ + 1 \in 1..Len(stack)
        BY <1>3, <3>2
      <4>2. stack[at_ + 1] \in S /\ index[c] < index[stack[at_ + 1]]
        BY <1>3, <1>6, <1>7, <4>1
      <4> QED BY <1>3, <1>4, <1>6, <3>2, <4>1, <4>2
    <3> QED BY <3>1, <3>2
  <2>5. S \in All <=> at_ # Len(stack)
    BY <1>3, <1>4, <2>4
  <2>6. sccs' = {C \in All : C \subseteq Returned'}
    <3>1. sccs' = IF at_ = Len(stack) THEN sccs ELSE sccs \cup {S}
      BY <1>5, <1>7
    <3> HIDE DEF All
    <3> QED BY <1>9, <2>2, <2>3, <2>5, <3>1
  <2> HIDE DEF All
  <2> QED BY <1>3, <2>1, <2>6 DEF Complete
<1> QED BY <1>11, <1>12, <1>13, <1>16, <1>20, <1>21 DEF SearchParts

-----------------------------------------------------------------------------
(***************************************************************************)
(* The search as a whole.                                                  *)
(***************************************************************************)
LEMMA ComponentsOfLeft ==
  ASSUME Typed, GraphLeft, Searching
  PROVE  /\ \A C \in Components(Left) :
              /\ C \subseteq nodes /\ Cyclic(C) /\ \E x, y \in C : x # y
         /\ \A C, D \in Components(Left) : C = D \/ C \cap D = {}
<1>1. Components(Left) = {C \in {Connected(Left, b) : b \in nodes} : \E x, y \in C : x # y}
  <2>1. IsFiniteSet(nodes) /\ Left \in [nodes -> SUBSET nodes]
    BY LeftGraph
  <2> QED BY <2>1, ComponentsAreConnected
<1>2. ASSUME NEW b \in nodes PROVE Connected(Left, b) \subseteq nodes
  <2>1. Graph(nodes, Left, b)
    BY LeftGraph
  <2>2. Reach(Left, {b}) \in SUBSET nodes
    BY <2>1, ReachFromEntry
  <2> QED BY <2>2 DEF Connected
<1>3. ASSUME NEW x \in nodes PROVE Reach(Left, {x}) \subseteq Reach(func.succ, {x})
  <2> DEFINE R == Reach(func.succ, {x})
  <2>1. Graph(nodes, Left, x) /\ \A y \in nodes : Left[y] = succs[y]
    BY LeftGraph
  <2>2. Graph(func.blocks, func.succ, x) /\ nodes \subseteq func.blocks
        /\ \A y \in nodes : succs[y] \subseteq func.succ[y]
    BY FunctionTyped DEF Graph, GraphLeft
  <2>3. x \in R /\ \A y \in R : func.succ[y] \subseteq R
    BY <2>2, ReachFromEntry
  <2>4. \A y \in R \cap nodes : Left[y] \subseteq R
    BY <2>1, <2>2, <2>3
  <2> HIDE DEF R
  <2>5. Reach(Left, {x}) \subseteq R
    BY <2>1, <2>3, <2>4, ReachInside
  <2> QED BY <2>5 DEF R
<1>4. ASSUME NEW b \in nodes, NEW x \in Connected(Left, b)
      PROVE  x \in nodes /\ Connected(Left, x) = Connected(Left, b)
  <2>1. Graph(nodes, Left, b)
    BY LeftGraph
  <2> QED BY <1>2, <2>1, ConnectedSame
<1>5. ASSUME NEW b \in nodes PROVE Cyclic(Connected(Left, b))
  <2> SUFFICES ASSUME NEW x \in Connected(Left, b), NEW y \in Connected(Left, b)
               PROVE  y \in Reach(func.succ, {x})
    BY DEF Cyclic
  <2>1. y \in Connected(Left, x) /\ x \in nodes
    BY <1>4
  <2>2. y \in Reach(Left, {x})
    BY <2>1 DEF Connected
  <2> QED BY <1>3, <2>1, <2>2
<1>6. ASSUME NEW b \in nodes, NEW d \in nodes, NEW x \in Connected(Left, b) \cap Connected(Left, d)
      PROVE  Connected(Left, b) = Connected(Left, d)
  BY <1>4
<1>7. \A b, d \in nodes : \/ Connected(Left, b) = Connected(Left, d)
                          \/ Connected(Left, b) \cap Connected(Left, d) = {}
  BY <1>6
<1> QED BY <1>1, <1>2, <1>5, <1>7

\* When every node is visited and no call is open, every node has been
\* returned.
LEMMA AllReturned ==
  ASSUME Typed, GraphLeft, SearchInv, AllVisited
  PROVE  sccs = Components(Left)
<1>1. Joined /\ OnTheStack /\ Complete /\ calls = <<>> /\ Searching
  BY DEF SearchInv, AllVisited, Searching
<1>2. Len(calls) = 0
  BY <1>1, Lengths
<1>3. OnStack = {}
  BY <1>1, <1>2 DEF Joined
<1>4. Returned = nodes
  BY <1>3 DEF Returned, Visited, AllVisited
<1>5. \A C \in Components(Left) : C \subseteq Returned
  BY <1>1, <1>4, ComponentsOfLeft
<1> QED BY <1>1, <1>5 DEF Complete

\* A search that has not begun.
Fresh == Visited = {} /\ stack = <<>> /\ calls = <<>> /\ sccs = {}
LEMMA FreshSearch ==
  ASSUME Fresh, Len(calls) = 0, Len(stack) = 0, \A C \in Components(Left) : C # {}
  PROVE  SearchParts
<1>1. OnStack = {} /\ Visited = {} /\ Returned = {} /\ 1..Len(calls) = {} /\ Calling = {}
      /\ 1..Len(stack) = {} /\ 1..(Len(calls) - 1) = {}
  BY DEF Fresh, OnStack, Elements, Returned, Calling
<1>2. OnTheStack
  BY <1>1 DEF OnTheStack
<1>3. Called
  BY <1>1 DEF Called
<1>4. Explored
  BY <1>1 DEF Explored
<1>5. Joined
  BY <1>1 DEF Joined
<1>6. Lowest
  BY <1>1 DEF Lowest
<1>7. Complete
  BY <1>1 DEF Complete, Fresh
<1> QED BY <1>2, <1>3, <1>4, <1>5, <1>6, <1>7 DEF SearchParts

LEMMA SearchInit == Init => SearchInv /\ Apart /\ NoWayIn
<1> SUFFICES ASSUME Init PROVE SearchInv /\ Apart /\ NoWayIn
  OBVIOUS
<1>1. pc = "search" /\ Searching /\ Typed /\ GraphLeft
  BY TypedInit DEF Init, build_cfg, Searching
<1>2. Fresh
  BY <1>1 DEF Init, build_cfg, Fresh, Visited, NotVisited, Typed
<1>3. Len(calls) = 0 /\ Len(stack) = 0
  BY <1>2 DEF Fresh
<1>4. \A C \in Components(Left) : C # {}
  BY <1>1, ComponentsOfLeft
<1>5. SearchParts
  BY <1>2, <1>3, <1>4, FreshSearch
<1> QED BY <1>1, <1>5 DEF SearchInv, SearchParts, Apart, NoWayIn

LEMMA BeginsAgain ==
  ASSUME Typed, GraphLeft, Apart, Again
  PROVE  SearchParts'
<1>1. pc = "bases" /\ calls = <<>> /\ Searching /\ sccs = {}
  BY DEF Again, Apart, Searching
<1>2. /\ nodes' = nodes /\ succs' = succs /\ calls' = <<>> /\ stack' = <<>> /\ sccs' = {}
      /\ nodes \subseteq Block
      /\ index' = [n \in Block |-> IF n \in nodes THEN Unvisited ELSE index[n]]
  BY <1>1 DEF Again, graph, Typed
<1>3. Left' = Left /\ Visited' = {}
  BY <1>2 DEF Left, Visited
<1>4. \A C \in Components(Left) : C # {}
  BY <1>1, ComponentsOfLeft
<1>5. OnStack' = {} /\ Returned' = {} /\ 1..Len(calls') = {} /\ Calling' = {}
      /\ 1..Len(stack') = {} /\ 1..(Len(calls') - 1) = {}
  BY <1>2, <1>3 DEF OnStack, Elements, Returned, Calling
<1>6. OnTheStack'
  BY <1>3, <1>5 DEF OnTheStack
<1>7. Called'
  BY <1>5 DEF Called
<1>8. Explored'
  BY <1>3, <1>5 DEF Explored
<1>9. Joined'
  BY <1>5 DEF Joined
<1>10. Lowest'
  BY <1>5 DEF Lowest
<1>11. Complete'
  BY <1>2, <1>3, <1>4, <1>5 DEF Complete
<1> QED BY <1>6, <1>7, <1>8, <1>9, <1>10, <1>11 DEF SearchParts

LEMMA SearchStays ==
  ASSUME SearchParts, UNCHANGED search
  PROVE  SearchParts'
<1>1. /\ nodes' = nodes /\ succs' = succs /\ index' = index /\ lowlink' = lowlink
      /\ index_count' = index_count /\ stack' = stack /\ calls' = calls /\ sccs' = sccs
  BY DEF search, graph, tarjan
<1>2. /\ OnStack' = OnStack /\ Visited' = Visited /\ Left' = Left
  BY <1>1 DEF OnStack, Elements, Visited, Left
<1>3. Returned' = Returned /\ \A k : Caller(k)' = Caller(k)
  BY <1>1, <1>2 DEF Returned, Caller
<1>4. Calling' = Calling /\ \A x : GoneThrough(x)' = GoneThrough(x)
  BY <1>1 DEF Calling, GoneThrough, Caller
<1>5. \A x, y : LeadsTo(x, y)' = LeadsTo(x, y)
  BY <1>2 DEF LeadsTo
<1>6. \A k, x : VisitedBy(k, x)' = VisitedBy(k, x)
  BY <1>1 DEF VisitedBy, Caller
<1>7. OnTheStack' = OnTheStack
  BY <1>1, <1>2 DEF OnTheStack
<1>8. Called' = Called
  BY <1>1, <1>2, <1>4 DEF Called, Caller
<1>9. Explored' = Explored
  BY <1>1, <1>2, <1>3, <1>4 DEF Explored
<1>10. Joined' = Joined
  BY <1>1, <1>2, <1>3, <1>5 DEF Joined
<1>11. Lowest' = Lowest
  BY <1>1, <1>2, <1>3, <1>4, <1>5, <1>6 DEF Lowest
<1>12. Complete' = Complete
  BY <1>1, <1>2, <1>3 DEF Complete
<1> QED BY <1>7, <1>8, <1>9, <1>10, <1>11, <1>12 DEF SearchParts

LEMMA SearchInvStep ==
  ASSUME LoopSearchInv, [Next]_vars
  PROVE  SearchInv'
<1>1. Typed /\ GraphLeft /\ Apart /\ (pc = "search" => SearchParts)
  BY DEF LoopSearchInv, SearchInv, SearchParts
<1> SUFFICES ASSUME pc' = "search" PROVE SearchParts'
  BY DEF SearchInv, SearchParts
<1>2. CASE UNCHANGED search
  BY <1>1, <1>2, SearchStays DEF search
<1>3. CASE Root \/ Successor
  <2>1. SearchParts /\ OnTheStack /\ Called
    BY <1>1, <1>3 DEF Root, Successor, SearchParts
  <2>2. \E su : Entering(su) \/ Looking(su)
    BY <1>1, <1>3, <2>1, RootEnters, SuccessorLooks
  <2>3. PICK su : Entering(su) \/ Looking(su)
    BY <2>2
  <2>4. CASE Entering(su)
    BY <1>1, <2>1, <2>4, EnterOrder, EnterReach, EnterLowest DEF SearchParts
  <2>5. CASE Looking(su)
    BY <1>1, <2>1, <2>5, LookKeeps
  <2> QED BY <2>3, <2>4, <2>5
<1>4. CASE Return
  <2>1. SearchParts /\ Called
    BY <1>1, <1>4 DEF Return, SearchParts
  <2>2. PICK at_ \in 1..Len(stack) : Returning(at_)
    BY <1>1, <1>4, <2>1, ReturnLowers
  <2> QED BY <1>1, <2>1, <2>2, ReturnInside, ReturnComponent
<1>5. CASE Again
  BY <1>1, <1>5, BeginsAgain
<1>6. ~Later /\ ~Searched /\ ~Clear
  BY DEF Later, Searched, Clear
<1>7. ~Base
  BY DEF Base
<1> QED BY <1>2, <1>3, <1>4, <1>5, <1>6, <1>7, SearchSteps DEF Search

LEMMA ApartStep ==
  ASSUME LoopSearchInv, [Next]_vars
  PROVE  Apart'
<1>1. Typed /\ GraphLeft /\ Apart /\ SearchInv
  BY DEF LoopSearchInv
<1> SUFFICES ASSUME pc' \in {"bases", "crash"} PROVE Apart'
  BY DEF Apart
<1>2. CASE UNCHANGED search
  BY <1>1, <1>2 DEF Apart, Cyclic, search, graph, tarjan
<1>3. CASE Searched
  <2>1. sccs = Components(Left) /\ calls = <<>> /\ Searching
    BY <1>1, <1>3, AllReturned DEF Searched, AllVisited, Searching
  <2>2. sccs' = sccs /\ calls' = calls /\ nodes' = nodes /\ func' = func
    BY <1>3 DEF Searched, graph, tarjan
  <2>3. /\ \A C \in sccs : C \subseteq nodes /\ Cyclic(C) /\ \E x, y \in C : x # y
        /\ \A C, D \in sccs : C = D \/ C \cap D = {}
    BY <1>1, <2>1, ComponentsOfLeft
  <2> QED BY <2>1, <2>2, <2>3 DEF Apart, Cyclic
<1>4. CASE Base
  <2>1. CASE pc = "bases" /\ pc' = "crash" /\ UNCHANGED <<func, graph, tarjan, sccs, loops>>
    BY <1>1, <2>1 DEF Apart, Cyclic, graph, tarjan
  <2>2. CASE \E scc \in sccs : \E base \in scc : TakesOut(scc, base)
    <3>1. PICK scc \in sccs : \E base \in scc : TakesOut(scc, base)
      BY <2>2
    <3>2. PICK base \in scc : TakesOut(scc, base)
      BY <3>1
    <3>3. /\ sccs' = sccs \ {scc} /\ nodes' = nodes \ {base} /\ calls' = calls /\ func' = func
      BY <3>2, <1>4 DEF TakesOut, Remaining, Base, tarjan
    <3>4. /\ calls = <<>>
          /\ \A C \in sccs : C \subseteq nodes /\ Cyclic(C) /\ \E x, y \in C : x # y
          /\ \A C, D \in sccs : C = D \/ C \cap D = {}
      BY <1>1, <1>4 DEF Apart, Base
    <3>5. \A C \in sccs' : C \in sccs /\ C \cap scc = {}
      BY <3>1, <3>3, <3>4
    <3>6. \A C \in sccs' : C \subseteq nodes' /\ Cyclic(C) /\ \E x, y \in C : x # y
      BY <3>2, <3>3, <3>4, <3>5
    <3> QED BY <3>3, <3>4, <3>5, <3>6 DEF Apart, Cyclic
  <2> QED BY <1>1, <1>4, <2>1, <2>2, BaseTakesOut
<1>5. ~Root /\ ~Successor /\ ~Return /\ ~Clear /\ ~Again /\ ~Later
  BY DEF Root, Successor, Return, Clear, Again, Later
<1> QED BY <1>2, <1>3, <1>4, <1>5, SearchSteps DEF Search

LEMMA NoWayInStep ==
  ASSUME LoopSearchInv, [Next]_vars
  PROVE  NoWayIn'
<1>1. Typed /\ GraphLeft /\ Apart /\ NoWayIn
  BY DEF LoopSearchInv
<1> SUFFICES ASSUME pc' = "crash" PROVE NoWayIn'
  BY DEF NoWayIn
<1>2. CASE UNCHANGED search
  BY <1>1, <1>2 DEF NoWayIn, Entered, search, graph
<1>3. CASE Base
  <2>0. PICK scc \in sccs : \E base \in Candidates(scc) :
           IF base = NoBlock THEN UNCHANGED <<graph, sccs, loops>> ELSE UNCHANGED pc
    BY <1>3 DEF Base
  <2>1. PICK base \in Candidates(scc) :
           IF base = NoBlock THEN UNCHANGED <<graph, sccs, loops>> ELSE UNCHANGED pc
    BY <2>0
  <2>2. pc = "bases" /\ base = NoBlock
    BY <1>3, <2>1 DEF Base
  <2>3. NoBlock \notin scc
    BY <1>1, <2>2, NoBlockAssumption DEF Apart, Typed
  <2>4. Entered(scc) = {} /\ scc \cap UNION {succs[r] : r \in reserved} = {}
    BY <2>2, <2>3 DEF Candidates, Entered
  <2>5. UNCHANGED <<graph, sccs>>
    BY <2>1, <2>2
  <2> QED BY <2>4, <2>5 DEF NoWayIn, Entered, graph
<1>4. ~Root /\ ~Successor /\ ~Return /\ ~Searched /\ ~Clear /\ ~Again /\ ~Later
  BY DEF Root, Successor, Return, Searched, AllVisited, Clear, Again, Later
<1> QED BY <1>2, <1>3, <1>4, SearchSteps DEF Search

-----------------------------------------------------------------------------
\* What the search relies on throughout: Tarjan's stack, calls and low links
\* are in the order and lead where the algorithm needs, the components between
\* two searches are cyclic and apart, and a base is null only of a component
\* that nothing leads into.
THEOREM SearchInvariant == Spec => []LoopSearchInv
<1>1. Init => LoopSearchInv
  BY TypedInit, SearchInit DEF LoopSearchInv
<1>2. LoopSearchInv /\ [Next]_vars => LoopSearchInv'
  <2> SUFFICES ASSUME LoopSearchInv, [Next]_vars PROVE LoopSearchInv'
    OBVIOUS
  <2>1. Typed' /\ GraphLeft'
    BY TypedStep, GraphLeftStep
  <2>2. SearchInv' /\ Apart' /\ NoWayIn'
    BY SearchInvStep, ApartStep, NoWayInStep
  <2> QED BY <2>1, <2>2 DEF LoopSearchInv
<1> QED BY <1>1, <1>2, PTL DEF Spec

\* strongly_connected_components, for whatever graph is left and whatever order
\* its nodes and successors are gone through, returns exactly the strongly
\* connected components of two blocks or more.
THEOREM ComponentsAreFound == Spec => []ComponentsFound
<1>1. LoopSearchInv => ComponentsFound
  BY AllReturned DEF LoopSearchInv, ComponentsFound, Left
<1> QED BY <1>1, SearchInvariant, PTL

LEMMA NothingLeadsIn ==
  ASSUME Typed, GraphLeft, Searching, NEW C, C \subseteq nodes, C # {}, Live,
         Entered(C) = {}, C \cap UNION {succs[r] : r \in reserved} = {}
  PROVE  func.entry \in C
<1> SUFFICES ASSUME func.entry \notin C PROVE FALSE
  OBVIOUS
<1> DEFINE S == func.blocks \ C
<1>1. /\ Graph(func.blocks, func.succ, func.entry)
      /\ nodes \subseteq func.blocks /\ func.blocks = nodes \cup reserved /\ C \cap reserved = {}
      /\ \A p \in func.blocks : func.succ[p] \subseteq func.blocks
  BY FunctionTyped DEF Graph, GraphLeft
<1>2. ASSUME NEW p \in S, NEW m \in func.succ[p], m \in C PROVE FALSE
  <2>1. CASE p \in nodes
    <3>1. p \in prevs[m]
      BY <1>2, <2>1 DEF GraphLeft
    <3> QED BY <1>2, <3>1 DEF Entered
  <2>2. CASE p \in reserved
    <3>1. m \in succs[p]
      BY <1>1, <1>2, <2>2 DEF GraphLeft
    <3> QED BY <1>2, <2>2, <3>1
  <2> QED BY <1>1, <2>1, <2>2
<1>3. func.entry \in S /\ \A p \in S \cap func.blocks : func.succ[p] \subseteq S
  BY <1>1, <1>2, FunctionTyped
<1> HIDE DEF S
<1>4. Reach(func.succ, {func.entry}) \subseteq S
  BY <1>1, <1>3, ReachInside
<1> QED BY <1>1, <1>4 DEF S, Live

\* The null base that LoopSearch::run dereferences is met only in a function
\* with dead blocks, or with a loop around its entry.
THEOREM NullBaseOnlyThen == Spec => []CrashesOnlyOnDeadOrEntryLoop
<1>1. LoopSearchInv => CrashesOnlyOnDeadOrEntryLoop
  <2> DEFINE e == func.entry
             R == Reach(func.succ, func.succ[e])
  <2> SUFFICES ASSUME LoopSearchInv, pc = "crash", Live PROVE e \in R
    BY DEF CrashesOnlyOnDeadOrEntryLoop
  <2>1. Typed /\ GraphLeft /\ Searching
    BY DEF LoopSearchInv, Searching
  <2>2. PICK C \in sccs : Entered(C) = {} /\ C \cap UNION {succs[r] : r \in reserved} = {}
    BY DEF LoopSearchInv, NoWayIn
  <2>3. C \subseteq nodes /\ Cyclic(C) /\ \E x, y \in C : x # y
    BY <2>2 DEF LoopSearchInv, Apart
  <2>4. C # {}
    BY <2>3
  <2>5. e \in C
    BY <2>1, <2>2, <2>3, <2>4, NothingLeadsIn
  <2>6. PICK z \in C : z # e
    BY <2>3
  <2>7. Graph(func.blocks, func.succ, e) /\ func.succ[e] \in SUBSET func.blocks
    BY <2>1, FunctionTyped DEF Graph
  <2>8. z \in Reach(func.succ, {e}) /\ e \in Reach(func.succ, {z})
    BY <2>3, <2>5, <2>6 DEF Cyclic
  <2>9. z \in R /\ Graph(func.blocks, func.succ, z)
    BY <2>6, <2>7, <2>8, ReachUnfold, ReachTransitive
  <2>10. \A c \in R : func.succ[c] \subseteq R
    BY <2>7, ReachIsLeast DEF Graph
  <2> HIDE DEF R
  <2>11. Reach(func.succ, {z}) \subseteq R
    BY <2>9, <2>10, ReachInside
  <2> QED BY <2>8, <2>11
<1> QED BY <1>1, SearchInvariant, PTL

-----------------------------------------------------------------------------
(***************************************************************************)
(* The loops found are the natural loops.  A loop is taken after the loops *)
(* around it, so that the last one a block is given is its innermost one.  *)
(***************************************************************************)
Headers == LoopHeaders(func.succ, func.entry)
OuterOut(h) == OuterIn(func.succ, func.entry, h, reserved)

BasesAreHeaders ==
  /\ DOMAIN base2loop \subseteq Headers
  /\ \A b \in DOMAIN base2loop : base2loop[b] = Loop(b)
  /\ Searching => reserved = DOMAIN base2loop /\ \A r \in reserved : OuterOut(r)
  /\ ~Searching => Headers \subseteq DOMAIN base2loop

ComponentsAreLoops ==
  pc = "bases" => \A C \in sccs : \E h \in Headers : h \in C /\ C = Loop(h) /\ OuterOut(h)

LastIsInnermost ==
  /\ DOMAIN bb2base = UNION {Loop(b) : b \in DOMAIN base2loop}
  /\ \A n \in DOMAIN bb2base :
       /\ bb2base[n] \in DOMAIN base2loop /\ n \in Loop(bb2base[n])
       /\ \A b \in DOMAIN base2loop : n \in Loop(b) => Loop(bb2base[n]) \subseteq Loop(b)

LoopsSoFar == Structured => BasesAreHeaders /\ ComponentsAreLoops /\ LastIsInnermost

LEMMA StructuredGraph ==
  ASSUME GraphLeft, Structured
  PROVE  /\ AllLive(func.blocks, func.succ, func.entry)
         /\ Reducible(func.succ, func.entry)
         /\ \A h \in Headers : h \in func.blocks
  <1>1. AllLive(func.blocks, func.succ, func.entry) /\ Reducible(func.succ, func.entry)
    BY FunctionTyped DEF Structured, Live, AllLive, Graph
  <1> QED BY <1>1, IsHeader DEF Headers

LEMMA LeftIsInside ==
  ASSUME Typed, GraphLeft, Searching
  PROVE  /\ nodes = func.blocks \ reserved /\ nodes \in SUBSET func.blocks
         /\ Left = Inside(func.succ, nodes)
         /\ \A C : C \in Components(Left) <=> IsComponent(func.succ, nodes, C)
<1>1. nodes = func.blocks \ reserved /\ nodes \in SUBSET func.blocks
  BY DEF GraphLeft
<1>2. \A n \in nodes : succs[n] = func.succ[n] \cap nodes
  <2> TAKE n \in nodes
  <2>1. /\ succs[n] \subseteq func.succ[n] /\ func.succ[n] \ reserved \subseteq succs[n]
        /\ succs[n] \subseteq nodes
    BY <1>1 DEF GraphLeft
  <2> QED BY <1>1, <2>1
<1>3. Left = Inside(func.succ, nodes)
  BY <1>2 DEF Left, Inside
<1>4. Components(Left) = {C \in {Connected(Left, b) : b \in nodes} : \E x, y \in C : x # y}
  <2>1. IsFiniteSet(nodes) /\ Left \in [nodes -> SUBSET nodes]
    BY LeftGraph
  <2> QED BY <2>1, ComponentsAreConnected
<1> QED BY <1>1, <1>3, <1>4 DEF IsComponent

\* The base chosen for a component is its header.
LEMMA BaseIsHeader ==
  ASSUME GraphLeft, Structured, Searching, NEW C, C \subseteq nodes, NEW h \in Headers, C = Loop(h),
         NEW base \in Candidates(C), base # NoBlock
  PROVE  base = h
<1>1. /\ AllLive(func.blocks, func.succ, func.entry) /\ h \in func.blocks
      /\ nodes = func.blocks \ reserved /\ reserved \subseteq func.blocks
      /\ \A n \in nodes : prevs[n] = {p \in nodes : n \in func.succ[p]}
      /\ \A r \in func.blocks : succs[r] \subseteq func.succ[r]
  BY StructuredGraph DEF GraphLeft
<1>2. base \in C
  BY DEF Candidates, Entered
<1>3. \E p \in func.blocks \ C : base \in func.succ[p]
  <2>1. CASE Entered(C) # {}
    <3>1. prevs[base] \ C # {}
      BY <2>1 DEF Candidates, Entered
    <3> QED BY <1>1, <1>2, <3>1
  <2>2. CASE Entered(C) = {}
    <3>1. base \in UNION {succs[r] : r \in reserved}
      BY <2>2 DEF Candidates
    <3> QED BY <1>1, <3>1
  <2> QED BY <2>1, <2>2
<1>4. PICK p \in func.blocks \ C : base \in func.succ[p]
  BY <1>3
<1> SUFFICES ASSUME base # h PROVE FALSE
  OBVIOUS
<1>5. p \in NaturalLoop(func.succ, func.entry, h)
  BY <1>1, <1>2, <1>4, LoopBackward DEF Loop
<1> QED BY <1>4, <1>5 DEF Loop

LEMMA LoopsInit == Init => LoopsSoFar
<1> SUFFICES ASSUME Init PROVE BasesAreHeaders /\ ComponentsAreLoops /\ LastIsInnermost
  BY DEF LoopsSoFar
<1>1. pc = "search" /\ DOMAIN base2loop = {} /\ DOMAIN bb2base = {} /\ reserved = {}
  BY DEF Init, build_cfg
<1> QED BY <1>1 DEF BasesAreHeaders, ComponentsAreLoops, LastIsInnermost, Searching

\* What holds of the loops, of whatever is taken out later.
LEMMA LoopsSame ==
  ASSUME func' = func, reserved' = reserved
  PROVE  /\ Structured' = Structured /\ Headers' = Headers
         /\ \A h : Loop(h)' = Loop(h) /\ OuterOut(h)' = OuterOut(h)
BY DEF Structured, Live, Headers, Loop, OuterOut

LEMMA LoopsKept ==
  ASSUME BasesAreHeaders, LastIsInnermost, UNCHANGED <<func, loops>>,
         Searching' => Searching /\ reserved' = reserved, Searching => Searching'
  PROVE  BasesAreHeaders' /\ LastIsInnermost'
<1>1. base2loop' = base2loop /\ bb2base' = bb2base /\ Headers' = Headers
      /\ \A h : Loop(h)' = Loop(h)
  BY DEF loops, Headers, Loop
<1>2. ASSUME Searching' PROVE \A h : OuterOut(h)' = OuterOut(h)
  BY <1>2 DEF OuterOut
<1>3. BasesAreHeaders'
  BY <1>1, <1>2 DEF BasesAreHeaders
<1>4. LastIsInnermost'
  BY <1>1 DEF LastIsInnermost
<1> QED BY <1>3, <1>4

LEMMA BaseTakesLoop ==
  ASSUME LoopSearchInv, LoopsSoFar, Structured, pc = "bases", func' = func,
         NEW scc \in sccs, NEW base \in Candidates(scc), TakesOut(scc, base),
         base2loop' = [n \in DOMAIN base2loop \cup {base} |->
                         IF n \in DOMAIN base2loop THEN base2loop[n] ELSE scc],
         bb2base' = Inner(scc, base)
  PROVE  BasesAreHeaders' /\ ComponentsAreLoops' /\ LastIsInnermost'
<1>1. /\ Typed /\ GraphLeft /\ Searching /\ Searching'
      /\ BasesAreHeaders /\ ComponentsAreLoops /\ LastIsInnermost
      /\ scc \subseteq nodes /\ nodes = func.blocks \ reserved
  BY DEF LoopSearchInv, LoopsSoFar, Searching, TakesOut, Apart, GraphLeft
<1>2. PICK h \in Headers : h \in scc /\ scc = Loop(h) /\ OuterOut(h)
  BY <1>1 DEF ComponentsAreLoops
<1>3. base = h
  BY <1>1, <1>2, BaseIsHeader DEF TakesOut
<1>4. h \notin reserved /\ reserved = DOMAIN base2loop /\ reserved' = reserved \cup {h}
  BY <1>1, <1>2, <1>3 DEF BasesAreHeaders, TakesOut
<1>5. /\ DOMAIN base2loop' = DOMAIN base2loop \cup {h}
      /\ base2loop'[h] = Loop(h)
      /\ \A b \in DOMAIN base2loop : base2loop'[b] = base2loop[b]
  BY <1>2, <1>3, <1>4
<1>6. Headers' = Headers /\ \A g : Loop(g)' = Loop(g)
  BY DEF Headers, Loop
<1>7. \A g : OuterOut(g) => OuterOut(g)'
  BY <1>4 DEF OuterOut, OuterIn
<1>8. BasesAreHeaders'
  <2>1. DOMAIN base2loop' \subseteq Headers'
    BY <1>1, <1>5, <1>6 DEF BasesAreHeaders
  <2>2. \A b \in DOMAIN base2loop' : base2loop'[b] = Loop(b)
    BY <1>1, <1>5 DEF BasesAreHeaders
  <2>3. reserved' = DOMAIN base2loop' /\ \A r \in reserved' : OuterOut(r)'
    BY <1>1, <1>2, <1>4, <1>5, <1>7 DEF BasesAreHeaders
  <2> QED BY <1>1, <1>6, <2>1, <2>2, <2>3 DEF BasesAreHeaders
<1>9. ComponentsAreLoops'
  <2>1. sccs' \subseteq sccs
    BY DEF TakesOut
  <2>2. \A C \in sccs : \E g \in Headers : g \in C /\ C = Loop(g) /\ OuterOut(g)
    BY <1>1 DEF ComponentsAreLoops
  <2> QED BY <1>6, <1>7, <2>1, <2>2 DEF ComponentsAreLoops
<1>10. LastIsInnermost'
  <2>1. DOMAIN bb2base' = DOMAIN bb2base \cup scc
        /\ \A n \in DOMAIN bb2base' : bb2base'[n] = IF n \in scc THEN h ELSE bb2base[n]
    BY <1>3 DEF Inner
  <2>2. DOMAIN bb2base' = UNION {Loop(b) : b \in DOMAIN base2loop'}
    <3>1. DOMAIN bb2base = UNION {Loop(b) : b \in DOMAIN base2loop}
      BY <1>1 DEF LastIsInnermost
    <3> QED BY <1>2, <1>5, <2>1, <3>1
  <2>3. ASSUME NEW n \in DOMAIN bb2base'
        PROVE  /\ bb2base'[n] \in DOMAIN base2loop' /\ n \in Loop(bb2base'[n])
               /\ \A b \in DOMAIN base2loop' : n \in Loop(b) => Loop(bb2base'[n]) \subseteq Loop(b)
    <3>1. CASE n \in scc
      <4>1. bb2base'[n] = h /\ n \in Loop(h)
        BY <1>2, <2>1, <3>1
      <4>2. ASSUME NEW b \in DOMAIN base2loop, n \in Loop(b)
            PROVE  Loop(h) \subseteq Loop(b)
        <5>1. /\ AllLive(func.blocks, func.succ, func.entry)
              /\ h \in func.blocks /\ b \in func.blocks
          BY <1>1, StructuredGraph DEF BasesAreHeaders
        <5>2. Loop(h) \subseteq Loop(b) \/ Loop(b) \subseteq Loop(h)
          BY <4>1, <4>2, <5>1, LoopsApart DEF Loop
        <5>3. b \in Loop(b)
          BY <5>1, InLoop DEF Loop
        <5>4. b \notin Loop(h)
          BY <1>1, <1>2, <1>4
        <5> QED BY <5>2, <5>3, <5>4
      <4> QED BY <1>5, <4>1, <4>2
    <3>2. CASE n \notin scc
      <4>1. n \in DOMAIN bb2base /\ bb2base'[n] = bb2base[n] /\ n \notin Loop(h)
        BY <1>2, <2>1, <3>2
      <4>2. /\ bb2base[n] \in DOMAIN base2loop /\ n \in Loop(bb2base[n])
            /\ \A b \in DOMAIN base2loop : n \in Loop(b) => Loop(bb2base[n]) \subseteq Loop(b)
        BY <1>1, <4>1 DEF LastIsInnermost
      <4> QED BY <1>5, <4>1, <4>2
    <3> QED BY <3>1, <3>2
  <2>4. \A k : Loop(k)' = NaturalLoop(func.succ, func.entry, k)
    BY DEF Loop
  <2> QED BY <2>2, <2>3, <2>4 DEF LastIsInnermost, Loop
<1> QED BY <1>8, <1>9, <1>10

LEMMA LoopsStep ==
  ASSUME LoopSearchInv, LoopsSoFar, [Next]_vars
  PROVE  LoopsSoFar'
<1> SUFFICES ASSUME Structured' PROVE BasesAreHeaders' /\ ComponentsAreLoops' /\ LastIsInnermost'
  BY DEF LoopsSoFar
<1>0. func' = func
  BY SearchSteps DEF Search, Later, search, Root, Successor, Return, Searched, Clear, Base, Again
<1>1. /\ Structured /\ Typed /\ GraphLeft /\ SearchInv /\ Apart
      /\ BasesAreHeaders /\ ComponentsAreLoops /\ LastIsInnermost
  BY <1>0 DEF LoopSearchInv, LoopsSoFar, Structured, Live
<1>2. CASE UNCHANGED search
  <2>1. /\ UNCHANGED <<pc, func, loops, sccs>> /\ reserved' = reserved
        /\ Searching' = Searching
    BY <1>2 DEF search, graph, Searching
  <2>2. BasesAreHeaders' /\ LastIsInnermost'
    BY <1>1, <2>1, LoopsKept
  <2>3. Headers' = Headers /\ \A h : Loop(h)' = Loop(h) /\ OuterOut(h)' = OuterOut(h)
    BY <2>1, LoopsSame
  <2>4. ComponentsAreLoops'
    BY <1>1, <2>1, <2>3 DEF ComponentsAreLoops
  <2> QED BY <2>2, <2>4
<1>3. CASE Later
  <2>1. /\ UNCHANGED <<func, loops>> /\ ~Searching /\ ~Searching' /\ pc' # "bases"
    BY <1>3 DEF Later, Searching
  <2>2. BasesAreHeaders' /\ LastIsInnermost'
    BY <1>1, <2>1, LoopsKept
  <2> QED BY <2>1, <2>2 DEF ComponentsAreLoops
<1>4. CASE Root \/ Successor \/ Return \/ Again
  <2>1. /\ UNCHANGED <<func, loops>> /\ reserved' = reserved
        /\ Searching /\ Searching' /\ pc' = "search"
    BY <1>4 DEF Root, Successor, Return, Again, Searching, graph
  <2>2. BasesAreHeaders' /\ LastIsInnermost'
    BY <1>1, <2>1, LoopsKept
  <2> QED BY <2>1, <2>2 DEF ComponentsAreLoops
<1>5. CASE Searched
  <2>1. /\ UNCHANGED <<func, loops, sccs>> /\ reserved' = reserved
        /\ Searching /\ Searching' /\ AllVisited
    BY <1>5 DEF Searched, AllVisited, Searching, graph
  <2>2. BasesAreHeaders' /\ LastIsInnermost'
    BY <1>1, <2>1, LoopsKept
  <2>3. Headers' = Headers /\ \A h : Loop(h)' = Loop(h) /\ OuterOut(h)' = OuterOut(h)
    BY <2>1, LoopsSame
  <2>4. sccs = Components(Left)
    BY <1>1, <2>1, AllReturned
  <2>5. ASSUME NEW C \in sccs
        PROVE  \E h \in Headers : h \in C /\ C = Loop(h) /\ OuterOut(h)
    <3>1. IsComponent(func.succ, func.blocks \ reserved, C)
      BY <1>1, <2>1, <2>4, LeftIsInside
    <3>2. /\ AllLive(func.blocks, func.succ, func.entry) /\ Reducible(func.succ, func.entry)
          /\ \A r \in reserved : OuterIn(func.succ, func.entry, r, reserved)
      BY <1>1, <2>1, StructuredGraph DEF BasesAreHeaders, OuterOut
    <3>3. \E h \in LoopHeaders(func.succ, func.entry) :
            /\ h \in C /\ C = NaturalLoop(func.succ, func.entry, h)
            /\ OuterIn(func.succ, func.entry, h, reserved)
      BY <3>1, <3>2, ComponentIsLoop
    <3> QED BY <3>3 DEF Headers, Loop, OuterOut
  <2>6. ComponentsAreLoops'
    BY <2>1, <2>3, <2>5 DEF ComponentsAreLoops
  <2> QED BY <2>2, <2>6
<1>6. CASE Clear
  <2>1. /\ UNCHANGED <<func, loops>> /\ Searching /\ ~Searching' /\ pc' = "found"
        /\ AllVisited /\ sccs = {}
    BY <1>6 DEF Clear, AllVisited, Searching
  <2>2. sccs = Components(Left)
    BY <1>1, <2>1, AllReturned
  <2>3. ASSUME NEW h \in Headers, h \notin DOMAIN base2loop PROVE FALSE
    <3>1. /\ AllLive(func.blocks, func.succ, func.entry) /\ h \notin reserved
          /\ \A r \in reserved : OuterIn(func.succ, func.entry, r, reserved)
      BY <1>1, <2>1, <2>3, StructuredGraph DEF BasesAreHeaders, OuterOut
    <3>2. \E C : IsComponent(func.succ, func.blocks \ reserved, C)
      BY <3>1, LoopInComponent DEF Headers
    <3>3. \E C : C \in Components(Left)
      BY <1>1, <2>1, <3>2, LeftIsInside
    <3> QED BY <2>1, <2>2, <3>3
  <2>4. Headers' = Headers /\ base2loop' = base2loop /\ bb2base' = bb2base
        /\ \A h : Loop(h)' = Loop(h)
    BY <2>1 DEF Headers, Loop, loops
  <2>5. BasesAreHeaders'
    BY <1>1, <2>1, <2>3, <2>4 DEF BasesAreHeaders
  <2>6. LastIsInnermost'
    BY <1>1, <2>4 DEF LastIsInnermost
  <2> QED BY <2>1, <2>5, <2>6 DEF ComponentsAreLoops
<1>7. CASE Base
  <2>1. pc = "bases" /\ \E scc \in sccs : \E base \in Candidates(scc) :
          IF base = NoBlock
          THEN pc' = "crash" /\ UNCHANGED <<graph, sccs, loops>>
          ELSE /\ TakesOut(scc, base)
               /\ base2loop' = [n \in DOMAIN base2loop \cup {base} |->
                                  IF n \in DOMAIN base2loop THEN base2loop[n] ELSE scc]
               /\ bb2base' = Inner(scc, base)
    BY <1>7 DEF Base, TakesOut
  <2>2. PICK scc \in sccs : \E base \in Candidates(scc) :
          IF base = NoBlock
          THEN pc' = "crash" /\ UNCHANGED <<graph, sccs, loops>>
          ELSE /\ TakesOut(scc, base)
               /\ base2loop' = [n \in DOMAIN base2loop \cup {base} |->
                                  IF n \in DOMAIN base2loop THEN base2loop[n] ELSE scc]
               /\ bb2base' = Inner(scc, base)
    BY <2>1
  <2>3. PICK base \in Candidates(scc) :
          IF base = NoBlock
          THEN pc' = "crash" /\ UNCHANGED <<graph, sccs, loops>>
          ELSE /\ TakesOut(scc, base)
               /\ base2loop' = [n \in DOMAIN base2loop \cup {base} |->
                                  IF n \in DOMAIN base2loop THEN base2loop[n] ELSE scc]
               /\ bb2base' = Inner(scc, base)
    BY <2>2
  <2>4. CASE base = NoBlock
    <3>1. pc' = "crash" /\ UNCHANGED <<graph, sccs, loops>>
      BY <2>3, <2>4
    <3>2. UNCHANGED <<func, loops>> /\ reserved' = reserved /\ Searching /\ Searching'
      BY <1>0, <2>1, <3>1 DEF Searching, graph
    <3>3. BasesAreHeaders' /\ LastIsInnermost'
      BY <1>1, <3>2, LoopsKept
    <3> QED BY <3>1, <3>3 DEF ComponentsAreLoops
  <2>5. CASE base # NoBlock
    <3>1. /\ TakesOut(scc, base)
          /\ base2loop' = [n \in DOMAIN base2loop \cup {base} |->
                             IF n \in DOMAIN base2loop THEN base2loop[n] ELSE scc]
          /\ bb2base' = Inner(scc, base)
      BY <2>3, <2>5
    <3> QED BY <1>0, <1>1, <2>1, <3>1, BaseTakesLoop
  <2> QED BY <2>4, <2>5
<1> QED BY <1>2, <1>3, <1>4, <1>5, <1>6, <1>7, SearchSteps DEF Search

\* In a function without dead blocks whose loops are entered at their headers,
\* at every moment of the search: the bases taken out are headers and have their
\* natural loops, so has each component, and the headers of the loops around
\* them are out; a block's base is that of the smallest loop found around it.
THEOREM LoopsInvariant == Spec => []LoopsSoFar
<1>1. Init => LoopsSoFar
  BY LoopsInit
<1>2. LoopSearchInv /\ LoopsSoFar /\ [Next]_vars => LoopsSoFar'
  BY LoopsStep
<1> QED BY <1>1, <1>2, SearchInvariant, PTL DEF Spec

\* In a function without dead blocks whose loops are entered at their headers
\* the search finds exactly its natural loops, each under its header, however
\* they are nested and in whatever order the components are gone through.
THEOREM NaturalLoopsAreFound == Spec => []LoopsAreNaturalLoops
<1>1. LoopsSoFar => LoopsAreNaturalLoops
  <2> SUFFICES ASSUME LoopsSoFar, pc = "found", Structured
               PROVE  /\ DOMAIN base2loop = Headers
                      /\ \A b \in DOMAIN base2loop : base2loop[b] = Loop(b)
    BY DEF LoopsAreNaturalLoops, Headers, Loop
  <2>1. BasesAreHeaders /\ ~Searching
    BY DEF LoopsSoFar, Searching
  <2> QED BY <2>1 DEF BasesAreHeaders
<1> QED BY <1>1, LoopsInvariant, PTL

-----------------------------------------------------------------------------
LEMMA SmallestIs ==
  ASSUME NEW S, NEW l \in S, \A m \in S : l \subseteq m
  PROVE  Smallest(S) = l
<1>1. \A k \in S : (\A m \in S : k \subseteq m) => k = l
  OBVIOUS
<1>2. Smallest(S) = CHOOSE k \in S : \A m \in S : k \subseteq m
  BY DEF Smallest
<1> QED BY <1>1, <1>2

\* get_inner_loop of a block: the smallest of the loops around it.
LEMMA InnerIsSmallest ==
  ASSUME BasesAreHeaders, LastIsInnermost, NEW p
  PROVE  IF LoopsAround(p) = {} THEN get_inner_loop(p) = {}
         ELSE get_inner_loop(p) \in LoopsAround(p)
              /\ \A m \in LoopsAround(p) : get_inner_loop(p) \subseteq m
<1>1. \A b \in DOMAIN base2loop : base2loop[b] = Loop(b)
  BY DEF BasesAreHeaders
<1>2. LoopsAround(p) = {Loop(b) : b \in {x \in DOMAIN base2loop : p \in Loop(x)}}
  BY <1>1 DEF LoopsAround
<1>3. CASE p \in DOMAIN bb2base
  <2>1. /\ bb2base[p] \in DOMAIN base2loop /\ p \in Loop(bb2base[p])
        /\ \A b \in DOMAIN base2loop : p \in Loop(b) => Loop(bb2base[p]) \subseteq Loop(b)
        /\ get_inner_loop(p) = Loop(bb2base[p])
    BY <1>1, <1>3 DEF LastIsInnermost, get_inner_loop
  <2> QED BY <1>2, <2>1
<1>4. CASE p \notin DOMAIN bb2base
  <2>1. LoopsAround(p) = {}
    BY <1>2, <1>4 DEF LastIsInnermost
  <2>2. get_inner_loop(p) = {}
    BY <1>4 DEF get_inner_loop
  <2> QED BY <2>1, <2>2
<1> QED BY <1>3, <1>4

\* get_parent_loop, which looks at one predecessor of the base only, never
\* gives another loop than the smallest one around; it misses that one only
\* where the builder has made no block before the loop.
THEOREM ParentsEnclose == Spec => []ParentIsEnclosing
<1>1. LoopSearchInv /\ LoopsSoFar => ParentIsEnclosing
  <2> SUFFICES ASSUME LoopSearchInv, LoopsSoFar, pc = "found", Structured,
                      NEW b \in DOMAIN base2loop, NEW prev \in Outside(b)
               PROVE  LET enclosing == Smallest(LoopsAround(b) \ {base2loop[b]})
                      IN  \/ get_parent_loop(b, prev) = enclosing
                          \/ get_parent_loop(b, prev) = {} /\ ~Preheader(b)
    BY DEF ParentIsEnclosing
  <2> DEFINE around == LoopsAround(b) \ {base2loop[b]}
             l == get_inner_loop(prev)
  <2>1. BasesAreHeaders /\ LastIsInnermost /\ GraphLeft
    BY DEF LoopsSoFar, LoopSearchInv
  <2>2. /\ \A g \in DOMAIN base2loop : g \in func.blocks /\ base2loop[g] = Loop(g)
        /\ AllLive(func.blocks, func.succ, func.entry)
    BY <2>1, StructuredGraph DEF BasesAreHeaders
  <2>3. prev \in func.blocks /\ b \in func.succ[prev] /\ prev \notin base2loop[b]
    BY <2>1, FunctionTyped DEF Outside, Predecessors
  <2>4. ASSUME NEW m \in around PROVE prev \in m
    <3>1. PICK g \in DOMAIN base2loop : b \in base2loop[g] /\ m = base2loop[g]
      BY DEF LoopsAround
    <3>2. g # b
      BY <3>1
    <3>3. g \in func.blocks /\ b \in NaturalLoop(func.succ, func.entry, g)
      BY <2>2, <3>1 DEF Loop
    <3>4. prev \in NaturalLoop(func.succ, func.entry, g)
      BY <2>2, <2>3, <3>2, <3>3, LoopBackward
    <3> QED BY <2>2, <3>1, <3>4 DEF Loop
  <2>5. \A m \in around : m \in LoopsAround(prev)
    BY <2>4 DEF LoopsAround
  <2>6. IF LoopsAround(prev) = {} THEN l = {}
        ELSE l \in LoopsAround(prev) /\ \A m \in LoopsAround(prev) : l \subseteq m
    BY <2>1, InnerIsSmallest
  <2>7. CASE b \in l
    <3>1. get_parent_loop(b, prev) = l
      BY <2>7 DEF get_parent_loop
    <3>2. l \in LoopsAround(prev)
      BY <2>6, <2>7
    <3>3. l \in around
      BY <2>3, <2>7, <3>2 DEF LoopsAround
    <3>4. \A m \in around : l \subseteq m
      BY <2>5, <2>6
    <3> HIDE DEF l, around
    <3>5. Smallest(around) = l
      BY <3>3, <3>4, SmallestIs
    <3> QED BY <3>1, <3>5 DEF around
  <2>8. CASE b \notin l
    <3>1. get_parent_loop(b, prev) = {}
      BY <2>8 DEF get_parent_loop
    <3>2. CASE around = {}
      BY <3>1, <3>2 DEF Smallest
    <3>3. CASE around # {}
      <4> SUFFICES ASSUME Preheader(b) PROVE FALSE
        BY <3>1
      <4>1. PICK p \in Block : Outside(b) = {p} /\ LoopsAround(p) = around
        BY DEF Preheader
      <4>2. p = prev
        BY <4>1
      <4>3. l \in around
        BY <2>6, <3>3, <4>1, <4>2
      <4> QED BY <2>8, <4>3 DEF LoopsAround
    <3> QED BY <3>2, <3>3
  <2> QED BY <2>7, <2>8
<1> QED BY <1>1, SearchInvariant, LoopsInvariant, PTL

-----------------------------------------------------------------------------
(***************************************************************************)
(* Moving one instruction: the q-th of block c goes before the last one of *)
(* block p.                                                                *)
(***************************************************************************)
MovedUp(old, new, c, q, p) ==
  /\ c \in Block /\ p \in Block /\ c # p /\ q \in 1..Len(old[c]) /\ Len(old[p]) \in Nat \ {0}
  /\ \A b \in Block : b # c /\ b # p => new[b] = old[b]
  /\ Len(old[c]) \in Nat /\ Len(new[c]) = Len(old[c]) - 1 /\ Len(new[p]) = Len(old[p]) + 1
  /\ \A k \in 1..Len(new[c]) : new[c][k] = IF k < q THEN old[c][k] ELSE old[c][k + 1]
  /\ \A k \in 1..Len(new[p]) :
       new[p][k] = IF k < Len(old[p]) THEN old[p][k]
                   ELSE IF k = Len(old[p]) THEN old[c][q] ELSE old[p][Len(old[p])]

Distinct(c) ==
  \A b, d \in Block : \A k \in 1..Len(c[b]), j \in 1..Len(c[d]) :
    c[b][k].id = c[d][j].id => b = d /\ k = j

\* Where the k-th instruction of block b has been, and where it is.
Back(old, c, q, p, b, k) ==
  IF b = c THEN IF k < q THEN k ELSE k + 1
  ELSE IF b = p /\ k > Len(old[p]) THEN k - 1 ELSE k
Forth(old, c, q, p, b, k) ==
  IF b = c THEN IF k < q THEN k ELSE k - 1
  ELSE IF b = p /\ k = Len(old[p]) THEN k + 1 ELSE k

LEMMA MovedBack ==
  ASSUME NEW old, NEW new, NEW c, NEW q, NEW p, MovedUp(old, new, c, q, p),
         \A b \in Block : Len(old[b]) \in Nat,
         NEW b \in Block, NEW k \in 1..Len(new[b]), ~(b = p /\ k = Len(old[p]))
  PROVE  LET j == Back(old, c, q, p, b, k)
         IN  /\ j \in 1..Len(old[b]) /\ ~(b = c /\ j = q) /\ new[b][k] = old[b][j]
             /\ k = Forth(old, c, q, p, b, j)
<1>1. q \in Nat /\ k \in Nat
  BY DEF MovedUp
<1>2. CASE b = c
  BY <1>1, <1>2 DEF MovedUp, Back, Forth
<1>3. CASE b = p
  BY <1>1, <1>3 DEF MovedUp, Back, Forth
<1>4. CASE b # c /\ b # p
  BY <1>1, <1>4 DEF MovedUp, Back, Forth
<1> QED BY <1>2, <1>3, <1>4

LEMMA MovedForth ==
  ASSUME NEW old, NEW new, NEW c, NEW q, NEW p, MovedUp(old, new, c, q, p),
         \A b \in Block : Len(old[b]) \in Nat,
         NEW b \in Block, NEW j \in 1..Len(old[b]), ~(b = c /\ j = q)
  PROVE  LET k == Forth(old, c, q, p, b, j)
         IN  k \in 1..Len(new[b]) /\ new[b][k] = old[b][j] /\ ~(b = p /\ k = Len(old[p]))
<1>1. q \in Nat /\ j \in Nat
  BY DEF MovedUp
<1>2. CASE b = c
  BY <1>1, <1>2 DEF MovedUp, Forth
<1>3. CASE b = p
  BY <1>1, <1>3 DEF MovedUp, Forth
<1>4. CASE b # c /\ b # p
  BY <1>1, <1>4 DEF MovedUp, Forth
<1> QED BY <1>2, <1>3, <1>4

LEMMA MovedInOrder ==
  ASSUME NEW old, NEW new, NEW c, NEW q, NEW p, MovedUp(old, new, c, q, p),
         NEW b \in Block, NEW i \in Nat, NEW j \in Nat, i < j, j <= Len(old[b]),
         ~(b = c /\ i = q), ~(b = c /\ j = q)
  PROVE  Forth(old, c, q, p, b, i) < Forth(old, c, q, p, b, j)
<1>1. q \in Nat /\ Len(old[p]) \in Nat
  BY DEF MovedUp
<1>2. CASE b = c
  BY <1>1, <1>2 DEF Forth
<1>3. CASE b = p
  BY <1>1, <1>3 DEF Forth, MovedUp
<1>4. CASE b # c /\ b # p
  BY <1>1, <1>4 DEF Forth
<1> QED BY <1>2, <1>3, <1>4

\* The one moved.
LEMMA MovedIs ==
  ASSUME NEW old, NEW new, NEW c, NEW q, NEW p, MovedUp(old, new, c, q, p)
  PROVE  Len(old[p]) \in 1..Len(new[p]) /\ new[p][Len(old[p])] = old[c][q]
BY DEF MovedUp

LEMMA InstrsAre ==
  ASSUME NEW c, NEW i
  PROVE  i \in InstrsOf(c) <=> \E b \in Block : \E k \in 1..Len(c[b]) : i = c[b][k]
<1> DEFINE In_(b) == {c[b][k] : k \in 1..Len(c[b])}
<1>1. i \in InstrsOf(c) <=> \E b \in Block : i \in In_(b)
  BY DEF InstrsOf
<1> QED BY <1>1

\* Each instruction is still there, once.
LEMMA MovedDistinct ==
  ASSUME NEW old, NEW new, NEW c, NEW q, NEW p, MovedUp(old, new, c, q, p),
         \A b \in Block : Len(old[b]) \in Nat, Distinct(old)
  PROVE  Distinct(new) /\ InstrsOf(new) = InstrsOf(old)
<1> DEFINE At(b, k) == b = p /\ k = Len(old[p])
<1>0. q \in 1..Len(old[c]) /\ c \in Block /\ p \in Block
  BY DEF MovedUp
<1>1. ASSUME NEW b \in Block, NEW d \in Block, NEW k \in 1..Len(new[b]), NEW j \in 1..Len(new[d]),
             new[b][k].id = new[d][j].id
      PROVE  b = d /\ k = j
  <2>1. CASE At(b, k) /\ At(d, j)
    BY <2>1
  <2>2. CASE ~At(b, k) /\ ~At(d, j)
    <3>1. PICK k1 : k1 \in 1..Len(old[b]) /\ new[b][k] = old[b][k1] /\ k = Forth(old, c, q, p, b, k1)
      BY <2>2, MovedBack
    <3>2. PICK j1 : j1 \in 1..Len(old[d]) /\ new[d][j] = old[d][j1] /\ j = Forth(old, c, q, p, d, j1)
      BY <2>2, MovedBack
    <3>3. b = d /\ k1 = j1
      BY <1>1, <3>1, <3>2 DEF Distinct
    <3> QED BY <3>1, <3>2, <3>3
  <2>3. CASE At(b, k) /\ ~At(d, j)
    <3>1. new[b][k] = old[c][q]
      BY <2>3, MovedIs
    <3>2. PICK j1 : j1 \in 1..Len(old[d]) /\ new[d][j] = old[d][j1] /\ ~(d = c /\ j1 = q)
      BY <2>3, MovedBack
    <3> QED BY <1>0, <1>1, <3>1, <3>2 DEF Distinct
  <2>4. CASE ~At(b, k) /\ At(d, j)
    <3>1. new[d][j] = old[c][q]
      BY <2>4, MovedIs
    <3>2. PICK k1 : k1 \in 1..Len(old[b]) /\ new[b][k] = old[b][k1] /\ ~(b = c /\ k1 = q)
      BY <2>4, MovedBack
    <3> QED BY <1>0, <1>1, <3>1, <3>2 DEF Distinct
  <2> QED BY <2>1, <2>2, <2>3, <2>4
<1>2. Distinct(new)
  BY <1>1 DEF Distinct
<1>3. ASSUME NEW b \in Block, NEW k \in 1..Len(new[b])
      PROVE  \E d \in Block : \E j \in 1..Len(old[d]) : new[b][k] = old[d][j]
  <2>1. CASE At(b, k)
    BY <1>0, <2>1, MovedIs
  <2>2. CASE ~At(b, k)
    BY <2>2, MovedBack
  <2> QED BY <2>1, <2>2
<1>4. ASSUME NEW b \in Block, NEW k \in 1..Len(old[b])
      PROVE  \E d \in Block : \E j \in 1..Len(new[d]) : old[b][k] = new[d][j]
  <2>1. CASE b = c /\ k = q
    BY <1>0, <2>1, MovedIs
  <2>2. CASE ~(b = c /\ k = q)
    BY <2>2, MovedForth
  <2> QED BY <2>1, <2>2
<1>5. ASSUME NEW i PROVE i \in InstrsOf(new) <=> i \in InstrsOf(old)
  <2>1. ASSUME i \in InstrsOf(new) PROVE i \in InstrsOf(old)
    <3>1. PICK b \in Block : \E k \in 1..Len(new[b]) : i = new[b][k]
      BY <2>1, InstrsAre
    <3>2. \E d \in Block : \E j \in 1..Len(old[d]) : i = old[d][j]
      BY <1>3, <3>1
    <3> QED BY <3>2, InstrsAre
  <2>2. ASSUME i \in InstrsOf(old) PROVE i \in InstrsOf(new)
    <3>1. PICK b \in Block : \E k \in 1..Len(old[b]) : i = old[b][k]
      BY <2>2, InstrsAre
    <3>2. \E d \in Block : \E j \in 1..Len(new[d]) : i = new[d][j]
      BY <1>4, <3>1
    <3> QED BY <3>2, InstrsAre
  <2> QED BY <2>1, <2>2
<1>6. InstrsOf(new) = InstrsOf(old)
  BY <1>5
<1> QED BY <1>2, <1>6

\* A definition is above a use after the move as it was before.
LEMMA MovedAbove ==
  ASSUME NEW old, NEW new, NEW c, NEW q, NEW p, MovedUp(old, new, c, q, p),
         \A b \in Block : Len(old[b]) \in Nat, DOMAIN old = Block, DOMAIN new = Block,
         NEW Node, NEW succ, NEW entry, AllLive(Node, succ, entry),
         c \in Node, Dominates(succ, entry, p, c),
         NEW v, NEW b, NEW n \in Nat, NEW n1 \in Nat,
         DefinedAbove(old, succ, entry, v, b, n),
         \A d \in Block : \A g \in 1..Len(old[d]) :
           d = b /\ g < n /\ ~(d = c /\ g = q) => Forth(old, c, q, p, d, g) < n1,
         b = p => ~Dominates(succ, entry, c, b) \/ Len(old[p]) < n1
  PROVE  DefinedAbove(new, succ, entry, v, b, n1)
<1>1. PICK d \in Block : \E g \in 1..Len(old[d]) :
        old[d][g].id = v /\ IF d = b THEN g < n ELSE Dominates(succ, entry, d, b)
  BY DEF DefinedAbove
<1>2. PICK g \in 1..Len(old[d]) :
        old[d][g].id = v /\ IF d = b THEN g < n ELSE Dominates(succ, entry, d, b)
  BY <1>1
<1>3. CASE d = c /\ g = q
  <2>1. p \in Block /\ p # c /\ Len(old[p]) \in 1..Len(new[p]) /\ new[p][Len(old[p])].id = v
    BY <1>2, <1>3, MovedIs DEF MovedUp
  <2>2. Dominates(succ, entry, c, b)
    BY <1>2, <1>3 DEF Dominates
  <2>3. Dominates(succ, entry, p, b)
    BY <2>2, DominatesTransitive DEF AllLive
  <2> QED BY <2>1, <2>2, <2>3 DEF DefinedAbove
<1>4. CASE ~(d = c /\ g = q)
  <2> DEFINE k == Forth(old, c, q, p, d, g)
  <2>1. k \in 1..Len(new[d]) /\ new[d][k].id = v
    BY <1>2, <1>4, MovedForth
  <2>2. IF d = b THEN k < n1 ELSE Dominates(succ, entry, d, b)
    BY <1>2, <1>4
  <2> HIDE DEF k
  <2> QED BY <2>1, <2>2 DEF DefinedAbove
<1> QED BY <1>3, <1>4

LEMMA MovedOperands ==
  ASSUME NEW old, NEW new, NEW c, NEW q, NEW p, MovedUp(old, new, c, q, p),
         \A b \in Block : Len(old[b]) \in Nat, \A b \in Block : Len(new[b]) \in Nat,
         DOMAIN old = Block, DOMAIN new = Block,
         NEW Node, NEW succ, NEW entry, AllLive(Node, succ, entry), Node \subseteq Block,
         c \in Node, Dominates(succ, entry, p, c),
         NEW lits, OperandsDominate(old, lits, succ, entry),
         old[c][q].op # "phi",
         \A d \in Block : \A g \in 1..Len(old[d]) : old[d][g].id \in ArgsOf(old[c][q]) =>
           /\ ~(d = p /\ g = Len(old[p]))
           /\ Dominates(succ, entry, d, c) => d # c /\ Dominates(succ, entry, d, p)
  PROVE  OperandsDominate(new, lits, succ, entry)
<1>0. /\ Graph(Node, succ, entry) /\ Reach(succ, {entry}) = Node
      /\ q \in 1..Len(old[c]) /\ c # p /\ c \in Block /\ p \in Block
      /\ Len(old[p]) \in Nat /\ Len(new[p]) = Len(old[p]) + 1
  BY DEF AllLive, MovedUp
<1>a. ~Dominates(succ, entry, c, p)
  BY <1>0, DominatesAntisymmetric
<1>1. ASSUME NEW b \in Node, NEW k \in 1..Len(old[b]), NEW j \in 1..Len(old[b][k].args),
             old[b][k].args[j] \notin lits
      PROVE  LET i == old[b][k]
             IN  IF i.op = "phi"
                 THEN DefinedAbove(old, succ, entry, i.args[j], i.from[j], Len(old[i.from[j]]) + 1)
                 ELSE DefinedAbove(old, succ, entry, i.args[j], b, k)
  BY <1>0, <1>1 DEF OperandsDominate
<1>2. ASSUME NEW b \in Node, NEW k \in 1..Len(new[b]), NEW j \in 1..Len(new[b][k].args),
             new[b][k].args[j] \notin lits
      PROVE  LET i == new[b][k]
             IN  IF i.op = "phi"
                 THEN DefinedAbove(new, succ, entry, i.args[j], i.from[j], Len(new[i.from[j]]) + 1)
                 ELSE DefinedAbove(new, succ, entry, i.args[j], b, k)
  <2> DEFINE i == new[b][k]
             v == i.args[j]
  <2>0. b \in Block /\ k \in Nat
    OBVIOUS
  <2>1. CASE b = p /\ k = Len(old[p])
    <3>1. i = old[c][q] /\ j \in 1..Len(old[c][q].args) /\ v \in ArgsOf(old[c][q])
      BY <2>1, MovedIs DEF ArgsOf
    <3>2. DefinedAbove(old, succ, entry, v, c, q)
      BY <1>0, <1>1, <1>2, <3>1
    <3> HIDE DEF v
    <3>3. PICK d \in Block : \E g \in 1..Len(old[d]) :
            old[d][g].id = v /\ IF d = c THEN g < q ELSE Dominates(succ, entry, d, c)
      BY <3>2 DEF DefinedAbove
    <3>4. PICK g \in 1..Len(old[d]) :
            old[d][g].id = v /\ IF d = c THEN g < q ELSE Dominates(succ, entry, d, c)
      BY <3>3
    <3>5. Dominates(succ, entry, d, c)
      BY <3>4 DEF Dominates
    <3>6. ~(d = p /\ g = Len(old[p])) /\ d # c /\ Dominates(succ, entry, d, p)
      BY <3>1, <3>4, <3>5
    <3>7. LET f == Forth(old, c, q, p, d, g) IN f \in 1..Len(new[d]) /\ new[d][f].id = v
      BY <3>4, <3>6, MovedForth
    <3>8. d = p => Forth(old, c, q, p, d, g) < k
      BY <1>0, <2>1, <3>6 DEF Forth
    <3>9. DefinedAbove(new, succ, entry, v, b, k)
      BY <2>1, <3>6, <3>7, <3>8 DEF DefinedAbove
    <3> QED BY <3>1, <3>9 DEF v
  <2>2. CASE ~(b = p /\ k = Len(old[p]))
    <3>1. PICK g : /\ g \in 1..Len(old[b]) /\ ~(b = c /\ g = q) /\ new[b][k] = old[b][g]
                   /\ k = Forth(old, c, q, p, b, g)
      BY <2>0, <2>2, MovedBack
    <3>2. IF i.op = "phi"
          THEN DefinedAbove(old, succ, entry, v, i.from[j], Len(old[i.from[j]]) + 1)
          ELSE DefinedAbove(old, succ, entry, v, b, g)
      BY <1>1, <1>2, <3>1
    <3>3. CASE i.op = "phi"
      <4> DEFINE f == i.from[j]
      <4>1. DefinedAbove(old, succ, entry, v, f, Len(old[f]) + 1)
        BY <3>2, <3>3
      <4> HIDE DEF i, v, f
      <4>2. CASE f \in Block
        <5>1. Len(old[f]) + 1 \in Nat /\ Len(new[f]) + 1 \in Nat
          BY <4>2
        <5>2. \A d \in Block : \A e \in 1..Len(old[d]) :
                d = f /\ e < Len(old[f]) + 1 /\ ~(d = c /\ e = q) =>
                  Forth(old, c, q, p, d, e) < Len(new[f]) + 1
          <6> TAKE d \in Block
          <6> TAKE e \in 1..Len(old[d])
          <6> HAVE d = f /\ e < Len(old[f]) + 1 /\ ~(d = c /\ e = q)
          <6>1. Forth(old, c, q, p, d, e) \in 1..Len(new[d])
            BY MovedForth
          <6> QED BY <4>2, <6>1
        <5>3. f = p => Len(old[p]) < Len(new[f]) + 1
          BY <1>0
        <5>4. DefinedAbove(new, succ, entry, v, f, Len(new[f]) + 1)
          BY <4>1, <5>1, <5>2, <5>3, MovedAbove
        <5> QED BY <3>3, <5>4 DEF i, v, f
      <4>3. CASE f \notin Block
        <5>1. PICK d \in Block : \E e \in 1..Len(old[d]) :
                old[d][e].id = v /\ d # f /\ Dominates(succ, entry, d, f)
          BY <4>1, <4>3 DEF DefinedAbove
        <5>2. \E a \in Block : \E e \in 1..Len(new[a]) :
                new[a][e].id = v /\ a # f /\ Dominates(succ, entry, a, f)
          <6>1. PICK e \in 1..Len(old[d]) : old[d][e].id = v
            BY <5>1
          <6>2. CASE d = c /\ e = q
            <7>1. Len(old[p]) \in 1..Len(new[p]) /\ new[p][Len(old[p])].id = v
              BY <6>1, <6>2, MovedIs
            <7>2. Dominates(succ, entry, p, f)
              BY <1>0, <5>1, <6>2, DominatesTransitive
            <7> QED BY <1>0, <4>3, <7>1, <7>2
          <6>3. CASE ~(d = c /\ e = q)
            <7>1. LET a == Forth(old, c, q, p, d, e) IN a \in 1..Len(new[d]) /\ new[d][a] = old[d][e]
              BY <6>3, MovedForth
            <7> QED BY <5>1, <6>1, <7>1
          <6> QED BY <6>2, <6>3
        <5>3. DefinedAbove(new, succ, entry, v, f, Len(new[f]) + 1)
          BY <5>2 DEF DefinedAbove
        <5> QED BY <3>3, <5>3 DEF i, v, f
      <4> QED BY <4>2, <4>3
    <3>4. CASE i.op # "phi"
      <4>1. DefinedAbove(old, succ, entry, v, b, g)
        BY <3>2, <3>4
      <4> HIDE DEF v
      <4>2. g \in Nat
        BY <3>1
      <4>3. \A d \in Block : \A e \in 1..Len(old[d]) :
              d = b /\ e < g /\ ~(d = c /\ e = q) => Forth(old, c, q, p, d, e) < k
        <5> TAKE d \in Block
        <5> TAKE e \in 1..Len(old[d])
        <5> HAVE d = b /\ e < g /\ ~(d = c /\ e = q)
        <5>1. e \in Nat /\ g <= Len(old[b])
          BY <3>1, <2>0
        <5> QED BY <2>0, <3>1, <4>2, <5>1, MovedInOrder
      <4>4. DefinedAbove(new, succ, entry, v, b, k)
        BY <1>0, <1>a, <2>0, <4>1, <4>2, <4>3, MovedAbove
      <4> QED BY <3>4, <4>4 DEF v
    <3> QED BY <3>3, <3>4
  <2> QED BY <2>1, <2>2
<1> QED BY <1>0, <1>2 DEF OperandsDominate

-----------------------------------------------------------------------------
(***************************************************************************)
(* The hoisting.  Either there is no code, or it is Working:               *)
(*   Placed     every instruction is still there, once, and blocks end in  *)
(*              one without a value;                                       *)
(*   Queued     what is to move is in the loop, each after those it needs  *)
(*              of the loop;                                               *)
(*   Scanned    what has been looked at, and the labels that are left;     *)
(*   Unmixed    nothing has come into a loop;                              *)
(*   Treated    what is ready to leave a loop has left it, or will: its    *)
(*              loop has not been begun with, or it is queued.             *)
(***************************************************************************)
In(b)  == {code[b][k] : k \in 1..Len(code[b])}
Was(b) == {func_.code[b][k] : k \in 1..Len(func_.code[b])}
Instrs == InstrsOf(func_.code)
AllLoops == {Loop(h) : h \in Headers}
Treating == pc \in {"examine", "move"}

Placed ==
  /\ code \in [Block -> Seq(Instrs)]
  /\ InstrsOf(code) = Instrs
  /\ Distinct(code)
  /\ \A b \in func.blocks : code[b] # <<>> /\ IsVoid(code[b][Len(code[b])])

Queued ==
  Treating =>
    /\ in2out_loop \in AllLoops
    /\ moves \in Seq(Instrs)
    /\ \A j \in 1..Len(moves) : Movable(moves[j]) /\ \E b \in in2out_loop : moves[j] \in In(b)
    /\ \A j, k \in 1..Len(moves) : moves[j] = moves[k] => j = k
    /\ \A k \in 1..Len(moves) : \A v \in ArgsOf(moves[k]) \cap Labels(in2out_loop) :
         \E j \in 1..(k - 1) : moves[j].id = v

Past(b, k) == b \in in2out_loop \ BBs /\ (b = at => k < ip)
Scanned ==
  pc = "examine" =>
    /\ BBs \subseteq in2out_loop /\ at \in (in2out_loop \ BBs) \cup {NoBlock} /\ ip \in Nat \ {0}
    /\ labels = Labels(in2out_loop) \ {moves[j].id : j \in 1..Len(moves)}
    /\ \A j \in 1..Len(moves) : \E b \in in2out_loop : \E k \in 1..Len(code[b]) :
         Past(b, k) /\ moves[j] = code[b][k]

Unmixed == \A h \in Headers : \A b \in Loop(h) : \A i \in In(b) : \E d \in Loop(h) : i \in Was(d)

\* No operand was defined in the loop.
Ready(loop, i) == Movable(i) /\ \A d \in loop : \A u \in Was(d) : u.id \notin Operands(i)
HoistedOut(loop) == \A b \in loop : \A i \in In(b) : ~Ready(loop, i)
Treated ==
  /\ in2out_loop \in AllLoops \cup {{}} /\ inner_loops \subseteq AllLoops
  /\ \A h \in Headers : \/ Loop(h) \in inner_loops
                        \/ Treating /\ in2out_loop = Loop(h)
                        \/ HoistedOut(Loop(h))
  /\ Treating => \A b \in in2out_loop : \A k \in 1..Len(code[b]) :
       (pc = "move" \/ Past(b, k)) /\ Ready(in2out_loop, code[b][k]) =>
         \E j \in 1..Len(moves) : moves[j] = code[b][k]

Working ==
  /\ pc \in {"next", "examine", "move", "done"}
  /\ pc = "done" => inner_loops = {} /\ in2out_loop = {}
  /\ BuiltGraph(func) /\ BuiltCode(func, func_.code)
  /\ Placed /\ DefinedBeforeUse
  /\ Queued /\ Scanned /\ Unmixed /\ Treated
Idle ==
  /\ code = NoCode /\ func_.code = NoCode /\ moves = <<>>
  /\ inner_loops \subseteq SUBSET Block /\ in2out_loop \subseteq Block
  /\ BBs \subseteq Block /\ at \in Block \cup {NoBlock} /\ ip \in Nat \ {0}
  /\ pc \in {"search", "bases", "crash", "found"} => in2out_loop = {}

LoopsAreBlocks ==
  /\ \A b \in DOMAIN base2loop : base2loop[b] \subseteq Block
  /\ \A n \in DOMAIN bb2base : bb2base[n] \in DOMAIN base2loop
HoistInv == LoopsAreBlocks /\ (Idle \/ Working)

-----------------------------------------------------------------------------
\* What the search has left for the hoisting.
LEMMA HoistGraph ==
  ASSUME LoopSearchInv, LoopsSoFar, ~Searching, BuiltGraph(func)
  PROVE  /\ AllLive(func.blocks, func.succ, func.entry) /\ func.blocks \subseteq Block
         /\ DOMAIN base2loop = Headers /\ LastIsInnermost
         /\ \A h \in Headers : /\ h \in func.blocks /\ base2loop[h] = Loop(h)
                               /\ h \in Loop(h) /\ Loop(h) \subseteq func.blocks
<1>1. Structured /\ GraphLeft
  BY DEF LoopSearchInv, BuiltGraph, Structured, Live
<1>2. BasesAreHeaders /\ LastIsInnermost
  BY <1>1 DEF LoopsSoFar
<1>3. AllLive(func.blocks, func.succ, func.entry) /\ \A h \in Headers : h \in func.blocks
  BY <1>1, StructuredGraph
<1>4. \A h \in func.blocks : h \in Loop(h) /\ Loop(h) \subseteq func.blocks
  BY <1>3, InLoop DEF Loop
<1>5. func.blocks \subseteq Block
  BY <1>1, FunctionTyped
<1> QED BY <1>2, <1>3, <1>4, <1>5 DEF BasesAreHeaders

LEMMA LoopsDiffer ==
  ASSUME LoopSearchInv, LoopsSoFar, ~Searching, BuiltGraph(func),
         NEW a \in Headers, NEW b \in Headers, Loop(a) = Loop(b)
  PROVE  a = b
<1>1. /\ AllLive(func.blocks, func.succ, func.entry)
      /\ a \in func.blocks /\ b \in func.blocks /\ a \in Loop(b) /\ b \in Loop(a)
  BY HoistGraph
<1>2. Dominates(func.succ, func.entry, a, b) /\ Dominates(func.succ, func.entry, b, a)
  BY <1>1, LoopDominated DEF Loop
<1> QED BY <1>1, <1>2, DominatesAntisymmetric DEF AllLive

LEMMA BaseOfLoop ==
  ASSUME LoopSearchInv, LoopsSoFar, ~Searching, BuiltGraph(func), NEW h \in Headers
  PROVE  get_loop_base(Loop(h)) = h
<1>1. DOMAIN base2loop = Headers /\ \A b \in Headers : base2loop[b] = Loop(b)
  BY HoistGraph
<1>2. \A b \in DOMAIN base2loop : base2loop[b] = Loop(h) => b = h
  BY <1>1, LoopsDiffer
<1>3. h \in DOMAIN base2loop /\ base2loop[h] = Loop(h)
  BY <1>1
<1> QED BY <1>2, <1>3 DEF get_loop_base

LEMMA InnermostAreAll ==
  ASSUME LoopSearchInv, LoopsSoFar, ~Searching, BuiltGraph(func)
  PROVE  Innermost = AllLoops
<1>1. /\ AllLive(func.blocks, func.succ, func.entry)
      /\ DOMAIN base2loop = Headers /\ LastIsInnermost
      /\ \A h \in Headers : /\ h \in func.blocks /\ base2loop[h] = Loop(h)
                            /\ h \in Loop(h) /\ Loop(h) \subseteq func.blocks
  BY HoistGraph
<1>2. ASSUME NEW h \in Headers PROVE get_inner_loop(h) = Loop(h)
  <2>1. h \in DOMAIN bb2base
    BY <1>1 DEF LastIsInnermost
  <2>2. /\ bb2base[h] \in Headers /\ h \in Loop(bb2base[h]) /\ Loop(bb2base[h]) \subseteq Loop(h)
        /\ get_inner_loop(h) = Loop(bb2base[h])
    BY <1>1, <2>1 DEF LastIsInnermost, get_inner_loop
  <2>3. Loop(h) \subseteq Loop(bb2base[h])
    BY <1>1, <2>2, LoopNested DEF Loop
  <2> QED BY <2>2, <2>3
<1>3. Innermost = {get_inner_loop(h) : h \in Headers}
  BY <1>1 DEF Innermost
<1> QED BY <1>2, <1>3 DEF AllLoops

\* The one block the pass moves to.
LEMMA Destination ==
  ASSUME LoopSearchInv, LoopsSoFar, ~Searching, BuiltGraph(func), NEW h \in Headers
  PROVE  \E p \in func.blocks :
           /\ Outside(h) = {p} /\ h \in func.succ[p] /\ p \notin Loop(h)
           /\ \A x \in Loop(h) : Dominates(func.succ, func.entry, p, x)
           /\ \A o \in Headers : p \in Loop(o) => o # h /\ Loop(h) \subseteq Loop(o)
<1>1. /\ AllLive(func.blocks, func.succ, func.entry) /\ DOMAIN base2loop = Headers
      /\ \A o \in Headers : o \in func.blocks /\ base2loop[o] = Loop(o)
  BY HoistGraph
<1>2. PICK p \in func.blocks :
        /\ Predecessors(func.succ, h) \ Loop(h) = {p}
        /\ \A o \in Headers \ {h} : p \in Loop(o) => h \in Loop(o)
  BY DEF BuiltGraph, Headers, Loop
<1>3. Outside(h) = {p} /\ h \in func.succ[p] /\ p \notin Loop(h)
  BY <1>1, <1>2 DEF Outside, Predecessors
<1>4. ASSUME NEW x \in Loop(h) PROVE Dominates(func.succ, func.entry, p, x)
  BY <1>1, <1>2, EntranceDominates DEF Loop
<1>5. ASSUME NEW o \in Headers, p \in Loop(o) PROVE o # h /\ Loop(h) \subseteq Loop(o)
  <2>1. o # h /\ h \in Loop(o)
    BY <1>2, <1>3, <1>5
  <2> QED BY <1>1, <2>1, LoopNested DEF Loop
<1> QED BY <1>3, <1>4, <1>5

-----------------------------------------------------------------------------
\* The sequence operators of Move.
LEMMA DeleteNone ==
  ASSUME NEW s, NEW i, \A k \in 1..Len(s) : s[k].id # i.id
  PROVE  Delete(s, i) = s
BY DEF Delete

LEMMA DeleteOne ==
  ASSUME NEW T, NEW s \in Seq(T), NEW i, NEW q \in 1..Len(s), s[q].id = i.id,
         \A k \in 1..Len(s) : s[k].id = i.id => k = q
  PROVE  /\ Delete(s, i) \in Seq(T) /\ Len(Delete(s, i)) = Len(s) - 1
         /\ \A k \in 1..(Len(s) - 1) : Delete(s, i)[k] = IF k < q THEN s[k] ELSE s[k + 1]
<1> DEFINE at_ == {k \in 1..Len(s) : s[k].id = i.id}
           a == SubSeq(s, 1, q - 1)
           b == SubSeq(s, q + 1, Len(s))
<1>1. at_ = {q}
  OBVIOUS
<1>2. (CHOOSE k \in at_ : TRUE) = q
  BY <1>1
<1>3. Delete(s, i) = a \o b
  BY <1>1, <1>2 DEF Delete
<1>4. q \in Nat /\ q >= 1 /\ q <= Len(s) /\ Len(s) \in Nat
  OBVIOUS
<1>5. a \in Seq(T) /\ Len(a) = q - 1 /\ \A k \in 1..(q - 1) : a[k] = s[k]
  BY <1>4
<1>6. b \in Seq(T) /\ Len(b) = Len(s) - q /\ \A k \in 1..(Len(s) - q) : b[k] = s[q + k]
  BY <1>4
<1> HIDE DEF a, b
<1>7. a \o b \in Seq(T) /\ Len(a \o b) = Len(s) - 1
  BY <1>4, <1>5, <1>6
<1>8. ASSUME NEW k \in 1..(Len(s) - 1) PROVE (a \o b)[k] = IF k < q THEN s[k] ELSE s[k + 1]
  <2>1. CASE k < q
    BY <1>4, <1>5, <1>6, <2>1
  <2>2. CASE k >= q
    <3>1. (a \o b)[k] = b[k - (q - 1)]
      BY <1>4, <1>5, <1>6, <2>2
    <3>2. k - (q - 1) \in 1..(Len(s) - q)
      BY <1>4, <2>2
    <3>3. q + (k - (q - 1)) = k + 1
      BY <1>4
    <3> QED BY <1>4, <1>6, <2>2, <3>1, <3>2, <3>3
  <2>3. k \in Int /\ q \in Int
    BY <1>4
  <2>4. k < q \/ k >= q
    BY <2>3
  <2> QED BY <2>1, <2>2, <2>4
<1> QED BY <1>3, <1>7, <1>8

LEMMA BeforeEnd ==
  ASSUME NEW T, NEW s \in Seq(T), NEW i \in T, s # <<>>
  PROVE  /\ WithBeforeEnd(s, i) \in Seq(T) /\ Len(WithBeforeEnd(s, i)) = Len(s) + 1
         /\ \A k \in 1..(Len(s) + 1) :
              WithBeforeEnd(s, i)[k] = IF k < Len(s) THEN s[k] ELSE IF k = Len(s) THEN i ELSE s[Len(s)]
<1>0. PICK n \in Nat : n = Len(s) /\ n >= 1
  OBVIOUS
<1> DEFINE a == SubSeq(s, 1, n - 1)
           b == <<i, s[n]>>
<1>1. s[n] \in T
  BY <1>0
<1>2. a \in Seq(T) /\ Len(a) = n - 1 /\ \A k \in 1..(n - 1) : a[k] = s[k]
  <2>1. n - 1 \in Nat /\ \A k \in 1..(n - 1) : k \in 1..Len(s)
    BY <1>0
  <2>2. a \in Seq(T)
    BY <1>0, <2>1
  <2>3. Len(a) = n - 1
    BY <1>0, <2>1
  <2>4. \A k \in 1..(n - 1) : a[k] = s[k]
    BY <1>0, <2>1
  <2> QED BY <2>2, <2>3, <2>4
<1>3. b \in Seq(T) /\ Len(b) = 2 /\ b[1] = i /\ b[2] = s[n]
  BY <1>1
<1>4. WithBeforeEnd(s, i) = a \o b
  BY <1>0 DEF WithBeforeEnd
<1> HIDE DEF a, b
<1>c. /\ a \o b \in Seq(T) /\ Len(a \o b) = Len(a) + Len(b)
      /\ \A k \in 1..(Len(a) + Len(b)) :
           (a \o b)[k] = IF k <= Len(a) THEN a[k] ELSE b[k - Len(a)]
  BY <1>2, <1>3, ConcatProperties
<1>5. a \o b \in Seq(T) /\ Len(a \o b) = n + 1
  BY <1>0, <1>2, <1>3, <1>c
<1>6. ASSUME NEW k \in 1..(n + 1)
      PROVE  (a \o b)[k] = IF k < n THEN s[k] ELSE IF k = n THEN i ELSE s[n]
  <2>1. CASE k < n
    BY <1>0, <1>2, <1>3, <1>c, <2>1
  <2>2. CASE k = n
    BY <1>0, <1>2, <1>3, <1>c, <2>2
  <2>3. CASE k = n + 1
    BY <1>0, <1>2, <1>3, <1>c, <2>3
  <2>4. k < n \/ k = n \/ k = n + 1
    BY <1>0
  <2> QED BY <2>1, <2>2, <2>3, <2>4
<1> QED BY <1>0, <1>4, <1>5, <1>6

\* The instruction to move is the q-th of block c in the loop of h, and p the
\* block before the loop.
Takes(h, c, q, p) ==
  /\ h \in Headers /\ c \in Loop(h) /\ q \in 1..Len(code[c]) /\ p \in func.blocks
  /\ in2out_loop = Loop(h) /\ code[c][q] = moves[1]
  /\ h \in func.succ[p] /\ p \notin Loop(h)
  /\ \A x \in Loop(h) : Dominates(func.succ, func.entry, p, x)
  /\ \A o \in Headers : p \in Loop(o) => o # h /\ Loop(h) \subseteq Loop(o)
  /\ code' \in [Block -> Seq(Instrs)] /\ MovedUp(code, code', c, q, p)

LEMMA MoveTakes ==
  ASSUME LoopSearchInv, LoopsSoFar, Working, Move
  PROVE  \E h, c, q, p : Takes(h, c, q, p)
<1>1. /\ pc = "move" /\ moves # <<>> /\ ~Searching /\ BuiltGraph(func)
      /\ Placed /\ in2out_loop \in AllLoops /\ moves \in Seq(Instrs)
      /\ \A j \in 1..Len(moves) : \E b \in in2out_loop : moves[j] \in In(b)
  BY DEF Move, Working, Queued, Treating, Searching
<1>2. PICK h \in Headers : in2out_loop = Loop(h)
  BY <1>1 DEF AllLoops
<1>3. PICK p \in func.blocks :
        /\ Outside(h) = {p} /\ h \in func.succ[p] /\ p \notin Loop(h)
        /\ \A x \in Loop(h) : Dominates(func.succ, func.entry, p, x)
        /\ \A o \in Headers : p \in Loop(o) => o # h /\ Loop(h) \subseteq Loop(o)
  BY <1>1, Destination
<1>4. Loop(h) \subseteq Block /\ p \in Block
  BY <1>1, HoistGraph
<1>5. get_loop_base(in2out_loop) = h
  BY <1>1, <1>2, BaseOfLoop
<1> DEFINE m == Head(moves)
           to(b) == IF b = p THEN WithBeforeEnd(Delete(code[b], m), m) ELSE Delete(code[b], m)
<1>6. m = moves[1] /\ m \in Instrs /\ 1 \in 1..Len(moves)
  BY <1>1
<1>7. code' = [b \in Block |-> to(b)]
  BY <1>3, <1>5 DEF Move
<1>8. PICK c \in Loop(h) : moves[1] \in In(c)
  BY <1>1, <1>2, <1>6
<1>9. PICK q \in 1..Len(code[c]) : code[c][q] = moves[1]
  BY <1>8 DEF In
<1>10. /\ \A b \in Block : code[b] \in Seq(Instrs)
       /\ \A b \in Block : \A k \in 1..Len(code[b]) : code[b][k].id = m.id => b = c /\ k = q
       /\ code[c][q] = m /\ c \in Block /\ c # p /\ code[p] # <<>>
  BY <1>1, <1>3, <1>4, <1>6, <1>9 DEF Placed, Distinct
<1> HIDE DEF m
<1>11. \A b \in Block : b # c => Delete(code[b], m) = code[b]
  BY <1>10, DeleteNone
<1>12. LET s == Delete(code[c], m)
       IN  /\ s \in Seq(Instrs) /\ Len(s) = Len(code[c]) - 1
           /\ \A k \in 1..(Len(code[c]) - 1) : s[k] = IF k < q THEN code[c][k] ELSE code[c][k + 1]
  <2>1. /\ code[c] \in Seq(Instrs) /\ code[c][q].id = m.id
        /\ \A k \in 1..Len(code[c]) : code[c][k].id = m.id => k = q
    BY <1>10
  <2> HIDE DEF Instrs
  <2> QED BY <2>1, DeleteOne
<1>13. LET s == WithBeforeEnd(code[p], m)
       IN  /\ s \in Seq(Instrs) /\ Len(s) = Len(code[p]) + 1
           /\ \A k \in 1..(Len(code[p]) + 1) :
                s[k] = IF k < Len(code[p]) THEN code[p][k]
                       ELSE IF k = Len(code[p]) THEN m ELSE code[p][Len(code[p])]
  <2>1. code[p] \in Seq(Instrs) /\ code[p] # <<>> /\ m \in Instrs
    BY <1>4, <1>6, <1>10
  <2> DEFINE s == code[p]
  <2>2. s \in Seq(Instrs) /\ m \in Instrs /\ s # <<>>
    BY <2>1
  <2> HIDE DEF s
  <2>3. /\ WithBeforeEnd(s, m) \in Seq(Instrs) /\ Len(WithBeforeEnd(s, m)) = Len(s) + 1
        /\ \A k \in 1..(Len(s) + 1) :
             WithBeforeEnd(s, m)[k] = IF k < Len(s) THEN s[k] ELSE IF k = Len(s) THEN m ELSE s[Len(s)]
    BY <2>2, BeforeEnd
  <2> QED BY <2>3 DEF s
<1>14. /\ to(p) = WithBeforeEnd(code[p], m) /\ to(c) = Delete(code[c], m)
       /\ \A b \in Block : b # c /\ b # p => to(b) = code[b]
  BY <1>4, <1>10, <1>11
<1> HIDE DEF to
<1>15. /\ code'[p] = WithBeforeEnd(code[p], m) /\ code'[c] = Delete(code[c], m)
       /\ \A b \in Block : b # c /\ b # p => code'[b] = code[b]
  BY <1>4, <1>7, <1>10, <1>14
<1>16. \A b \in Block : code'[b] \in Seq(Instrs)
  BY <1>10, <1>12, <1>13, <1>15
<1>17. code' \in [Block -> Seq(Instrs)]
  BY <1>7, <1>16
<1>18. Len(code[c]) \in Nat /\ Len(code[p]) \in Nat \ {0}
  <2>1. code[c] \in Seq(Instrs) /\ code[p] \in Seq(Instrs) /\ code[p] # <<>>
    BY <1>4, <1>10
  <2> QED BY <2>1
<1>19. MovedUp(code, code', c, q, p)
  BY <1>4, <1>10, <1>12, <1>13, <1>15, <1>18 DEF MovedUp
<1>20. Takes(h, c, q, p)
  BY <1>2, <1>3, <1>9, <1>17, <1>19 DEF Takes
<1> QED BY <1>20

-----------------------------------------------------------------------------
(***************************************************************************)
(* Move keeps the invariant.  The instruction m, from the loop of h, goes  *)
(* from block c to block p, which dominates the loop.                      *)
(***************************************************************************)
\* What each block has after the move.
Has(code_, b, x) == \E k \in 1..Len(code_[b]) : x = code_[b][k]
LEMMA MovedIn ==
  ASSUME NEW old, NEW new, NEW c, NEW q, NEW p, MovedUp(old, new, c, q, p),
         \A b \in Block : Len(old[b]) \in Nat, Distinct(old), NEW b \in Block, NEW x
  PROVE  Has(new, b, x) <=> (Has(old, b, x) /\ x # old[c][q]) \/ (b = p /\ x = old[c][q])
<1>0. q \in 1..Len(old[c]) /\ c \in Block /\ p \in Block /\ c # p
  BY DEF MovedUp
<1>1. ASSUME NEW k \in 1..Len(new[b]), x = new[b][k]
      PROVE  \/ x # old[c][q] /\ \E j \in 1..Len(old[b]) : x = old[b][j]
             \/ b = p /\ x = old[c][q]
  <2>1. CASE b = p /\ k = Len(old[p])
    BY <1>1, <2>1, MovedIs
  <2>2. CASE ~(b = p /\ k = Len(old[p]))
    <3>1. PICK j \in 1..Len(old[b]) : ~(b = c /\ j = q) /\ x = old[b][j]
      BY <1>1, <2>2, MovedBack
    <3>2. x # old[c][q]
      BY <1>0, <3>1 DEF Distinct
    <3> QED BY <3>1, <3>2
  <2> QED BY <2>1, <2>2
<1>2. ASSUME NEW j \in 1..Len(old[b]), x = old[b][j], x # old[c][q]
      PROVE  \E k \in 1..Len(new[b]) : x = new[b][k]
  <2>1. ~(b = c /\ j = q)
    BY <1>2
  <2>2. LET k == Forth(old, c, q, p, b, j) IN k \in 1..Len(new[b]) /\ new[b][k] = old[b][j]
    BY <2>1, MovedForth
  <2> QED BY <1>2, <2>2
<1>3. ASSUME b = p, x = old[c][q] PROVE \E k \in 1..Len(new[b]) : x = new[b][k]
  BY <1>3, MovedIs
<1> QED BY <1>1, <1>2, <1>3 DEF Has

LEMMA TakesFacts ==
  ASSUME LoopSearchInv, LoopsSoFar, Working, Move, func' = func,
         NEW h, NEW c, NEW q, NEW p, Takes(h, c, q, p)
  PROVE  /\ UNCHANGED <<func, func_, pc, inner_loops, in2out_loop, scan>> /\ pc = "move"
         /\ moves' = Tail(moves) /\ moves \in Seq(Instrs) /\ Len(moves) >= 1
         /\ Len(moves') = Len(moves) - 1 /\ \A j \in 1..Len(moves') : moves'[j] = moves[j + 1]
         /\ Instrs' = Instrs /\ Headers' = Headers /\ AllLoops' = AllLoops
         /\ \A o : Loop(o)' = Loop(o)
         /\ c \in Block /\ p \in Block /\ Loop(h) \subseteq Block
         /\ \A b \in Block : Len(code[b]) \in Nat /\ Len(code'[b]) \in Nat
         /\ \A b \in Block : \A x :
              x \in In(b)' <=> (x \in In(b) /\ x # moves[1]) \/ (b = p /\ x = moves[1])
<1>1. /\ UNCHANGED <<func_, pc, inner_loops, in2out_loop, scan>> /\ pc = "move"
      /\ moves' = Tail(moves) /\ moves # <<>>
  BY DEF Move
<1>2. moves \in Seq(Instrs) /\ code \in [Block -> Seq(Instrs)] /\ Distinct(code) /\ ~Searching
  BY <1>1 DEF Working, Queued, Treating, Placed, Searching
<1>3. func' = func
  OBVIOUS
<1>4. Instrs' = Instrs /\ Headers' = Headers /\ (\A o : Loop(o)' = Loop(o))
  BY <1>1, <1>3 DEF Instrs, Headers, Loop
<1>5. AllLoops' = AllLoops
  BY <1>4 DEF AllLoops
<1>6. c \in Block /\ p \in Block /\ Loop(h) \subseteq Block
  BY <1>2, HoistGraph DEF Takes, Working
<1>7. \A b \in Block : Len(code[b]) \in Nat /\ Len(code'[b]) \in Nat
  BY <1>2 DEF Takes
<1>8. ASSUME NEW b \in Block, NEW x
      PROVE  x \in In(b)' <=> (x \in In(b) /\ x # moves[1]) \/ (b = p /\ x = moves[1])
  <2>1. Has(code', b, x) <=> (Has(code, b, x) /\ x # code[c][q]) \/ (b = p /\ x = code[c][q])
    <3> DEFINE new == code'
    <3>1. /\ MovedUp(code, new, c, q, p) /\ Distinct(code)
          /\ \A d \in Block : Len(code[d]) \in Nat
      BY <1>2, <1>7 DEF Takes
    <3> HIDE DEF new
    <3>2. Has(new, b, x) <=> (Has(code, b, x) /\ x # code[c][q]) \/ (b = p /\ x = code[c][q])
      BY <3>1, MovedIn
    <3> QED BY <3>2 DEF new
  <2>2. (x \in In(b) <=> Has(code, b, x)) /\ (x \in In(b)' <=> Has(code', b, x))
    BY DEF In, Has
  <2> QED BY <2>1, <2>2 DEF Takes
<1>9. Len(moves) >= 1 /\ Len(moves') = Len(moves) - 1 /\ \A j \in 1..Len(moves') : moves'[j] = moves[j + 1]
  BY <1>1, <1>2
<1> QED BY <1>1, <1>2, <1>3, <1>4, <1>5, <1>6, <1>7, <1>8, <1>9

LEMMA MovePlaced ==
  ASSUME LoopSearchInv, LoopsSoFar, Working, Move, func' = func,
         NEW h, NEW c, NEW q, NEW p, Takes(h, c, q, p)
  PROVE  Placed' /\ Literals' = Literals
<1>1. /\ Placed /\ BuiltGraph(func) /\ ~Searching /\ h \in Headers /\ c \in Loop(h)
      /\ code' \in [Block -> Seq(Instrs)] /\ MovedUp(code, code', c, q, p)
      /\ p \in func.blocks /\ code[c][q] = moves[1]
  BY TakesFacts DEF Working, Takes, Searching
<1>2. /\ \A b \in Block : Len(code[b]) \in Nat /\ Len(code'[b]) \in Nat
      /\ c \in Block /\ p \in Block /\ Instrs' = Instrs
  BY TakesFacts
<1>3. Movable(moves[1])
  BY TakesFacts DEF Working, Queued, Treating
<1>4. /\ code \in [Block -> Seq(Instrs)] /\ Distinct(code) /\ InstrsOf(code) = Instrs
      /\ \A b \in func.blocks : code[b] # <<>> /\ IsVoid(code[b][Len(code[b])])
  BY <1>1 DEF Placed
<1> DEFINE new == code'
<1>5. MovedUp(code, new, c, q, p) /\ \A b \in Block : Len(code[b]) \in Nat
  BY <1>1, <1>2
<1>6. new \in [Block -> Seq(Instrs)]
  BY <1>1
<1> HIDE DEF new
<1>7. Distinct(new) /\ InstrsOf(new) = InstrsOf(code)
  BY <1>4, <1>5, MovedDistinct
<1>8. c \in func.blocks /\ func.blocks \subseteq Block
  BY <1>1, HoistGraph
<1>9. ASSUME NEW b \in func.blocks PROVE new[b] # <<>> /\ IsVoid(new[b][Len(new[b])])
  <2>0. new[b] \in Seq(Instrs) /\ code[b] \in Seq(Instrs) /\ code[b] # <<>> /\ IsVoid(code[b][Len(code[b])])
    BY <1>4, <1>6, <1>8
  <2>1. CASE b = c
    <3>1. q # Len(code[c])
      BY <1>1, <1>3, <2>0, <2>1 DEF Movable
    <3>2. /\ q \in 1..Len(code[c]) /\ Len(code[c]) \in Nat /\ Len(new[c]) = Len(code[c]) - 1
          /\ \A k \in 1..Len(new[c]) : new[c][k] = IF k < q THEN code[c][k] ELSE code[c][k + 1]
      BY <1>5 DEF MovedUp
    <3>3. Len(new[c]) >= 1 /\ Len(new[c]) \in 1..Len(new[c]) /\ ~(Len(new[c]) < q)
          /\ Len(new[c]) + 1 = Len(code[c])
      BY <3>1, <3>2
    <3>4. new[c][Len(new[c])] = code[c][Len(code[c])]
      BY <3>2, <3>3
    <3>5. new[c] # <<>>
      BY <2>0, <2>1, <3>3
    <3> QED BY <2>0, <2>1, <3>4, <3>5
  <2>2. CASE b = p
    <3>1. /\ Len(code[p]) \in Nat \ {0} /\ Len(new[p]) = Len(code[p]) + 1
          /\ \A k \in 1..Len(new[p]) :
               new[p][k] = IF k < Len(code[p]) THEN code[p][k]
                           ELSE IF k = Len(code[p]) THEN code[c][q] ELSE code[p][Len(code[p])]
      BY <1>5 DEF MovedUp
    <3>2. Len(new[p]) >= 1 /\ Len(new[p]) \in 1..Len(new[p]) /\ Len(new[p]) > Len(code[p])
      BY <3>1
    <3>3. new[p][Len(new[p])] = code[p][Len(code[p])]
      BY <3>1, <3>2
    <3>4. new[p] # <<>>
      BY <2>0, <2>2, <3>2
    <3> QED BY <2>0, <2>2, <3>3, <3>4
  <2>3. CASE b # c /\ b # p
    BY <1>5, <1>8, <2>0, <2>3 DEF MovedUp
  <2> QED BY <2>1, <2>2, <2>3
<1>10. Placed'
  BY <1>2, <1>4, <1>6, <1>7, <1>9 DEF Placed, new
<1>11. Literals' = Literals
  BY <1>7 DEF Literals, LiteralsOf, IdsOf, new
<1> QED BY <1>10, <1>11

LEMMA MoveDefined ==
  ASSUME LoopSearchInv, LoopsSoFar, Working, Move, func' = func,
         NEW h, NEW c, NEW q, NEW p, Takes(h, c, q, p)
  PROVE  DefinedBeforeUse'
<1>1. /\ Placed /\ BuiltGraph(func) /\ BuiltCode(func, func_.code) /\ ~Searching /\ DefinedBeforeUse
      /\ h \in Headers /\ c \in Loop(h) /\ code[c][q] = moves[1] /\ in2out_loop = Loop(h)
      /\ code' \in [Block -> Seq(Instrs)] /\ MovedUp(code, code', c, q, p)
      /\ p \in func.blocks /\ h \in func.succ[p] /\ p \notin Loop(h)
      /\ Dominates(func.succ, func.entry, p, c)
  BY TakesFacts DEF Working, Takes, Searching
<1>2. /\ \A b \in Block : Len(code[b]) \in Nat /\ Len(code'[b]) \in Nat
      /\ c \in Block /\ p \in Block /\ Loop(h) \subseteq Block
      /\ moves \in Seq(Instrs) /\ Len(moves) >= 1
  BY TakesFacts
<1>3. /\ AllLive(func.blocks, func.succ, func.entry) /\ func.blocks \subseteq Block
      /\ c \in func.blocks /\ h \in func.blocks
  BY <1>1, HoistGraph
<1>4. /\ Movable(moves[1]) /\ moves[1] \in Instrs
      /\ ArgsOf(moves[1]) \cap Labels(in2out_loop) = {}
  <2>1. 1 \in 1..Len(moves)
    BY <1>2
  <2>2. Queued /\ Treating
    BY TakesFacts DEF Working, Treating
  <2>3. \A v \in ArgsOf(moves[1]) \cap Labels(in2out_loop) : \E j \in 1..(1 - 1) : moves[j].id = v
    BY <2>1, <2>2 DEF Queued
  <2>4. \A j \in 1..(1 - 1) : FALSE
    OBVIOUS
  <2>5. Movable(moves[1]) /\ moves[1] \in Instrs
    BY <1>2, <2>1, <2>2 DEF Queued
  <2> QED BY <2>3, <2>4, <2>5
<1>5. ASSUME NEW d \in Block, NEW g \in 1..Len(code[d]), code[d][g].id \in ArgsOf(code[c][q])
      PROVE  /\ ~(d = p /\ g = Len(code[p]))
             /\ Dominates(func.succ, func.entry, d, c) =>
                  d # c /\ Dominates(func.succ, func.entry, d, p)
  <2>1. code[d][g].id \in IdsIn(d)
    BY DEF IdsIn
  <2>2. d \notin Loop(h)
    BY <1>1, <1>4, <1>5, <2>1 DEF Labels
  <2>3. ~(d = p /\ g = Len(code[p]))
    <3>1. code[d][g] \in Instrs
      BY <1>1 DEF Placed
    <3>2. ~IsVoid(code[d][g])
      BY <1>1, <1>4, <1>5, <3>1 DEF BuiltCode, Instrs
    <3> QED BY <1>1, <3>2 DEF Placed
  <2>4. ASSUME Dominates(func.succ, func.entry, d, c) PROVE Dominates(func.succ, func.entry, d, p)
    BY <1>1, <1>3, <2>2, <2>4, DominatorOutside DEF Loop
  <2> QED BY <1>1, <2>2, <2>3, <2>4
<1> DEFINE new == code'
<1>6. /\ MovedUp(code, new, c, q, p)
      /\ \A b \in Block : Len(code[b]) \in Nat /\ Len(new[b]) \in Nat
      /\ DOMAIN code = Block /\ DOMAIN new = Block /\ code[c][q].op # "phi"
  BY <1>1, <1>2, <1>4 DEF Placed, Movable
<1>7. OperandsDominate(code, Literals, func.succ, func.entry)
  BY <1>1 DEF DefinedBeforeUse
<1> HIDE DEF new
<1>8. OperandsDominate(new, Literals, func.succ, func.entry)
  BY <1>1, <1>3, <1>5, <1>6, <1>7, MovedOperands
<1>9. Literals' = Literals
  BY MovePlaced
<1> QED BY <1>8, <1>9 DEF DefinedBeforeUse, new

LEMMA MoveQueued ==
  ASSUME LoopSearchInv, LoopsSoFar, Working, Move, func' = func,
         NEW h, NEW c, NEW q, NEW p, Takes(h, c, q, p)
  PROVE  Queued'
<1> DEFINE m == moves[1]
           L == in2out_loop
<1>1. /\ L' = L /\ pc = "move" /\ pc' = pc /\ Instrs' = Instrs /\ AllLoops' = AllLoops
      /\ moves' = Tail(moves) /\ moves \in Seq(Instrs) /\ Len(moves) >= 1
      /\ Len(moves') = Len(moves) - 1 /\ \A j \in 1..Len(moves') : moves'[j] = moves[j + 1]
      /\ \A b \in Block : \A x : x \in In(b)' <=> (x \in In(b) /\ x # m) \/ (b = p /\ x = m)
  BY TakesFacts
<1>2. /\ L \in AllLoops
      /\ \A j \in 1..Len(moves) : Movable(moves[j]) /\ \E b \in L : moves[j] \in In(b)
      /\ \A j, k \in 1..Len(moves) : moves[j] = moves[k] => j = k
      /\ \A k \in 1..Len(moves) : \A v \in ArgsOf(moves[k]) \cap Labels(L) :
           \E j \in 1..(k - 1) : moves[j].id = v
  BY <1>1 DEF Working, Queued, Treating
<1>3. L \subseteq Block /\ p \notin L /\ c \in L /\ moves[1] \in In(c) /\ Distinct(code)
  <2>1. L = Loop(h) /\ c \in Loop(h) /\ p \notin Loop(h) /\ moves[1] \in In(c)
    BY DEF Takes, In
  <2>2. Loop(h) \subseteq Block
    BY TakesFacts
  <2> QED BY <2>1, <2>2 DEF Working, Placed
<1>4. Len(moves) \in Nat /\ moves' \in Seq(Instrs)
      /\ \A j \in 1..Len(moves') : j + 1 \in 1..Len(moves) /\ j + 1 # 1 /\ moves'[j] = moves[j + 1]
  BY <1>1
<1> HIDE DEF m, L
<1>5. ASSUME NEW j \in 1..Len(moves')
      PROVE  Movable(moves'[j]) /\ \E b \in L : moves'[j] \in In(b)'
  <2>1. j + 1 \in 1..Len(moves) /\ 1 \in 1..Len(moves) /\ j + 1 # 1 /\ moves'[j] = moves[j + 1]
    BY <1>1, <1>4
  <2>2. moves[j + 1] # m
    BY <1>2, <2>1 DEF m
  <2>3. Movable(moves[j + 1])
    BY <1>2, <2>1
  <2>4. PICK b \in L : moves[j + 1] \in In(b)
    BY <1>2, <2>1
  <2>5. moves[j + 1] \in In(b)'
    BY <1>1, <1>3, <2>2, <2>4
  <2> QED BY <2>1, <2>3, <2>4, <2>5
<1>6. ASSUME NEW j \in 1..Len(moves'), NEW k \in 1..Len(moves'), moves'[j] = moves'[k]
      PROVE  j = k
  <2>1. /\ j + 1 \in 1..Len(moves) /\ k + 1 \in 1..Len(moves)
        /\ moves'[j] = moves[j + 1] /\ moves'[k] = moves[k + 1]
    BY <1>4
  <2>2. j + 1 = k + 1
    BY <1>2, <1>6, <2>1
  <2> QED BY <2>2
<1>7. ASSUME NEW v, v \in Labels(L)' PROVE v \in Labels(L) /\ v # m.id
  <2>1. Labels(L)' = UNION {{code'[b][k].id : k \in 1..Len(code'[b])} : b \in L'}
    BY DEF Labels, IdsIn
  <2>2. PICK b \in L : v \in {code'[b][k].id : k \in 1..Len(code'[b])}
    BY <1>1, <1>7, <2>1
  <2>3. PICK k \in 1..Len(code'[b]) : v = code'[b][k].id
    BY <2>2
  <2> DEFINE x == code'[b][k]
  <2>4. x \in In(b)' /\ v = x.id
    BY <2>3 DEF In
  <2> HIDE DEF x
  <2>5. x \in In(b) /\ x # m
    BY <1>1, <1>3, <2>4
  <2>6. v \in IdsIn(b)
    BY <2>4, <2>5 DEF In, IdsIn
  <2>7. m \in In(c) /\ b \in Block /\ c \in Block
    BY <1>3 DEF m
  <2>8. x.id # m.id
    BY <1>3, <2>5, <2>7 DEF In, Distinct
  <2> QED BY <2>4, <2>6, <2>8 DEF Labels
<1>8. ASSUME NEW k \in 1..Len(moves'), NEW v \in ArgsOf(moves'[k]), v \in Labels(L)'
      PROVE  \E j \in 1..(k - 1) : moves'[j].id = v
  <2>1. k + 1 \in 1..Len(moves) /\ moves'[k] = moves[k + 1] /\ k \in Nat
    BY <1>4
  <2>2. v \in Labels(L) /\ v # m.id
    BY <1>7, <1>8
  <2>3. PICK j \in 1..((k + 1) - 1) : moves[j].id = v
    BY <1>2, <1>8, <2>1, <2>2
  <2>4. j # 1
    BY <2>2, <2>3 DEF m
  <2>5. j - 1 \in 1..(k - 1) /\ j - 1 \in 1..Len(moves') /\ (j - 1) + 1 = j
    BY <2>1, <2>3, <2>4
  <2>6. moves'[j - 1] = moves[j]
    BY <1>4, <2>5
  <2> QED BY <2>3, <2>5, <2>6
<1>9. L' \in AllLoops'
  BY <1>1, <1>2
<1>10. moves' \in Seq(Instrs')
  BY <1>1, <1>4
<1>11. \A j \in 1..Len(moves') : Movable(moves'[j]) /\ \E b \in L' : moves'[j] \in In(b)'
  BY <1>1, <1>5
<1>12. \A k \in 1..Len(moves') : \A v \in ArgsOf(moves'[k]) \cap Labels(L)' :
         \E j \in 1..(k - 1) : moves'[j].id = v
  BY <1>8
<1> QED BY <1>6, <1>9, <1>10, <1>11, <1>12 DEF Queued, L

LEMMA MoveTreated ==
  ASSUME LoopSearchInv, LoopsSoFar, Working, Move, func' = func,
         NEW h, NEW c, NEW q, NEW p, Takes(h, c, q, p)
  PROVE  Unmixed' /\ Treated'
<1> DEFINE m == moves[1]
           L == in2out_loop
<1>1. /\ L' = L /\ pc = "move" /\ pc' = pc /\ inner_loops' = inner_loops /\ func_' = func_
      /\ Headers' = Headers /\ AllLoops' = AllLoops /\ \A o : Loop(o)' = Loop(o)
      /\ moves' = Tail(moves) /\ moves \in Seq(Instrs) /\ Len(moves) >= 1
      /\ Len(moves') = Len(moves) - 1 /\ \A j \in 1..Len(moves') : moves'[j] = moves[j + 1]
      /\ \A b \in Block : \A x : x \in In(b)' <=> (x \in In(b) /\ x # m) \/ (b = p /\ x = m)
  BY TakesFacts
<1>2. Unmixed /\ Treated
  BY DEF Working
<1>3. /\ h \in Headers /\ L = Loop(h) /\ c \in L /\ m \in In(c) /\ p \notin L
      /\ \A o \in Headers : p \in Loop(o) => o # h /\ L \subseteq Loop(o)
  BY DEF Takes, In
<1>4. \A o \in Headers : Loop(o) \subseteq Block
  BY TakesFacts, HoistGraph DEF Working, Searching
<1>5. \A b : Was(b)' = Was(b)
  BY <1>1 DEF Was
<1> HIDE DEF m, L
\* What a block of a loop has now, a block of the loop had before.
<1>6. ASSUME NEW o \in Headers, NEW b \in Loop(o), NEW i \in In(b)'
      PROVE  \E d \in Loop(o) : i \in In(d)
  <2>1. b \in Block
    BY <1>4
  <2>2. CASE i \in In(b)
    BY <2>2
  <2>3. CASE i \notin In(b)
    <3>1. b = p /\ i = m
      BY <1>1, <2>1, <2>3
    <3>2. c \in Loop(o)
      BY <1>3, <3>1
    <3> QED BY <1>3, <3>1, <3>2
  <2> QED BY <2>2, <2>3
<1>7. Unmixed'
  <2>1. ASSUME NEW o \in Headers, NEW b \in Loop(o), NEW i \in In(b)'
        PROVE  \E d \in Loop(o) : i \in Was(d)
    <3>1. PICK d \in Loop(o) : i \in In(d)
      BY <1>6
    <3> QED BY <1>2, <3>1 DEF Unmixed
  <2> QED BY <1>1, <1>5, <2>1 DEF Unmixed
<1>9. ASSUME NEW o \in Headers, HoistedOut(Loop(o)) PROVE HoistedOut(Loop(o))'
  <2>1. ASSUME NEW b \in Loop(o), NEW i \in In(b)' PROVE ~Ready(Loop(o), i)
    <3>1. PICK d \in Loop(o) : i \in In(d)
      BY <1>6
    <3> QED BY <1>9, <3>1 DEF HoistedOut
  <2>2. \A i : Ready(Loop(o), i)' <=> Ready(Loop(o), i)
    BY <1>1, <1>5 DEF Ready
  <2> QED BY <1>1, <2>1, <2>2 DEF HoistedOut
<1>10. ASSUME NEW b \in L, NEW k \in 1..Len(code'[b]), Ready(L, code'[b][k])
       PROVE  \E j \in 1..Len(moves') : moves'[j] = code'[b][k]
  <2> DEFINE i == code'[b][k]
  <2>1. i \in In(b)' /\ b \in Block /\ b # p
    BY <1>3, <1>4 DEF In
  <2>2. Ready(L, i)
    BY <1>10
  <2> HIDE DEF i
  <2>3. i \in In(b) /\ i # m
    BY <1>1, <2>1
  <2>4. PICK j \in 1..Len(moves) : moves[j] = i
    BY <1>1, <1>2, <2>2, <2>3 DEF Treated, Treating, In, L
  <2>5. j # 1
    BY <2>3, <2>4 DEF m
  <2>6. j - 1 \in 1..Len(moves') /\ (j - 1) + 1 = j
    BY <1>1, <2>4, <2>5
  <2>7. moves'[j - 1] = i
    BY <1>1, <2>4, <2>6
  <2> QED BY <2>6, <2>7 DEF i
<1>12. \A b \in L' : \A k \in 1..Len(code'[b]) :
         Ready(L, code[b][k])' => \E j \in 1..Len(moves') : moves'[j] = code'[b][k]
  <2> TAKE b \in L'
  <2> TAKE k \in 1..Len(code'[b])
  <2>1. b' = b /\ k' = k
    OBVIOUS
  <2>2. Ready(L, code[b][k])' <=> Ready(L, code'[b][k])
    BY <1>1, <1>5 DEF Ready
  <2> QED BY <1>1, <1>10, <2>2
<1>13. Treated'
  <2>1. L' \in AllLoops' \cup {{}} /\ inner_loops' \subseteq AllLoops'
    BY <1>1, <1>2 DEF Treated, L
  <2>2. \A o \in Headers' : \/ Loop(o)' \in inner_loops'
                            \/ Treating' /\ L' = Loop(o)'
                            \/ HoistedOut(Loop(o))'
    BY <1>1, <1>2, <1>9 DEF Treated, L, Treating
  <2>3. Treating' => \A b \in L' : \A k \in 1..Len(code'[b]) :
          (pc' = "move" \/ Past(b, k)') /\ Ready(L, code[b][k])' =>
            \E j \in 1..Len(moves') : moves'[j] = code'[b][k]
    BY <1>12
  <2> QED BY <2>1, <2>2, <2>3 DEF Treated, L
<1> QED BY <1>7, <1>13

-----------------------------------------------------------------------------
(***************************************************************************)
(* The steps that leave the code as it is.                                 *)
(***************************************************************************)
CodeStays == UNCHANGED <<func, func_, code>>

LEMMA StayFacts ==
  ASSUME CodeStays
  PROVE  /\ Headers' = Headers /\ AllLoops' = AllLoops /\ Instrs' = Instrs
         /\ \A h : Loop(h)' = Loop(h) /\ HoistedOut(Loop(h))' = HoistedOut(Loop(h))
         /\ \A b : In(b)' = In(b) /\ Was(b)' = Was(b)
         /\ \A l : l = in2out_loop' => Labels(in2out_loop)' = Labels(l)
<1>1. func' = func /\ func_' = func_ /\ code' = code
  BY DEF CodeStays
<1>2. \A b : In(b)' = In(b) /\ Was(b)' = Was(b) /\ IdsIn(b)' = IdsIn(b)
  BY <1>1 DEF In, Was, IdsIn
<1>3. Headers' = Headers /\ Instrs' = Instrs /\ \A h : Loop(h)' = Loop(h)
  BY <1>1 DEF Headers, Instrs, Loop
<1>4. AllLoops' = AllLoops
  BY <1>3 DEF AllLoops
<1>5. \A h : HoistedOut(Loop(h))' = HoistedOut(Loop(h))
  BY <1>2, <1>3 DEF HoistedOut, Ready
<1>6. \A l : l = in2out_loop' => Labels(in2out_loop)' = Labels(l)
  BY <1>2 DEF Labels
<1> QED BY <1>2, <1>3, <1>4, <1>5, <1>6

LEMMA WorkingStays ==
  ASSUME CodeStays, Working
  PROVE  /\ BuiltGraph(func)' /\ BuiltCode(func, func_.code)'
         /\ Placed' /\ DefinedBeforeUse' /\ Unmixed'
<1>1. func' = func /\ func_' = func_ /\ code' = code
  BY DEF CodeStays
<1>2. BuiltGraph(func)' /\ BuiltCode(func, func_.code)'
  BY <1>1 DEF Working
<1>3. Placed'
  BY <1>1 DEF Working, Placed, Instrs
<1>4. DefinedBeforeUse'
  BY <1>1 DEF Working, DefinedBeforeUse, Literals
<1>5. Unmixed'
  BY StayFacts DEF Working, Unmixed
<1> QED BY <1>2, <1>3, <1>4, <1>5

LEMMA LoopBegins ==
  ASSUME CodeStays, Working, pc = "next", NEW l \in AllLoops, Examining(l),
         inner_loops' \subseteq inner_loops, \A x \in inner_loops : x \in inner_loops' \/ x = l
  PROVE  Working'
<1>1. /\ in2out_loop' = l /\ BBs' = l /\ at' = NoBlock /\ ip' = 1
      /\ labels' = Labels(l) /\ moves' = <<>> /\ pc' = "examine"
  BY DEF Examining
<1>2. /\ Headers' = Headers /\ AllLoops' = AllLoops /\ Instrs' = Instrs
      /\ \A h : Loop(h)' = Loop(h) /\ HoistedOut(Loop(h))' = HoistedOut(Loop(h))
      /\ Labels(in2out_loop)' = Labels(l)
  BY <1>1, StayFacts
<1>3. Len(moves') = 0 /\ moves' \in Seq(Instrs') /\ 1..Len(moves') = {}
  BY <1>1
<1>4. Queued'
  BY <1>1, <1>2, <1>3 DEF Queued
<1>5. Scanned'
  BY <1>1, <1>2, <1>3 DEF Scanned
<1>6. Treated'
  <2>1. inner_loops' \subseteq AllLoops' /\ in2out_loop' \in AllLoops'
    BY <1>1, <1>2 DEF Working, Treated
  <2>2. ASSUME NEW h \in Headers
        PROVE  \/ Loop(h) \in inner_loops'
               \/ Treating' /\ in2out_loop' = Loop(h)
               \/ HoistedOut(Loop(h))
    BY <1>1 DEF Working, Treated, Treating
  <2>3. \A b, k : ~Past(b, k)'
    BY <1>1 DEF Past
  <2> QED BY <1>1, <1>2, <2>1, <2>2, <2>3 DEF Treated
<1> QED BY <1>1, <1>4, <1>5, <1>6, WorkingStays DEF Working

LEMMA BeginStep ==
  ASSUME Working, Begin, func' = func
  PROVE  Working'
<1>1. PICK l \in inner_loops : inner_loops' = inner_loops \ {l} /\ Examining(l)
  BY DEF Begin
<1>2. CodeStays /\ pc = "next" /\ l \in AllLoops
  BY DEF Begin, CodeStays, Working, Treated
<1> QED BY <1>1, <1>2, LoopBegins

LEMMA OutwardStep ==
  ASSUME LoopSearchInv, LoopsSoFar, Working, Outward, func' = func
  PROVE  Working'
<1> DEFINE parent(prev) == get_parent_loop(get_loop_base(in2out_loop), prev)
<1>1. /\ pc = "next" /\ CodeStays /\ inner_loops' = inner_loops /\ ~Searching /\ BuiltGraph(func)
  BY DEF Outward, CodeStays, Working, Searching
<1>2. PICK prev : IF parent(prev) = {} THEN in2out_loop' = {} /\ UNCHANGED <<pc, scan, moves>>
                  ELSE Examining(parent(prev))
  BY DEF Outward
<1>3. CASE parent(prev) # {}
  <2> DEFINE l == parent(prev)
  <2>1. l = get_inner_loop(prev) /\ l # {}
    BY <1>3 DEF get_parent_loop
  <2>2. DOMAIN base2loop = Headers /\ LastIsInnermost /\ \A h \in Headers : base2loop[h] = Loop(h)
    BY <1>1, HoistGraph
  <2>3. prev \in DOMAIN bb2base /\ l = base2loop[bb2base[prev]]
    BY <2>1 DEF get_inner_loop
  <2>4. bb2base[prev] \in Headers
    BY <2>2, <2>3 DEF LastIsInnermost
  <2>5. l \in AllLoops
    BY <2>2, <2>3, <2>4 DEF AllLoops
  <2>6. Examining(l)
    BY <1>2, <1>3
  <2> HIDE DEF l
  <2> QED BY <1>1, <2>5, <2>6, LoopBegins
<1>4. CASE parent(prev) = {}
  <2>1. in2out_loop' = {} /\ pc' = "next"
    BY <1>1, <1>2, <1>4
  <2>2. /\ Headers' = Headers /\ AllLoops' = AllLoops
        /\ \A h : Loop(h)' = Loop(h) /\ HoistedOut(Loop(h))' = HoistedOut(Loop(h))
    BY <1>1, StayFacts
  <2>3. Queued' /\ Scanned'
    BY <2>1 DEF Queued, Scanned, Treating
  <2>4. Treated'
    BY <1>1, <2>1, <2>2 DEF Working, Treated, Treating
  <2> QED BY <1>1, <2>1, <2>3, <2>4, WorkingStays DEF Working
<1> QED BY <1>3, <1>4

LEMMA LoopInBlocks ==
  ASSUME LoopSearchInv, LoopsSoFar, Working, NEW l \in AllLoops
  PROVE  l \subseteq Block /\ NoBlock \notin l
<1>1. ~Searching /\ BuiltGraph(func)
  BY DEF Working, Searching
<1>2. l \subseteq Block
  BY <1>1, HoistGraph DEF AllLoops
<1> QED BY <1>2, NoBlockAssumption

\* A step of the examination that queues nothing and passes nothing that is
\* ready to move.
LEMMA ScanKeeps ==
  ASSUME Working, CodeStays, pc = "examine", pc' \in {"examine", "move"},
         UNCHANGED <<inner_loops, in2out_loop, labels, moves>>,
         pc' = "examine" => /\ BBs' \subseteq in2out_loop
                            /\ at' \in (in2out_loop \ BBs') \cup {NoBlock} /\ ip' \in Nat \ {0}
                            /\ \A b \in in2out_loop : \A k \in 1..Len(code[b]) :
                                 Past(b, k) => Past(b, k)',
         \A b \in in2out_loop : \A k \in 1..Len(code[b]) :
           (pc' = "move" \/ Past(b, k)') /\ Ready(in2out_loop, code[b][k]) => Past(b, k)
  PROVE  Working'
<1> DEFINE L == in2out_loop
<1>1. /\ Queued /\ Scanned /\ Treated /\ Treating /\ Treating'
      /\ L' = L /\ moves' = moves /\ inner_loops' = inner_loops /\ code' = code
  BY DEF Working, Treating, CodeStays
<1>2. /\ Headers' = Headers /\ AllLoops' = AllLoops /\ Instrs' = Instrs
      /\ \A h : Loop(h)' = Loop(h) /\ HoistedOut(Loop(h))' = HoistedOut(Loop(h))
      /\ \A b : In(b)' = In(b) /\ Was(b)' = Was(b)
      /\ Labels(in2out_loop)' = Labels(in2out_loop)
  BY <1>1, StayFacts
<1>3. Queued'
  <2>1. in2out_loop' \in AllLoops' /\ moves' \in Seq(Instrs')
    BY <1>1, <1>2 DEF Queued
  <2>2. \A j \in 1..Len(moves') : Movable(moves'[j]) /\ \E b \in in2out_loop' : moves'[j] \in In(b)'
    BY <1>1, <1>2 DEF Queued
  <2>3. \A j, k \in 1..Len(moves') : moves'[j] = moves'[k] => j = k
    BY <1>1 DEF Queued
  <2>4. \A k \in 1..Len(moves') : \A v \in ArgsOf(moves'[k]) \cap Labels(in2out_loop)' :
          \E j \in 1..(k - 1) : moves'[j].id = v
    BY <1>1, <1>2 DEF Queued
  <2> QED BY <2>1, <2>2, <2>3, <2>4 DEF Queued
<1>4. Scanned'
  <2> SUFFICES ASSUME pc' = "examine"
               PROVE  /\ BBs' \subseteq L /\ at' \in (L \ BBs') \cup {NoBlock} /\ ip' \in Nat \ {0}
                      /\ labels' = Labels(L)' \ {moves[j].id : j \in 1..Len(moves)}
                      /\ \A j \in 1..Len(moves) : \E b \in L : \E k \in 1..Len(code[b]) :
                           Past(b, k)' /\ moves[j] = code[b][k]
    BY <1>1 DEF Scanned
  <2>1. labels' = Labels(L)' \ {moves[j].id : j \in 1..Len(moves)}
    BY <1>1, <1>2 DEF Scanned
  <2>2. ASSUME NEW j \in 1..Len(moves)
        PROVE  \E b \in L : \E k \in 1..Len(code[b]) : Past(b, k)' /\ moves[j] = code[b][k]
    <3>1. PICK b \in L : \E k \in 1..Len(code[b]) : Past(b, k) /\ moves[j] = code[b][k]
      BY <1>1 DEF Scanned
    <3>2. PICK k \in 1..Len(code[b]) : Past(b, k) /\ moves[j] = code[b][k]
      BY <3>1
    <3>3. Past(b, k)'
      BY <3>2
    <3> QED BY <3>2, <3>3
  <2> QED BY <2>1, <2>2
<1>5. Treated'
  <2>1. in2out_loop' \in AllLoops' \cup {{}} /\ inner_loops' \subseteq AllLoops'
    BY <1>1, <1>2 DEF Treated
  <2>2. \A h \in Headers' : \/ Loop(h)' \in inner_loops'
                            \/ Treating' /\ in2out_loop' = Loop(h)'
                            \/ HoistedOut(Loop(h))'
    BY <1>1, <1>2 DEF Treated
  <2>3. ASSUME NEW b \in L, NEW k \in 1..Len(code[b]), pc' = "move" \/ Past(b, k)', Ready(L, code[b][k])
        PROVE  \E j \in 1..Len(moves) : moves[j] = code[b][k]
    <3>1. Past(b, k)
      BY <2>3
    <3> QED BY <1>1, <2>3, <3>1 DEF Treated
  <2>4. \A b, k : Ready(L, code[b][k])' <=> Ready(L, code[b][k])
    BY <1>1, <1>2 DEF Ready
  <2>5. \A b \in in2out_loop' : \A k \in 1..Len(code'[b]) :
          (pc' = "move" \/ Past(b, k)') /\ Ready(in2out_loop, code[b][k])' =>
            \E j \in 1..Len(moves') : moves'[j] = code'[b][k]
    BY <1>1, <2>3, <2>4
  <2> QED BY <2>1, <2>2, <2>5 DEF Treated
<1>6. pc' \in {"next", "examine", "move", "done"} /\ pc' # "done"
  OBVIOUS
<1> QED BY <1>3, <1>4, <1>5, <1>6, WorkingStays DEF Working

LEMMA TakeBlockStep ==
  ASSUME LoopSearchInv, LoopsSoFar, Working, TakeBlock, func' = func
  PROVE  Working'
<1>1. /\ pc = "examine" /\ at = NoBlock /\ ip' = 1 /\ at' \in BBs /\ BBs' = BBs \ {at'}
      /\ pc' = pc /\ UNCHANGED <<inner_loops, in2out_loop, labels, moves>> /\ CodeStays
  BY DEF TakeBlock, CodeStays
<1>2. Queued /\ Scanned
  BY DEF Working
<1>3. in2out_loop \in AllLoops /\ BBs \subseteq in2out_loop
  BY <1>1, <1>2 DEF Queued, Scanned, Treating
<1>4. NoBlock \notin in2out_loop
  BY <1>3, LoopInBlocks
<1>5. ASSUME NEW b \in in2out_loop, NEW k \in 1..Len(code[b]) PROVE Past(b, k)' <=> Past(b, k)
  <2>1. Past(b, k)' <=> b \notin BBs' /\ (b = at' => k < 1)
    BY <1>1 DEF Past
  <2>2. Past(b, k) <=> b \notin BBs
    BY <1>1, <1>4 DEF Past
  <2>3. ~(k < 1)
    OBVIOUS
  <2> QED BY <1>1, <2>1, <2>2, <2>3
<1>6. BBs' \subseteq in2out_loop /\ at' \in (in2out_loop \ BBs') \cup {NoBlock} /\ ip' \in Nat \ {0}
  BY <1>1, <1>3
<1> QED BY <1>1, <1>5, <1>6, ScanKeeps

LEMMA EndBlockStep ==
  ASSUME LoopSearchInv, LoopsSoFar, Working, EndBlock, func' = func
  PROVE  Working'
<1>1. /\ pc = "examine" /\ at # NoBlock /\ ip > Len(code[at]) /\ at' = NoBlock
      /\ pc' = pc /\ UNCHANGED <<BBs, ip, inner_loops, in2out_loop, labels, moves>> /\ CodeStays
  BY DEF EndBlock, CodeStays
<1>2. Queued /\ Scanned /\ Placed
  BY DEF Working
<1>3. in2out_loop \in AllLoops /\ BBs \subseteq in2out_loop /\ at \in in2out_loop /\ ip \in Nat \ {0}
  BY <1>1, <1>2 DEF Queued, Scanned, Treating
<1>4. NoBlock \notin in2out_loop /\ in2out_loop \subseteq Block
  BY <1>3, LoopInBlocks
<1>5. ASSUME NEW b \in in2out_loop, NEW k \in 1..Len(code[b]) PROVE Past(b, k)' <=> Past(b, k)
  <2>1. Past(b, k)' <=> b \notin BBs
    BY <1>1, <1>4 DEF Past
  <2>2. Len(code[b]) \in Nat
    BY <1>2, <1>4 DEF Placed
  <2>3. b = at => k < ip
    BY <1>1, <1>3, <2>2
  <2> QED BY <2>1, <2>3 DEF Past
<1>6. BBs' \subseteq in2out_loop /\ at' \in (in2out_loop \ BBs') \cup {NoBlock} /\ ip' \in Nat \ {0}
  BY <1>1, <1>3
<1> QED BY <1>1, <1>5, <1>6, ScanKeeps

LEMMA ExaminedStep ==
  ASSUME LoopSearchInv, LoopsSoFar, Working, Examined, func' = func
  PROVE  Working'
<1>1. /\ pc = "examine" /\ at = NoBlock /\ BBs = {} /\ pc' = "move"
      /\ UNCHANGED <<inner_loops, in2out_loop, labels, moves>> /\ CodeStays
  BY DEF Examined, CodeStays, scan
<1>2. in2out_loop \in AllLoops
  BY <1>1 DEF Working, Queued, Treating
<1>3. NoBlock \notin in2out_loop
  BY <1>2, LoopInBlocks
<1>4. \A b \in in2out_loop : \A k \in 1..Len(code[b]) : Past(b, k)
  BY <1>1, <1>3 DEF Past
<1> QED BY <1>1, <1>4, ScanKeeps

\* What is ready is not held back by a label.
LEMMA ReadyIsFree ==
  ASSUME Working, NEW i, in2out_loop \in AllLoops, Ready(in2out_loop, i)
  PROVE  Movable(i) /\ Operands(i) \cap Labels(in2out_loop) = {}
<1>1. Movable(i) /\ \A d \in in2out_loop : \A u \in Was(d) : u.id \notin Operands(i)
  BY DEF Ready
<1>2. PICK h \in Headers : in2out_loop = Loop(h)
  BY DEF AllLoops
<1>3. ASSUME NEW v \in Labels(in2out_loop) PROVE v \notin Operands(i)
  <2>1. PICK b \in Loop(h) : v \in IdsIn(b)
    BY <1>2 DEF Labels
  <2>2. PICK x \in In(b) : v = x.id
    BY <2>1 DEF IdsIn, In
  <2>3. PICK d \in Loop(h) : x \in Was(d)
    BY <2>2 DEF Working, Unmixed
  <2> QED BY <1>1, <1>2, <2>2, <2>3
<1> QED BY <1>1, <1>3

LEMMA ExamineStep ==
  ASSUME LoopSearchInv, LoopsSoFar, Working, Examine, func' = func
  PROVE  Working'
<1> DEFINE L == in2out_loop
           i == code[at][ip]
           n == Len(moves)
<1>1. /\ pc = "examine" /\ at # NoBlock /\ ip <= Len(code[at]) /\ ip' = ip + 1 /\ pc' = pc
      /\ UNCHANGED <<inner_loops, in2out_loop, BBs, at>> /\ CodeStays
      /\ IF Movable(i) /\ Operands(i) \cap labels = {}
         THEN labels' = labels \ {i.id} /\ moves' = Append(moves, i)
         ELSE UNCHANGED <<labels, moves>>
  BY DEF Examine, CodeStays
<1>2. Queued /\ Scanned /\ Placed /\ Treated /\ Treating
  BY <1>1 DEF Working, Treating
<1>3. /\ L \in AllLoops /\ BBs \subseteq L /\ at \in L \ BBs /\ ip \in Nat \ {0}
      /\ labels = Labels(L) \ {moves[j].id : j \in 1..n}
  BY <1>1, <1>2 DEF Queued, Scanned
<1>4. L \subseteq Block
  BY <1>3, LoopInBlocks
<1>5. /\ code[at] \in Seq(Instrs) /\ ip \in 1..Len(code[at]) /\ i \in Instrs /\ i \in In(at)
      /\ Distinct(code)
  <2>1. code[at] \in Seq(Instrs) /\ Distinct(code)
    BY <1>2, <1>3, <1>4 DEF Placed
  <2>2. ip \in 1..Len(code[at])
    BY <1>1, <1>3, <2>1
  <2> QED BY <2>1, <2>2 DEF In
<1>6. ASSUME NEW b \in L, NEW k \in 1..Len(code[b])
      PROVE  Past(b, k)' <=> Past(b, k) \/ (b = at /\ k = ip)
  <2>1. Past(b, k)' <=> b \notin BBs /\ (b = at => k < ip + 1)
    BY <1>1 DEF Past
  <2>2. k < ip + 1 <=> k < ip \/ k = ip
    BY <1>3
  <2> QED BY <1>3, <2>1, <2>2 DEF Past
<1>7. CASE ~(Movable(i) /\ Operands(i) \cap labels = {})
  <2>1. UNCHANGED <<labels, moves>>
    BY <1>1, <1>7
  <2>2. ~Ready(L, i)
    BY <1>3, <1>7, ReadyIsFree
  <2>3. \A b \in L : \A k \in 1..Len(code[b]) : Past(b, k)' /\ Ready(L, code[b][k]) => Past(b, k)
    BY <1>6, <2>2
  <2>4. BBs' \subseteq L /\ at' \in (L \ BBs') \cup {NoBlock} /\ ip' \in Nat \ {0}
    BY <1>1, <1>3
  <2>5. \A b \in L : \A k \in 1..Len(code[b]) : Past(b, k) => Past(b, k)'
    BY <1>6
  <2> HIDE DEF i
  <2> QED BY <1>1, <2>1, <2>3, <2>4, <2>5, ScanKeeps
<1>8. CASE Movable(i) /\ Operands(i) \cap labels = {}
  <2>0. labels' = labels \ {i.id} /\ moves' = Append(moves, i)
    BY <1>1, <1>8
  <2>1. /\ L' = L /\ code' = code /\ Headers' = Headers /\ AllLoops' = AllLoops /\ Instrs' = Instrs
        /\ \A h : Loop(h)' = Loop(h) /\ HoistedOut(Loop(h))' = HoistedOut(Loop(h))
        /\ \A b : In(b)' = In(b) /\ Was(b)' = Was(b)
        /\ Labels(in2out_loop)' = Labels(in2out_loop)
    BY <1>1, StayFacts DEF CodeStays
  <2>2. /\ moves \in Seq(Instrs) /\ n \in Nat
        /\ \A j \in 1..n : Movable(moves[j]) /\ \E b \in L : moves[j] \in In(b)
        /\ \A j, k \in 1..n : moves[j] = moves[k] => j = k
        /\ \A k \in 1..n : \A v \in ArgsOf(moves[k]) \cap Labels(L) : \E j \in 1..(k - 1) : moves[j].id = v
    BY <1>2 DEF Queued
  <2> HIDE DEF i, L
  <2>3. moves' \in Seq(Instrs) /\ Len(moves') = n + 1 /\ moves'[n + 1] = i
    BY <1>5, <2>0, <2>2
  <2>4. \A j \in 1..n : moves'[j] = moves[j]
    BY <1>5, <2>0, <2>2
  <2>5. ASSUME NEW j \in 1..n PROVE moves[j] # i
    <3>1. PICK b \in L : \E k \in 1..Len(code[b]) : Past(b, k) /\ moves[j] = code[b][k]
      BY <1>1, <1>2 DEF Scanned, L
    <3>2. PICK k \in 1..Len(code[b]) : Past(b, k) /\ moves[j] = code[b][k]
      BY <3>1
    <3>3. ~(b = at /\ k = ip)
      BY <1>3, <3>2 DEF Past
    <3> QED BY <1>3, <1>4, <1>5, <3>2, <3>3 DEF i, Distinct
  <2>6. ASSUME NEW v \in ArgsOf(i) \cap Labels(L) PROVE \E j \in 1..n : moves[j].id = v
    BY <1>3, <1>8 DEF Operands
  <2> HIDE DEF n
  <2>7. \A j \in 1..Len(moves') : j \in 1..n \/ j = n + 1
    BY <2>2, <2>3
  <2>8. Queued'
    <3>1. in2out_loop' \in AllLoops' /\ moves' \in Seq(Instrs')
      BY <1>3, <2>1, <2>3 DEF L
    <3>2. ASSUME NEW j \in 1..Len(moves')
          PROVE  Movable(moves'[j]) /\ \E b \in L : moves'[j] \in In(b)
      <4>1. CASE j \in 1..n
        BY <2>2, <2>4, <4>1
      <4>2. CASE j = n + 1
        BY <1>3, <1>5, <1>8, <2>3, <4>2
      <4> QED BY <2>7, <4>1, <4>2
    <3>3. ASSUME NEW j \in 1..Len(moves'), NEW k \in 1..Len(moves'), moves'[j] = moves'[k]
          PROVE  j = k
      <4>1. CASE j \in 1..n /\ k \in 1..n
        BY <2>2, <2>4, <3>3, <4>1
      <4>2. CASE j = n + 1 /\ k \in 1..n
        BY <2>3, <2>4, <2>5, <3>3, <4>2
      <4>3. CASE j \in 1..n /\ k = n + 1
        BY <2>3, <2>4, <2>5, <3>3, <4>3
      <4> QED BY <2>7, <4>1, <4>2, <4>3
    <3>4. ASSUME NEW k \in 1..Len(moves'), NEW v \in ArgsOf(moves'[k]), v \in Labels(L)
          PROVE  \E j \in 1..(k - 1) : moves'[j].id = v
      <4>1. CASE k \in 1..n
        <5>1. PICK j \in 1..(k - 1) : moves[j].id = v
          BY <2>2, <2>4, <3>4, <4>1
        <5>2. j \in 1..n
          BY <2>2, <4>1, <5>1
        <5> QED BY <2>4, <5>1, <5>2
      <4>2. CASE k = n + 1
        <5>1. PICK j \in 1..n : moves[j].id = v
          BY <2>3, <2>6, <3>4, <4>2
        <5>2. j \in 1..(k - 1)
          BY <2>2, <4>2, <5>1
        <5> QED BY <2>4, <5>1, <5>2
      <4> QED BY <2>7, <4>1, <4>2
    <3>5. \A j \in 1..Len(moves') : Movable(moves'[j]) /\ \E b \in in2out_loop' : moves'[j] \in In(b)'
      BY <2>1, <3>2 DEF L
    <3>6. \A k \in 1..Len(moves') : \A v \in ArgsOf(moves'[k]) \cap Labels(in2out_loop)' :
            \E j \in 1..(k - 1) : moves'[j].id = v
      BY <2>1, <3>4 DEF L
    <3> QED BY <3>1, <3>3, <3>5, <3>6 DEF Queued
  <2>9. Scanned'
    <3>1. BBs' \subseteq in2out_loop' /\ at' \in (in2out_loop' \ BBs') \cup {NoBlock} /\ ip' \in Nat \ {0}
      BY <1>1, <1>3, <2>1 DEF L
    <3>2. {moves'[j].id : j \in 1..Len(moves')} = {moves[j].id : j \in 1..n} \cup {i.id}
      <4>1. n + 1 \in 1..Len(moves') /\ \A j \in 1..n : j \in 1..Len(moves')
        BY <2>2, <2>3
      <4> QED BY <2>3, <2>4, <2>7, <4>1
    <3>3. labels' = Labels(in2out_loop)' \ {moves'[j].id : j \in 1..Len(moves')}
      BY <1>3, <2>0, <2>1, <3>2 DEF L
    <3>4. ASSUME NEW j \in 1..Len(moves')
          PROVE  \E b \in L : \E k \in 1..Len(code[b]) : Past(b, k)' /\ moves'[j] = code[b][k]
      <4>1. CASE j \in 1..n
        <5>1. PICK b \in L : \E k \in 1..Len(code[b]) : Past(b, k) /\ moves[j] = code[b][k]
          BY <1>1, <1>2, <4>1 DEF Scanned, L, n
        <5>2. PICK k \in 1..Len(code[b]) : Past(b, k) /\ moves[j] = code[b][k]
          BY <5>1
        <5> QED BY <1>6, <2>4, <4>1, <5>2
      <4>2. CASE j = n + 1
        BY <1>3, <1>5, <1>6, <2>3, <4>2 DEF i
      <4> QED BY <2>7, <4>1, <4>2
    <3>5. \A j \in 1..Len(moves') : \E b \in in2out_loop' : \E k \in 1..Len(code'[b]) :
            Past(b, k)' /\ moves'[j] = code'[b][k]
      BY <2>1, <3>4 DEF L
    <3> QED BY <3>1, <3>3, <3>5 DEF Scanned
  <2>10. Treated'
    <3>1. in2out_loop' \in AllLoops' \cup {{}} /\ inner_loops' \subseteq AllLoops'
      BY <1>1, <1>2, <2>1 DEF Treated
    <3>2. \A h \in Headers' : \/ Loop(h)' \in inner_loops'
                              \/ Treating' /\ in2out_loop' = Loop(h)'
                              \/ HoistedOut(Loop(h))'
      BY <1>1, <1>2, <2>1 DEF Treated, Treating, L
    <3>3. ASSUME NEW b \in L, NEW k \in 1..Len(code[b]), Past(b, k)', Ready(L, code[b][k])
          PROVE  \E j \in 1..Len(moves') : moves'[j] = code[b][k]
      <4>1. CASE Past(b, k)
        <5>1. PICK j \in 1..n : moves[j] = code[b][k]
          BY <1>2, <3>3, <4>1 DEF Treated, L, n
        <5>2. j \in 1..Len(moves')
          BY <2>2, <2>3, <5>1
        <5> QED BY <2>4, <5>1, <5>2
      <4>2. CASE b = at /\ k = ip
        <5>1. n + 1 \in 1..Len(moves')
          BY <2>2, <2>3
        <5> QED BY <2>3, <4>2, <5>1 DEF i
      <4> QED BY <1>6, <3>3, <4>1, <4>2
    <3>4. \A b, k : Ready(in2out_loop, code[b][k])' <=> Ready(L, code[b][k])
      BY <2>1 DEF Ready, L
    <3>5. \A b \in in2out_loop' : \A k \in 1..Len(code'[b]) :
            (pc' = "move" \/ Past(b, k)') /\ Ready(in2out_loop, code[b][k])' =>
              \E j \in 1..Len(moves') : moves'[j] = code'[b][k]
      BY <1>1, <2>1, <3>3, <3>4 DEF L
    <3> QED BY <3>1, <3>2, <3>5 DEF Treated
  <2> QED BY <1>1, <2>8, <2>9, <2>10, WorkingStays DEF Working
<1> QED BY <1>7, <1>8

LEMMA MoveStep ==
  ASSUME LoopSearchInv, LoopsSoFar, Working, Move, func' = func
  PROVE  Working'
<1>1. PICK h, c, q, p : Takes(h, c, q, p)
  BY MoveTakes
<1>2. pc = "move" /\ pc' = "move" /\ func_' = func_
  BY DEF Move
<1>3. BuiltGraph(func)' /\ BuiltCode(func, func_.code)'
  BY <1>2 DEF Working
<1>4. Placed' /\ DefinedBeforeUse'
  BY <1>1, MovePlaced, MoveDefined
<1>5. Queued' /\ Unmixed' /\ Treated'
  BY <1>1, MoveQueued, MoveTreated
<1>6. Scanned'
  BY <1>2 DEF Scanned
<1> QED BY <1>2, <1>3, <1>4, <1>5, <1>6 DEF Working

\* Everything that was ready has left the loop.
LEMMA MovedStep ==
  ASSUME Working, Moved, func' = func
  PROVE  Working'
<1>1. /\ pc = "move" /\ moves = <<>> /\ pc' = "next" /\ CodeStays
      /\ UNCHANGED <<inner_loops, in2out_loop>>
  BY DEF Moved, CodeStays
<1>2. Treated /\ Treating
  BY <1>1 DEF Working, Treating
<1>3. /\ Headers' = Headers /\ AllLoops' = AllLoops
      /\ \A h : Loop(h)' = Loop(h) /\ HoistedOut(Loop(h))' = HoistedOut(Loop(h))
  BY <1>1, StayFacts
<1>4. HoistedOut(in2out_loop)
  <2>1. \A j \in 1..Len(moves) : FALSE
    BY <1>1
  <2> QED BY <1>1, <1>2, <2>1 DEF Treated, HoistedOut, In
<1>5. Treated'
  <2>1. in2out_loop' \in AllLoops' \cup {{}} /\ inner_loops' \subseteq AllLoops' /\ ~Treating'
    BY <1>1, <1>2, <1>3 DEF Treated, Treating
  <2>2. \A h \in Headers' : Loop(h)' \in inner_loops' \/ HoistedOut(Loop(h))'
    BY <1>1, <1>2, <1>3, <1>4 DEF Treated
  <2> QED BY <2>1, <2>2 DEF Treated
<1>6. Queued' /\ Scanned'
  BY <1>1 DEF Queued, Scanned, Treating
<1> QED BY <1>1, <1>5, <1>6, WorkingStays DEF Working

LEMMA FinishStep ==
  ASSUME Working, Finish, func' = func
  PROVE  Working'
<1>1. /\ pc = "next" /\ pc' = "done" /\ CodeStays /\ in2out_loop = {} /\ inner_loops = {}
      /\ UNCHANGED <<inner_loops, in2out_loop>>
  BY DEF Finish, CodeStays
<1>2. /\ Headers' = Headers /\ AllLoops' = AllLoops
      /\ \A h : Loop(h)' = Loop(h) /\ HoistedOut(Loop(h))' = HoistedOut(Loop(h))
  BY <1>1, StayFacts
<1>3. Treated'
  BY <1>1, <1>2 DEF Working, Treated, Treating
<1>4. Queued' /\ Scanned'
  BY <1>1 DEF Queued, Scanned, Treating
<1> QED BY <1>1, <1>3, <1>4, WorkingStays DEF Working

LEMMA CollectStep ==
  ASSUME LoopSearchInv, LoopsSoFar, LoopsAreBlocks, Idle, CollectLoops, func' = func
  PROVE  Idle' \/ Working'
<1>1. /\ pc = "found" /\ pc' = "next" /\ func_' \in Functions[func] /\ code' = func_'.code
      /\ inner_loops' = Innermost /\ UNCHANGED <<in2out_loop, BBs, at, ip, moves>>
      /\ in2out_loop = {}
  BY DEF CollectLoops, scan, Idle
<1>2. func \in Graphs
  BY DEF LoopSearchInv, GraphLeft
<1>3. func_'.code = NoCode \/ (BuiltGraph(func) /\ BuiltCode(func, func_'.code))
  BY <1>1, <1>2, CodeAssumption
<1>4. CASE func_'.code = NoCode
  <2>1. Innermost \subseteq SUBSET Block
    BY DEF LoopsAreBlocks, Innermost, get_inner_loop
  <2> QED BY <1>1, <1>4, <2>1 DEF Idle
<1>5. CASE BuiltGraph(func) /\ BuiltCode(func, func_'.code)
  <2>1. Innermost = AllLoops /\ AllLoops' = AllLoops /\ Headers' = Headers
        /\ \A h : Loop(h)' = Loop(h)
    BY <1>1, <1>5, InnermostAreAll DEF Searching, AllLoops, Headers, Loop
  <2>2. BuiltGraph(func)' /\ BuiltCode(func, func_.code)'
    BY <1>5
  <2>3. Placed' /\ DefinedBeforeUse'
    BY <1>1, <1>5 DEF BuiltCode, Placed, Instrs, Distinct, DefinedBeforeUse, Literals
  <2>4. Queued' /\ Scanned' /\ ~Treating'
    BY <1>1 DEF Queued, Scanned, Treating
  <2>5. \A b : In(b)' = Was(b)'
    BY <1>1 DEF In, Was
  <2>6. Unmixed'
    BY <2>5 DEF Unmixed
  <2>7. Treated'
    BY <1>1, <2>1, <2>4 DEF Treated, AllLoops
  <2> QED BY <1>1, <2>2, <2>3, <2>4, <2>6, <2>7 DEF Working
<1> QED BY <1>3, <1>4, <1>5

LEMMA IdleStep ==
  ASSUME LoopsAreBlocks, Idle, [Next]_vars, ~CollectLoops
  PROVE  Idle'
<1>1. \A x : get_inner_loop(x) \subseteq Block
  BY DEF LoopsAreBlocks, get_inner_loop
<1>2. CASE UNCHANGED vars
  BY <1>2 DEF vars, search, hoist, scan, Idle
<1>3. CASE Search /\ UNCHANGED hoist
  <2>1. pc \in {"search", "bases"}
    BY <1>3 DEF Search, Root, Successor, Return, Searched, AllVisited, Clear, Base, Again
  <2> QED BY <1>3, <2>1 DEF hoist, scan, Idle
<1>4. CASE Begin
  BY <1>4 DEF Begin, Examining, Idle
<1>5. CASE Outward
  <2>1. /\ UNCHANGED <<func_, code, inner_loops>> /\ pc = "next"
        /\ \E prev : LET parent == get_parent_loop(get_loop_base(in2out_loop), prev)
                     IN  IF parent = {} THEN in2out_loop' = {} /\ UNCHANGED <<pc, scan, moves>>
                         ELSE Examining(parent)
    BY <1>5 DEF Outward
  <2>2. PICK parent : /\ parent \subseteq Block
                      /\ IF parent = {} THEN in2out_loop' = {} /\ UNCHANGED <<pc, scan, moves>>
                         ELSE Examining(parent)
    BY <1>1, <2>1 DEF get_parent_loop
  <2>3. CASE parent = {}
    BY <2>1, <2>2, <2>3 DEF Idle, scan
  <2>4. CASE parent # {}
    BY <2>1, <2>2, <2>4 DEF Idle, Examining
  <2> QED BY <2>3, <2>4
<1>6. CASE TakeBlock
  BY <1>6 DEF TakeBlock, Idle
<1>7. CASE Examine
  <2>1. at \in Block /\ ip <= Len(code[at]) /\ code[at] = <<>> /\ ip \in Nat \ {0}
    BY <1>7 DEF Examine, Idle, NoCode
  <2> QED BY <2>1
<1>8. CASE EndBlock \/ Examined \/ Moved \/ Finish
  BY <1>8 DEF EndBlock, Examined, Moved, Finish, Idle, scan
<1>9. CASE Move
  BY <1>9 DEF Move, Idle
<1> QED BY <1>2, <1>3, <1>4, <1>5, <1>6, <1>7, <1>8, <1>9 DEF Next

LEMMA LoopsAreBlocksStep ==
  ASSUME LoopSearchInv, LoopsAreBlocks, [Next]_vars
  PROVE  LoopsAreBlocks'
<1>1. CASE UNCHANGED loops
  BY <1>1 DEF loops, LoopsAreBlocks
<1>2. CASE Base
  <2>1. PICK scc \in sccs : \E base \in Candidates(scc) :
          \/ UNCHANGED loops
          \/ /\ base2loop' = [n \in DOMAIN base2loop \cup {base} |->
                                IF n \in DOMAIN base2loop THEN base2loop[n] ELSE scc]
             /\ bb2base' = Inner(scc, base)
    BY <1>2 DEF Base
  <2>2. PICK base \in Candidates(scc) :
          \/ UNCHANGED loops
          \/ /\ base2loop' = [n \in DOMAIN base2loop \cup {base} |->
                                IF n \in DOMAIN base2loop THEN base2loop[n] ELSE scc]
             /\ bb2base' = Inner(scc, base)
    BY <2>1
  <2>3. scc \subseteq Block
    BY <1>2 DEF Base, LoopSearchInv, Apart, Typed
  <2>4. CASE /\ base2loop' = [n \in DOMAIN base2loop \cup {base} |->
                                IF n \in DOMAIN base2loop THEN base2loop[n] ELSE scc]
             /\ bb2base' = Inner(scc, base)
    BY <2>3, <2>4 DEF LoopsAreBlocks, Inner
  <2> QED BY <1>1, <2>2, <2>4
<1>3. CASE Root \/ Successor \/ Return \/ Searched \/ Clear \/ Again
  BY <1>1, <1>3 DEF Root, Successor, Return, Searched, Clear, Again
<1>4. CASE Later
  BY <1>1, <1>4 DEF Later
<1>5. CASE UNCHANGED search
  BY <1>1, <1>5 DEF search
<1> QED BY <1>2, <1>3, <1>4, <1>5, SearchSteps DEF Search

LEMMA HoistInit == Init => HoistInv
<1> SUFFICES ASSUME Init PROVE LoopsAreBlocks /\ Idle
  BY DEF HoistInv
<1>1. /\ DOMAIN base2loop = {} /\ DOMAIN bb2base = {}
      /\ func_ = Empty /\ code = Empty.code /\ Empty.code = NoCode
      /\ inner_loops = {} /\ in2out_loop = {} /\ BBs = {} /\ at = NoBlock /\ ip = 1 /\ moves = <<>>
  BY DEF Init, build_cfg, Empty
<1> QED BY <1>1 DEF LoopsAreBlocks, Idle

LEMMA HoistStep ==
  ASSUME LoopSearchInv, LoopsSoFar, HoistInv, [Next]_vars
  PROVE  HoistInv'
<1>1. LoopsAreBlocks'
  BY LoopsAreBlocksStep DEF HoistInv
<1>2. func' = func
  BY SearchSteps DEF Search, Later, search, Root, Successor, Return, Searched, Clear, Base, Again
<1>3. CASE Idle
  <2>1. CASE CollectLoops
    BY <1>1, <1>2, <1>3, <2>1, CollectStep DEF HoistInv
  <2>2. CASE ~CollectLoops
    BY <1>1, <1>3, <2>2, IdleStep DEF HoistInv
  <2> QED BY <2>1, <2>2
<1>4. CASE Working
  <2> SUFFICES Working'
    BY <1>1 DEF HoistInv
  <2>1. CASE UNCHANGED vars
    <3>1. /\ CodeStays /\ pc' = pc /\ inner_loops' = inner_loops /\ in2out_loop' = in2out_loop
          /\ BBs' = BBs /\ at' = at /\ ip' = ip /\ labels' = labels /\ moves' = moves /\ code' = code
      BY <2>1 DEF vars, search, hoist, scan, CodeStays
    <3>2. /\ Headers' = Headers /\ AllLoops' = AllLoops /\ Instrs' = Instrs
          /\ \A h : Loop(h)' = Loop(h) /\ HoistedOut(Loop(h))' = HoistedOut(Loop(h))
          /\ \A b : In(b)' = In(b) /\ Was(b)' = Was(b)
          /\ Labels(in2out_loop)' = Labels(in2out_loop)
      BY <3>1, StayFacts
    <3>3. \A b, k : Past(b, k)' = Past(b, k)
      BY <3>1 DEF Past
    <3>4. \A b, k : Ready(in2out_loop, code[b][k])' = Ready(in2out_loop, code[b][k])
      BY <3>1, <3>2 DEF Ready
    <3>5. Treating' = Treating
      BY <3>1 DEF Treating
    <3>6. Queued'
      BY <1>4, <3>1, <3>2, <3>5 DEF Working, Queued
    <3>7. Scanned'
      BY <1>4, <3>1, <3>2, <3>3 DEF Working, Scanned
    <3>8. Treated'
      BY <1>4, <3>1, <3>2, <3>3, <3>4, <3>5 DEF Working, Treated
    <3> QED BY <1>4, <3>1, <3>6, <3>7, <3>8, WorkingStays DEF Working
  <2>2. CASE Search
    <3>1. pc \in {"search", "bases"}
      BY <2>2 DEF Search, Root, Successor, Return, Searched, AllVisited, Clear, Base, Again
    <3> QED BY <1>4, <3>1 DEF Working
  <2>3. CASE CollectLoops
    BY <1>4, <2>3 DEF CollectLoops, Working
  <2>4. CASE Begin
    BY <1>2, <1>4, <2>4, BeginStep
  <2>5. CASE Outward
    BY <1>2, <1>4, <2>5, OutwardStep
  <2>6. CASE TakeBlock
    BY <1>2, <1>4, <2>6, TakeBlockStep
  <2>7. CASE Examine
    BY <1>2, <1>4, <2>7, ExamineStep
  <2>8. CASE EndBlock
    BY <1>2, <1>4, <2>8, EndBlockStep
  <2>9. CASE Examined
    BY <1>2, <1>4, <2>9, ExaminedStep
  <2>10. CASE Move
    BY <1>2, <1>4, <2>10, MoveStep
  <2>11. CASE Moved
    BY <1>2, <1>4, <2>11, MovedStep
  <2>12. CASE Finish
    BY <1>2, <1>4, <2>12, FinishStep
  <2> QED BY <2>1, <2>2, <2>3, <2>4, <2>5, <2>6, <2>7, <2>8, <2>9, <2>10, <2>11, <2>12 DEF Next
<1> QED BY <1>3, <1>4 DEF HoistInv

\* What the pass relies on throughout: each block ends as the program had it and
\* each instruction is once in the code, in loops it was in before; the
\* instructions that wait have their operands outside of the loop or ahead of
\* them in the queue; and a loop no longer to be treated has nothing in it whose
\* operands were all defined outside of it.
THEOREM HoistInvariant == Spec => []HoistInv
<1>1. Init => HoistInv
  BY HoistInit
<1>2. LoopSearchInv /\ LoopsSoFar /\ HoistInv /\ [Next]_vars => HoistInv'
  BY HoistStep
<1> QED BY <1>1, <1>2, SearchInvariant, LoopsInvariant, PTL DEF Spec

-----------------------------------------------------------------------------
\* Whatever moves out of whatever loop, each operand stays below the
\* instruction that defines it on every path.
THEOREM OperandsStayDefined == Spec => []DefinedBeforeUse
<1>1. LoopSearchInv /\ HoistInv => DefinedBeforeUse
  <2> SUFFICES ASSUME LoopSearchInv, Idle PROVE DefinedBeforeUse
    BY DEF HoistInv, Working
  <2>1. func.blocks \subseteq Block /\ Reach(func.succ, {func.entry}) \subseteq func.blocks
    <3>1. Graph(func.blocks, func.succ, func.entry) /\ func.blocks \subseteq Block
      BY FunctionTyped DEF LoopSearchInv, Graph
    <3> QED BY <3>1, ReachFromEntry
  <2>2. \A b \in Block : Len(code[b]) = 0
    BY DEF Idle, NoCode
  <2>3. \A b \in Reach(func.succ, {func.entry}) : 1..Len(code[b]) = {}
    BY <2>1, <2>2
  <2> QED BY <2>3 DEF DefinedBeforeUse, OperandsDominate
<1> QED BY <1>1, SearchInvariant, HoistInvariant, PTL

\* Nothing that could leave a loop is still in it when the pass is done: not in
\* the loop itself, nor in a loop around it, in whatever order they are treated.
THEOREM NothingReadyStays == Spec => []ReadyIsHoisted
<1>1. LoopSearchInv /\ LoopsSoFar /\ HoistInv => ReadyIsHoisted
  <2> SUFFICES ASSUME LoopSearchInv, LoopsSoFar, HoistInv, pc = "done",
                      NEW h \in Headers, NEW b \in Loop(h), NEW k \in 1..Len(func_.code[b]),
                      LET i == func_.code[b][k]
                      IN  /\ Movable(i)
                          /\ \A v \in Operands(i) \cap IdsOf(code) : BlockOf(func_.code, v) \notin Loop(h)
                          /\ BlockOf(code, i.id) \in Loop(h)
               PROVE  FALSE
    BY DEF ReadyIsHoisted, Headers
  <2> DEFINE i == func_.code[b][k]
  <2>1. Loop(h) \subseteq Block
    <3>1. /\ Graph(func.blocks, func.succ, func.entry) /\ func.blocks \subseteq Block
          /\ h \in Reach(func.succ, {func.entry})
      BY FunctionTyped DEF LoopSearchInv, Graph, Headers, LoopHeaders
    <3>2. Reach(func.succ, {func.entry}) \subseteq func.blocks
      BY <3>1, ReachFromEntry
    <3> QED BY <3>1, <3>2 DEF Loop, NaturalLoop
  <2>2. Working
    <3> SUFFICES ASSUME Idle PROVE FALSE
      BY DEF HoistInv
    <3>1. func_.code[b] = <<>>
      BY <2>1 DEF Idle, NoCode
    <3> QED BY <3>1
  <2>3. Placed /\ BuiltCode(func, func_.code) /\ HoistedOut(Loop(h))
    BY <2>2 DEF Working, Treated, Treating
  <2>4. Distinct(code) /\ Distinct(func_.code) /\ InstrsOf(code) = InstrsOf(func_.code)
    BY <2>3 DEF Placed, BuiltCode, Distinct, Instrs
  <2>5. \A c, d \in Block : \A x : Distinct(func_.code) /\ (\E j \in 1..Len(func_.code[c]) : func_.code[c][j].id = x)
          /\ (\E j \in 1..Len(func_.code[d]) : func_.code[d][j].id = x) => c = d
    BY DEF Distinct
  <2>6. i \in InstrsOf(code)
    BY <2>1, <2>4, InstrsAre
  <2>7. PICK d \in Block : \E j \in 1..Len(code[d]) : i = code[d][j]
    BY <2>6, InstrsAre
  <2> HIDE DEF i
  <2>8. BlockOf(code, i.id) = d
    <3>1. \A c \in Block : (\E j \in 1..Len(code[c]) : code[c][j].id = i.id) => c = d
      BY <2>4, <2>7 DEF Distinct
    <3>2. \E j \in 1..Len(code[d]) : code[d][j].id = i.id
      BY <2>7
    <3> QED BY <3>1, <3>2 DEF BlockOf
  <2>9. d \in Loop(h) /\ i \in In(d)
    BY <2>7, <2>8 DEF In, i
  <2>10. ASSUME NEW c \in Loop(h), NEW u \in Was(c) PROVE u.id \notin Operands(i)
    <3>1. PICK j \in 1..Len(func_.code[c]) : u = func_.code[c][j]
      BY DEF Was
    <3>2. u \in InstrsOf(code)
      BY <2>1, <2>4, <3>1, InstrsAre
    <3>3. u.id \in IdsOf(code)
      BY <3>2 DEF IdsOf
    <3>4. BlockOf(func_.code, u.id) = c
      <4>1. \A e \in Block : (\E l \in 1..Len(func_.code[e]) : func_.code[e][l].id = u.id) => e = c
        BY <2>1, <2>4, <3>1 DEF Distinct
      <4> QED BY <2>1, <3>1, <4>1 DEF BlockOf
    <3> QED BY <3>3, <3>4 DEF i
  <2>11. Ready(Loop(h), i)
    BY <2>10 DEF Ready, i
  <2> QED BY <2>3, <2>9, <2>11 DEF HoistedOut
<1> QED BY <1>1, SearchInvariant, LoopsInvariant, HoistInvariant, PTL
=============================================================================
