----------------------------- MODULE Dominators -----------------------------
(***************************************************************************)
(* Dominators::run of src/optimization/Dominators.cpp, the analysis        *)
(* Mem2Reg builds on: a depth-first visit numbers the blocks of a function *)
(* in post order, sweeps in reverse post order compute immediate           *)
(* dominators by intersecting predecessor chains, and walks up the idom    *)
(* chains give dominance frontiers and the dominator tree.                 *)
(*                                                                         *)
(* The chains are read while they are rewritten, so the model keeps the    *)
(* code's own steps: one successor looked at, one predecessor folded in,   *)
(* one finger moved up, one frontier entry added.  A failed assert is the  *)
(* state pc = "abort".  std::map::operator[] makes a missing idom_ entry a *)
(* null pointer, that of the null pointer included.                        *)
(***************************************************************************)
EXTENDS Naturals, Sequences, FlowGraph

CONSTANTS
  Block,       \* basic blocks, distinct in distinct functions
  Null,        \* the null pointer
  Modules      \* the modules the analysis may be given

\* A function: its block list, entry first, and the successor and predecessor
\* lists of its blocks.  An external declaration has no block.
Function == [blocks: Seq(Block), succ: [Block -> Seq(Block)], pre: [Block -> Seq(Block)]]

Image(s) == {s[i] : i \in 1..Len(s)}

\* The lists BasicBlock keeps agree, and stay inside the function.
ListsAgree(g) ==
  \A b \in Image(g.blocks) :
    /\ Image(g.succ[b]) \cup Image(g.pre[b]) \subseteq Image(g.blocks)
    /\ \A p \in Image(g.blocks) : p \in Image(g.pre[b]) <=> b \in Image(g.succ[p])

\* No branch of the builder goes to the entry of a function.
EntryIsNoTarget(g) == g.blocks # <<>> => g.pre[g.blocks[1]] = <<>>

ASSUME BlockAssumption == IsFiniteSet(Block)
ASSUME NullAssumption == Null \notin Block
ASSUME ModulesAssumption == Modules \subseteq Seq(Function)
ASSUME FunctionsAssumption ==
  \A h \in Modules : \A i, j \in DOMAIN h :
    /\ ListsAgree(h[i])
    /\ EntryIsNoTarget(h[i])
    /\ i # j => Image(h[i].blocks) \cap Image(h[j].blocks) = {}

VARIABLES
  m,                     \* the functions still to analyse
  pc,
  visited, stack,        \* the depth-first visit: frames <<block, next successor>>
  reverse_post_order_, post_order_id_,
  idom_, dom_frontier_, dom_tree_succ_blocks_,
  changed,
  at,                    \* position in the list of blocks looped over
  k,                     \* position in the predecessor list
  pred, new_idom,        \* create_idom; new_idom is also the second finger
  finger,                \* the first finger of intersect, b1
  runner                 \* create_dominance_frontier

vars == <<m, pc, visited, stack, reverse_post_order_, post_order_id_, idom_,
          dom_frontier_, dom_tree_succ_blocks_, changed, at, k, pred, new_idom,
          finger, runner>>
visiting == <<visited, stack, reverse_post_order_, post_order_id_>>
cursors  == <<at, k, pred, new_idom, finger, runner>>
results  == <<idom_, dom_frontier_, dom_tree_succ_blocks_>>

f     == Head(m)
root  == f.blocks[1]
bb    == IF pc = "frontier" \/ pc = "runner" THEN f.blocks[at]
         ELSE reverse_post_order_[at]

Init ==
  /\ m \in Modules
  /\ pc = "function"
  /\ visited = {} /\ stack = <<>>
  /\ reverse_post_order_ = <<>> /\ post_order_id_ = [b \in Block |-> 0]
  /\ idom_ = [b \in Block \cup {Null} |-> Null]
  /\ dom_frontier_ = [b \in Block \cup {Null} |-> {}]
  /\ dom_tree_succ_blocks_ = [b \in Block \cup {Null} |-> {}]
  /\ changed = FALSE
  /\ at = 1 /\ k = 1
  /\ pred = Null /\ new_idom = Null /\ finger = Null /\ runner = Null

-----------------------------------------------------------------------------
SkipDeclaration ==
  /\ pc = "function" /\ m # <<>> /\ f.blocks = <<>>
  /\ m' = Tail(m)
  /\ UNCHANGED <<pc, visiting, results, changed, cursors>>

\* create_reverse_post_order: clear both tables and call post_order_visit on
\* the entry.
StartFunction ==
  /\ pc = "function" /\ m # <<>> /\ f.blocks # <<>>
  /\ reverse_post_order_' = <<>>
  /\ post_order_id_' = [b \in Block |-> 0]
  /\ visited' = {root}
  /\ stack' = <<<<root, 1>>>>
  /\ pc' = "visit"
  /\ UNCHANGED <<m, results, changed, cursors>>

\* post_order_visit looks at the next successor of the innermost call and
\* calls itself when the successor is new.
VisitSucc ==
  /\ pc = "visit" /\ stack # <<>>
  /\ LET top  == stack[Len(stack)]
         list == f.succ[top[1]]
         rest == [stack EXCEPT ![Len(stack)] = <<top[1], top[2] + 1>>]
     IN  /\ top[2] <= Len(list)
         /\ LET b == list[top[2]] IN
              /\ visited' = visited \cup {b}
              /\ stack' = IF b \in visited THEN rest ELSE Append(rest, <<b, 1>>)
  /\ UNCHANGED <<m, pc, reverse_post_order_, post_order_id_, results, changed, cursors>>

\* The number a block gets: reverse_post_order_.size() before it is pushed.
PostOrderId == Len(reverse_post_order_)

\* The innermost call has seen every successor: number the block and return.
FinishVisit ==
  /\ pc = "visit" /\ stack # <<>>
  /\ LET top == stack[Len(stack)]
     IN  /\ top[2] > Len(f.succ[top[1]])
         /\ post_order_id_' = [post_order_id_ EXCEPT ![top[1]] = PostOrderId]
         /\ reverse_post_order_' = Append(reverse_post_order_, top[1])
         /\ stack' = SubSeq(stack, 1, Len(stack) - 1)
  /\ UNCHANGED <<m, pc, visited, results, changed, cursors>>

\* reverse_post_order_.reverse()
Reversed_NoOp(s) == s
Reversed(s) == [i \in 1..Len(s) |-> s[Len(s) + 1 - i]]

\* The visit is over: reverse the list, and initialise idom_.
StartIdom ==
  /\ pc = "visit" /\ stack = <<>>
  /\ reverse_post_order_' = Reversed(reverse_post_order_)
  /\ idom_' = [b \in DOMAIN idom_ |-> IF b = root THEN root
                                      ELSE IF b \in Image(f.blocks) THEN Null
                                      ELSE idom_[b]]
  /\ changed' = TRUE
  /\ pc' = "while"
  /\ UNCHANGED <<m, visited, stack, post_order_id_, dom_frontier_,
                 dom_tree_succ_blocks_, cursors>>

-----------------------------------------------------------------------------
StartSweep ==
  /\ pc = "while" /\ changed
  /\ changed' = FALSE
  /\ at' = 1
  /\ pc' = "block"
  /\ UNCHANGED <<m, visiting, results, k, pred, new_idom, finger, runner>>

SkipRoot ==
  /\ pc = "block" /\ at <= Len(reverse_post_order_) /\ bb = root
  /\ at' = at + 1
  /\ UNCHANGED <<m, pc, visiting, results, changed, k, pred, new_idom, finger, runner>>

\* The predecessors of bb that have an idom, by position.
Processed(b) == {i \in 1..Len(f.pre[b]) : idom_[f.pre[b][i]] # Null}

\* Take the first predecessor that has an idom; assert(pred).
FindPred ==
  /\ pc = "block" /\ at <= Len(reverse_post_order_) /\ bb # root
  /\ IF Processed(bb) = {}
     THEN pc' = "abort" /\ UNCHANGED <<pred, new_idom, k>>
     ELSE LET first == CHOOSE i \in Processed(bb) : \A j \in Processed(bb) : i <= j
          IN  /\ pred' = f.pre[bb][first]
              /\ new_idom' = pred'
              /\ k' = 1
              /\ pc' = "preds"
  /\ UNCHANGED <<m, visiting, results, changed, at, finger, runner>>

\* A predecessor that is pred itself, or has no idom yet, is passed over.
Passed_All(p) == TRUE
Passed(p) == p = pred \/ idom_[p] = Null

SkipPred ==
  /\ pc = "preds" /\ k <= Len(f.pre[bb])
  /\ Passed(f.pre[bb][k])
  /\ k' = k + 1
  /\ UNCHANGED <<m, pc, visiting, results, changed, at, pred, new_idom, finger, runner>>

StartIntersect ==
  /\ pc = "preds" /\ k <= Len(f.pre[bb])
  /\ ~Passed(f.pre[bb][k])
  /\ finger' = f.pre[bb][k]
  /\ pc' = "intersect"
  /\ UNCHANGED <<m, visiting, results, changed, at, k, pred, new_idom, runner>>

\* intersect moves the finger with the smaller post order number up its idom
\* chain; assert(get_idom(...)).
Climb(b) == IF idom_[b] = Null THEN pc' = "abort" ELSE pc' = pc

ClimbFirst ==
  /\ pc = "intersect"
  /\ post_order_id_[finger] < post_order_id_[new_idom]
  /\ Climb(finger)
  /\ finger' = IF idom_[finger] = Null THEN finger ELSE idom_[finger]
  /\ UNCHANGED <<m, visiting, results, changed, at, k, pred, new_idom, runner>>

ClimbSecond ==
  /\ pc = "intersect"
  /\ post_order_id_[new_idom] < post_order_id_[finger]
  /\ Climb(new_idom)
  /\ new_idom' = IF idom_[new_idom] = Null THEN new_idom ELSE idom_[new_idom]
  /\ UNCHANGED <<m, visiting, results, changed, at, k, pred, finger, runner>>

\* The fingers meet: intersect returns, and the next predecessor is taken.
Meet ==
  /\ pc = "intersect" /\ finger = new_idom
  /\ k' = k + 1
  /\ pc' = "preds"
  /\ UNCHANGED <<m, visiting, results, changed, at, pred, new_idom, finger, runner>>

\* The flag that asks for another sweep.
Changed_Never == FALSE
Changed_Always == TRUE
Changed == changed \/ idom_[bb] # new_idom

SetIdom ==
  /\ pc = "preds" /\ k > Len(f.pre[bb])
  /\ idom_' = [idom_ EXCEPT ![bb] = new_idom]
  /\ changed' = Changed
  /\ at' = at + 1
  /\ pc' = "block"
  /\ UNCHANGED <<m, visiting, dom_frontier_, dom_tree_succ_blocks_, k, pred,
                 new_idom, finger, runner>>

EndOfSweep ==
  /\ pc = "block" /\ at > Len(reverse_post_order_)
  /\ pc' = "while"
  /\ UNCHANGED <<m, visiting, results, changed, cursors>>

-----------------------------------------------------------------------------
\* A sweep changed nothing: create_dominance_frontier begins.
StartFrontier ==
  /\ pc = "while" /\ ~changed
  /\ at' = 1
  /\ pc' = "frontier"
  /\ UNCHANGED <<m, visiting, results, changed, k, pred, new_idom, finger, runner>>

\* Only a block with two predecessors or more is in a frontier.
IsJoin_MoreThanTwo(b) == Len(f.pre[b]) > 2
IsJoin(b) == Len(f.pre[b]) >= 2

SkipNonJoin ==
  /\ pc = "frontier" /\ at <= Len(f.blocks) /\ ~IsJoin(bb)
  /\ at' = at + 1
  /\ UNCHANGED <<m, pc, visiting, results, changed, k, pred, new_idom, finger, runner>>

StartJoin ==
  /\ pc = "frontier" /\ at <= Len(f.blocks) /\ IsJoin(bb)
  /\ k' = 1
  /\ runner' = f.pre[bb][1]
  /\ pc' = "runner"
  /\ UNCHANGED <<m, visiting, results, changed, at, pred, new_idom, finger>>

\* The runner goes up from a predecessor until it is at the idom of the join.
Run ==
  /\ pc = "runner" /\ runner # idom_[bb]
  /\ dom_frontier_' = [dom_frontier_ EXCEPT ![runner] = @ \cup {bb}]
  /\ runner' = idom_[runner]
  /\ UNCHANGED <<m, pc, visiting, idom_, dom_tree_succ_blocks_, changed, at, k,
                 pred, new_idom, finger>>

\* It is there: the next predecessor, or the next block.
EndOfRun ==
  /\ pc = "runner" /\ runner = idom_[bb]
  /\ IF k < Len(f.pre[bb])
     THEN /\ k' = k + 1
          /\ runner' = f.pre[bb][k + 1]
          /\ UNCHANGED <<at, pc>>
     ELSE /\ at' = at + 1
          /\ pc' = "frontier"
          /\ UNCHANGED <<k, runner>>
  /\ UNCHANGED <<m, visiting, results, changed, pred, new_idom, finger>>

\* The blocks create_dom_tree_succ hangs under d; the entry is its own idom.
DomChildren(d) == {b \in Image(f.blocks) : idom_[b] = d /\ d # b}

\* create_dom_tree_succ, the last call for the function.
CreateDomTree ==
  /\ pc = "frontier" /\ at > Len(f.blocks)
  /\ dom_tree_succ_blocks_' =
       [d \in DOMAIN dom_tree_succ_blocks_ |->
          dom_tree_succ_blocks_[d] \cup DomChildren(d)]
  /\ m' = Tail(m)
  /\ pc' = "function"
  /\ UNCHANGED <<visiting, idom_, dom_frontier_, changed, cursors>>

-----------------------------------------------------------------------------
Terminated == pc = "function" /\ m = <<>>

Next ==
  \/ SkipDeclaration \/ StartFunction
  \/ VisitSucc \/ FinishVisit \/ StartIdom
  \/ StartSweep \/ SkipRoot \/ FindPred \/ SkipPred \/ StartIntersect
  \/ ClimbFirst \/ ClimbSecond \/ Meet \/ SetIdom \/ EndOfSweep
  \/ StartFrontier \/ SkipNonJoin \/ StartJoin \/ Run \/ EndOfRun
  \/ CreateDomTree

Spec == Init /\ [][Next]_vars

\* One thread of one process that nothing blocks.
FairSpec == Spec /\ WF_vars(Next)

-----------------------------------------------------------------------------
(***************************************************************************)
(* What the results mean, on paths from the entry of the current function. *)
(***************************************************************************)
Edges     == [b \in Block |-> Image(f.succ[b])]
Reachable == Reach(Edges, {root})

\* No block that the entry cannot reach branches to one it can reach.
NoDeadPredecessor ==
  \A g \in Image(m) : g.blocks # <<>> =>
    LET edges == [b \in Block |-> Image(g.succ[b])]
        live  == Reach(edges, {g.blocks[1]})
    IN  \A b \in Block \ live : edges[b] \cap live = {}

-----------------------------------------------------------------------------
\* Neither assert(pred) nor the two asserts in intersect can fail, for any
\* graph: when a block's turn comes one predecessor has an idom, and no finger
\* is ever at a block without one.
NoAssertFails == pc # "abort"

\* When the sweeps are over, idom_ is the immediate dominator of every block
\* the entry reaches and null for every block it does not reach.
IdomIsImmediateDominator ==
  pc \in {"frontier", "runner"} =>
    /\ idom_[root] = root
    /\ \A b \in Image(f.blocks) \ {root} :
         IF b \in Reachable THEN IsImmediateDominator(Edges, root, idom_[b], b)
         ELSE idom_[b] = Null

\* When create_dominance_frontier is over, the frontier of every block the entry
\* reaches is the one of the definition.
FrontierIsDominanceFrontier ==
  pc = "frontier" /\ at > Len(f.blocks) =>
    \A n \in Reachable : dom_frontier_[n] = DominanceFrontier(Edges, root, n)

\* A sweep only moves an idom up: once a block has an idom, every new one is
\* an ancestor in the post order.  This is what makes the sweeps finite.
IdomOnlyRises ==
  [][pc = "preds" /\ pc' = "block" /\ idom_[bb] # Null =>
       post_order_id_[idom_'[bb]] >= post_order_id_[idom_[bb]]]_vars

\* The analysis ends, for a module in which no dead block has a live successor.
Terminates == NoDeadPredecessor => <>Terminated

\* It ends for every module the builder makes: Mem2Reg takes for granted that
\* the analysis has run and the dominator tree is complete.
AlwaysTerminates == <>Terminated
=============================================================================
