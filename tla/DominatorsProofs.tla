-------------------------- MODULE DominatorsProofs --------------------------
(***************************************************************************)
(* Proofs about Dominators.  The argument goes in layers, each an          *)
(* invariant that the next one uses:                                       *)
(*   TypeOK     the variables have their types;                            *)
(*   Shape      what is left of the module is well formed, and the         *)
(*              cursors are inside the lists they point into;              *)
(*   Visit      the depth-first visit, while it runs;                      *)
(*   Ordered    what it leaves: the live blocks in an order in which each  *)
(*              but the entry comes after one of its predecessors;         *)
(*   Idom       idom_ is a forest over the live blocks that climbs the     *)
(*              order and keeps every dominator, and the fingers stay on   *)
(*              the chains they started from;                              *)
(*   Frontier   dom_frontier_ holds what the runners have walked over;     *)
(*   Rising     in the graph of the forward branches every idom is a       *)
(*              dominator, and a block's next idom is on its chain.        *)
(***************************************************************************)
EXTENDS Dominators, FlowGraphProofs, SequenceTheorems

\* Every variable has its type.
TypeOK ==
  /\ m \in Seq(Function)
  /\ pc \in {"function", "visit", "while", "block", "preds", "intersect",
             "frontier", "runner", "abort"}
  /\ visited \in SUBSET Block
  /\ stack \in Seq(Block \X (Nat \ {0}))
  /\ reverse_post_order_ \in Seq(Block)
  /\ post_order_id_ \in [Block -> Nat]
  /\ idom_ \in [Block \cup {Null} -> Block \cup {Null}]
  /\ dom_frontier_ \in [Block \cup {Null} -> SUBSET Block]
  /\ dom_tree_succ_blocks_ \in [Block \cup {Null} -> SUBSET Block]
  /\ changed \in BOOLEAN
  /\ at \in Nat \ {0} /\ k \in Nat \ {0}
  /\ pred \in Block \cup {Null} /\ new_idom \in Block \cup {Null}
  /\ finger \in Block \cup {Null} /\ runner \in Block \cup {Null}

-----------------------------------------------------------------------------
\* The functions of a list are well formed and share no block.
WellFormed(h) ==
  \A i, j \in DOMAIN h :
    /\ ListsAgree(h[i])
    /\ EntryIsNoTarget(h[i])
    /\ i # j => Image(h[i].blocks) \cap Image(h[j].blocks) = {}

Sweeping == {"block", "preds", "intersect"}
Folding  == {"preds", "intersect"}
Walking  == {"frontier", "runner"}
After    == {"while"} \cup Sweeping \cup Walking      \* after the visit

\* The cursors point into the lists they are for.
Shape ==
  /\ WellFormed(m)
  /\ pc # "function" => m # <<>> /\ f.blocks # <<>>
  /\ pc \in Folding => at <= Len(reverse_post_order_) /\ bb # root
  /\ pc = "intersect" => k <= Len(f.pre[bb])
  /\ pc = "runner" => at <= Len(f.blocks) /\ IsJoin(bb) /\ k <= Len(f.pre[bb])

-----------------------------------------------------------------------------
\* The blocks of the calls that have not returned.
Open == {stack[i][1] : i \in 1..Len(stack)}

\* The blocks that have a number: it is their place in the list, and all their
\* successors have been visited.
Numbered ==
  \A i \in 1..Len(reverse_post_order_) :
    /\ post_order_id_[reverse_post_order_[i]] = i - 1
    /\ reverse_post_order_[i] \notin Open
    /\ Image(f.succ[reverse_post_order_[i]]) \subseteq visited

\* Each but the entry was reached from a block that gets its number later.
Reached ==
  \A i \in 1..Len(reverse_post_order_) :
    reverse_post_order_[i] # root =>
      \E p \in Image(f.pre[reverse_post_order_[i]]) :
        \/ p \in Open
        \/ \E j \in (i + 1)..Len(reverse_post_order_) : p = reverse_post_order_[j]

\* The calls that have not returned are nested along branches, from the entry.
Nested ==
  /\ \A i, j \in 1..Len(stack) : i # j => stack[i][1] # stack[j][1]
  /\ \A i \in 1..Len(stack) :
       /\ \A c \in 1..Len(f.succ[stack[i][1]]) :
            c < stack[i][2] => f.succ[stack[i][1]][c] \in visited
       /\ i = 1 => stack[i][1] = root
       /\ i # 1 => stack[i - 1][1] \in Image(f.pre[stack[i][1]])

\* The entry is the last to get its number.
EntryLast ==
  stack = <<>> => /\ reverse_post_order_ # <<>>
                  /\ reverse_post_order_[Len(reverse_post_order_)] = root

Visit ==
  pc = "visit" =>
    /\ visited = Image(reverse_post_order_) \cup Open
    /\ visited \subseteq Reachable
    /\ Numbered /\ Reached /\ Nested /\ EntryLast

\* What the visit leaves of its tables.
Ordered ==
  pc \in After =>
    /\ Image(reverse_post_order_) = Reachable
    /\ Len(reverse_post_order_) >= 1 /\ reverse_post_order_[1] = root
    /\ \A i \in 1..Len(reverse_post_order_) :
         /\ post_order_id_[reverse_post_order_[i]] = Len(reverse_post_order_) - i
         /\ i # 1 => \E j \in 1..(i - 1) :
              reverse_post_order_[j] \in Image(f.pre[reverse_post_order_[i]])

-----------------------------------------------------------------------------
\* The chain of b: b, its idom, the idom of that, and so on.
Up(i) == [b \in Block |-> {i[b]} \cap Block]
Chain(i, b) == Reach(Up(i), {b})

\* The live blocks that have an idom.
Done == {b \in Reachable : idom_[b] # Null}

\* The predecessors of b that do, those the code folds together.
DonePre(b) == Image(f.pre[b]) \cap Done

\* What is on the chain of every one of them.
Common(b) == {c \in Block : \A q \in DonePre(b) : c \in Chain(idom_, q)}

Forest ==
  /\ idom_[root] = root
  /\ \A b \in Image(f.blocks) \ Reachable : idom_[b] = Null
  /\ \A b \in Done \ {root} :
       idom_[b] \in Done /\ post_order_id_[idom_[b]] > post_order_id_[b]

\* No dominator is lost.
Sound ==
  \A b \in Done \ {root} : \A d \in Block \ {b} :
    Dominates(Edges, root, d, b) => Dominates(Edges, root, d, idom_[b])

\* b needs no other idom.
Settled(b) == \A q \in DonePre(b) : Chain(idom_, idom_[b]) \subseteq Chain(idom_, q)

\* The blocks this sweep has passed have an idom, and need no other one as
\* long as the sweep has changed nothing.
Swept ==
  pc \in Sweeping =>
    \A i \in 1..Len(reverse_post_order_) : i < at =>
      /\ reverse_post_order_[i] \in Done
      /\ ~changed /\ reverse_post_order_[i] # root => Settled(reverse_post_order_[i])

\* The same of all live blocks, when the sweeps are over.
Fixed ==
  pc \in Walking \/ (pc = "while" /\ ~changed) =>
    Done = Reachable /\ \A b \in Reachable \ {root} : Settled(b)

\* new_idom is on the chains of the predecessors folded in so far, and
\* below all that their chains have in common.
Folded ==
  pc \in Folding =>
    /\ pred \in DonePre(bb) /\ new_idom \in Done
    /\ Chain(idom_, new_idom) \subseteq Chain(idom_, pred)
    /\ Common(bb) \subseteq Chain(idom_, new_idom)
    /\ \A j \in 1..Len(f.pre[bb]) : j < k /\ f.pre[bb][j] \in Done =>
         Chain(idom_, new_idom) \subseteq Chain(idom_, f.pre[bb][j])

\* So is the other finger, with the predecessor that is being folded in.
Fingers ==
  pc = "intersect" =>
    /\ f.pre[bb][k] \in Done /\ finger \in Done
    /\ Chain(idom_, finger) \subseteq Chain(idom_, f.pre[bb][k])
    /\ Common(bb) \subseteq Chain(idom_, finger)

Idom ==
  /\ NoAssertFails
  /\ idom_[Null] = Null
  /\ pc \in After => Forest /\ Sound
  /\ Swept /\ Fixed /\ Folded /\ Fingers

-----------------------------------------------------------------------------
\* The current function, when there is one.
LEMMA CurrentFunction ==
  ASSUME TypeOK, m # <<>>
  PROVE  /\ f \in Function
         /\ f.blocks \in Seq(Block)
         /\ f.succ \in [Block -> Seq(Block)] /\ f.pre \in [Block -> Seq(Block)]
         /\ f.blocks # <<>> => root \in Block /\ root \in Image(f.blocks)
<1>1. m \in Seq(Function) BY DEF TypeOK
<1>2. f \in Function
  <2>1. Head(m) \in Function BY <1>1
  <2> QED BY <2>1 DEF f
<1>20. f.blocks \in Seq(Block) /\ f.succ \in [Block -> Seq(Block)] /\ f.pre \in [Block -> Seq(Block)]
  <2>1. f \in [blocks: Seq(Block), succ: [Block -> Seq(Block)], pre: [Block -> Seq(Block)]]
    BY <1>2 DEF Function
  <2> HIDE DEF f
  <2> QED BY <2>1
<1>3. ASSUME f.blocks # <<>> PROVE root \in Block /\ root \in Image(f.blocks)
  <2>1. Len(f.blocks) \in Nat /\ Len(f.blocks) # 0 /\ 1 \in 1..Len(f.blocks)
    BY <1>20, <1>3
  <2> QED BY <2>1, <1>20 DEF root, Image
<1> QED BY <1>2, <1>20, <1>3

\* The block the loops are at.
LEMMA CurrentBlock ==
  ASSUME TypeOK, Shape
  PROVE  /\ pc \in Folding => bb \in Block
         /\ pc = "block" /\ at <= Len(reverse_post_order_) => bb \in Block
         /\ pc \in Walking /\ at <= Len(f.blocks) => bb \in Block
         /\ pc \in After => m # <<>> /\ f.blocks # <<>>
<1>1. pc \in After => m # <<>> /\ f.blocks # <<>>
  BY DEF Shape, After, Sweeping, Walking
<1>2. reverse_post_order_ \in Seq(Block) /\ at \in Nat \ {0}
  BY DEF TypeOK
<1>3. pc \in Folding => bb \in Block
  BY <1>2 DEF Shape, Folding, bb
<1>4. pc = "block" /\ at <= Len(reverse_post_order_) => bb \in Block
  BY <1>2 DEF bb
<1>5. pc \in Walking /\ at <= Len(f.blocks) => bb \in Block
  <2>1. pc \in Walking => f.blocks \in Seq(Block) 
    BY <1>1, CurrentFunction DEF Walking, After
  <2> QED BY <2>1, <1>2 DEF bb, Walking
<1> QED BY <1>1, <1>3, <1>4, <1>5

LEMMA InitTyped == Init => TypeOK /\ Shape
<1> SUFFICES ASSUME Init PROVE TypeOK /\ Shape
  OBVIOUS
<1>1. m \in Seq(Function)
  BY ModulesAssumption DEF Init
<1>2. TypeOK
  <2>1. idom_ \in [Block \cup {Null} -> Block \cup {Null}] BY DEF Init
  <2>2. /\ dom_frontier_ \in [Block \cup {Null} -> SUBSET Block]
        /\ dom_tree_succ_blocks_ \in [Block \cup {Null} -> SUBSET Block]
    BY DEF Init
  <2>3. post_order_id_ \in [Block -> Nat] BY DEF Init
  <2>4. stack \in Seq(Block \X (Nat \ {0})) /\ reverse_post_order_ \in Seq(Block) BY DEF Init
  <2>5. visited \in SUBSET Block /\ at \in Nat \ {0} /\ k \in Nat \ {0}
    BY DEF Init
  <2>6. changed \in BOOLEAN BY DEF Init
  <2> QED BY <1>1, <2>1, <2>2, <2>3, <2>4, <2>5, <2>6 DEF Init, TypeOK
<1>3. WellFormed(m)
  BY FunctionsAssumption DEF Init, WellFormed
<1> QED BY <1>2, <1>3 DEF Init, Shape, Folding

\* The functions after the first one.
LEMMA TailTyped ==
  ASSUME TypeOK, Shape, m # <<>>
  PROVE  Tail(m) \in Seq(Function) /\ WellFormed(Tail(m))
<1>1. /\ m \in Seq(Function) /\ WellFormed(m) /\ Tail(m) \in Seq(Function)
      /\ Len(Tail(m)) = Len(m) - 1 /\ Len(m) \in Nat
      /\ \A i \in 1..Len(Tail(m)) : Tail(m)[i] = m[i + 1]
  BY DEF TypeOK, Shape
<1>2. ASSUME NEW i \in DOMAIN Tail(m), NEW j \in DOMAIN Tail(m)
      PROVE  /\ i + 1 \in DOMAIN m /\ j + 1 \in DOMAIN m /\ (i # j => i + 1 # j + 1)
             /\ Tail(m)[i] = m[i + 1] /\ Tail(m)[j] = m[j + 1]
  BY <1>1
<1>3. WellFormed(Tail(m))
  BY <1>1, <1>2, ZenonT(40) DEF WellFormed
<1> QED BY <1>1, <1>3

LEMMA StepTyped == TypeOK /\ Shape /\ [Next]_vars => TypeOK' /\ Shape'
<1> SUFFICES ASSUME TypeOK, Shape, [Next]_vars PROVE TypeOK' /\ Shape'
  OBVIOUS
<1> USE DEF Folding, Sweeping, Walking, After
<1>f. m' = m => f' = f /\ root' = root
  BY DEF f, root
<1>b. m # <<>> => /\ f.blocks \in Seq(Block) /\ f.succ \in [Block -> Seq(Block)]
                  /\ f.pre \in [Block -> Seq(Block)] /\ (f.blocks # <<>> => root \in Block)
  BY CurrentFunction
<1>c. /\ pc \in Folding => bb \in Block
      /\ pc = "block" /\ at <= Len(reverse_post_order_) => bb \in Block
      /\ pc \in Walking /\ at <= Len(f.blocks) => bb \in Block
  BY CurrentBlock
<1>1. CASE SkipDeclaration
  BY <1>1, TailTyped DEF SkipDeclaration, TypeOK, Shape, visiting, results, cursors
<1>2. CASE StartFunction
  <2>1. <<root, 1>> \in Block \X (Nat \ {0}) /\ [b \in Block |-> 0] \in [Block -> Nat]
    BY <1>2, <1>b DEF StartFunction
  <2>2. stack' \in Seq(Block \X (Nat \ {0})) /\ visited' \in SUBSET Block
        /\ reverse_post_order_' \in Seq(Block)
    BY <1>2, <2>1, <1>b DEF StartFunction
  <2>3. TypeOK'
    BY <1>2, <2>1, <2>2 DEF StartFunction, TypeOK, results, cursors
  <2> QED BY <1>2, <2>3, <1>f DEF StartFunction, Shape
<1>3. CASE VisitSucc
  <2> DEFINE top == stack[Len(stack)]
             list == f.succ[top[1]]
             rest == [stack EXCEPT ![Len(stack)] = <<top[1], top[2] + 1>>]
  <2>1. /\ pc = "visit" /\ stack # <<>> /\ stack \in Seq(Block \X (Nat \ {0}))
        /\ m # <<>>
    BY <1>3 DEF VisitSucc, TypeOK, Shape
  <2>20. Len(stack) \in Nat \ {0} /\ top \in Block \X (Nat \ {0})
    BY <2>1
  <2>2. /\ Len(stack) \in Nat \ {0} /\ top[1] \in Block /\ top[2] \in Nat \ {0}
        /\ list \in Seq(Block)
    <3> HIDE DEF top
    <3> QED BY <2>20, <2>1, <1>b
  <2>3. /\ top[2] <= Len(list)
        /\ visited' = visited \cup {list[top[2]]}
        /\ stack' = IF list[top[2]] \in visited THEN rest ELSE Append(rest, <<list[top[2]], 1>>)
    BY <1>3 DEF VisitSucc
  <2> HIDE DEF list
  <2>4. list[top[2]] \in Block
    BY <2>2, <2>3
  <2>5. rest \in Seq(Block \X (Nat \ {0}))
    <3> HIDE DEF top
    <3>1. <<top[1], top[2] + 1>> \in Block \X (Nat \ {0})
      BY <2>2
    <3> QED BY <3>1, <2>1
  <2> HIDE DEF rest, top
  <2>6. <<list[top[2]], 1>> \in Block \X (Nat \ {0})
    BY <2>4
  <2>7. stack' \in Seq(Block \X (Nat \ {0})) /\ visited' \in SUBSET Block
    BY <2>3, <2>4, <2>5, <2>6 DEF TypeOK
  <2>8. TypeOK'
    BY <1>3, <2>7 DEF VisitSucc, TypeOK, results, cursors
  <2> QED BY <1>3, <2>8, <1>f DEF VisitSucc, Shape
<1>4. CASE FinishVisit
  <2>1. /\ pc = "visit" /\ stack # <<>> /\ stack \in Seq(Block \X (Nat \ {0}))
        /\ reverse_post_order_ \in Seq(Block) /\ post_order_id_ \in [Block -> Nat]
    BY <1>4 DEF FinishVisit, TypeOK
  <2>2. Len(stack) \in Nat \ {0} /\ stack[Len(stack)][1] \in Block /\ PostOrderId \in Nat
    BY <2>1 DEF PostOrderId
  <2>3. /\ stack' \in Seq(Block \X (Nat \ {0})) /\ reverse_post_order_' \in Seq(Block)
        /\ post_order_id_' \in [Block -> Nat]
    BY <1>4, <2>1, <2>2 DEF FinishVisit
  <2>4. TypeOK'
    BY <1>4, <2>3 DEF FinishVisit, TypeOK, results, cursors
  <2> QED BY <1>4, <2>4, <1>f DEF FinishVisit, Shape
<1>5. CASE StartIdom
  <2>1. Reversed(reverse_post_order_) \in Seq(Block)
    <3>1. reverse_post_order_ \in Seq(Block) /\ Len(reverse_post_order_) \in Nat
      BY DEF TypeOK
    <3>2. \A i \in 1..Len(reverse_post_order_) :
            reverse_post_order_[Len(reverse_post_order_) + 1 - i] \in Block
      BY <3>1
    <3> QED BY <3>1, <3>2 DEF Reversed
  <2>2. idom_' \in [Block \cup {Null} -> Block \cup {Null}]
    BY <1>5, <1>b DEF StartIdom, TypeOK, Shape
  <2>3. TypeOK'
    BY <1>5, <2>1, <2>2 DEF StartIdom, TypeOK, cursors
  <2> QED BY <1>5, <2>3, <1>f DEF StartIdom, Shape
<1>6. CASE StartSweep
  <2>1. changed' \in BOOLEAN BY <1>6 DEF StartSweep
  <2>2. TypeOK' BY <1>6, <2>1 DEF StartSweep, TypeOK, visiting, results
  <2> QED BY <1>6, <2>2, <1>f DEF StartSweep, Shape
<1>7. CASE SkipRoot
  BY <1>7, <1>f DEF SkipRoot, TypeOK, Shape, visiting, results
<1>8. CASE FindPred
  <2>1. pc = "block" /\ at <= Len(reverse_post_order_) /\ bb # root
    BY <1>8 DEF FindPred
  <2>2. f.pre[bb] \in Seq(Block)
    BY <2>1, <1>b, <1>c DEF Shape
  <2>3. CASE Processed(bb) = {}
    BY <1>8, <2>1, <2>3, <1>f DEF FindPred, TypeOK, Shape, visiting, results
  <2>4. CASE Processed(bb) # {}
    <3> DEFINE first == CHOOSE i \in Processed(bb) : \A j \in Processed(bb) : i <= j
    <3>1. PICK i \in Processed(bb) : \A j \in Processed(bb) : i <= j
      <4>1. Processed(bb) \in SUBSET Nat BY DEF Processed
      <4> QED BY <4>1, <2>4, LeastNat
    <3>2. first \in Processed(bb)
      BY <3>1
    <3> HIDE DEF first
    <3>3. f.pre[bb][first] \in Block
      BY <3>2, <2>2 DEF Processed
    <3>4. /\ pred' = f.pre[bb][first] /\ new_idom' = pred' /\ k' = 1 /\ pc' = "preds"
          /\ UNCHANGED <<m, visiting, results, changed, at, finger, runner>>
      BY <1>8, <2>4 DEF FindPred, first
    <3>5. bb' = bb BY <3>4, <2>1 DEF bb, visiting
    <3>6. TypeOK' BY <3>3, <3>4 DEF TypeOK, visiting, results
    <3>7. Shape' BY <3>4, <3>5, <2>1, <1>f DEF Shape, visiting, results
    <3> QED BY <3>6, <3>7
  <2> QED BY <2>3, <2>4
<1>9. CASE SkipPred
  <2>1. bb' = bb BY <1>9 DEF SkipPred, bb, visiting
  <2> QED BY <1>9, <2>1, <1>f, SMTT(30) DEF SkipPred, TypeOK, Shape, visiting, results
<1>10. CASE StartIntersect
  <2>1. f.pre[bb] \in Seq(Block) /\ k \in 1..Len(f.pre[bb])
    BY <1>10, <1>b, <1>c DEF StartIntersect, TypeOK, Shape
  <2>2. finger' \in Block
    BY <1>10, <2>1 DEF StartIntersect
  <2>3. bb' = bb BY <1>10 DEF StartIntersect, bb, visiting
  <2> QED BY <1>10, <2>2, <2>3, <1>f DEF StartIntersect, TypeOK, Shape, visiting, results
<1>11. CASE ClimbFirst
  <2>1. bb' = bb BY <1>11 DEF ClimbFirst, Climb, bb, visiting
  <2>2. finger' \in Block \cup {Null}
    BY <1>11 DEF ClimbFirst, TypeOK
  <2>3. TypeOK'
    BY <1>11, <2>2 DEF ClimbFirst, Climb, TypeOK, visiting, results
  <2> QED BY <1>11, <2>1, <2>3, <1>f DEF ClimbFirst, Climb, Shape, visiting, results
<1>12. CASE ClimbSecond
  <2>1. bb' = bb BY <1>12 DEF ClimbSecond, Climb, bb, visiting
  <2>2. new_idom' \in Block \cup {Null}
    BY <1>12 DEF ClimbSecond, TypeOK
  <2>3. TypeOK'
    BY <1>12, <2>2 DEF ClimbSecond, Climb, TypeOK, visiting, results
  <2> QED BY <1>12, <2>1, <2>3, <1>f DEF ClimbSecond, Climb, Shape, visiting, results
<1>13. CASE Meet
  <2>1. bb' = bb BY <1>13 DEF Meet, bb, visiting
  <2> QED BY <1>13, <2>1, <1>f DEF Meet, TypeOK, Shape, visiting, results
<1>14. CASE SetIdom
  <2>1. changed' \in BOOLEAN BY <1>14 DEF SetIdom, Changed, TypeOK
  <2>2. idom_' \in [Block \cup {Null} -> Block \cup {Null}]
    BY <1>14 DEF SetIdom, TypeOK
  <2>3. TypeOK'
    BY <1>14, <2>1, <2>2 DEF SetIdom, TypeOK, visiting
  <2> QED BY <1>14, <2>3, <1>f DEF SetIdom, Shape
<1>15. CASE EndOfSweep
  BY <1>15, <1>f DEF EndOfSweep, TypeOK, Shape, visiting, results, cursors
<1>16. CASE StartFrontier
  BY <1>16, <1>f DEF StartFrontier, TypeOK, Shape, visiting, results
<1>17. CASE SkipNonJoin
  BY <1>17, <1>f DEF SkipNonJoin, TypeOK, Shape, visiting, results
<1>18. CASE StartJoin
  <2>1. /\ f.pre[bb] \in Seq(Block) /\ Len(f.pre[bb]) >= 2 /\ m # <<>> /\ f.blocks # <<>>
    BY <1>18, <1>b, <1>c DEF StartJoin, IsJoin, Shape
  <2>2. runner' \in Block
    BY <1>18, <2>1 DEF StartJoin
  <2>3. bb' = bb BY <1>18, <1>f DEF StartJoin, bb
  <2>4. TypeOK' BY <1>18, <2>2 DEF StartJoin, TypeOK, visiting, results
  <2> QED BY <1>18, <2>1, <2>3, <2>4, <1>f DEF StartJoin, IsJoin, Shape, visiting, results
<1>19. CASE Run
  <2>1. bb' = bb /\ (IsJoin(bb) => IsJoin(bb)') BY <1>19, <1>f DEF Run, bb, IsJoin
  <2>2. bb \in Block BY <1>19, <1>c DEF Run, Shape
  <2>3. /\ dom_frontier_' \in [Block \cup {Null} -> SUBSET Block]
        /\ runner' \in Block \cup {Null}
    BY <1>19, <2>2 DEF Run, TypeOK
  <2> QED BY <1>19, <2>1, <2>3, <1>f DEF Run, TypeOK, Shape, visiting
<1>21. CASE EndOfRun
  <2>1. f.pre[bb] \in Seq(Block)
    BY <1>21, <1>b, <1>c DEF EndOfRun, Shape
  <2>2. CASE k < Len(f.pre[bb])
    <3>0. /\ k' = k + 1 /\ runner' = f.pre[bb][k + 1] /\ at' = at /\ pc' = pc /\ k \in Nat \ {0}
          /\ pc = "runner" /\ UNCHANGED <<m, visiting, results, changed, pred, new_idom, finger>>
      BY <1>21, <2>2 DEF EndOfRun, TypeOK
    <3>1. runner' \in Block
      <4> HIDE DEF bb
      <4> QED BY <3>0, <2>1, <2>2
    <3>2. bb' = bb BY <3>0, <1>f DEF bb
    <3>3. TypeOK' BY <3>0, <3>1 DEF TypeOK, visiting, results
    <3>4. k' <= Len(f'.pre[bb']) BY <3>0, <3>2, <2>1, <2>2, <1>f
    <3> QED BY <3>0, <3>2, <3>3, <3>4, <1>f DEF IsJoin, Shape, visiting, results
  <2>3. CASE ~(k < Len(f.pre[bb]))
    BY <1>21, <2>3, <1>f, SMTT(30) DEF EndOfRun, TypeOK, Shape, visiting, results
  <2> QED BY <2>2, <2>3
<1>22. CASE CreateDomTree
  <2>1. dom_tree_succ_blocks_' \in [Block \cup {Null} -> SUBSET Block]
    <3>1. \A d : DomChildren(d) \subseteq Block
      BY <1>22, <1>b DEF CreateDomTree, DomChildren, Image, Shape
    <3> QED BY <1>22, <3>1 DEF CreateDomTree, TypeOK
  <2> QED BY <1>22, <2>1, TailTyped DEF CreateDomTree, TypeOK, Shape, visiting, cursors
<1>20. CASE UNCHANGED vars
  BY <1>20, <1>f DEF vars, TypeOK, Shape, bb, IsJoin
<1> QED
  BY <1>1, <1>2, <1>3, <1>4, <1>5, <1>6, <1>7, <1>8, <1>9, <1>10, <1>11, <1>12, <1>13,
     <1>14, <1>15, <1>16, <1>17, <1>18, <1>19, <1>20, <1>21, <1>22 DEF Next

\* The variables have their types and the cursors stay inside their lists.
THEOREM Typed == Spec => [](TypeOK /\ Shape)
<1> QED BY InitTyped, StepTyped, PTL DEF Spec

-----------------------------------------------------------------------------
\* The graph of the current function: its two lists are inverse, and no edge
\* leaves the function or what its entry reaches.
LEMMA CurrentGraph ==
  ASSUME TypeOK, Shape, pc # "function"
  PROVE  /\ Graph(Block, Edges, root)
         /\ f.succ \in [Block -> Seq(Block)] /\ f.pre \in [Block -> Seq(Block)]
         /\ root \in Reachable /\ Reachable \subseteq Image(f.blocks)
         /\ Image(f.blocks) \subseteq Block
         /\ \A b \in Block : Edges[b] = Image(f.succ[b])
         /\ \A b \in Reachable : \A s \in Image(f.succ[b]) :
              s \in Reachable /\ b \in Image(f.pre[s])
         /\ \A b \in Image(f.blocks) : \A p \in Image(f.pre[b]) :
              p \in Image(f.blocks) /\ b \in Image(f.succ[p])
<1>1. /\ m # <<>> /\ f.blocks # <<>> /\ f.blocks \in Seq(Block) /\ f.succ \in [Block -> Seq(Block)]
      /\ f.pre \in [Block -> Seq(Block)] /\ root \in Block /\ root \in Image(f.blocks)
  BY CurrentFunction DEF Shape
<1>2. ListsAgree(f)
  <2>1. 1 \in DOMAIN m /\ f = m[1]
    BY <1>1 DEF TypeOK, f
  <2> QED BY <2>1 DEF Shape, WellFormed
<1>3. /\ \A b \in Image(f.blocks) : Image(f.succ[b]) \cup Image(f.pre[b]) \subseteq Image(f.blocks)
      /\ \A b, p \in Image(f.blocks) : p \in Image(f.pre[b]) <=> b \in Image(f.succ[p])
  BY <1>2 DEF ListsAgree
<1>4. Image(f.blocks) \subseteq Block /\ \A b \in Block : Image(f.succ[b]) \subseteq Block
  <2>1. \A s \in Seq(Block) : Image(s) \subseteq Block
    BY DEF Image
  <2>2. \A b \in Block : f.succ[b] \in Seq(Block)
    BY <1>1
  <2> QED BY <2>1, <2>2, <1>1
<1>5. /\ Graph(Block, Edges, root)
      /\ \A b \in Block : Edges[b] = Image(f.succ[b])
  BY <1>1, <1>4, BlockAssumption DEF Graph, Edges
<1>6. /\ root \in Reachable /\ Reachable \in SUBSET Block
      /\ \A b \in Reachable : Edges[b] \subseteq Reachable
  BY <1>5, ReachFromEntry DEF Reachable
<1>7. Reachable \subseteq Image(f.blocks)
  <2> DEFINE S == Image(f.blocks)
  <2>1. root \in S /\ \A b \in S \cap Block : Edges[b] \subseteq S
    BY <1>1, <1>3, <1>5
  <2> HIDE DEF S
  <2>2. Reach(Edges, {root}) \subseteq S
    BY <2>1, <1>5, ReachInside
  <2> QED BY <2>2 DEF S, Reachable
<1> QED BY <1>1, <1>3, <1>4, <1>5, <1>6, <1>7

\* As long as the module stays, so does the graph.
LEMMA GraphStays ==
  ASSUME m' = m
  PROVE  f' = f /\ root' = root /\ Edges' = Edges /\ Reachable' = Reachable
BY DEF f, root, Edges, Reachable

LEMMA VisitStarts == TypeOK /\ Shape /\ StartFunction /\ Shape' => Visit'
<1> SUFFICES ASSUME TypeOK, Shape, StartFunction, Shape' PROVE Visit'
  OBVIOUS
<1>1. /\ pc = "function" /\ m # <<>> /\ f.blocks # <<>> /\ reverse_post_order_' = <<>>
      /\ visited' = {root} /\ stack' = <<<<root, 1>>>> /\ m' = m
  BY DEF StartFunction
<1>2. f' = f /\ root' = root /\ Reachable' = Reachable
  BY <1>1, GraphStays
<1>3. root \in Reachable
  <2>1. f.blocks \in Seq(Block) /\ f.succ \in [Block -> Seq(Block)] /\ root \in Block
    BY <1>1, CurrentFunction
  <2>2. \A b \in Block : Image(f.succ[b]) \subseteq Block
    BY <2>1 DEF Image
  <2>3. Graph(Block, Edges, root)
    BY <2>1, <2>2, BlockAssumption DEF Graph, Edges
  <2> QED BY <2>3, ReachFromEntry DEF Reachable
<1>4. Len(stack') = 1 /\ stack'[1] = <<root, 1>> /\ Len(reverse_post_order_') = 0 /\ stack' # <<>>
  BY <1>1
<1>5. stack'[1][1] = root /\ stack'[1][2] = 1
  BY <1>4
<1>6. Open' = {root} /\ Image(reverse_post_order_') = {}
  BY <1>4, <1>5 DEF Open, Image
<1>7. Numbered' /\ Reached' /\ Nested' /\ EntryLast'
  BY <1>2, <1>4, <1>5 DEF Numbered, Reached, Nested, EntryLast
<1> QED BY <1>1, <1>2, <1>3, <1>6, <1>7 DEF Visit

LEMMA VisitGoesOn == TypeOK /\ Shape /\ Visit /\ VisitSucc => Visit'
<1> SUFFICES ASSUME TypeOK, Shape, Visit, VisitSucc PROVE Visit'
  OBVIOUS
<1> DEFINE n == Len(stack)
           t == stack[n][1]
           c == stack[n][2]
           list == f.succ[t]
           b == list[c]
<1>1. /\ pc = "visit" /\ stack # <<>> /\ stack \in Seq(Block \X (Nat \ {0})) /\ m' = m
      /\ reverse_post_order_' = reverse_post_order_ /\ post_order_id_' = post_order_id_
      /\ reverse_post_order_ \in Seq(Block)
  BY DEF VisitSucc, TypeOK, visiting
<1>2. /\ f' = f /\ root' = root /\ Reachable' = Reachable
  BY <1>1, GraphStays
<1>3. /\ n \in Nat \ {0} /\ n \in 1..n /\ t \in Block /\ c \in Nat \ {0}
      /\ \A i \in 1..n : stack[i] = <<stack[i][1], stack[i][2]>>
  <2>1. n \in Nat \ {0} /\ n \in 1..n /\ \A i \in 1..n : stack[i] \in Block \X (Nat \ {0})
    BY <1>1
  <2> QED BY <2>1
<1>4. /\ c <= Len(list) /\ visited' = visited \cup {b}
      /\ stack' = IF b \in visited THEN [stack EXCEPT ![n] = <<t, c + 1>>]
                  ELSE Append([stack EXCEPT ![n] = <<t, c + 1>>], <<b, 1>>)
  BY DEF VisitSucc
<1>5. /\ list \in Seq(Block) /\ c \in 1..Len(list) /\ b \in Block
      /\ t \in Open /\ t \in Reachable
  <2>1. list \in Seq(Block) BY <1>1, <1>3, CurrentGraph
  <2>2. t \in Open BY <1>3 DEF Open
  <2>3. t \in Reachable BY <1>1, <2>2 DEF Visit
  <2> HIDE DEF t, c, list
  <2> QED BY <2>1, <2>2, <2>3, <1>3, <1>4
<1>6. b \in Reachable /\ t \in Image(f.pre[b])
  <2>1. b \in Image(list) BY <1>5 DEF Image
  <2> HIDE DEF b
  <2> QED BY <1>1, <1>5, <2>1, CurrentGraph
<1>7. /\ Len(stack') = IF b \in visited THEN n ELSE n + 1
      /\ \A i \in 1..n : /\ stack'[i][1] = stack[i][1]
                         /\ stack'[i][2] = IF i = n THEN c + 1 ELSE stack[i][2]
      /\ b \notin visited => stack'[n + 1][1] = b /\ stack'[n + 1][2] = 1
  <2> DEFINE rest == [stack EXCEPT ![n] = <<t, c + 1>>]
  <2>1. /\ Len(rest) = n /\ rest \in Seq(Block \X (Nat \ {0}))
        /\ \A i \in 1..n : rest[i] = IF i = n THEN <<t, c + 1>> ELSE stack[i]
    <3> HIDE DEF t, c
    <3>1. <<t, c + 1>> \in Block \X (Nat \ {0}) BY <1>3
    <3> QED BY <3>1, <1>1, <1>3
  <2>2. stack' = IF b \in visited THEN rest ELSE Append(rest, <<b, 1>>)
    BY <1>4
  <2>3. \A i \in 1..n : rest[i][1] = stack[i][1] /\ rest[i][2] = IF i = n THEN c + 1 ELSE stack[i][2]
    BY <2>1
  <2> HIDE DEF rest, b, t, c
  <2>4. CASE b \in visited BY <2>1, <2>2, <2>3, <2>4
  <2>5. CASE b \notin visited
    <3>1. /\ Len(stack') = n + 1 /\ stack'[n + 1] = <<b, 1>>
          /\ \A i \in 1..n : stack'[i] = rest[i]
      BY <2>1, <2>2, <2>5, <1>3, <1>5
    <3> QED BY <3>1, <2>3, <2>5
  <2> QED BY <2>4, <2>5
<1> HIDE DEF b, list, t, c
<1>8. Open' = IF b \in visited THEN Open ELSE Open \cup {b}
  BY <1>3, <1>7 DEF Open
<1>9. visited' = Image(reverse_post_order_)' \cup Open' /\ visited' \subseteq Reachable'
  BY <1>1, <1>2, <1>4, <1>6, <1>8 DEF Visit, Image
<1>10. Numbered'
  <2>1. ASSUME b \notin visited, NEW i \in 1..Len(reverse_post_order_)
        PROVE  reverse_post_order_[i] # b
    BY <2>1, <1>1 DEF Visit, Image
  <2> QED BY <2>1, <1>1, <1>2, <1>4, <1>8 DEF Visit, Numbered
<1>11. Reached'
  BY <1>1, <1>2, <1>8 DEF Visit, Reached
<1>12. Nested'
  <2>1. /\ \A i, j \in 1..n : i # j => stack[i][1] # stack[j][1]
        /\ \A i \in 1..n : stack[i][1] \in visited
    BY <1>1 DEF Visit, Nested, Open
  <2>2. \A i, j \in 1..Len(stack') : i # j => stack'[i][1] # stack'[j][1]
    <3>1. CASE b \in visited BY <3>1, <2>1, <1>3, <1>7
    <3>2. CASE b \notin visited
      <4>1. ASSUME NEW i \in 1..Len(stack') PROVE i \in 1..n \/ i = n + 1
        BY <3>2, <1>3, <1>7
      <4> QED BY <4>1, <3>2, <2>1, <1>7
    <3> QED BY <3>1, <3>2
  <2>3. ASSUME NEW i \in 1..n
        PROVE  /\ \A j \in 1..Len(f.succ[stack'[i][1]]) :
                    j < stack'[i][2] => f.succ[stack'[i][1]][j] \in visited'
               /\ i = 1 => stack'[i][1] = root
               /\ i # 1 => stack'[i - 1][1] \in Image(f.pre[stack'[i][1]])
    <3>1. /\ \A j \in 1..Len(f.succ[stack[i][1]]) :
               j < stack[i][2] => f.succ[stack[i][1]][j] \in visited
          /\ i = 1 => stack[i][1] = root
          /\ i # 1 => stack[i - 1][1] \in Image(f.pre[stack[i][1]])
      BY <1>1 DEF Visit, Nested
    <3>2. i # 1 => i - 1 \in 1..n BY <1>3
    <3>3. CASE i # n BY <3>1, <3>2, <3>3, <1>4, <1>7
    <3>4. CASE i = n
      <4>1. \A j \in 1..Len(list) : j < c + 1 => list[j] \in visited'
        <5>1. \A j \in 1..Len(list) : j < c => list[j] \in visited
          BY <3>1, <3>4 DEF list, t, c
        <5>2. \A j \in 1..Len(list) : j < c + 1 => j < c \/ j = c
          BY <1>3
        <5> QED BY <5>1, <5>2, <1>4 DEF b
      <4>2. stack'[i][1] = t /\ stack'[i][2] = c + 1 BY <3>4, <1>7 DEF t
      <4> QED BY <4>1, <4>2, <3>1, <3>2, <1>7 DEF list
    <3> QED BY <3>3, <3>4
  <2>4. ASSUME b \notin visited
        PROVE  /\ n + 1 # 1 /\ stack'[n + 1][2] = 1
               /\ stack'[(n + 1) - 1][1] \in Image(f.pre[stack'[n + 1][1]])
    <3>1. (n + 1) - 1 = n /\ n + 1 # 1 /\ stack'[n][1] = t BY <1>3, <1>7 DEF t
    <3>2. stack'[n + 1][1] = b /\ stack'[n + 1][2] = 1 BY <2>4, <1>7
    <3> QED BY <3>1, <3>2, <1>6
  <2>5. ASSUME NEW i \in 1..Len(stack')
        PROVE  /\ \A j \in 1..Len(f.succ[stack'[i][1]]) :
                    j < stack'[i][2] => f.succ[stack'[i][1]][j] \in visited'
               /\ i = 1 => stack'[i][1] = root
               /\ i # 1 => stack'[i - 1][1] \in Image(f.pre[stack'[i][1]])
    <3>1. CASE i \in 1..n BY <3>1, <2>3
    <3>2. CASE i \notin 1..n
      <4>1. i = n + 1 /\ b \notin visited BY <3>2, <1>3, <1>7
      <4>2. stack'[i][2] = 1 /\ i # 1 /\ stack'[i - 1][1] \in Image(f.pre[stack'[i][1]])
        BY <4>1, <2>4
      <4>3. \A j \in 1..Len(f.succ[stack'[i][1]]) : ~(j < 1) OBVIOUS
      <4> QED BY <4>2, <4>3
    <3> QED BY <3>1, <3>2
  <2> QED BY <2>2, <2>5, <1>2 DEF Nested
<1>13. EntryLast'
  <2>1. stack' # <<>> BY <1>3, <1>7
  <2> QED BY <2>1 DEF EntryLast
<1> QED BY <1>9, <1>10, <1>11, <1>12, <1>13 DEF Visit

LEMMA VisitReturns == TypeOK /\ Shape /\ Visit /\ FinishVisit => Visit'
<1> SUFFICES ASSUME TypeOK, Shape, Visit, FinishVisit PROVE Visit'
  OBVIOUS
<1> DEFINE n == Len(stack)
           t == stack[n][1]
           P == reverse_post_order_
           l == Len(P)
<1>1. /\ pc = "visit" /\ stack # <<>> /\ stack \in Seq(Block \X (Nat \ {0})) /\ m' = m
      /\ visited' = visited /\ P \in Seq(Block) /\ post_order_id_ \in [Block -> Nat]
  BY DEF FinishVisit, TypeOK
<1>2. /\ f' = f /\ root' = root /\ Reachable' = Reachable
  BY <1>1, GraphStays
<1>3. n \in Nat \ {0} /\ n \in 1..n /\ t \in Block /\ l \in Nat
  <2>1. n \in Nat \ {0} /\ n \in 1..n /\ stack[n] \in Block \X (Nat \ {0}) /\ l \in Nat
    BY <1>1
  <2> QED BY <2>1
<1>4. /\ stack[n][2] > Len(f.succ[t])
      /\ post_order_id_' = [post_order_id_ EXCEPT ![t] = l]
      /\ P' = Append(P, t)
      /\ stack' = SubSeq(stack, 1, n - 1)
  BY DEF FinishVisit, PostOrderId
<1>50. Len(P') = l + 1 /\ P'[l + 1] = t /\ \A i \in 1..l : P'[i] = P[i] /\ P[i] \in Block
  <2>1. ASSUME NEW Q \in Seq(Block), NEW x \in Block
        PROVE  /\ Len(Append(Q, x)) = Len(Q) + 1 /\ Append(Q, x)[Len(Q) + 1] = x
               /\ \A i \in 1..Len(Q) : Append(Q, x)[i] = Q[i] /\ Q[i] \in Block
    OBVIOUS
  <2>2. P \in Seq(Block) /\ t \in Block /\ P' = Append(P, t) BY <1>1, <1>3, <1>4
  <2> HIDE DEF t, P
  <2> QED BY <2>1, <2>2
<1>51. Len(stack') = n - 1 /\ \A i \in 1..(n - 1) : stack'[i] = stack[i]
  <2> DEFINE S == Block \X (Nat \ {0})
  <2>1. stack \in Seq(S) /\ n = Len(stack) /\ n \in Nat \ {0} /\ stack' = SubSeq(stack, 1, n - 1)
    BY <1>1, <1>3, <1>4
  <2> HIDE DEF S, n
  <2> QED BY <2>1, SubSeqProperties
<1>5. /\ Len(P') = l + 1 /\ P'[l + 1] = t /\ \A i \in 1..l : P'[i] = P[i] /\ P[i] \in Block
      /\ Len(stack') = n - 1 /\ \A i \in 1..(n - 1) : stack'[i] = stack[i] /\ i \in 1..n
  <2>1. \A i \in 1..(n - 1) : i \in 1..n BY <1>3
  <2> QED BY <2>1, <1>50, <1>51
<1>6. /\ \A i \in 1..l : /\ post_order_id_[P[i]] = i - 1 /\ P[i] \notin Open
                         /\ Image(f.succ[P[i]]) \subseteq visited
      /\ \A i, j \in 1..n : i # j => stack[i][1] # stack[j][1]
      /\ \A j \in 1..Len(f.succ[t]) : j < stack[n][2] => f.succ[t][j] \in visited
  BY <1>1, <1>3 DEF Visit, Numbered, Nested
<1> HIDE DEF t, P, l
<1>7. t \in Open /\ Open = Open' \cup {t} /\ t \notin Open'
  <2>1. \A i \in 1..n : i \in 1..(n - 1) \/ i = n BY <1>3
  <2>2. \A i \in 1..(n - 1) : i # n BY <1>3
  <2>3. Open' = {stack[i][1] : i \in 1..(n - 1)} BY <1>5 DEF Open
  <2>4. \A i \in 1..(n - 1) : stack[i][1] # stack[n][1] BY <2>2, <1>3, <1>5, <1>6
  <2>5. \A i \in 1..(n - 1) : i \in 1..n BY <1>5
  <2> HIDE DEF n
  <2>6. Len(stack) = n BY DEF n
  <2> QED BY <2>1, <2>3, <2>4, <2>5, <2>6, <1>3 DEF Open, t
<1>8. \A i \in 1..Len(P') : i \in 1..l \/ i = l + 1
  BY <1>3, <1>5
<1>9. Image(P') = Image(P) \cup {t}
  <2>1. \A i \in 1..l : i \in 1..Len(P') BY <1>3, <1>5
  <2>2. l + 1 \in 1..Len(P') BY <1>3, <1>5
  <2>3. l = Len(P) BY DEF l
  <2> QED BY <1>5, <1>8, <2>1, <2>2, <2>3 DEF Image
<1>10. visited' = Image(reverse_post_order_)' \cup Open' /\ visited' \subseteq Reachable'
  BY <1>1, <1>2, <1>7, <1>9 DEF Visit, P, Image
<1>11. Image(f.succ[t]) \subseteq visited
  <2>1. Len(f.succ[t]) \in Nat /\ stack[n][2] \in Nat
    <3>1. f.succ[t] \in Seq(Block) BY <1>1, <1>3, CurrentGraph
    <3>2. stack[n] \in Block \X (Nat \ {0}) BY <1>1, <1>3
    <3> QED BY <3>1, <3>2
  <2> QED BY <2>1, <1>4, <1>6 DEF Image
<1>12. Numbered'
  <2> SUFFICES ASSUME NEW i \in 1..Len(P')
               PROVE  /\ post_order_id_'[P'[i]] = i - 1 /\ P'[i] \notin Open'
                      /\ Image(f.succ[P'[i]]) \subseteq visited'
    BY <1>2 DEF Numbered, P
  <2>1. CASE i \in 1..l
    <3>1. P'[i] = P[i] /\ P[i] # t /\ P[i] \in Block BY <2>1, <1>5, <1>6, <1>7
    <3> QED BY <3>1, <2>1, <1>1, <1>4, <1>6, <1>7
  <2>2. CASE i = l + 1
    <3>1. P'[i] = t /\ post_order_id_'[t] = l BY <2>2, <1>1, <1>3, <1>4, <1>5
    <3> QED BY <3>1, <2>2, <1>1, <1>3, <1>7, <1>11
  <2> QED BY <2>1, <2>2, <1>8
<1>13. Reached'
  <2> SUFFICES ASSUME NEW i \in 1..Len(P'), P'[i] # root
               PROVE  \E p \in Image(f.pre[P'[i]]) :
                        p \in Open' \/ \E j \in (i + 1)..Len(P') : p = P'[j]
    BY <1>2 DEF Reached, P
  <2>1. CASE i \in 1..l
    <3>1. PICK p \in Image(f.pre[P[i]]) : p \in Open \/ \E j \in (i + 1)..l : p = P[j]
      BY <2>1, <1>1, <1>5 DEF Visit, Reached, P, l
    <3>2. CASE p \in Open'
      BY <3>1, <3>2, <2>1, <1>5
    <3>3. CASE p = t
      <4>1. l + 1 \in (i + 1)..Len(P') /\ P'[l + 1] = t BY <2>1, <1>3, <1>5
      <4> QED BY <4>1, <3>1, <3>3, <2>1, <1>5
    <3>4. CASE \E j \in (i + 1)..l : p = P[j]
      <4>1. PICK j \in (i + 1)..l : p = P[j] BY <3>4
      <4>2. j \in (i + 1)..Len(P') /\ P'[j] = P[j] BY <4>1, <2>1, <1>3, <1>5
      <4> QED BY <4>1, <4>2, <3>1, <2>1, <1>5
    <3> QED BY <3>1, <3>2, <3>3, <3>4, <1>7
  <2>2. CASE i = l + 1
    <3>1. P'[i] = t /\ t # root BY <2>2, <1>5
    <3>2. n # 1 /\ stack[n - 1][1] \in Image(f.pre[t])
      BY <3>1, <1>1, <1>3 DEF Visit, Nested, t
    <3>3. n # 1 BY <3>2
    <3>5. n - 1 \in 1..(n - 1) BY <3>3, <1>3
    <3>4. stack[n - 1][1] \in Open' BY <3>5, <1>5 DEF Open
    <3> QED BY <3>1, <3>2, <3>4
  <2> QED BY <2>1, <2>2, <1>8
<1>14. Nested'
  <2>1. ASSUME NEW i \in 1..(n - 1), i # 1 PROVE i - 1 \in 1..(n - 1) /\ i \in 1..n
    BY <2>1, <1>3
  <2>2. \A i \in 1..n :
           /\ \A c \in 1..Len(f.succ[stack[i][1]]) :
                c < stack[i][2] => f.succ[stack[i][1]][c] \in visited
           /\ i = 1 => stack[i][1] = root
           /\ i # 1 => stack[i - 1][1] \in Image(f.pre[stack[i][1]])
    BY <1>1 DEF Visit, Nested
  <2> HIDE DEF n
  <2>3. \A i, j \in 1..(n - 1) : i # j => stack'[i][1] # stack'[j][1]
    BY <1>5, <1>6
  <2>4. ASSUME NEW i \in 1..(n - 1)
        PROVE  /\ \A c \in 1..Len(f.succ[stack'[i][1]]) :
                    c < stack'[i][2] => f.succ[stack'[i][1]][c] \in visited
               /\ i = 1 => stack'[i][1] = root
               /\ i # 1 => stack'[i - 1][1] \in Image(f.pre[stack'[i][1]])
    <3>1. stack'[i] = stack[i] /\ i \in 1..n /\ (i # 1 => stack'[i - 1] = stack[i - 1])
      BY <2>1, <1>5
    <3> QED BY <3>1, <2>2
  <2> QED BY <2>3, <2>4, <1>1, <1>2, <1>5 DEF Nested
<1>15. EntryLast'
  <2> SUFFICES ASSUME stack' = <<>> PROVE P' # <<>> /\ P'[Len(P')] = root
    BY <1>2 DEF EntryLast, P
  <2>1. n = 1 BY <1>3, <1>5
  <2>2. t = root BY <2>1, <1>1, <1>3 DEF Visit, Nested, t
  <2> QED BY <2>2, <1>3, <1>5
<1> QED BY <1>10, <1>12, <1>13, <1>14, <1>15 DEF Visit

\* When the visit is over, its list turned round has the order Ordered asks for.
LEMMA VisitOrders == TypeOK /\ Shape /\ Visit /\ StartIdom => Ordered'
<1> SUFFICES ASSUME TypeOK, Shape, Visit, StartIdom PROVE Ordered'
  OBVIOUS
<1> DEFINE P == reverse_post_order_
           l == Len(P)
           R == Reversed(P)
<1>1. /\ pc = "visit" /\ stack = <<>> /\ m' = m /\ reverse_post_order_' = R
      /\ post_order_id_' = post_order_id_ /\ P \in Seq(Block)
  BY DEF StartIdom, TypeOK
<1>2. /\ f' = f /\ root' = root /\ Reachable' = Reachable
  BY <1>1, GraphStays
<1>3. l \in Nat /\ l # 0 /\ P[l] = root
  BY <1>1 DEF Visit, EntryLast
<1>4. Len(R) = l /\ \A i \in 1..l : R[i] = P[l + 1 - i] /\ l + 1 - i \in 1..l
  <2>1. R = [i \in 1..l |-> P[l + 1 - i]] BY DEF Reversed
  <2>2. \A i \in 1..l : l + 1 - i \in 1..l BY <1>3
  <2>3. \A i \in 1..l : P[i] \in Block BY <1>1
  <2>4. R \in [1..l -> Block] BY <2>1, <2>2, <2>3
  <2>5. R \in Seq(Block) /\ DOMAIN R = 1..l BY <2>4, <1>3
  <2>6. Len(R) = l
    <3> HIDE DEF R, l
    <3> QED BY <2>5, <1>3
  <2> HIDE DEF R
  <2> QED BY <2>1, <2>2, <2>6
<1> HIDE DEF R, P, l
<1>5. Open = {} /\ visited = Image(P) /\ visited \subseteq Reachable
  <2>1. 1..Len(stack) = {} BY <1>1
  <2>2. Open = {} BY <2>1 DEF Open
  <2> QED BY <2>2, <1>1 DEF Visit, P
<1>6. Image(R) = Image(P)
  <2>1. \A i \in 1..l : l + 1 - i \in 1..l /\ l + 1 - (l + 1 - i) = i BY <1>3
  <2>2. \A i \in 1..l : P[i] = R[l + 1 - i] BY <2>1, <1>4
  <2>3. Image(R) = {R[i] : i \in 1..l} BY <1>4 DEF Image
  <2>4. Image(P) = {P[i] : i \in 1..l} BY DEF Image, l
  <2>5. ASSUME NEW i \in 1..l PROVE R[i] \in {P[j] : j \in 1..l} BY <1>4
  <2>6. ASSUME NEW i \in 1..l PROVE P[i] \in {R[j] : j \in 1..l} BY <2>1, <2>2
  <2>7. Image(R) \subseteq Image(P) BY <2>3, <2>4, <2>5
  <2>8. Image(P) \subseteq Image(R) BY <2>3, <2>4, <2>6
  <2> QED BY <2>7, <2>8
<1>7. Image(R) = Reachable
  <2>1. root \in Image(P) BY <1>3 DEF Image, l
  <2>2. \A b \in Image(P) : Image(f.succ[b]) \subseteq Image(P)
    BY <1>1, <1>5, ZenonT(40) DEF Visit, Numbered, Image, P
  <2>3. Graph(Block, Edges, root) /\ \A b \in Block : Edges[b] = Image(f.succ[b])
    BY <1>1, CurrentGraph
  <2>4. \A b \in Image(P) \cap Block : Edges[b] \subseteq Image(P)
    BY <2>2, <2>3
  <2>5. Reachable \subseteq Image(P)
    <3> DEFINE S == Image(P)
    <3>1. root \in S /\ \A b \in S \cap Block : Edges[b] \subseteq S BY <2>1, <2>4
    <3> HIDE DEF S
    <3>2. Reach(Edges, {root}) \subseteq S BY <3>1, <2>3, ReachInside
    <3> QED BY <3>2 DEF S, Reachable
  <2> QED BY <2>5, <1>5, <1>6
<1>8. Len(R) >= 1 /\ R[1] = root
  BY <1>3, <1>4
<1>9. ASSUME NEW i \in 1..l
      PROVE  /\ post_order_id_[R[i]] = l - i
             /\ i # 1 => \E j \in 1..(i - 1) : R[j] \in Image(f.pre[R[i]])
  <2> DEFINE q == l + 1 - i
  <2>1. q \in 1..l /\ R[i] = P[q] /\ q - 1 = l - i BY <1>3, <1>4
  <2>2. \A j \in 1..l : post_order_id_[P[j]] = j - 1
    BY <1>1 DEF Visit, Numbered, P, l
  <2>3. ASSUME i # 1 PROVE \E j \in 1..(i - 1) : R[j] \in Image(f.pre[R[i]])
    <3>1. P[q] # root
      <4>1. q # l BY <2>3, <1>3
      <4>2. post_order_id_[P[q]] = q - 1 /\ post_order_id_[P[l]] = l - 1
        <5> HIDE DEF q
        <5> QED BY <2>1, <2>2, <1>3
      <4> QED BY <4>1, <4>2, <1>3, <2>1
    <3>2. PICK j \in (q + 1)..l : P[j] \in Image(f.pre[P[q]])
      <4> HIDE DEF q
      <4> QED BY <3>1, <2>1, <1>1, <1>5 DEF Visit, Reached, P, l
    <3>3. l + 1 - j \in 1..(i - 1) /\ l + 1 - j \in 1..l /\ R[l + 1 - j] = P[j]
      <4>1. j \in 1..l /\ l + 1 - j \in 1..(i - 1) /\ l + 1 - j \in 1..l /\ l + 1 - (l + 1 - j) = j
        BY <2>1, <1>3
      <4> QED BY <4>1, <1>4
    <3> QED BY <3>2, <3>3, <2>1
  <2> QED BY <2>1, <2>2, <2>3
<1> QED BY <1>1, <1>2, <1>4, <1>7, <1>8, <1>9 DEF Ordered, P, l

\* The actions between the visit and the end of the function: they change
\* neither the module nor the tables of the visit.
Sweep == \/ StartSweep \/ SkipRoot \/ FindPred \/ SkipPred \/ StartIntersect
         \/ ClimbFirst \/ ClimbSecond \/ Meet \/ SetIdom \/ EndOfSweep
Walk  == StartFrontier \/ SkipNonJoin \/ StartJoin \/ Run \/ EndOfRun

LEMMA TablesStay ==
  ASSUME Sweep \/ Walk
  PROVE  UNCHANGED <<m, visiting>> /\ pc \in After /\ pc' \in After \cup {"abort"}
<1> USE DEF After, Sweeping, Walking, visiting
<1>1. CASE StartSweep BY <1>1 DEF StartSweep
<1>2. CASE SkipRoot BY <1>2 DEF SkipRoot
<1>3. CASE FindPred BY <1>3 DEF FindPred
<1>4. CASE SkipPred BY <1>4 DEF SkipPred
<1>5. CASE StartIntersect BY <1>5 DEF StartIntersect
<1>6. CASE ClimbFirst BY <1>6 DEF ClimbFirst, Climb
<1>7. CASE ClimbSecond BY <1>7 DEF ClimbSecond, Climb
<1>8. CASE Meet BY <1>8 DEF Meet
<1>9. CASE SetIdom BY <1>9 DEF SetIdom
<1>10. CASE EndOfSweep BY <1>10 DEF EndOfSweep
<1>11. CASE StartFrontier BY <1>11 DEF StartFrontier
<1>12. CASE SkipNonJoin BY <1>12 DEF SkipNonJoin
<1>13. CASE StartJoin BY <1>13 DEF StartJoin
<1>14. CASE Run BY <1>14 DEF Run
<1>15. CASE EndOfRun BY <1>15 DEF EndOfRun
<1> QED
  BY <1>1, <1>2, <1>3, <1>4, <1>5, <1>6, <1>7, <1>8, <1>9, <1>10, <1>11, <1>12, <1>13,
     <1>14, <1>15 DEF Sweep, Walk

LEMMA NextCases ==
  ASSUME [Next]_vars
  PROVE  \/ SkipDeclaration \/ StartFunction \/ VisitSucc \/ FinishVisit \/ StartIdom
         \/ Sweep \/ Walk \/ CreateDomTree \/ UNCHANGED vars
BY DEF Next, Sweep, Walk

LEMMA StepOrdered ==
  TypeOK /\ Shape /\ Shape' /\ Visit /\ Ordered /\ [Next]_vars => Visit' /\ Ordered'
<1> SUFFICES ASSUME TypeOK, Shape, Shape', Visit, Ordered, [Next]_vars PROVE Visit' /\ Ordered'
  OBVIOUS
<1>1. pc' # "visit" => Visit' BY DEF Visit
<1>2. pc' \notin After => Ordered' BY DEF Ordered
<1>3. UNCHANGED <<m, visiting>> /\ pc \in After => Ordered'
  BY GraphStays DEF Ordered, visiting
<1>4. CASE SkipDeclaration
  BY <1>4, <1>1, <1>2 DEF SkipDeclaration, After, Sweeping, Walking
<1>5. CASE StartFunction
  BY <1>5, <1>2, VisitStarts DEF StartFunction, After, Sweeping, Walking
<1>6. CASE VisitSucc
  BY <1>6, <1>2, VisitGoesOn DEF VisitSucc, After, Sweeping, Walking
<1>7. CASE FinishVisit
  BY <1>7, <1>2, VisitReturns DEF FinishVisit, After, Sweeping, Walking
<1>8. CASE StartIdom
  BY <1>8, <1>1, VisitOrders DEF StartIdom
<1>9. CASE Sweep \/ Walk
  BY <1>9, <1>1, <1>3, TablesStay DEF After, Sweeping, Walking
<1>10. CASE CreateDomTree
  BY <1>10, <1>1, <1>2 DEF CreateDomTree, After, Sweeping, Walking
<1>11. CASE UNCHANGED vars
  <2>1. Visit'
    BY <1>11, GraphStays DEF vars, Visit, Numbered, Reached, Nested, EntryLast, Open
  <2> QED BY <2>1, <1>11, GraphStays DEF vars, Ordered
<1> QED
  BY NextCases, <1>4, <1>5, <1>6, <1>7, <1>8, <1>9, <1>10, <1>11

\* After the visit the list holds the blocks the entry reaches, each once and
\* with its number, and each but the entry after one of its predecessors.
THEOREM VisitIsOrdered == Spec => [](Visit /\ Ordered)
<1>1. Init => Visit /\ Ordered
  BY DEF Init, Visit, Ordered, After, Sweeping, Walking
<1>2. (TypeOK /\ Shape) /\ (Visit /\ Ordered) /\ [Next]_vars /\ (TypeOK /\ Shape)'
        => (Visit /\ Ordered)'
  BY StepOrdered
<1> QED BY <1>1, <1>2, Typed, PTL DEF Spec

-----------------------------------------------------------------------------
\* Chains, for any idom function.
LEMMA UpGraph ==
  ASSUME NEW i \in [Block \cup {Null} -> Block \cup {Null}], NEW b \in Block
  PROVE  Graph(Block, Up(i), b) /\ \A c \in Block : Up(i)[c] = {i[c]} \cap Block
BY BlockAssumption DEF Graph, Up

LEMMA ChainSteps ==
  ASSUME NEW i \in [Block \cup {Null} -> Block \cup {Null}], NEW b \in Block
  PROVE  /\ Chain(i, b) \in SUBSET Block /\ b \in Chain(i, b)
         /\ \A c \in Chain(i, b) : i[c] \in Block => i[c] \in Chain(i, b)
<1>1. Graph(Block, Up(i), b) /\ \A c \in Block : Up(i)[c] = {i[c]} \cap Block
  BY UpGraph
<1>2. /\ Chain(i, b) \in SUBSET Block /\ b \in Chain(i, b)
      /\ \A c \in Chain(i, b) : Up(i)[c] \subseteq Chain(i, b)
  BY <1>1, ReachFromEntry DEF Chain
<1> QED BY <1>1, <1>2

LEMMA ChainInside ==
  ASSUME NEW i \in [Block \cup {Null} -> Block \cup {Null}], NEW b \in Block, NEW S,
         b \in S, \A c \in S \cap Block : i[c] \in Block => i[c] \in S
  PROVE  Chain(i, b) \subseteq S
<1>1. Graph(Block, Up(i), b) /\ \A c \in S \cap Block : Up(i)[c] \subseteq S
  BY UpGraph
<1> QED BY <1>1, ReachInside DEF Chain

LEMMA ChainOn ==
  ASSUME NEW i \in [Block \cup {Null} -> Block \cup {Null}], NEW b \in Block, NEW c \in Chain(i, b)
  PROVE  Chain(i, c) \subseteq Chain(i, b)
<1>1. c \in Block /\ \A x \in Chain(i, b) : i[x] \in Block => i[x] \in Chain(i, b)
  BY ChainSteps
<1> QED BY <1>1, ChainInside

\* A chain is its first block and the chain of that block's idom.
LEMMA ChainUnfold ==
  ASSUME NEW i \in [Block \cup {Null} -> Block \cup {Null}], NEW b \in Block, i[b] \in Block
  PROVE  Chain(i, b) = {b} \cup Chain(i, i[b])
<1> DEFINE S == {b} \cup Chain(i, i[b])
<1>1. b \in S /\ \A c \in S \cap Block : i[c] \in Block => i[c] \in S
  BY ChainSteps
<1>2. Chain(i, b) \subseteq S
  <2> HIDE DEF S
  <2> QED BY <1>1, ChainInside
<1>3. b \in Chain(i, b) /\ i[b] \in Chain(i, b)
  BY ChainSteps
<1>4. Chain(i, i[b]) \subseteq Chain(i, b)
  BY <1>3, ChainOn
<1> QED BY <1>2, <1>3, <1>4

\* A chain depends on the idoms of its own blocks only.
LEMMA ChainLocal ==
  ASSUME NEW i \in [Block \cup {Null} -> Block \cup {Null}],
         NEW j \in [Block \cup {Null} -> Block \cup {Null}],
         NEW b \in Block, \A c \in Chain(i, b) : j[c] = i[c]
  PROVE  Chain(j, b) = Chain(i, b)
<1>1. \A c \in Chain(i, b) : i[c] \in Block => i[c] \in Chain(i, b)
  BY ChainSteps
<1>2. b \in Chain(i, b) /\ b \in Chain(j, b)
  BY ChainSteps
<1>3. Chain(j, b) \subseteq Chain(i, b)
  BY <1>1, <1>2, ChainInside
<1> DEFINE S == Chain(i, b) \cap Chain(j, b)
<1>4. b \in S /\ \A c \in S \cap Block : i[c] \in Block => i[c] \in S
  BY <1>1, <1>2, ChainSteps
<1>5. Chain(i, b) \subseteq S
  <2> HIDE DEF S
  <2> QED BY <1>4, ChainInside
<1> QED BY <1>3, <1>5

-----------------------------------------------------------------------------
\* What the layers so far say of the order, put together.
Base == TypeOK /\ Shape /\ Ordered /\ pc \in After

LEMMA Order ==
  ASSUME Base
  PROVE  /\ post_order_id_ \in [Block -> Nat] /\ idom_ \in [Block \cup {Null} -> Block \cup {Null}]
         /\ root \in Reachable /\ Reachable \subseteq Block
         /\ \A b \in Reachable : \E i \in 1..Len(reverse_post_order_) : b = reverse_post_order_[i]
         /\ \A i \in 1..Len(reverse_post_order_) : reverse_post_order_[i] \in Reachable
         /\ \A b \in Reachable : post_order_id_[b] < Len(reverse_post_order_)
         /\ \A b, c \in Reachable : post_order_id_[b] = post_order_id_[c] => b = c
<1>1. /\ post_order_id_ \in [Block -> Nat] /\ idom_ \in [Block \cup {Null} -> Block \cup {Null}]
      /\ reverse_post_order_ \in Seq(Block)
  BY DEF Base, TypeOK
<1>2. root \in Reachable /\ Reachable \subseteq Block
  BY CurrentGraph DEF Base, After, Sweeping, Walking
<1>3. /\ \A b \in Reachable : \E i \in 1..Len(reverse_post_order_) : b = reverse_post_order_[i]
      /\ \A i \in 1..Len(reverse_post_order_) : reverse_post_order_[i] \in Reachable
  BY DEF Base, Ordered, Image
<1>4. \A i \in 1..Len(reverse_post_order_) :
        post_order_id_[reverse_post_order_[i]] = Len(reverse_post_order_) - i
  BY DEF Base, Ordered
<1>5. Len(reverse_post_order_) \in Nat
  BY <1>1
<1>6. \A b \in Reachable : post_order_id_[b] < Len(reverse_post_order_)
  BY <1>3, <1>4, <1>5
<1>7. ASSUME NEW b \in Reachable, NEW c \in Reachable, post_order_id_[b] = post_order_id_[c]
      PROVE  b = c
  <2>1. PICK i \in 1..Len(reverse_post_order_) : b = reverse_post_order_[i] BY <1>3
  <2>2. PICK j \in 1..Len(reverse_post_order_) : c = reverse_post_order_[j] BY <1>3
  <2>3. i = j BY <2>1, <2>2, <1>4, <1>5, <1>7
  <2> QED BY <2>1, <2>2, <2>3
<1> QED BY <1>1, <1>2, <1>3, <1>6, <1>7

\* A chain climbs the order and meets live blocks with an idom only.
LEMMA ChainRises ==
  ASSUME Base, Forest, NEW b \in Done
  PROVE  /\ Chain(idom_, b) \subseteq Done
         /\ \A c \in Chain(idom_, b) : c = b \/ post_order_id_[c] > post_order_id_[b]
         /\ \A c \in Chain(idom_, b) : idom_[c] \in Chain(idom_, b)
<1> DEFINE S == {c \in Done : c = b \/ post_order_id_[c] > post_order_id_[b]}
<1>1. /\ post_order_id_ \in [Block -> Nat] /\ idom_ \in [Block \cup {Null} -> Block \cup {Null}]
      /\ Done \subseteq Block
  BY Order DEF Done
<1>2. ASSUME NEW c \in S PROVE idom_[c] \in S
  <2>1. CASE c = root BY <2>1, <1>2 DEF Forest
  <2>2. CASE c # root
    <3>1. idom_[c] \in Done /\ post_order_id_[idom_[c]] > post_order_id_[c]
      BY <2>2, <1>2 DEF Forest
    <3> QED BY <3>1, <1>1, <1>2
  <2> QED BY <2>1, <2>2
<1>3. Chain(idom_, b) \subseteq S
  <2>1. b \in S /\ b \in Block BY <1>1
  <2> HIDE DEF S
  <2> QED BY <2>1, <1>1, <1>2, ChainInside
<1>4. \A c \in Chain(idom_, b) : idom_[c] \in Chain(idom_, b)
  <2>1. \A c \in Chain(idom_, b) : idom_[c] \in Block BY <1>1, <1>2, <1>3
  <2> QED BY <2>1, <1>1, ChainSteps
<1> QED BY <1>3, <1>4

\* It ends at the entry.
LEMMA RootOnChain ==
  ASSUME Base, Forest, NEW b \in Done
  PROVE  root \in Chain(idom_, b)
<1> DEFINE l == Len(reverse_post_order_)
           S == {n \in Nat : \E c \in Chain(idom_, b) : n = l - post_order_id_[c]}
<1>1. /\ post_order_id_ \in [Block -> Nat] /\ idom_ \in [Block \cup {Null} -> Block \cup {Null}]
      /\ Done \subseteq Block /\ l \in Nat /\ \A c \in Done : post_order_id_[c] < l
  <2>1. l \in Nat BY DEF Base, TypeOK
  <2> QED BY <2>1, Order DEF Done
<1> HIDE DEF l
<1>2. /\ Chain(idom_, b) \subseteq Done /\ b \in Chain(idom_, b)
      /\ \A c \in Chain(idom_, b) : idom_[c] \in Chain(idom_, b)
  BY <1>1, ChainRises, ChainSteps
<1>3. \A c \in Chain(idom_, b) : l - post_order_id_[c] \in S
  BY <1>1, <1>2
<1>4. PICK n \in S : \A j \in S : n <= j
  <2>1. S \in SUBSET Nat /\ S # {} BY <1>2, <1>3
  <2> HIDE DEF S
  <2> QED BY <2>1, LeastNat
<1>5. PICK c \in Chain(idom_, b) : n = l - post_order_id_[c]
  OBVIOUS
<1>6. c = root
  <2> SUFFICES ASSUME c # root PROVE FALSE
    OBVIOUS
  <2>1. idom_[c] \in Done /\ post_order_id_[idom_[c]] > post_order_id_[c]
    BY <1>2, <1>5 DEF Forest
  <2>2. l - post_order_id_[idom_[c]] \in S
    BY <1>2, <1>3, <1>5
  <2> HIDE DEF S
  <2> QED BY <2>1, <2>2, <1>1, <1>2, <1>4, <1>5
<1> QED BY <1>5, <1>6

\* Of two blocks on one chain, the higher is on the chain of the lower.
LEMMA ChainIsLinear ==
  ASSUME Base, Forest, NEW b \in Done, NEW c \in Chain(idom_, b), NEW d \in Chain(idom_, b),
         post_order_id_[d] >= post_order_id_[c]
  PROVE  d \in Chain(idom_, c)
<1> DEFINE S == {x \in Chain(idom_, b) : d \in Chain(idom_, x) \/ post_order_id_[x] > post_order_id_[d]}
<1>1. /\ post_order_id_ \in [Block -> Nat] /\ idom_ \in [Block \cup {Null} -> Block \cup {Null}]
      /\ Done \subseteq Block
  BY Order DEF Done
<1>2. /\ Chain(idom_, b) \subseteq Done /\ b \in Chain(idom_, b)
      /\ \A x \in Chain(idom_, b) : idom_[x] \in Chain(idom_, b)
  BY <1>1, ChainRises, ChainSteps
<1>3. ASSUME NEW x \in S PROVE idom_[x] \in S
  <2>1. CASE x = root BY <2>1, <1>3 DEF Forest
  <2>2. CASE x # root
    <3>1. idom_[x] \in Done /\ post_order_id_[idom_[x]] > post_order_id_[x] /\ x \in Block
      BY <2>2, <1>1, <1>2, <1>3 DEF Forest
    <3>2. CASE post_order_id_[x] > post_order_id_[d]
      BY <3>1, <3>2, <1>1, <1>2, <1>3
    <3>3. CASE x = d
      BY <3>1, <3>3, <1>1, <1>2, <1>3
    <3>4. CASE x # d /\ d \in Chain(idom_, x)
      <4>0. idom_ \in [Block \cup {Null} -> Block \cup {Null}] /\ idom_[x] \in Block /\ x \in Block
        BY <3>1, <1>1
      <4>1. d \in Chain(idom_, idom_[x])
        <5>1. Chain(idom_, x) = {x} \cup Chain(idom_, idom_[x])
          BY <4>0, ChainUnfold
        <5> QED BY <5>1, <3>4
      <4>2. idom_[x] \in Chain(idom_, b) BY <1>2, <1>3
      <4> QED BY <4>1, <4>2
    <3> QED BY <3>2, <3>3, <3>4, <1>3
  <2> QED BY <2>1, <2>2
<1>4. Chain(idom_, b) \subseteq S
  <2>1. b \in S /\ b \in Block BY <1>1, <1>2
  <2> HIDE DEF S
  <2> QED BY <2>1, <1>1, <1>3, ChainInside
<1>5. c \in S BY <1>4
<1>6. c \in Block /\ d \in Block BY <1>1, <1>2
<1> QED BY <1>1, <1>5, <1>6

\* Under Sound, every dominator of a block is on its chain.
LEMMA DominatorOnChain ==
  ASSUME Base, Forest, Sound, NEW q \in Done, NEW d \in Block, Dominates(Edges, root, d, q)
  PROVE  d \in Chain(idom_, q)
<1> SUFFICES ASSUME d \notin Chain(idom_, q) PROVE FALSE
  OBVIOUS
<1> DEFINE S == {x \in Chain(idom_, q) : Dominates(Edges, root, d, x)}
<1>1. /\ idom_ \in [Block \cup {Null} -> Block \cup {Null}] /\ Done \subseteq Block
      /\ Chain(idom_, q) \subseteq Done /\ q \in Chain(idom_, q)
      /\ \A x \in Chain(idom_, q) : idom_[x] \in Chain(idom_, q)
  BY Order, ChainRises, ChainSteps DEF Done
<1>2. ASSUME NEW x \in S PROVE idom_[x] \in S
  <2>1. CASE x = root BY <2>1, <1>2 DEF Forest
  <2>2. CASE x # root
    <3>1. Dominates(Edges, root, d, idom_[x]) BY <2>2, <1>1, <1>2 DEF Sound
    <3> QED BY <3>1, <1>1, <1>2
  <2> QED BY <2>1, <2>2
<1>3. Chain(idom_, q) \subseteq S
  <2>1. q \in S /\ q \in Block BY <1>1
  <2> HIDE DEF S
  <2> QED BY <2>1, <1>1, <1>2, ChainInside
<1>4. Dominates(Edges, root, d, root)
  BY <1>3, RootOnChain
<1>5. d = root
  <2>1. Graph(Block, Edges, root) BY CurrentGraph DEF Base, After, Sweeping, Walking
  <2> QED BY <2>1, <1>4, EntryDominated
<1> QED BY <1>5, RootOnChain

\* The predecessors that are folded together.
LEMMA DonePredecessor ==
  ASSUME Base, NEW b \in Reachable, NEW q \in DonePre(b)
  PROVE  q \in Done /\ q \in Reachable /\ q \in Block /\ b \in Edges[q]
<1>1. b \in Image(f.blocks) /\ q \in Image(f.pre[b]) /\ q \in Done /\ q \in Reachable
  BY CurrentGraph DEF Base, After, Sweeping, Walking, DonePre, Done
<1>2. b \in Image(f.succ[q])
  BY <1>1, CurrentGraph DEF Base, After, Sweeping, Walking
<1> QED BY <1>1, <1>2, CurrentGraph DEF Base, After, Sweeping, Walking

\* A predecessor of a live block that has an idom is live.
LEMMA IdomIsLive ==
  ASSUME Base, Forest, NEW b \in Reachable, NEW q \in Image(f.pre[b]), idom_[q] # Null
  PROVE  q \in DonePre(b)
<1>1. q \in Image(f.blocks)
  BY CurrentGraph DEF Base, After, Sweeping, Walking
<1> QED BY <1>1 DEF Forest, DonePre, Done

\* When the turn of a block comes, a predecessor higher in the order has an idom.
LEMMA ForwardPredecessor ==
  ASSUME Base, Swept, pc \in Sweeping, at <= Len(reverse_post_order_), bb # root
  PROVE  /\ bb \in Reachable /\ bb = reverse_post_order_[at] /\ at \in 1..Len(reverse_post_order_)
         /\ \E p \in DonePre(bb) : post_order_id_[p] > post_order_id_[bb]
<1>1. /\ bb = reverse_post_order_[at] /\ at \in 1..Len(reverse_post_order_)
      /\ Len(reverse_post_order_) \in Nat
  BY DEF Base, TypeOK, bb, Sweeping
<1>2. bb \in Reachable
  BY <1>1, Order
<1>3. at # 1
  BY <1>1 DEF Base, Ordered
<1>4. PICK j \in 1..(at - 1) : reverse_post_order_[j] \in Image(f.pre[bb])
  BY <1>1, <1>3 DEF Base, Ordered
<1>5. j \in 1..Len(reverse_post_order_) /\ j < at
  BY <1>1, <1>4
<1>6. reverse_post_order_[j] \in DonePre(bb)
  BY <1>4, <1>5 DEF Swept, DonePre
<1>7. /\ post_order_id_[reverse_post_order_[j]] = Len(reverse_post_order_) - j
      /\ post_order_id_[bb] = Len(reverse_post_order_) - at
  BY <1>1, <1>5 DEF Base, Ordered
<1> QED BY <1>1, <1>2, <1>5, <1>6, <1>7

\* A block's new idom, when all predecessors are folded in.
LEMMA FoldEnds ==
  ASSUME Base, Idom, pc = "preds", k > Len(f.pre[bb])
  PROVE  /\ bb \in Reachable \ {root} /\ new_idom \in Done
         /\ Common(bb) \subseteq Chain(idom_, new_idom)
         /\ \A q \in DonePre(bb) : Chain(idom_, new_idom) \subseteq Chain(idom_, q)
         /\ \E q \in DonePre(bb) : post_order_id_[q] > post_order_id_[bb]
         /\ post_order_id_[new_idom] > post_order_id_[bb]
         /\ bb \notin Chain(idom_, new_idom)
<1>1. Forest /\ Sound /\ Swept /\ Folded
  BY DEF Idom, Base
<1>2. /\ bb \in Reachable \ {root}
      /\ \E p \in DonePre(bb) : post_order_id_[p] > post_order_id_[bb]
  BY <1>1, ForwardPredecessor DEF Base, Shape, Folding, Sweeping
<1>3. /\ new_idom \in Done /\ Common(bb) \subseteq Chain(idom_, new_idom)
      /\ \A j \in 1..Len(f.pre[bb]) : j < k /\ f.pre[bb][j] \in Done =>
            Chain(idom_, new_idom) \subseteq Chain(idom_, f.pre[bb][j])
  BY <1>1 DEF Folded, Folding
<1>4. ASSUME NEW q \in DonePre(bb) PROVE Chain(idom_, new_idom) \subseteq Chain(idom_, q)
  <2>1. PICK j \in 1..Len(f.pre[bb]) : q = f.pre[bb][j]
    BY <1>4 DEF DonePre, Image
  <2>2. Len(f.pre[bb]) \in Nat /\ k \in Nat
    <3>1. f.pre[bb] \in Seq(Block)
      BY <1>2, CurrentGraph DEF Base, After, Sweeping, Walking
    <3> QED BY <3>1 DEF Base, TypeOK
  <2>3. j < k BY <2>2
  <2> QED BY <2>1, <2>3, <1>3, <1>4 DEF DonePre
<1>5. /\ post_order_id_ \in [Block -> Nat] /\ Done \subseteq Block
      /\ idom_ \in [Block \cup {Null} -> Block \cup {Null}] /\ Reachable \subseteq Block
  BY Order DEF Done
<1>6. post_order_id_[new_idom] > post_order_id_[bb]
  <2>1. PICK p \in DonePre(bb) : post_order_id_[p] > post_order_id_[bb] BY <1>2
  <2>2. p \in Done /\ p \in Block BY <1>2, DonePredecessor
  <2>3. new_idom \in Chain(idom_, p) BY <1>3, <1>4, <1>5, ChainSteps
  <2>4. new_idom = p \/ post_order_id_[new_idom] > post_order_id_[p]
    BY <2>2, <2>3, <1>1, ChainRises
  <2>5. post_order_id_[new_idom] \in Nat /\ post_order_id_[p] \in Nat /\ post_order_id_[bb] \in Nat
    BY <2>2, <1>2, <1>3, <1>5
  <2> QED BY <2>1, <2>4, <2>5
<1>7. bb \notin Chain(idom_, new_idom)
  <2> SUFFICES ASSUME bb \in Chain(idom_, new_idom) PROVE FALSE
    OBVIOUS
  <2>1. bb = new_idom \/ post_order_id_[bb] > post_order_id_[new_idom]
    BY <1>1, <1>3, ChainRises
  <2>2. post_order_id_[new_idom] \in Nat /\ post_order_id_[bb] \in Nat
    BY <1>2, <1>3, <1>5
  <2> QED BY <2>1, <2>2, <1>6
<1> QED BY <1>2, <1>3, <1>4, <1>6, <1>7

-----------------------------------------------------------------------------
\* Steps that do not write idom_ change nothing that is said of it.
LEMMA ForestStays ==
  ASSUME UNCHANGED <<m, visiting, idom_>>
  PROVE  /\ Done' = Done /\ (Forest => Forest') /\ (Sound => Sound')
         /\ f' = f /\ root' = root /\ Reachable' = Reachable
         /\ \A b : DonePre(b)' = DonePre(b) /\ Common(b)' = Common(b) /\ Settled(b)' = Settled(b)
<1>1. /\ f' = f /\ root' = root /\ Reachable' = Reachable /\ Edges' = Edges
      /\ idom_' = idom_ /\ post_order_id_' = post_order_id_
  BY GraphStays DEF visiting
<1>2. Done' = Done BY <1>1 DEF Done
<1>3. \A b : DonePre(b)' = DonePre(b) BY <1>1, <1>2 DEF DonePre
<1>4. \A b : Common(b)' = Common(b) /\ Settled(b)' = Settled(b)
  BY <1>1, <1>3 DEF Common, Settled
<1>5. Forest => Forest' BY <1>1, <1>2 DEF Forest
<1>6. Sound => Sound' BY <1>1, <1>2 DEF Sound
<1> QED BY <1>1, <1>2, <1>3, <1>4, <1>5, <1>6

LEMMA IdomStarts ==
  ASSUME TypeOK, Shape, idom_[Null] = Null, StartIdom
  PROVE  Idom'
<1>1. /\ pc = "visit" /\ m' = m /\ pc' = "while" /\ changed' = TRUE
      /\ idom_' = [b \in DOMAIN idom_ |-> IF b = root THEN root
                                          ELSE IF b \in Image(f.blocks) THEN Null ELSE idom_[b]]
  BY DEF StartIdom
<1>2. /\ f' = f /\ root' = root /\ Reachable' = Reachable
  BY <1>1, GraphStays
<1>3. root \in Reachable /\ Reachable \subseteq Image(f.blocks) /\ Image(f.blocks) \subseteq Block
  BY <1>1, CurrentGraph
<1>4. DOMAIN idom_ = Block \cup {Null} BY DEF TypeOK
<1>5. /\ idom_'[root] = root /\ idom_'[Null] = Null
      /\ \A b \in Image(f.blocks) : b # root => idom_'[b] = Null
  BY <1>1, <1>3, <1>4, NullAssumption
<1>6. Done' = {root}
  BY <1>2, <1>3, <1>5, NullAssumption DEF Done
<1>7. Forest' /\ Sound'
  BY <1>2, <1>3, <1>5, <1>6 DEF Forest, Sound
<1> QED BY <1>1, <1>5, <1>7
    DEF Idom, NoAssertFails, Swept, Fixed, Folded, Fingers, Sweeping, Walking, Folding

LEMMA IdomFindPred ==
  ASSUME Base, Idom, FindPred
  PROVE  Idom'
<1> USE DEF Sweeping, Folding, Walking, After
<1>1. /\ pc = "block" /\ at <= Len(reverse_post_order_) /\ bb # root
      /\ UNCHANGED <<m, visiting, idom_, changed, at>>
  BY DEF FindPred, results
<1>2. /\ Forest /\ Sound /\ Swept /\ bb \in Reachable
      /\ \E p \in DonePre(bb) : post_order_id_[p] > post_order_id_[bb]
  BY <1>1, ForwardPredecessor DEF Idom, Base
<1>3. \A q \in DonePre(bb) : q \in Done /\ q \in Block
  BY <1>2, DonePredecessor
<1>4. Processed(bb) # {}
  <2>1. PICK p \in DonePre(bb) : TRUE BY <1>2
  <2>2. PICK j \in 1..Len(f.pre[bb]) : f.pre[bb][j] = p BY <2>1 DEF DonePre, Image
  <2>3. idom_[f.pre[bb][j]] # Null BY <2>1, <2>2 DEF DonePre, Done
  <2> QED BY <2>2, <2>3 DEF Processed
<1> DEFINE first == CHOOSE i \in Processed(bb) : \A j \in Processed(bb) : i <= j
<1>5. /\ pred' = f.pre[bb][first] /\ new_idom' = pred' /\ k' = 1 /\ pc' = "preds"
  BY <1>4 DEF FindPred
<1>6. first \in Processed(bb)
  <2>1. Processed(bb) \in SUBSET Nat BY DEF Processed
  <2>2. \E i \in Processed(bb) : \A j \in Processed(bb) : i <= j BY <2>1, <1>4, LeastNat
  <2> QED BY <2>2
<1>7. pred' \in DonePre(bb)
  <2> HIDE DEF first
  <2>1. pred' \in Image(f.pre[bb]) /\ idom_[pred'] # Null
    BY <1>5, <1>6 DEF Processed, Image
  <2> QED BY <2>1, <1>2, IdomIsLive
<1>8. /\ bb' = bb /\ Done' = Done /\ f' = f /\ Forest' /\ Sound' /\ Common(bb)' = Common(bb)
      /\ DonePre(bb)' = DonePre(bb) /\ root' = root
  <2>1. bb' = bb BY <1>1, <1>5 DEF bb, visiting
  <2> QED BY <2>1, <1>1, <1>2, ForestStays DEF DonePre, Common
<1>9. Swept'
  BY <1>1, <1>2, <1>5, <1>8, ForestStays DEF Swept, visiting
<1>10. Folded'
  <2>1. Common(bb) \subseteq Chain(idom_, pred') BY <1>7 DEF Common
  <2>2. \A j \in 1..Len(f.pre[bb]) : ~(j < 1) OBVIOUS
  <2>3. idom_' = idom_ BY <1>1
  <2>4. Common(bb)' \subseteq Chain(idom_', new_idom') BY <2>1, <2>3, <1>5, <1>8
  <2>5. pred' \in DonePre(bb)' /\ new_idom' \in Done' BY <1>3, <1>5, <1>7, <1>8
  <2> QED BY <2>2, <2>4, <2>5, <1>5, <1>8 DEF Folded
<1> QED BY <1>1, <1>5, <1>8, <1>9, <1>10 DEF Idom, NoAssertFails, Fixed, Fingers

\* While the predecessors of a block are folded together.
LEMMA FoldingStays ==
  ASSUME Base, Idom, pc \in Folding, pc' \in Folding, UNCHANGED <<m, visiting, idom_, changed, at>>
  PROVE  /\ Forest /\ Sound /\ Forest' /\ Sound' /\ Swept' /\ Fixed'
         /\ bb' = bb /\ f' = f /\ Done' = Done /\ bb \in Reachable
         /\ DonePre(bb)' = DonePre(bb) /\ Common(bb)' = Common(bb)
         /\ \A q \in DonePre(bb) : q \in Done
         /\ Folded /\ Fingers
<1> USE DEF Sweeping, Folding, Walking, After
<1>1. bb' = bb BY DEF bb, visiting
<1>2. Forest /\ Sound /\ Swept /\ Folded /\ Fingers BY DEF Idom
<1>3. at <= Len(reverse_post_order_) /\ bb # root BY DEF Base, Shape
<1>4. bb \in Reachable BY <1>2, <1>3, ForwardPredecessor
<1>5. \A q \in DonePre(bb) : q \in Done BY DEF DonePre
<1>6. DonePre(bb)' = DonePre(bb) /\ Common(bb)' = Common(bb)
  BY <1>1, ForestStays DEF DonePre, Common
<1>7. Swept' BY <1>2, ForestStays DEF Swept, visiting
<1> QED BY <1>1, <1>2, <1>4, <1>5, <1>6, <1>7, ForestStays DEF Fixed

LEMMA IdomSkipPred ==
  ASSUME Base, Idom, SkipPred
  PROVE  Idom'
<1> USE DEF Folding
<1>1. /\ pc = "preds" /\ pc' = "preds" /\ k' = k + 1 /\ k \in Nat
      /\ UNCHANGED <<m, visiting, idom_, changed, at, pred, new_idom>>
      /\ f.pre[bb][k] = pred \/ idom_[f.pre[bb][k]] = Null
  BY DEF SkipPred, Passed, results, Base, TypeOK
<1>2. /\ Forest /\ Sound /\ Forest' /\ Sound' /\ Swept' /\ Fixed'
      /\ bb' = bb /\ f' = f /\ Done' = Done
      /\ DonePre(bb)' = DonePre(bb) /\ Common(bb)' = Common(bb) /\ Folded
  BY <1>1, FoldingStays
<1>3. Folded'
  <2>1. ASSUME NEW j \in 1..Len(f.pre[bb]), j < k + 1, f.pre[bb][j] \in Done
        PROVE  Chain(idom_, new_idom) \subseteq Chain(idom_, f.pre[bb][j])
    <3>1. j < k \/ j = k BY <2>1, <1>1
    <3>2. CASE j < k BY <3>2, <2>1, <1>1, <1>2 DEF Folded
    <3>3. CASE j = k BY <3>3, <2>1, <1>1, <1>2 DEF Folded, Done
    <3> QED BY <3>1, <3>2, <3>3
  <2> QED BY <2>1, <1>1, <1>2 DEF Folded
<1> QED BY <1>1, <1>2, <1>3 DEF Idom, NoAssertFails, Fingers

LEMMA IdomStartIntersect ==
  ASSUME Base, Idom, StartIntersect
  PROVE  Idom'
<1> USE DEF Folding
<1>1. /\ pc = "preds" /\ pc' = "intersect" /\ k' = k /\ finger' = f.pre[bb][k] /\ k <= Len(f.pre[bb])
      /\ UNCHANGED <<m, visiting, idom_, changed, at, pred, new_idom>> /\ k \in Nat \ {0}
      /\ idom_[f.pre[bb][k]] # Null
  BY DEF StartIntersect, Passed, results, Base, TypeOK
<1>2. /\ Forest /\ Sound /\ Forest' /\ Sound' /\ Swept' /\ Fixed' /\ bb \in Reachable
      /\ bb' = bb /\ f' = f /\ Done' = Done /\ \A q \in DonePre(bb) : q \in Done
      /\ DonePre(bb)' = DonePre(bb) /\ Common(bb)' = Common(bb) /\ Folded
  BY <1>1, FoldingStays
<1>3. Folded'
  BY <1>1, <1>2 DEF Folded
<1>4. f.pre[bb][k] \in DonePre(bb)
  <2>1. Len(f.pre[bb]) \in Nat
    <3>1. bb \in Block /\ f.pre \in [Block -> Seq(Block)]
      BY <1>1, <1>2, CurrentGraph, Order DEF Base, After, Sweeping, Walking
    <3> QED BY <3>1
  <2>2. f.pre[bb][k] \in Image(f.pre[bb]) BY <2>1, <1>1 DEF Image
  <2> QED BY <2>2, <1>1, <1>2, IdomIsLive
<1>5. Fingers'
  <2>1. Common(bb) \subseteq Chain(idom_, f.pre[bb][k]) BY <1>4 DEF Common
  <2> QED BY <2>1, <1>1, <1>2, <1>4 DEF Fingers
<1> QED BY <1>1, <1>2, <1>3, <1>5 DEF Idom, NoAssertFails

\* What two chains have in common stays on the chain of the lower finger when
\* that finger climbs.
LEMMA ClimbKeeps ==
  ASSUME Base, Forest, NEW x \in Done, NEW y \in Done, post_order_id_[x] < post_order_id_[y]
  PROVE  /\ idom_[x] \in Done /\ idom_[x] # Null
         /\ Chain(idom_, idom_[x]) \subseteq Chain(idom_, x)
         /\ Chain(idom_, x) \cap Chain(idom_, y) \subseteq Chain(idom_, idom_[x])
<1>1. /\ post_order_id_ \in [Block -> Nat] /\ idom_ \in [Block \cup {Null} -> Block \cup {Null}]
      /\ Done \subseteq Block
  BY Order DEF Done
<1>2. idom_[x] \in Chain(idom_, x) /\ x \in Chain(idom_, x) /\ Chain(idom_, x) \subseteq Done
  BY <1>1, ChainRises, ChainSteps
<1>3. idom_[x] \in Done /\ idom_[x] \in Block
  BY <1>1, <1>2
<1>4. Chain(idom_, x) = {x} \cup Chain(idom_, idom_[x])
  BY <1>1, <1>3, ChainUnfold
<1>5. x \notin Chain(idom_, y)
  <2> SUFFICES ASSUME x \in Chain(idom_, y) PROVE FALSE
    OBVIOUS
  <2>1. x = y \/ post_order_id_[x] > post_order_id_[y] BY ChainRises
  <2>2. post_order_id_[x] \in Nat /\ post_order_id_[y] \in Nat BY <1>1
  <2> QED BY <2>1, <2>2
<1> QED BY <1>1, <1>3, <1>4, <1>5, NullAssumption

LEMMA IdomClimbFirst ==
  ASSUME Base, Idom, ClimbFirst
  PROVE  Idom'
<1> USE DEF Folding
<1>1. /\ pc = "intersect" /\ post_order_id_[finger] < post_order_id_[new_idom]
      /\ Climb(finger) /\ finger' = IF idom_[finger] = Null THEN finger ELSE idom_[finger]
      /\ UNCHANGED <<m, visiting, idom_, changed, at, k, pred, new_idom>>
  BY DEF ClimbFirst, results
<1>2. finger \in Done /\ new_idom \in Done /\ Forest /\ Folded /\ Fingers
  BY <1>1 DEF Idom, Folded, Fingers, Base
<1>3. /\ idom_[finger] \in Done /\ idom_[finger] # Null
      /\ Chain(idom_, idom_[finger]) \subseteq Chain(idom_, finger)
      /\ Chain(idom_, finger) \cap Chain(idom_, new_idom) \subseteq Chain(idom_, idom_[finger])
  BY <1>1, <1>2, ClimbKeeps
<1>4. pc' = "intersect" /\ finger' = idom_[finger]
  BY <1>1, <1>3 DEF Climb
<1>5. /\ Forest /\ Sound /\ Forest' /\ Sound' /\ Swept' /\ Fixed' /\ bb \in Reachable
      /\ bb' = bb /\ f' = f /\ Done' = Done
      /\ DonePre(bb)' = DonePre(bb) /\ Common(bb)' = Common(bb)
  BY <1>1, <1>4, FoldingStays
<1>6. Folded'
  BY <1>1, <1>2, <1>4, <1>5 DEF Folded
<1>7. Fingers'
  <2>1. Common(bb) \subseteq Chain(idom_, finger) /\ Common(bb) \subseteq Chain(idom_, new_idom)
    BY <1>1, <1>2 DEF Folded, Fingers
  <2>2. Common(bb) \subseteq Chain(idom_, idom_[finger])
    BY <2>1, <1>3
  <2>3. Chain(idom_, idom_[finger]) \subseteq Chain(idom_, f.pre[bb][k])
    BY <1>1, <1>2, <1>3 DEF Fingers
  <2> QED BY <2>2, <2>3, <1>1, <1>2, <1>3, <1>4, <1>5 DEF Fingers
<1> QED BY <1>1, <1>4, <1>5, <1>6, <1>7 DEF Idom, NoAssertFails

LEMMA IdomClimbSecond ==
  ASSUME Base, Idom, ClimbSecond
  PROVE  Idom'
<1> USE DEF Folding
<1>1. /\ pc = "intersect" /\ post_order_id_[new_idom] < post_order_id_[finger]
      /\ Climb(new_idom) /\ new_idom' = IF idom_[new_idom] = Null THEN new_idom ELSE idom_[new_idom]
      /\ UNCHANGED <<m, visiting, idom_, changed, at, k, pred, finger>>
  BY DEF ClimbSecond, results
<1>2. finger \in Done /\ new_idom \in Done /\ Forest /\ Folded /\ Fingers
  BY <1>1 DEF Idom, Folded, Fingers, Base
<1>3. /\ idom_[new_idom] \in Done /\ idom_[new_idom] # Null
      /\ Chain(idom_, idom_[new_idom]) \subseteq Chain(idom_, new_idom)
      /\ Chain(idom_, new_idom) \cap Chain(idom_, finger) \subseteq Chain(idom_, idom_[new_idom])
  BY <1>1, <1>2, ClimbKeeps
<1>4. pc' = "intersect" /\ new_idom' = idom_[new_idom]
  BY <1>1, <1>3 DEF Climb
<1>5. /\ Forest /\ Sound /\ Forest' /\ Sound' /\ Swept' /\ Fixed' /\ bb \in Reachable
      /\ bb' = bb /\ f' = f /\ Done' = Done
      /\ DonePre(bb)' = DonePre(bb) /\ Common(bb)' = Common(bb)
  BY <1>1, <1>4, FoldingStays
<1>6. Fingers'
  BY <1>1, <1>2, <1>4, <1>5 DEF Fingers
<1>7. Folded'
  <2>1. Common(bb) \subseteq Chain(idom_, finger) /\ Common(bb) \subseteq Chain(idom_, new_idom)
    BY <1>1, <1>2 DEF Folded, Fingers
  <2>2. Common(bb) \subseteq Chain(idom_, idom_[new_idom])
    BY <2>1, <1>3
  <2>3. /\ Chain(idom_, idom_[new_idom]) \subseteq Chain(idom_, pred)
        /\ \A j \in 1..Len(f.pre[bb]) : j < k /\ f.pre[bb][j] \in Done =>
             Chain(idom_, idom_[new_idom]) \subseteq Chain(idom_, f.pre[bb][j])
    BY <1>1, <1>2, <1>3 DEF Folded
  <2> QED BY <2>2, <2>3, <1>1, <1>2, <1>3, <1>4, <1>5 DEF Folded
<1> QED BY <1>1, <1>4, <1>5, <1>6, <1>7 DEF Idom, NoAssertFails

LEMMA IdomMeet ==
  ASSUME Base, Idom, Meet
  PROVE  Idom'
<1> USE DEF Folding
<1>1. /\ pc = "intersect" /\ pc' = "preds" /\ k' = k + 1 /\ finger = new_idom /\ k \in Nat
      /\ UNCHANGED <<m, visiting, idom_, changed, at, pred, new_idom>>
  BY DEF Meet, results, Base, TypeOK
<1>2. /\ Forest /\ Sound /\ Forest' /\ Sound' /\ Swept' /\ Fixed'
      /\ bb' = bb /\ f' = f /\ Done' = Done
      /\ DonePre(bb)' = DonePre(bb) /\ Common(bb)' = Common(bb) /\ Folded /\ Fingers
  BY <1>1, FoldingStays
<1>3. Folded'
  <2>1. ASSUME NEW j \in 1..Len(f.pre[bb]), j < k + 1, f.pre[bb][j] \in Done
        PROVE  Chain(idom_, new_idom) \subseteq Chain(idom_, f.pre[bb][j])
    <3>1. j < k \/ j = k BY <2>1, <1>1
    <3>2. CASE j < k BY <3>2, <2>1, <1>1, <1>2 DEF Folded
    <3>3. CASE j = k BY <3>3, <2>1, <1>1, <1>2 DEF Fingers
    <3> QED BY <3>1, <3>2, <3>3
  <2> QED BY <2>1, <1>1, <1>2 DEF Folded
<1> QED BY <1>1, <1>2, <1>3 DEF Idom, NoAssertFails, Fingers

\* A block's new idom keeps the block's dominators.
LEMMA NewIdomIsSound ==
  ASSUME Base, Idom, pc = "preds", k > Len(f.pre[bb]),
         NEW d \in Block \ {bb}, Dominates(Edges, root, d, bb)
  PROVE  Dominates(Edges, root, d, new_idom)
<1>1. /\ Forest /\ Sound /\ new_idom \in Done /\ bb \in Reachable \ {root}
      /\ Common(bb) \subseteq Chain(idom_, new_idom)
      /\ \A q \in DonePre(bb) : Chain(idom_, new_idom) \subseteq Chain(idom_, q)
      /\ \E q \in DonePre(bb) : post_order_id_[q] > post_order_id_[bb]
  BY FoldEnds DEF Idom, Base
<1>2. /\ post_order_id_ \in [Block -> Nat] /\ idom_ \in [Block \cup {Null} -> Block \cup {Null}]
      /\ Done \subseteq Block /\ Graph(Block, Edges, root)
  BY Order, CurrentGraph DEF Done, Base, After, Sweeping, Walking
<1>3. \A q \in DonePre(bb) : Dominates(Edges, root, d, q) /\ q \in Done
  BY <1>1, <1>2, DonePredecessor, DominatesPredecessor
<1>4. d \in Chain(idom_, new_idom)
  <2>1. \A q \in DonePre(bb) : d \in Chain(idom_, q)
    BY <1>1, <1>3, DominatorOnChain
  <2> QED BY <2>1, <1>1 DEF Common
\* Up the chain of a predecessor, d dominates the blocks below it.
<1>5. PICK p \in DonePre(bb) : TRUE BY <1>1
<1> DEFINE S == {x \in Chain(idom_, p) :
                   Dominates(Edges, root, d, x) \/ post_order_id_[x] > post_order_id_[d]}
<1>6. /\ Chain(idom_, p) \subseteq Done /\ p \in Chain(idom_, p) /\ p \in Block
      /\ \A x \in Chain(idom_, p) : idom_[x] \in Chain(idom_, p)
  BY <1>1, <1>2, <1>3, ChainRises, ChainSteps
<1>7. ASSUME NEW x \in S PROVE idom_[x] \in S
  <2>1. CASE x = root BY <2>1, <1>1, <1>7 DEF Forest
  <2>2. CASE x # root
    <3>1. /\ idom_[x] \in Done /\ post_order_id_[idom_[x]] > post_order_id_[x]
      BY <2>2, <1>1, <1>6 DEF Forest
    <3>2. post_order_id_[x] \in Nat /\ post_order_id_[idom_[x]] \in Nat /\ post_order_id_[d] \in Nat
      BY <3>1, <1>2, <1>6
    <3>3. CASE post_order_id_[x] > post_order_id_[d] BY <3>1, <3>2, <3>3, <1>6
    <3>4. CASE x = d BY <3>1, <3>4, <1>6
    <3>5. CASE x # d /\ Dominates(Edges, root, d, x)
      <4>1. Dominates(Edges, root, d, idom_[x]) BY <3>5, <2>2, <1>1, <1>6 DEF Sound
      <4> QED BY <4>1, <1>6
    <3> QED BY <3>3, <3>4, <3>5
  <2> QED BY <2>1, <2>2
<1>8. Chain(idom_, p) \subseteq S
  <2>1. p \in S /\ p \in Block BY <1>3, <1>6
  <2> HIDE DEF S
  <2> QED BY <2>1, <1>2, <1>7, ChainInside
<1>9. new_idom \in S BY <1>1, <1>2, <1>5, <1>8, ChainSteps
<1>10. ~(post_order_id_[new_idom] > post_order_id_[d])
  <2>1. d = new_idom \/ post_order_id_[d] > post_order_id_[new_idom]
    BY <1>1, <1>4, ChainRises
  <2>2. post_order_id_[d] \in Nat /\ post_order_id_[new_idom] \in Nat
    BY <1>1, <1>2
  <2> QED BY <2>1, <2>2
<1> QED BY <1>9, <1>10

LEMMA IdomSet ==
  ASSUME Base, Idom, SetIdom
  PROVE  Idom'
<1> USE DEF Sweeping, Folding, Walking, After
<1>1. /\ pc = "preds" /\ k > Len(f.pre[bb]) /\ pc' = "block" /\ at' = at + 1 /\ at \in Nat
      /\ UNCHANGED <<m, visiting>> /\ changed' = (changed \/ idom_[bb] # new_idom)
      /\ idom_' = [idom_ EXCEPT ![bb] = new_idom]
  BY DEF SetIdom, Changed, Base, TypeOK
<1>2. /\ Forest /\ Sound /\ Swept /\ idom_[Null] = Null
      /\ bb \in Reachable \ {root} /\ new_idom \in Done
      /\ \A q \in DonePre(bb) : Chain(idom_, new_idom) \subseteq Chain(idom_, q)
      /\ post_order_id_[new_idom] > post_order_id_[bb]
  BY <1>1, FoldEnds DEF Idom, Base
<1>3. /\ post_order_id_ \in [Block -> Nat] /\ idom_ \in [Block \cup {Null} -> Block \cup {Null}]
      /\ Done \subseteq Block /\ Reachable \subseteq Block
  BY Order DEF Done
<1>4. /\ f' = f /\ root' = root /\ Reachable' = Reachable /\ Edges' = Edges
      /\ reverse_post_order_' = reverse_post_order_ /\ post_order_id_' = post_order_id_
  BY <1>1, GraphStays DEF visiting
<1>5. /\ idom_'[bb] = new_idom /\ \A b \in Block \cup {Null} : b # bb => idom_'[b] = idom_[b]
      /\ bb \in Block /\ bb # Null /\ new_idom # Null /\ new_idom # bb
  <2>1. post_order_id_[bb] \in Nat BY <1>2, <1>3
  <2> QED BY <2>1, <1>1, <1>2, <1>3, NullAssumption
<1>6. Done' = Done \cup {bb}
  BY <1>2, <1>3, <1>4, <1>5 DEF Done
<1>7. Forest'
  <2>1. \A b \in Image(f.blocks) \ Reachable : idom_'[b] = Null
    <3>1. Image(f.blocks) \subseteq Block BY CurrentGraph DEF Base
    <3> QED BY <3>1, <1>2, <1>5 DEF Forest
  <2>2. ASSUME NEW b \in Done' \ {root}
        PROVE  idom_'[b] \in Done' /\ post_order_id_[idom_'[b]] > post_order_id_[b]
    <3>1. CASE b = bb BY <3>1, <1>2, <1>5, <1>6
    <3>2. CASE b # bb BY <3>2, <1>2, <1>3, <1>5, <1>6 DEF Forest
    <3> QED BY <3>1, <3>2
  <2>3. idom_'[root] = root
    BY <1>2, <1>3, <1>5, Order DEF Forest
  <2> QED BY <2>1, <2>2, <2>3, <1>4 DEF Forest
<1>8. Sound'
  <2> SUFFICES ASSUME NEW b \in Done' \ {root}, NEW d \in Block \ {b}, Dominates(Edges, root, d, b)
               PROVE  Dominates(Edges, root, d, idom_'[b])
    BY <1>4 DEF Sound
  <2>1. CASE b = bb BY <2>1, <1>1, <1>5, NewIdomIsSound
  <2>2. CASE b # bb BY <2>2, <1>2, <1>3, <1>5, <1>6 DEF Sound
  <2> QED BY <2>1, <2>2
<1>9. bb = reverse_post_order_[at]
  BY <1>1 DEF bb
<1>10. Swept'
  <2>1. CASE changed'
    <3>1. \A i \in 1..Len(reverse_post_order_) : i < at + 1 => reverse_post_order_[i] \in Done'
      <4>1. \A i \in 1..Len(reverse_post_order_) : i < at + 1 => i < at \/ i = at BY <1>1
      <4> QED BY <4>1, <1>1, <1>2, <1>6, <1>9 DEF Swept
    <3> QED BY <3>1, <2>1, <1>1, <1>4 DEF Swept
  <2>2. CASE ~changed'
    <3>1. ~changed /\ idom_[bb] = new_idom BY <2>2, <1>1
    <3>2. idom_' = idom_ BY <3>1, <1>1, <1>3
    <3>3. Done' = Done /\ (\A b : Settled(b)' = Settled(b))
      BY <3>2, <1>1, ForestStays
    <3>4. Settled(bb) BY <3>1, <1>2 DEF Settled
    <3>5. bb \in Done BY <3>3, <1>6
    <3>6. \A i \in 1..Len(reverse_post_order_) : i < at + 1 =>
            /\ reverse_post_order_[i] \in Done
            /\ reverse_post_order_[i] # root => Settled(reverse_post_order_[i])
      <4>1. \A i \in 1..Len(reverse_post_order_) : i < at + 1 => i < at \/ i = at BY <1>1
      <4> QED BY <4>1, <3>1, <3>4, <3>5, <1>1, <1>2, <1>9 DEF Swept
    <3> QED BY <3>3, <3>6, <1>1, <1>4 DEF Swept
  <2> QED BY <2>1, <2>2
<1>11. idom_'[Null] = Null BY <1>2, <1>5
<1> QED BY <1>1, <1>7, <1>8, <1>10, <1>11 DEF Idom, NoAssertFails, Fixed, Folded, Fingers

LEMMA IdomSweepEnds ==
  ASSUME Base, Idom, EndOfSweep
  PROVE  Idom'
<1> USE DEF Sweeping, Folding, Walking, After
<1>1. /\ pc = "block" /\ pc' = "while" /\ at > Len(reverse_post_order_)
      /\ UNCHANGED <<m, visiting, idom_, changed>>
  BY DEF EndOfSweep, results
<1>2. Forest /\ Sound /\ Swept /\ idom_[Null] = Null
  BY <1>1 DEF Idom
<1>3. ASSUME ~changed PROVE Done = Reachable /\ \A b \in Reachable \ {root} : Settled(b)
  <2>1. ASSUME NEW b \in Reachable PROVE b \in Done /\ (b # root => Settled(b))
    <3>1. PICK i \in 1..Len(reverse_post_order_) : b = reverse_post_order_[i]
      BY Order
    <3>2. i < at
      <4>1. Len(reverse_post_order_) \in Nat /\ at \in Nat BY DEF Base, TypeOK
      <4> QED BY <4>1, <1>1
    <3> QED BY <3>1, <3>2, <1>1, <1>2, <1>3 DEF Swept
  <2> QED BY <2>1 DEF Done
<1>4. Fixed'
  BY <1>1, <1>3, ForestStays DEF Fixed
<1> QED BY <1>1, <1>2, <1>4, ForestStays DEF Idom, NoAssertFails, Swept, Folded, Fingers

LEMMA StepIdom ==
  TypeOK /\ Shape /\ Ordered /\ Idom /\ [Next]_vars => Idom'
<1> SUFFICES ASSUME TypeOK, Shape, Ordered, Idom, [Next]_vars PROVE Idom'
  OBVIOUS
<1> USE DEF Sweeping, Folding, Walking, After
<1>0. idom_[Null] = Null /\ NoAssertFails /\ (pc \in After => Forest /\ Sound) /\ Swept /\ Fixed
  BY DEF Idom
<1>1. ASSUME pc' \notin After, pc' # "abort", idom_' = idom_ PROVE Idom'
  BY <1>0, <1>1 DEF Idom, NoAssertFails, Swept, Fixed, Folded, Fingers
<1>2. CASE SkipDeclaration BY <1>1, <1>2 DEF SkipDeclaration, results
<1>3. CASE StartFunction BY <1>1, <1>3 DEF StartFunction, results
<1>4. CASE VisitSucc BY <1>1, <1>4 DEF VisitSucc, results
<1>5. CASE FinishVisit BY <1>1, <1>5 DEF FinishVisit, results
<1>6. CASE StartIdom BY <1>0, <1>6, IdomStarts
<1>7. CASE Sweep
  <2>0. Base BY <1>7, TablesStay DEF Base
  <2>1. CASE StartSweep
    <3>1. /\ UNCHANGED <<m, visiting, idom_>> /\ pc = "while" /\ pc' = "block" /\ at' = 1
      BY <2>1 DEF StartSweep, results
    <3>2. Forest' /\ Sound' BY <3>1, <1>0, ForestStays
    <3>3. Swept'
      <4>1. \A i \in 1..Len(reverse_post_order_) : ~(i < 1) OBVIOUS
      <4> QED BY <4>1, <3>1 DEF Swept, visiting
    <3> QED BY <3>1, <3>2, <3>3, <1>0 DEF Idom, NoAssertFails, Fixed, Folded, Fingers
  <2>2. CASE SkipRoot
    <3>1. /\ UNCHANGED <<m, visiting, idom_, changed>> /\ pc = "block" /\ pc' = "block"
          /\ at' = at + 1 /\ at \in Nat /\ at <= Len(reverse_post_order_)
          /\ reverse_post_order_[at] = root
      BY <2>2 DEF SkipRoot, results, bb, TypeOK
    <3>2. Forest' /\ Sound' BY <3>1, <1>0, ForestStays
    <3>3. root \in Done
      <4>1. root \in Reachable /\ root # Null BY <2>0, Order, NullAssumption
      <4> QED BY <4>1, <3>1, <1>0 DEF Forest, Done
    <3>4. Swept'
      <4>1. \A i \in 1..Len(reverse_post_order_) : i < at + 1 => i < at \/ i = at BY <3>1
      <4>2. \A i \in 1..Len(reverse_post_order_) : i < at + 1 =>
              /\ reverse_post_order_[i] \in Done
              /\ ~changed /\ reverse_post_order_[i] # root => Settled(reverse_post_order_[i])
        BY <4>1, <3>1, <3>3, <1>0 DEF Swept
      <4> QED BY <4>2, <3>1, ForestStays DEF Swept, visiting
    <3> QED BY <3>1, <3>2, <3>4, <1>0 DEF Idom, NoAssertFails, Fixed, Folded, Fingers
  <2>3. CASE FindPred BY <2>0, <2>3, IdomFindPred
  <2>4. CASE SkipPred BY <2>0, <2>4, IdomSkipPred
  <2>5. CASE StartIntersect BY <2>0, <2>5, IdomStartIntersect
  <2>6. CASE ClimbFirst BY <2>0, <2>6, IdomClimbFirst
  <2>7. CASE ClimbSecond BY <2>0, <2>7, IdomClimbSecond
  <2>8. CASE Meet BY <2>0, <2>8, IdomMeet
  <2>9. CASE SetIdom BY <2>0, <2>9, IdomSet
  <2>10. CASE EndOfSweep BY <2>0, <2>10, IdomSweepEnds
  <2> QED BY <1>7, <2>1, <2>2, <2>3, <2>4, <2>5, <2>6, <2>7, <2>8, <2>9, <2>10 DEF Sweep
<1>8. CASE Walk
  <2>1. /\ UNCHANGED <<m, visiting, idom_>> /\ pc' \in Walking
        /\ pc \in Walking \/ (pc = "while" /\ ~changed)
    <3>1. CASE StartFrontier BY <3>1 DEF StartFrontier, results
    <3>2. CASE SkipNonJoin BY <3>2 DEF SkipNonJoin, results
    <3>3. CASE StartJoin BY <3>3 DEF StartJoin, results
    <3>4. CASE Run BY <3>4 DEF Run
    <3>5. CASE EndOfRun BY <3>5 DEF EndOfRun, results
    <3> QED BY <1>8, <3>1, <3>2, <3>3, <3>4, <3>5 DEF Walk
  <2>2. Forest' /\ Sound' BY <2>1, <1>0, ForestStays
  <2>3. Fixed' BY <2>1, <1>0, ForestStays DEF Fixed
  <2> QED BY <2>1, <2>2, <2>3, <1>0 DEF Idom, NoAssertFails, Swept, Folded, Fingers
<1>9. CASE CreateDomTree BY <1>1, <1>9 DEF CreateDomTree
<1>10. CASE UNCHANGED vars
  <2>1. /\ UNCHANGED <<m, visiting, idom_>> /\ UNCHANGED <<pc, changed, at, k, pred, new_idom, finger>>
    BY <1>10 DEF vars, visiting
  <2>2. (pc \in After => Forest' /\ Sound') BY <2>1, <1>0, ForestStays
  <2>3. Swept' /\ Fixed' BY <2>1, <1>0, ForestStays DEF Swept, Fixed, visiting
  <2>4. bb' = bb BY <2>1, ForestStays DEF bb, visiting
  <2>5. DonePre(bb)' = DonePre(bb) /\ Common(bb)' = Common(bb)
    BY <2>1, <2>4, ForestStays DEF DonePre, Common
  <2>6. Folded' /\ Fingers'
    BY <2>1, <2>4, <2>5, ForestStays DEF Idom, Folded, Fingers
  <2> QED BY <2>1, <2>2, <2>3, <2>6, <1>0 DEF Idom, NoAssertFails
<1> QED
  BY NextCases, <1>2, <1>3, <1>4, <1>5, <1>6, <1>7, <1>8, <1>9, <1>10

\* idom_ is at all times a forest over the live blocks that loses no dominator,
\* and the fingers of intersect stay on the chains they started from.
THEOREM IdomIsSound == Spec => []Idom
<1>1. Init => Idom
  BY DEF Init, Idom, NoAssertFails, After, Sweeping, Walking, Folding, Swept, Fixed, Folded, Fingers
<1>2. (TypeOK /\ Shape) /\ (Visit /\ Ordered) /\ Idom /\ [Next]_vars => Idom'
  BY StepIdom
<1> QED BY <1>1, <1>2, Typed, VisitIsOrdered, PTL DEF Spec

\* No assert of the analysis fails, for any module.
THEOREM NoAssertEverFails == Spec => []NoAssertFails
<1>1. Idom => NoAssertFails
  BY DEF Idom
<1> QED BY <1>1, IdomIsSound, PTL

-----------------------------------------------------------------------------
\* When nothing is left to settle, every block on a chain is a dominator.
LEMMA ChainDominates ==
  ASSUME Base, Forest, Done = Reachable, \A b \in Reachable \ {root} : Settled(b),
         NEW b \in Reachable, NEW c \in Chain(idom_, b)
  PROVE  Dominates(Edges, root, c, b)
<1> SUFFICES ASSUME c # root PROVE Dominates(Edges, root, c, b)
  BY DEF Dominates
<1> DEFINE S == {y \in Reachable : c \notin Chain(idom_, y)}
<1>1. /\ idom_ \in [Block \cup {Null} -> Block \cup {Null}] /\ root \in Reachable
      /\ Reachable \subseteq Block /\ Graph(Block, Edges, root)
  BY Order, CurrentGraph DEF Base, After, Sweeping, Walking
<1>2. root \in S
  <2>1. {root} \subseteq Block /\ \A x \in {root} \cap Block : idom_[x] \in {root}
    BY <1>1 DEF Forest
  <2>2. Chain(idom_, root) \subseteq {root} BY <2>1, <1>1, ChainInside
  <2> QED BY <2>2, <1>1
<1>3. ASSUME NEW y \in S \cap Block, y # c PROVE Edges[y] \subseteq S \cup {c}
  <2> SUFFICES ASSUME NEW z \in Edges[y], z # c PROVE z \in S
    OBVIOUS
  <2>1. z \in Reachable /\ y \in Image(f.pre[z]) /\ y \in Done
    BY <1>1, <1>3, CurrentGraph DEF Base, After, Sweeping, Walking
  <2>2. y \in DonePre(z) BY <2>1 DEF DonePre
  <2> SUFFICES ASSUME c \in Chain(idom_, z) PROVE FALSE
    BY <2>1
  <2>3. z # root BY <1>2
  <2>4. idom_[z] \in Block BY <2>1, <2>3, <1>1 DEF Forest
  <2>5. c \in Chain(idom_, idom_[z]) BY <2>1, <2>4, <1>1, ChainUnfold
  <2>6. c \in Chain(idom_, y) BY <2>1, <2>2, <2>3, <2>5 DEF Settled
  <2> QED BY <2>6, <1>3
<1>4. b \notin S OBVIOUS
<1> HIDE DEF S
<1> QED BY <1>1, <1>2, <1>3, <1>4, DominatesByCut

LEMMA FixedIsImmediate ==
  ASSUME Base, Idom, pc \in Walking
  PROVE  /\ Forest /\ Sound /\ Done = Reachable
         /\ \A b \in Reachable : \A c \in Block :
              c \in Chain(idom_, b) <=> Dominates(Edges, root, c, b)
         /\ \A b \in Reachable \ {root} : IsImmediateDominator(Edges, root, idom_[b], b)
<1>1. Forest /\ Sound /\ Done = Reachable /\ \A b \in Reachable \ {root} : Settled(b)
  BY DEF Idom, Base, Fixed
<1>2. /\ post_order_id_ \in [Block -> Nat] /\ idom_ \in [Block \cup {Null} -> Block \cup {Null}]
      /\ Reachable \subseteq Block
  BY Order
<1>3. ASSUME NEW b \in Reachable, NEW c \in Block
      PROVE  c \in Chain(idom_, b) <=> Dominates(Edges, root, c, b)
  BY <1>1, ChainDominates, DominatorOnChain
<1>4. ASSUME NEW b \in Reachable \ {root} PROVE IsImmediateDominator(Edges, root, idom_[b], b)
  <2>1. idom_[b] \in Reachable /\ post_order_id_[idom_[b]] > post_order_id_[b]
    BY <1>1 DEF Forest
  <2>2. idom_[b] # b BY <2>1, <1>2
  <2>3. idom_[b] \in Chain(idom_, b) BY <2>1, <1>2, ChainSteps
  <2>4. Dominates(Edges, root, idom_[b], b) BY <2>1, <2>3, <1>2, <1>3
  <2>5. ASSUME NEW e \in Reach(Edges, {root}), StrictlyDominates(Edges, root, e, b)
        PROVE  Dominates(Edges, root, e, idom_[b])
    <3>1. e \in Block \ {b} /\ Dominates(Edges, root, e, b)
      BY <2>5, <1>2 DEF StrictlyDominates, Reachable
    <3> QED BY <3>1, <1>1 DEF Sound
  <2> QED BY <2>2, <2>4, <2>5 DEF IsImmediateDominator, StrictlyDominates
<1> QED BY <1>1, <1>3, <1>4

\* When the sweeps are over, idom_ is the immediate dominator of every block the
\* entry reaches and null for every other block, for every module.
THEOREM IdomIsCorrect == Spec => []IdomIsImmediateDominator
<1>1. TypeOK /\ Shape /\ Ordered /\ Idom => IdomIsImmediateDominator
  <2> SUFFICES ASSUME TypeOK, Shape, Ordered, Idom, pc \in Walking
               PROVE  /\ idom_[root] = root
                      /\ \A b \in Image(f.blocks) \ {root} :
                           IF b \in Reachable THEN IsImmediateDominator(Edges, root, idom_[b], b)
                           ELSE idom_[b] = Null
    BY DEF IdomIsImmediateDominator, Walking
  <2>1. Base BY DEF Base, After
  <2>2. Forest /\ \A b \in Reachable \ {root} : IsImmediateDominator(Edges, root, idom_[b], b)
    BY <2>1, FixedIsImmediate
  <2> QED BY <2>2 DEF Forest
<1> QED BY <1>1, Typed, VisitIsOrdered, IdomIsSound, PTL

-----------------------------------------------------------------------------
\* The frontiers of the functions whose turn has not come are empty.
Untouched ==
  \A i \in DOMAIN m : (i # 1 \/ pc \notin Walking) =>
    \A b \in Image(m[i].blocks) : dom_frontier_[b] = {}

\* n is passed on the way from the q-th predecessor of b to the idom of b.
OnTheWay(n, b, q) ==
  /\ f.pre[b][q] \in Reachable
  /\ n \in Chain(idom_, f.pre[b][q])
  /\ n \notin Chain(idom_, idom_[b])

\* The runner has been on the j-th block's way from the q-th predecessor
\* as far as n.
Walked(n, j, q) ==
  \/ j < at
  \/ j = at /\ pc = "runner" /\ (q < k \/ (q = k /\ n \notin Chain(idom_, runner)))

\* What has been added to the frontier of n.
Added(n) ==
  {b \in Block : \E j \in 1..Len(f.blocks) : /\ b = f.blocks[j] /\ IsJoin(b)
                   /\ \E q \in 1..Len(f.pre[b]) : OnTheWay(n, b, q) /\ Walked(n, j, q)}

Frontier ==
  /\ Untouched
  /\ pc \in Walking => \A n \in Reachable : dom_frontier_[n] = Added(n)
  /\ pc = "runner" =>
       /\ runner \in Image(f.blocks) \cup {Null}
       /\ f.pre[bb][k] \in Reachable =>
            /\ runner \in Chain(idom_, f.pre[bb][k])
            /\ idom_[bb] \in Chain(idom_, runner)
       /\ f.pre[bb][k] \notin Reachable => runner \notin Reachable

-----------------------------------------------------------------------------
LEMMA EntryHasNoPredecessor ==
  ASSUME TypeOK, Shape, pc # "function"
  PROVE  f.pre[root] = <<>>
<1>1. m # <<>> /\ f.blocks # <<>> /\ m \in Seq(Function) /\ WellFormed(m)
  BY DEF Shape, TypeOK
<1>2. 1 \in DOMAIN m /\ f = m[1]
  BY <1>1 DEF f
<1> QED BY <1>1, <1>2 DEF WellFormed, EntryIsNoTarget, root

\* What the sweeps leave, for the walk.
LEMMA WalkFacts ==
  ASSUME Base, Idom, pc \in Walking
  PROVE  /\ Forest /\ Done = Reachable /\ Reachable \subseteq Image(f.blocks)
         /\ idom_ \in [Block \cup {Null} -> Block \cup {Null}] /\ idom_[Null] = Null
         /\ post_order_id_ \in [Block -> Nat] /\ root \in Reachable
         /\ Image(f.blocks) \subseteq Block
         /\ \A b \in Image(f.blocks) : f.pre[b] \in Seq(Block) /\ Image(f.pre[b]) \subseteq Image(f.blocks)
         /\ \A b \in Image(f.blocks) : IsJoin(b) => b # root
         /\ \A b \in Image(f.blocks) : \A p \in Image(f.pre[b]) : p \in Reachable =>
              /\ b \in Reachable
              /\ b # root => idom_[b] \in Reachable /\ idom_[b] \in Chain(idom_, p)
                             /\ Chain(idom_, idom_[b]) \subseteq Chain(idom_, p)
<1> USE DEF Walking, After, Sweeping
<1>1. Forest /\ Done = Reachable /\ \A b \in Reachable \ {root} : Settled(b)
  BY DEF Idom, Base, Fixed
<1>2. /\ idom_ \in [Block \cup {Null} -> Block \cup {Null}] /\ idom_[Null] = Null
      /\ post_order_id_ \in [Block -> Nat] /\ Reachable \subseteq Block
  BY Order DEF Idom
<1>3. /\ Reachable \subseteq Image(f.blocks) /\ Image(f.blocks) \subseteq Block
      /\ f.pre \in [Block -> Seq(Block)] /\ root \in Reachable
      /\ \A b \in Reachable : \A t \in Image(f.succ[b]) : t \in Reachable /\ b \in Image(f.pre[t])
      /\ \A b \in Image(f.blocks) : \A p \in Image(f.pre[b]) :
           p \in Image(f.blocks) /\ b \in Image(f.succ[p])
  BY CurrentGraph DEF Base
<1>4. ASSUME NEW b \in Image(f.blocks), IsJoin(b) PROVE b # root
  <2>1. f.pre[root] = <<>> BY EntryHasNoPredecessor DEF Base
  <2>2. Len(<<>>) = 0 OBVIOUS
  <2> QED BY <2>1, <2>2, <1>4 DEF IsJoin
<1>5. ASSUME NEW b \in Image(f.blocks), NEW p \in Image(f.pre[b]), p \in Reachable
      PROVE  /\ b \in Reachable
             /\ b # root => idom_[b] \in Reachable /\ idom_[b] \in Chain(idom_, p)
                            /\ Chain(idom_, idom_[b]) \subseteq Chain(idom_, p)
  <2>1. b \in Reachable BY <1>3, <1>5
  <2>2. ASSUME b # root PROVE /\ idom_[b] \in Reachable /\ idom_[b] \in Chain(idom_, p)
                              /\ Chain(idom_, idom_[b]) \subseteq Chain(idom_, p)
    <3>1. p \in DonePre(b) BY <1>1, <1>5 DEF DonePre
    <3>2. Chain(idom_, idom_[b]) \subseteq Chain(idom_, p) BY <2>1, <2>2, <3>1, <1>1 DEF Settled
    <3>3. idom_[b] \in Reachable BY <2>1, <2>2, <1>1 DEF Forest
    <3> QED BY <3>2, <3>3, <1>2, ChainSteps
  <2> QED BY <2>1, <2>2
<1> QED BY <1>1, <1>2, <1>3, <1>4, <1>5

\* The runner climbs a chain from a live predecessor.
LEMMA RunnerClimbs ==
  ASSUME Base, Idom, Frontier, pc = "runner", f.pre[bb][k] \in Reachable
  PROVE  /\ runner \in Reachable /\ bb \in Reachable \ {root}
         /\ idom_[bb] \in Reachable
         /\ idom_[runner] \in Reachable
         /\ Chain(idom_, runner) = {runner} \cup Chain(idom_, idom_[runner])
         /\ idom_[runner] \in Chain(idom_, f.pre[bb][k])
         /\ runner # idom_[bb] =>
              /\ idom_[bb] \in Chain(idom_, idom_[runner])
              /\ runner \notin Chain(idom_, idom_[bb])
              /\ runner \notin Chain(idom_, idom_[runner])
<1> USE DEF Walking
<1> DEFINE p == f.pre[bb][k]
<1>1. bb \in Image(f.blocks) /\ IsJoin(bb) /\ p \in Image(f.pre[bb])
  <2>1. at \in 1..Len(f.blocks) /\ k \in 1..Len(f.pre[bb]) /\ IsJoin(bb)
    <3>1. /\ at <= Len(f.blocks) /\ IsJoin(bb) /\ k <= Len(f.pre[bb])
          /\ at \in Nat \ {0} /\ k \in Nat \ {0} /\ f.blocks \in Seq(Block) /\ bb \in Block
          /\ f.pre \in [Block -> Seq(Block)]
      BY CurrentFunction, CurrentBlock, CurrentGraph DEF Base, TypeOK, Shape
    <3> QED BY <3>1
  <2> QED BY <2>1 DEF bb, Image
<1>2. /\ Forest /\ Done = Reachable /\ idom_ \in [Block \cup {Null} -> Block \cup {Null}]
      /\ post_order_id_ \in [Block -> Nat] /\ Reachable \subseteq Block
      /\ bb \in Reachable \ {root} /\ idom_[bb] \in Reachable
  BY <1>1, WalkFacts
<1>3. runner \in Chain(idom_, p) /\ idom_[bb] \in Chain(idom_, runner)
  BY DEF Frontier
<1>4. Chain(idom_, p) \subseteq Done /\ \A c \in Chain(idom_, p) : idom_[c] \in Chain(idom_, p)
  BY <1>2, ChainRises
<1>5. runner \in Reachable /\ idom_[runner] \in Reachable /\ idom_[runner] \in Chain(idom_, p)
  BY <1>2, <1>3, <1>4
<1>6. Chain(idom_, runner) = {runner} \cup Chain(idom_, idom_[runner])
  BY <1>2, <1>5, ChainUnfold
<1>7. ASSUME runner # idom_[bb]
      PROVE  /\ idom_[bb] \in Chain(idom_, idom_[runner])
             /\ runner \notin Chain(idom_, idom_[bb])
             /\ runner \notin Chain(idom_, idom_[runner])
  <2>1. post_order_id_[idom_[bb]] > post_order_id_[runner]
    BY <1>2, <1>3, <1>5, <1>7, ChainRises
  <2>2. /\ post_order_id_[idom_[bb]] \in Nat /\ post_order_id_[runner] \in Nat
        /\ post_order_id_[idom_[runner]] \in Nat
    BY <1>2, <1>5
  <2>3. runner \notin Chain(idom_, idom_[bb])
    <3> SUFFICES ASSUME runner \in Chain(idom_, idom_[bb]) PROVE FALSE
      OBVIOUS
    <3>1. runner = idom_[bb] \/ post_order_id_[runner] > post_order_id_[idom_[bb]]
      BY <1>2, ChainRises
    <3> QED BY <3>1, <2>1, <2>2, <1>7
  <2>4. runner # root
    <3> SUFFICES ASSUME runner = root PROVE FALSE
      OBVIOUS
    <3>1. root \in Chain(idom_, idom_[bb]) BY <1>2, RootOnChain
    <3> QED BY <3>1, <2>3
  <2>5. post_order_id_[idom_[runner]] > post_order_id_[runner]
    BY <1>2, <1>5, <2>4 DEF Forest
  <2>6. runner \notin Chain(idom_, idom_[runner])
    <3> SUFFICES ASSUME runner \in Chain(idom_, idom_[runner]) PROVE FALSE
      OBVIOUS
    <3>1. runner = idom_[runner] \/ post_order_id_[runner] > post_order_id_[idom_[runner]]
      BY <1>2, <1>5, ChainRises
    <3> QED BY <3>1, <2>2, <2>5
  <2> QED BY <2>3, <2>6, <1>3, <1>6, <1>7
<1> QED BY <1>2, <1>5, <1>6, <1>7

\* The frontiers are what they were if every way is walked as far as it was.
LEMMA AddedStays ==
  ASSUME UNCHANGED <<m, visiting, idom_>>, NEW n,
         \A j \in 1..Len(f.blocks) : IsJoin(f.blocks[j]) =>
           \A q \in 1..Len(f.pre[f.blocks[j]]) : OnTheWay(n, f.blocks[j], q) =>
             (Walked(n, j, q)' <=> Walked(n, j, q))
  PROVE  Added(n)' = Added(n)
<1>1. /\ f' = f /\ Reachable' = Reachable /\ idom_' = idom_
  BY GraphStays
<1>2. \A b : IsJoin(b)' <=> IsJoin(b)
  BY <1>1 DEF IsJoin
<1>3. \A b, q : OnTheWay(n, b, q)' <=> OnTheWay(n, b, q)
  BY <1>1 DEF OnTheWay
<1>4. ASSUME NEW b \in Block, NEW j \in 1..Len(f.blocks), b = f.blocks[j], IsJoin(b)
      PROVE  (\E q \in 1..Len(f.pre[b]) : OnTheWay(n, b, q) /\ Walked(n, j, q)')
               <=> (\E q \in 1..Len(f.pre[b]) : OnTheWay(n, b, q) /\ Walked(n, j, q))
  BY <1>4
<1> QED BY <1>1, <1>2, <1>3, <1>4 DEF Added

\* The part of Frontier that most steps leave alone.
LEMMA UntouchedStays ==
  ASSUME Untouched, UNCHANGED <<m, dom_frontier_>>, pc \in Walking => pc' \in Walking
  PROVE  Untouched'
BY DEF Untouched

LEMMA FrontierStarts ==
  ASSUME Base, Idom, Frontier, StartFrontier
  PROVE  Frontier'
<1> USE DEF Walking
<1>1. /\ pc = "while" /\ pc' = "frontier" /\ at' = 1 /\ UNCHANGED <<m, visiting, idom_, dom_frontier_>>
  BY DEF StartFrontier, results
<1>2. /\ f' = f /\ Reachable' = Reachable
  BY <1>1, GraphStays
<1>3. \A n \in Reachable : dom_frontier_[n] = {}
  <2>1. m # <<>> /\ m \in Seq(Function) BY <1>1 DEF Base, Shape, TypeOK
  <2>2. 1 \in DOMAIN m /\ f = m[1] BY <2>1 DEF f
  <2>3. Reachable \subseteq Image(f.blocks) BY <1>1, CurrentGraph DEF Base
  <2> QED BY <2>2, <2>3, <1>1 DEF Frontier, Untouched
<1>4. ASSUME NEW n \in Reachable PROVE Added(n)' = {}
  <2>1. \A j \in 1..Len(f.blocks) : \A q : ~Walked(n, j, q)'
    <3>1. \A j \in 1..Len(f.blocks) : ~(j < 1) OBVIOUS
    <3> QED BY <3>1, <1>1 DEF Walked
  <2> QED BY <2>1, <1>2 DEF Added
<1>5. Untouched' BY <1>1, UntouchedStays DEF Frontier
<1> QED BY <1>1, <1>2, <1>3, <1>4, <1>5 DEF Frontier

LEMMA FrontierSkips ==
  ASSUME Base, Idom, Frontier, SkipNonJoin
  PROVE  Frontier'
<1> USE DEF Walking
<1>1. /\ pc = "frontier" /\ pc' = "frontier" /\ at' = at + 1 /\ at \in Nat
      /\ at <= Len(f.blocks) /\ ~IsJoin(f.blocks[at])
      /\ UNCHANGED <<m, visiting, idom_, dom_frontier_>>
  BY DEF SkipNonJoin, results, bb, Base, TypeOK
<1>2. ASSUME NEW n PROVE Added(n)' = Added(n)
  <2>1. \A j \in 1..Len(f.blocks) : IsJoin(f.blocks[j]) => j # at
    BY <1>1
  <2>2. \A j \in 1..Len(f.blocks) : j # at => (j < at + 1 <=> j < at)
    BY <1>1
  <2>3. \A j \in 1..Len(f.blocks) : IsJoin(f.blocks[j]) =>
          \A q : Walked(n, j, q)' <=> Walked(n, j, q)
    BY <2>1, <2>2, <1>1 DEF Walked
  <2> QED BY <2>3, <1>1, AddedStays
<1>3. Untouched' BY <1>1, UntouchedStays DEF Frontier
<1> QED BY <1>1, <1>2, <1>3, GraphStays DEF Frontier

LEMMA FrontierJoin ==
  ASSUME Base, Idom, Frontier, StartJoin
  PROVE  Frontier'
<1> USE DEF Walking
<1>1. /\ pc = "frontier" /\ pc' = "runner" /\ at' = at /\ at \in Nat \ {0} /\ k' = 1
      /\ at <= Len(f.blocks) /\ IsJoin(bb) /\ bb = f.blocks[at] /\ runner' = f.pre[bb][1]
      /\ UNCHANGED <<m, visiting, idom_, dom_frontier_>>
  BY DEF StartJoin, results, bb, Base, TypeOK
<1>2. /\ bb' = bb /\ f' = f /\ Reachable' = Reachable
  BY <1>1, GraphStays DEF bb
<1>3. bb \in Image(f.blocks)
  <2>1. f.blocks \in Seq(Block) BY <1>1, CurrentFunction DEF Base, Shape
  <2>2. at \in 1..Len(f.blocks) BY <2>1, <1>1
  <2> QED BY <2>2, <1>1 DEF Image
<1>4. f.pre[bb] \in Seq(Block) /\ Image(f.pre[bb]) \subseteq Image(f.blocks) /\ bb # root
  BY <1>1, <1>3, WalkFacts
<1>5. 1 \in 1..Len(f.pre[bb])
  BY <1>1, <1>4 DEF IsJoin
<1>6. f.pre[bb][1] \in Image(f.pre[bb])
  BY <1>5 DEF Image
<1>7. ASSUME NEW n PROVE Added(n)' = Added(n)
  <2> SUFFICES ASSUME NEW j \in 1..Len(f.blocks), NEW q \in 1..Len(f.pre[f.blocks[j]]),
                      OnTheWay(n, f.blocks[j], q)
               PROVE  Walked(n, j, q)' <=> Walked(n, j, q)
    BY <1>1, AddedStays
  <2>1. ASSUME j = at, q = 1 PROVE n \in Chain(idom_, runner')
    BY <2>1, <1>1 DEF OnTheWay
  <2>2. ~(q < 1) OBVIOUS
  <2>3. Walked(n, j, q)' <=> j < at \/ (j = at /\ (q < 1 \/ (q = 1 /\ n \notin Chain(idom_, runner'))))
    BY <1>1 DEF Walked
  <2>4. Walked(n, j, q) <=> j < at
    BY <1>1 DEF Walked
  <2> QED BY <2>1, <2>2, <2>3, <2>4
<1>8. Untouched' BY <1>1, UntouchedStays DEF Frontier
<1>9. ASSUME f.pre[bb][1] \in Reachable
      PROVE  runner' \in Chain(idom_, f.pre[bb][1]) /\ idom_[bb] \in Chain(idom_, runner')
  <2>1. idom_[bb] \in Chain(idom_, f.pre[bb][1]) BY <1>1, <1>3, <1>4, <1>6, <1>9, WalkFacts
  <2>2. f.pre[bb][1] \in Chain(idom_, f.pre[bb][1]) BY <1>1, <1>9, Order, ChainSteps
  <2> QED BY <2>1, <2>2, <1>1
<1>10. runner' \in Image(f.blocks) BY <1>1, <1>4, <1>6
<1> QED BY <1>1, <1>2, <1>7, <1>8, <1>9, <1>10 DEF Frontier

LEMMA FrontierRuns ==
  ASSUME Base, Idom, Frontier, Run
  PROVE  Frontier'
<1> USE DEF Walking
<1> DEFINE p == f.pre[bb][k]
<1>1. /\ pc = "runner" /\ pc' = "runner" /\ at' = at /\ k' = k /\ runner # idom_[bb]
      /\ runner' = idom_[runner] /\ dom_frontier_' = [dom_frontier_ EXCEPT ![runner] = @ \cup {bb}]
      /\ UNCHANGED <<m, visiting, idom_>>
  BY DEF Run
<1>2. /\ bb' = bb /\ f' = f /\ Reachable' = Reachable
  BY <1>1, GraphStays DEF bb
<1>3. /\ at \in 1..Len(f.blocks) /\ bb = f.blocks[at] /\ IsJoin(bb) /\ bb \in Image(f.blocks)
      /\ bb \in Block /\ k \in 1..Len(f.pre[bb])
  <2>1. /\ at <= Len(f.blocks) /\ IsJoin(bb) /\ k <= Len(f.pre[bb])
        /\ at \in Nat \ {0} /\ k \in Nat \ {0} /\ f.blocks \in Seq(Block) /\ bb \in Block
        /\ f.pre \in [Block -> Seq(Block)]
    BY <1>1, CurrentFunction, CurrentBlock, CurrentGraph DEF Base, TypeOK, Shape
  <2>2. bb = f.blocks[at] BY <1>1 DEF bb
  <2> QED BY <2>1, <2>2 DEF Image
<1>4. /\ idom_ \in [Block \cup {Null} -> Block \cup {Null}] /\ idom_[Null] = Null
      /\ Reachable \subseteq Image(f.blocks) /\ Image(f.blocks) \subseteq Block
      /\ Forest /\ dom_frontier_ \in [Block \cup {Null} -> SUBSET Block]
      /\ runner \in Image(f.blocks) \cup {Null}
  BY <1>1, WalkFacts DEF Base, TypeOK, Frontier
<1>5. /\ dom_frontier_'[runner] = dom_frontier_[runner] \cup {bb}
      /\ \A b \in Block : b # runner => dom_frontier_'[b] = dom_frontier_[b]
  BY <1>1, <1>4
<1>6. Untouched'
  <2> SUFFICES ASSUME NEW i \in DOMAIN m, i # 1, NEW b \in Image(m[i].blocks)
               PROVE  dom_frontier_'[b] = {}
    BY <1>1 DEF Untouched
  <2>1. m # <<>> /\ m \in Seq(Function) /\ WellFormed(m) BY <1>1 DEF Base, Shape, TypeOK
  <2>2. 1 \in DOMAIN m /\ f = m[1] BY <2>1 DEF f
  <2>3. b \notin Image(f.blocks) BY <2>1, <2>2 DEF WellFormed
  <2>4. b \in Block
    <3>1. m[i] \in Function BY <2>1
    <3>2. m[i].blocks \in Seq(Block)
      <4> DEFINE g == m[i]
      <4>1. g \in [blocks: Seq(Block), succ: [Block -> Seq(Block)], pre: [Block -> Seq(Block)]]
        BY <3>1 DEF Function
      <4> HIDE DEF g
      <4>2. g.blocks \in Seq(Block) BY <4>1
      <4> QED BY <4>2 DEF g
    <3> QED BY <3>2 DEF Image
  <2>5. b # runner BY <2>3, <2>4, <1>4, NullAssumption
  <2>6. dom_frontier_[b] = {} BY DEF Frontier, Untouched
  <2> QED BY <2>4, <2>5, <2>6, <1>5
<1>7. CASE p \in Reachable
  <2>1. /\ runner \in Reachable /\ bb \in Reachable \ {root} /\ idom_[bb] \in Reachable
        /\ idom_[runner] \in Reachable
        /\ Chain(idom_, runner) = {runner} \cup Chain(idom_, idom_[runner])
        /\ idom_[runner] \in Chain(idom_, p) /\ runner \in Chain(idom_, p)
        /\ idom_[bb] \in Chain(idom_, idom_[runner])
        /\ runner \notin Chain(idom_, idom_[bb]) /\ runner \notin Chain(idom_, idom_[runner])
    BY <1>1, <1>7, RunnerClimbs DEF Frontier
  <2>2. ASSUME NEW n \in Reachable, n # runner PROVE Added(n)' = Added(n)
    <3>1. \A j, q : Walked(n, j, q)' <=> Walked(n, j, q)
      BY <2>1, <2>2, <1>1 DEF Walked
    <3> QED BY <3>1, <1>1, AddedStays
  <2>3. ASSUME NEW n \in Reachable, n = runner PROVE Added(n)' = Added(n) \cup {bb}
    <3>1. \A j, q : Walked(n, j, q) => Walked(n, j, q)'
      BY <2>1, <2>3, <1>1 DEF Walked
    <3>2. \A j, q : Walked(n, j, q)' => Walked(n, j, q) \/ j = at
      BY <1>1 DEF Walked
    <3>3. /\ \A j, q : j = at /\ q = k => Walked(n, j, q)'
          /\ OnTheWay(n, bb, k)
      BY <2>1, <2>3, <1>1, <1>7 DEF Walked, OnTheWay
    <3>4. /\ \A b, q : OnTheWay(n, b, q)' <=> OnTheWay(n, b, q)
          /\ \A b : IsJoin(b)' <=> IsJoin(b)
      BY <1>1, <1>2 DEF OnTheWay, IsJoin
    <3>5. Added(n)' = {b \in Block : \E j \in 1..Len(f.blocks) : /\ b = f.blocks[j] /\ IsJoin(b)
                         /\ \E q \in 1..Len(f.pre[b]) : OnTheWay(n, b, q) /\ Walked(n, j, q)'}
      BY <1>2, <3>4 DEF Added
    <3>6. ASSUME NEW b \in Added(n)' PROVE b \in Added(n) \cup {bb}
      <4>1. PICK j \in 1..Len(f.blocks) : /\ b = f.blocks[j] /\ IsJoin(b)
              /\ \E q \in 1..Len(f.pre[b]) : OnTheWay(n, b, q) /\ Walked(n, j, q)'
        BY <3>5
      <4>2. b \in Block BY <3>5
      <4> QED BY <4>1, <4>2, <3>2, <1>3 DEF Added
    <3>7. Added(n) \subseteq Added(n)'
      BY <3>1, <3>5 DEF Added
    <3>8. bb \in Added(n)'
      BY <3>3, <3>5, <1>3
    <3> QED BY <3>6, <3>7, <3>8
  <2>4. ASSUME NEW n \in Reachable PROVE dom_frontier_'[n] = Added(n)'
    <3>1. n \in Block /\ dom_frontier_[n] = Added(n) BY <1>1, <1>4 DEF Frontier
    <3>2. CASE n = runner BY <3>1, <3>2, <2>3, <1>5
    <3>3. CASE n # runner BY <3>1, <3>3, <2>2, <1>5
    <3> QED BY <3>2, <3>3
  <2>5. runner' \in Image(f.blocks) BY <2>1, <1>1, <1>4
  <2> QED BY <2>1, <2>4, <2>5, <1>1, <1>2, <1>6, <1>7 DEF Frontier
<1>8. CASE p \notin Reachable
  <2>1. runner \notin Reachable BY <1>1, <1>8 DEF Frontier
  <2>2. runner' = Null
    <3>1. CASE runner = Null BY <3>1, <1>1, <1>4
    <3>2. CASE runner # Null BY <3>2, <2>1, <1>1, <1>4 DEF Forest
    <3> QED BY <3>1, <3>2
  <2>3. runner' \notin Reachable BY <2>2, <1>4, NullAssumption
  <2>4. ASSUME NEW n \in Reachable PROVE dom_frontier_'[n] = Added(n)'
    <3>1. n \in Block /\ n # runner /\ dom_frontier_[n] = Added(n) BY <2>1, <1>1, <1>4 DEF Frontier
    <3>2. Added(n)' = Added(n)
      <4> SUFFICES ASSUME NEW j \in 1..Len(f.blocks), NEW q \in 1..Len(f.pre[f.blocks[j]]),
                          OnTheWay(n, f.blocks[j], q)
                   PROVE  Walked(n, j, q)' <=> Walked(n, j, q)
        BY <1>1, AddedStays
      <4>1. ~(j = at /\ q = k) BY <1>3, <1>8 DEF OnTheWay
      <4> QED BY <4>1, <1>1 DEF Walked
    <3> QED BY <3>1, <3>2, <1>5
  <2> QED BY <2>2, <2>3, <2>4, <1>1, <1>2, <1>6, <1>8 DEF Frontier
<1> QED BY <1>7, <1>8

LEMMA FrontierTurns ==
  ASSUME Base, Idom, Frontier, EndOfRun
  PROVE  Frontier'
<1> USE DEF Walking
<1>1. /\ pc = "runner" /\ runner = idom_[bb] /\ UNCHANGED <<m, visiting, idom_, dom_frontier_>>
  BY DEF EndOfRun, results
<1>2. /\ f' = f /\ Reachable' = Reachable
  BY <1>1, GraphStays
<1>3. /\ at \in 1..Len(f.blocks) /\ bb = f.blocks[at] /\ IsJoin(bb) /\ bb \in Image(f.blocks)
      /\ bb \in Block /\ k \in 1..Len(f.pre[bb]) /\ Len(f.pre[bb]) \in Nat
  <2>1. /\ at <= Len(f.blocks) /\ IsJoin(bb) /\ k <= Len(f.pre[bb])
        /\ at \in Nat \ {0} /\ k \in Nat \ {0} /\ f.blocks \in Seq(Block) /\ bb \in Block
        /\ f.pre \in [Block -> Seq(Block)]
    BY <1>1, CurrentFunction, CurrentBlock, CurrentGraph DEF Base, TypeOK, Shape
  <2>2. bb = f.blocks[at] BY <1>1 DEF bb
  <2> QED BY <2>1, <2>2 DEF Image
<1>4. Untouched'
  <2>1. pc' \in Walking BY <1>1 DEF EndOfRun
  <2> QED BY <2>1, <1>1, UntouchedStays DEF Frontier
<1>5. \A n \in Reachable : dom_frontier_[n] = Added(n)
  BY <1>1 DEF Frontier
<1>6. ASSUME NEW n, NEW q, OnTheWay(n, bb, q)
      PROVE  n \notin Chain(idom_, runner)
  BY <1>1, <1>6 DEF OnTheWay
<1>7. CASE k < Len(f.pre[bb])
  <2>1. /\ pc' = "runner" /\ at' = at /\ k' = k + 1 /\ runner' = f.pre[bb][k + 1]
    BY <1>1, <1>7 DEF EndOfRun
  <2>2. bb' = bb BY <2>1, <1>1, <1>2 DEF bb
  <2>3. k + 1 \in 1..Len(f.pre[bb]) BY <1>3, <1>7
  <2>4. f.pre[bb][k + 1] \in Image(f.pre[bb]) BY <2>3 DEF Image
  <2>5. runner' \in Image(f.blocks)
    BY <2>1, <2>4, <1>1, <1>3, WalkFacts
  <2>6. ASSUME runner' \in Reachable
        PROVE  runner' \in Chain(idom_, f.pre[bb][k + 1]) /\ idom_[bb] \in Chain(idom_, runner')
    <3>1. bb # root BY <1>1, <1>3, WalkFacts
    <3>2. idom_[bb] \in Chain(idom_, f.pre[bb][k + 1])
      BY <3>1, <2>1, <2>4, <2>6, <1>1, <1>3, WalkFacts
    <3>3. runner' \in Chain(idom_, runner') BY <2>6, Order, ChainSteps
    <3> QED BY <3>2, <3>3, <2>1
  <2>7. ASSUME NEW n PROVE Added(n)' = Added(n)
    <3> SUFFICES ASSUME NEW j \in 1..Len(f.blocks), NEW q \in 1..Len(f.pre[f.blocks[j]]),
                        OnTheWay(n, f.blocks[j], q)
                 PROVE  Walked(n, j, q)' <=> Walked(n, j, q)
      BY <1>1, AddedStays
    <3>1. CASE j # at BY <3>1, <2>1, <1>1 DEF Walked
    <3>2. CASE j = at
      <4>1. n \notin Chain(idom_, runner) BY <3>2, <1>3, <1>6
      <4>2. q = k + 1 => n \in Chain(idom_, runner')
        BY <3>2, <2>1, <1>3 DEF OnTheWay
      <4>3. q < k + 1 <=> (q < k \/ q = k) BY <3>2, <1>3
      <4>4. Walked(n, j, q)' <=> j < at \/ q < k + 1 \/ (q = k + 1 /\ n \notin Chain(idom_, runner'))
        BY <3>2, <2>1, <1>1 DEF Walked
      <4>5. Walked(n, j, q) <=> j < at \/ q < k \/ (q = k /\ n \notin Chain(idom_, runner))
        BY <3>2, <1>1 DEF Walked
      <4> QED BY <4>1, <4>2, <4>3, <4>4, <4>5
    <3> QED BY <3>1, <3>2
  <2> QED BY <2>1, <2>2, <2>5, <2>6, <2>7, <1>1, <1>2, <1>4, <1>5 DEF Frontier
<1>8. CASE ~(k < Len(f.pre[bb]))
  <2>1. pc' = "frontier" /\ at' = at + 1
    BY <1>1, <1>8 DEF EndOfRun
  <2>2. ASSUME NEW n PROVE Added(n)' = Added(n)
    <3> SUFFICES ASSUME NEW j \in 1..Len(f.blocks), NEW q \in 1..Len(f.pre[f.blocks[j]]),
                        OnTheWay(n, f.blocks[j], q)
                 PROVE  Walked(n, j, q)' <=> Walked(n, j, q)
      BY <1>1, AddedStays
    <3>1. j < at + 1 <=> j < at \/ j = at BY <1>3
    <3>2. Walked(n, j, q)' <=> j < at + 1 BY <2>1 DEF Walked
    <3>3. CASE j # at BY <3>1, <3>2, <3>3 DEF Walked
    <3>4. CASE j = at
      <4>1. n \notin Chain(idom_, runner) BY <3>4, <1>3, <1>6
      <4>2. q < k \/ q = k BY <3>4, <1>3, <1>8
      <4> QED BY <4>1, <4>2, <3>1, <3>2, <3>4, <1>1 DEF Walked
    <3> QED BY <3>3, <3>4
  <2> QED BY <2>1, <2>2, <1>1, <1>2, <1>4, <1>5 DEF Frontier
<1> QED BY <1>7, <1>8

LEMMA StepFrontier ==
  TypeOK /\ Shape /\ Ordered /\ Idom /\ Frontier /\ [Next]_vars => Frontier'
<1> SUFFICES ASSUME TypeOK, Shape, Ordered, Idom, Frontier, [Next]_vars PROVE Frontier'
  OBVIOUS
<1> USE DEF Walking, Sweeping, Folding, After
<1>1. ASSUME UNCHANGED <<m, dom_frontier_>>, pc \notin Walking, pc' \notin Walking PROVE Frontier'
  BY <1>1, UntouchedStays DEF Frontier
<1>2. ASSUME m' = Tail(m), m # <<>>, dom_frontier_' = dom_frontier_, pc' = "function" PROVE Frontier'
  <2>1. m \in Seq(Function) BY DEF TypeOK
  <2>2. /\ Len(Tail(m)) = Len(m) - 1 /\ Len(m) \in Nat /\ Tail(m) \in Seq(Function)
        /\ \A i \in 1..Len(Tail(m)) : Tail(m)[i] = m[i + 1]
    BY <2>1, <1>2
  <2>3. \A i \in DOMAIN Tail(m) : i + 1 \in DOMAIN m /\ i + 1 # 1 /\ Tail(m)[i] = m[i + 1]
    BY <2>1, <2>2
  <2>4. Untouched' BY <2>3, <1>2 DEF Frontier, Untouched
  <2> QED BY <2>4, <1>2 DEF Frontier
<1>3. CASE SkipDeclaration BY <1>2, <1>3 DEF SkipDeclaration, results
<1>4. CASE StartFunction BY <1>1, <1>4 DEF StartFunction, results
<1>5. CASE VisitSucc BY <1>1, <1>5 DEF VisitSucc, results
<1>6. CASE FinishVisit BY <1>1, <1>6 DEF FinishVisit, results
<1>7. CASE StartIdom BY <1>1, <1>7 DEF StartIdom
<1>8. CASE Sweep
  <2>1. CASE StartSweep BY <1>1, <2>1 DEF StartSweep, results
  <2>2. CASE SkipRoot BY <1>1, <2>2 DEF SkipRoot, results
  <2>3. CASE FindPred BY <1>1, <2>3 DEF FindPred, results
  <2>4. CASE SkipPred BY <1>1, <2>4 DEF SkipPred, results
  <2>5. CASE StartIntersect BY <1>1, <2>5 DEF StartIntersect, results
  <2>6. CASE ClimbFirst BY <1>1, <2>6 DEF ClimbFirst, Climb, results
  <2>7. CASE ClimbSecond BY <1>1, <2>7 DEF ClimbSecond, Climb, results
  <2>8. CASE Meet BY <1>1, <2>8 DEF Meet, results
  <2>9. CASE SetIdom BY <1>1, <2>9 DEF SetIdom
  <2>10. CASE EndOfSweep BY <1>1, <2>10 DEF EndOfSweep, results
  <2> QED BY <1>8, <2>1, <2>2, <2>3, <2>4, <2>5, <2>6, <2>7, <2>8, <2>9, <2>10 DEF Sweep
<1>9. CASE Walk
  <2>1. Base BY <1>9, TablesStay DEF Base
  <2> QED
    BY <1>9, <2>1, FrontierStarts, FrontierSkips, FrontierJoin, FrontierRuns, FrontierTurns DEF Walk
<1>10. CASE CreateDomTree BY <1>2, <1>10 DEF CreateDomTree, Shape
<1>11. CASE UNCHANGED vars
  <2>1. UNCHANGED <<m, visiting, idom_, dom_frontier_, pc, at, k, runner>>
    BY <1>11 DEF vars, visiting
  <2>2. Untouched' BY <2>1, UntouchedStays DEF Frontier
  <2>3. ASSUME NEW n PROVE Added(n)' = Added(n)
    <3>1. \A j, q : Walked(n, j, q)' <=> Walked(n, j, q) BY <2>1 DEF Walked
    <3> QED BY <3>1, <2>1, AddedStays
  <2>4. bb' = bb /\ f' = f /\ Reachable' = Reachable BY <2>1, GraphStays DEF bb, visiting
  <2> QED BY <2>1, <2>2, <2>3, <2>4 DEF Frontier
<1> QED
  BY NextCases, <1>3, <1>4, <1>5, <1>6, <1>7, <1>8, <1>9, <1>10, <1>11

\* dom_frontier_ holds, at every moment of the walk, what has been walked over.
THEOREM FrontierIsWalked == Spec => []Frontier
<1>1. Init => Frontier
  <2> SUFFICES ASSUME Init PROVE Frontier
    OBVIOUS
  <2>1. m \in Seq(Function) /\ pc = "function" /\ \A b \in Block : dom_frontier_[b] = {}
    BY ModulesAssumption DEF Init
  <2>2. \A i \in DOMAIN m : Image(m[i].blocks) \subseteq Block
    <3> SUFFICES ASSUME NEW g \in Function PROVE Image(g.blocks) \subseteq Block
      BY <2>1
    <3>1. g.blocks \in Seq(Block)
      <4>1. g \in [blocks: Seq(Block), succ: [Block -> Seq(Block)], pre: [Block -> Seq(Block)]]
        BY DEF Function
      <4> QED BY <4>1
    <3> QED BY <3>1 DEF Image
  <2>3. Untouched
    <3>1. ASSUME NEW i \in DOMAIN m, NEW b \in Image(m[i].blocks) PROVE dom_frontier_[b] = {}
      BY <2>1, <2>2, <3>1
    <3> QED BY <3>1 DEF Untouched
  <2>4. pc \notin Walking /\ pc = "function" BY <2>1 DEF Walking
  <2> QED BY <2>3, <2>4 DEF Frontier
<1>2. (TypeOK /\ Shape) /\ (Visit /\ Ordered) /\ Idom /\ Frontier /\ [Next]_vars => Frontier'
  BY StepFrontier
<1> QED BY <1>1, <1>2, Typed, VisitIsOrdered, IdomIsSound, PTL DEF Spec

-----------------------------------------------------------------------------
\* A block with one predecessor is in no frontier.
LEMMA SinglePredecessor ==
  ASSUME Base, Idom, pc \in Walking, NEW b \in Reachable \ {root}, ~IsJoin(b),
         NEW p \in Image(f.pre[b]), p \in Reachable
  PROVE  p \in Chain(idom_, idom_[b])
<1> USE DEF Walking, After, Sweeping
<1>1. /\ Forest /\ Done = Reachable /\ idom_ \in [Block \cup {Null} -> Block \cup {Null}]
      /\ post_order_id_ \in [Block -> Nat] /\ Reachable \subseteq Block
      /\ b \in Image(f.blocks) /\ f.pre[b] \in Seq(Block) /\ Graph(Block, Edges, root)
      /\ idom_[b] \in Reachable
  <2>1. Forest /\ Done = Reachable BY WalkFacts
  <2>2. idom_[b] \in Reachable BY <2>1 DEF Forest
  <2> QED BY <2>1, <2>2, WalkFacts, CurrentGraph, Order DEF Base
<1>2. \A q \in Image(f.pre[b]) : q = p
  <2>1. Len(f.pre[b]) \in Nat /\ ~(Len(f.pre[b]) >= 2) BY <1>1 DEF IsJoin
  <2>2. \A i, j \in 1..Len(f.pre[b]) : i = j BY <2>1
  <2> QED BY <2>2 DEF Image
<1>3. p # b
  <2>1. PICK i \in 1..Len(reverse_post_order_) : b = reverse_post_order_[i]
    BY Order
  <2>2. i # 1 BY <2>1 DEF Base, Ordered
  <2>3. PICK j \in 1..(i - 1) : reverse_post_order_[j] \in Image(f.pre[b])
    BY <2>1, <2>2 DEF Base, Ordered
  <2>4. Len(reverse_post_order_) \in Nat BY DEF Base, TypeOK
  <2>5. j \in 1..Len(reverse_post_order_) /\ j # i BY <2>1, <2>3, <2>4
  <2>6. /\ post_order_id_[reverse_post_order_[j]] = Len(reverse_post_order_) - j
        /\ post_order_id_[reverse_post_order_[i]] = Len(reverse_post_order_) - i
    BY <2>1, <2>5 DEF Base, Ordered
  <2>7. reverse_post_order_[j] = p BY <2>3, <1>2
  <2> QED BY <2>1, <2>4, <2>5, <2>6, <2>7
<1>4. Dominates(Edges, root, p, b)
  <2>1. ASSUME NEW q \in Reach(Edges, {root}), b \in Edges[q] PROVE Dominates(Edges, root, p, q)
    <3>1. q \in Reachable /\ b \in Image(f.succ[q])
      BY <2>1, <1>1, CurrentGraph DEF Base, Reachable
    <3>2. q \in Image(f.pre[b]) BY <3>1, CurrentGraph DEF Base
    <3>3. q = p BY <3>2, <1>2
    <3> QED BY <3>3 DEF Dominates
  <2> QED BY <2>1, <1>1, DominatesJoin
<1>5. p \in Chain(idom_, b)
  BY <1>1, <1>4, FixedIsImmediate
<1>6. Chain(idom_, b) = {b} \cup Chain(idom_, idom_[b])
  <2>1. b \in Block /\ idom_[b] \in Block BY <1>1
  <2>2. b # root /\ b \in Done BY <1>1
  <2>3. idom_[b] # Null BY <2>1, NullAssumption
  <2> QED BY <1>1, <2>1, <2>2, <2>3, ChainUnfold
<1> QED BY <1>3, <1>5, <1>6

\* What the runners walk over is the dominance frontier.
LEMMA WalkedOverIsFrontier ==
  ASSUME Base, Idom, pc = "frontier", at > Len(f.blocks), NEW n \in Reachable
  PROVE  Added(n) = DominanceFrontier(Edges, root, n)
<1> USE DEF Walking, After, Sweeping
<1>1. /\ Forest /\ Done = Reachable /\ idom_ \in [Block \cup {Null} -> Block \cup {Null}]
      /\ post_order_id_ \in [Block -> Nat] /\ Reachable \subseteq Block
      /\ Reachable \subseteq Image(f.blocks) /\ Image(f.blocks) \subseteq Block
      /\ \A b \in Image(f.blocks) : IsJoin(b) => b # root
      /\ \A b \in Reachable : \A c \in Block : c \in Chain(idom_, b) <=> Dominates(Edges, root, c, b)
  BY WalkFacts, FixedIsImmediate
<1>2. DOMAIN Edges = Block /\ \A b \in Block : Edges[b] = Image(f.succ[b])
  BY DEF Edges
<1>3. DominanceFrontier(Edges, root, n) =
        {b \in Reachable : /\ \E p \in Predecessors(Edges, b) \cap Reachable : Dominates(Edges, root, n, p)
                           /\ ~StrictlyDominates(Edges, root, n, b)}
  BY DEF DominanceFrontier, Reachable
\* What it means not to be on the chain of the idom of b.
<1>4. ASSUME NEW b \in Reachable \ {root}
      PROVE  /\ idom_[b] \in Reachable
             /\ n \notin Chain(idom_, idom_[b]) <=> ~StrictlyDominates(Edges, root, n, b)
  <2>1. idom_[b] \in Reachable /\ post_order_id_[idom_[b]] > post_order_id_[b]
    BY <1>1 DEF Forest
  <2>2. Chain(idom_, b) = {b} \cup Chain(idom_, idom_[b])
    BY <2>1, <1>1, ChainUnfold
  <2>3. b \notin Chain(idom_, idom_[b])
    <3> SUFFICES ASSUME b \in Chain(idom_, idom_[b]) PROVE FALSE
      OBVIOUS
    <3>1. b = idom_[b] \/ post_order_id_[b] > post_order_id_[idom_[b]]
      BY <2>1, <1>1, ChainRises
    <3>2. post_order_id_[b] \in Nat /\ post_order_id_[idom_[b]] \in Nat BY <2>1, <1>1
    <3> QED BY <3>1, <3>2, <2>1
  <2> QED BY <2>1, <2>2, <2>3, <1>1 DEF StrictlyDominates
<1>5. ASSUME NEW b \in Added(n) PROVE b \in DominanceFrontier(Edges, root, n)
  <2>1. PICK j \in 1..Len(f.blocks), q \in 1..Len(f.pre[b]) :
          b = f.blocks[j] /\ IsJoin(b) /\ OnTheWay(n, b, q)
    BY DEF Added
  <2>2. b \in Image(f.blocks) /\ f.pre[b][q] \in Image(f.pre[b]) /\ f.pre[b][q] \in Reachable
    BY <2>1 DEF Image, OnTheWay
  <2>3. b \in Reachable \ {root} BY <2>1, <2>2, <1>1, WalkFacts
  <2>4. b \in Edges[f.pre[b][q]]
    <3>1. ASSUME NEW p \in Image(f.pre[b]), p \in Reachable PROVE b \in Edges[p]
      <4>1. p \in Block BY <3>1, <1>1
      <4>2. b \in Image(f.succ[p]) BY <2>2, <3>1, CurrentGraph DEF Base
      <4> QED BY <4>1, <4>2, <1>2
    <3> QED BY <3>1, <2>2
  <2>5. f.pre[b][q] \in Predecessors(Edges, b) \cap Reachable
    BY <2>2, <2>4, <1>1, <1>2 DEF Predecessors
  <2>6. Dominates(Edges, root, n, f.pre[b][q])
    BY <2>1, <2>2, <1>1 DEF OnTheWay
  <2>7. ~StrictlyDominates(Edges, root, n, b)
    BY <2>1, <2>3, <1>4 DEF OnTheWay
  <2> QED BY <2>3, <2>5, <2>6, <2>7, <1>3
<1>6. ASSUME NEW b \in DominanceFrontier(Edges, root, n) PROVE b \in Added(n)
  <2>1. PICK p \in Predecessors(Edges, b) \cap Reachable : Dominates(Edges, root, n, p)
    BY <1>3
  <2>2. b \in Reachable /\ ~StrictlyDominates(Edges, root, n, b) BY <1>3
  <2>3. p \in Image(f.pre[b])
    BY <2>1, <1>2, CurrentGraph DEF Base, Predecessors
  <2>4. b # root
    <3>1. f.pre[root] = <<>> BY EntryHasNoPredecessor DEF Base
    <3>2. Image(<<>>) = {}
      <4>1. 1..Len(<<>>) = {} OBVIOUS
      <4> QED BY <4>1 DEF Image
    <3> QED BY <3>1, <3>2, <2>3
  <2>5. n \notin Chain(idom_, idom_[b]) BY <2>2, <2>4, <1>4
  <2>6. n \in Chain(idom_, p) BY <2>1, <1>1
  <2>7. IsJoin(b)
    <3> SUFFICES ASSUME ~IsJoin(b) PROVE FALSE
      OBVIOUS
    <3>1. p \in Chain(idom_, idom_[b]) BY <2>1, <2>2, <2>3, <2>4, SinglePredecessor
    <3>2. idom_[b] \in Block BY <2>2, <2>4, <1>1, <1>4
    <3>3. Chain(idom_, p) \subseteq Chain(idom_, idom_[b]) BY <3>1, <3>2, <1>1, ChainOn
    <3> QED BY <3>3, <2>5, <2>6
  <2>8. PICK q \in 1..Len(f.pre[b]) : f.pre[b][q] = p BY <2>3 DEF Image
  <2>9. PICK j \in 1..Len(f.blocks) : b = f.blocks[j]
    <3>1. b \in Image(f.blocks) BY <2>2, <1>1
    <3> QED BY <3>1 DEF Image
  <2>10. j < at
    <3>1. f.blocks \in Seq(Block) /\ at \in Nat BY CurrentFunction DEF Base, TypeOK, Shape
    <3> QED BY <3>1
  <2>11. OnTheWay(n, b, q) /\ Walked(n, j, q)
    BY <2>1, <2>5, <2>6, <2>8, <2>10 DEF OnTheWay, Walked
  <2> QED BY <2>2, <2>7, <2>9, <2>11, <1>1 DEF Added
<1> QED BY <1>5, <1>6

\* When create_dominance_frontier is over, every live block has the dominance
\* frontier of the definition, for every module.
THEOREM FrontierIsCorrect == Spec => []FrontierIsDominanceFrontier
<1>1. TypeOK /\ Shape /\ Ordered /\ Idom /\ Frontier => FrontierIsDominanceFrontier
  <2> SUFFICES ASSUME TypeOK, Shape, Ordered, Idom, Frontier, pc = "frontier", at > Len(f.blocks),
                      NEW n \in Reachable
               PROVE  dom_frontier_[n] = DominanceFrontier(Edges, root, n)
    BY DEF FrontierIsDominanceFrontier
  <2>1. Base BY DEF Base, After, Walking
  <2> QED BY <2>1, WalkedOverIsFrontier DEF Frontier, Walking
<1> QED BY <1>1, Typed, VisitIsOrdered, IdomIsSound, FrontierIsWalked, PTL

-----------------------------------------------------------------------------
\* The branches that go down the order.
Forward == [b \in Block |-> {s \in Edges[b] : post_order_id_[s] < post_order_id_[b]}]

\* Above a forward dominator of b, the chain of b is in the chain of that one.
Merges(b) ==
  \A a \in Reachable : Dominates(Forward, root, a, b) =>
    \A c \in Chain(idom_, b) : post_order_id_[c] >= post_order_id_[a] => c \in Chain(idom_, a)

\* Every idom dominates its block on forward branches, and is no higher than
\* what the chains of the block's predecessors have in common.
Low(b) ==
  /\ Dominates(Forward, root, idom_[b], b)
  /\ \A c \in Common(b) : post_order_id_[c] >= post_order_id_[idom_[b]]

Rising ==
  /\ pc \in After => \A b \in Done \ {root} : Low(b)
  /\ pc \in Sweeping => \A i \in 1..Len(reverse_post_order_) : i < at =>
       Merges(reverse_post_order_[i])

LEMMA ForwardGraph ==
  ASSUME Base
  PROVE  /\ Graph(Block, Forward, root)
         /\ Reach(Forward, {root}) \subseteq Reachable
         /\ \A p \in Block : \A b \in Forward[p] : b \in Edges[p] /\ post_order_id_[p] > post_order_id_[b]
         /\ \A p, b \in Reachable : b \in Edges[p] /\ post_order_id_[p] > post_order_id_[b] => b \in Forward[p]
<1>1. /\ Graph(Block, Edges, root) /\ root \in Reachable /\ Reachable \subseteq Block
      /\ \A b \in Reachable : Edges[b] \subseteq Reachable
      /\ post_order_id_ \in [Block -> Nat]
  <2>1. Graph(Block, Edges, root) BY CurrentGraph DEF Base, After, Sweeping, Walking
  <2> QED BY <2>1, Order, ReachFromEntry DEF Reachable
<1>2. \A b \in Block : Forward[b] = {s \in Edges[b] : post_order_id_[s] < post_order_id_[b]}
  BY DEF Forward
<1>3. Graph(Block, Forward, root)
  BY <1>1, <1>2 DEF Graph, Forward
<1>4. Reach(Forward, {root}) \subseteq Reachable
  <2>1. \A b \in Reachable \cap Block : Forward[b] \subseteq Reachable BY <1>1, <1>2
  <2> QED BY <2>1, <1>1, <1>3, ReachInside
<1>5. \A p, b \in Block : post_order_id_[p] > post_order_id_[b] <=> post_order_id_[b] < post_order_id_[p]
  BY <1>1
<1>6. \A p \in Block : \A b \in Edges[p] : b \in Block
  BY <1>1 DEF Graph
<1> QED BY <1>1, <1>2, <1>3, <1>4, <1>5, <1>6

\* Every live block but the entry has a forward branch to it.
LEMMA ForwardBranch ==
  ASSUME Base, NEW i \in 1..Len(reverse_post_order_), i # 1
  PROVE  \E j \in 1..(i - 1) : /\ j \in 1..Len(reverse_post_order_)
                               /\ reverse_post_order_[i] \in Forward[reverse_post_order_[j]]
<1>1. PICK j \in 1..(i - 1) : reverse_post_order_[j] \in Image(f.pre[reverse_post_order_[i]])
  BY DEF Base, Ordered
<1>2. Len(reverse_post_order_) \in Nat BY DEF Base, TypeOK
<1>3. j \in 1..Len(reverse_post_order_) /\ j < i BY <1>1, <1>2
<1>4. reverse_post_order_[i] \in Reachable /\ reverse_post_order_[j] \in Reachable
  BY <1>3, Order
<1>5. reverse_post_order_[i] \in Edges[reverse_post_order_[j]]
  <2>1. reverse_post_order_[i] \in Image(f.blocks) /\ reverse_post_order_[j] \in Block
    BY <1>4, CurrentGraph DEF Base, After, Sweeping, Walking
  <2>2. reverse_post_order_[i] \in Image(f.succ[reverse_post_order_[j]])
    BY <2>1, <1>1, CurrentGraph DEF Base, After, Sweeping, Walking
  <2> QED BY <2>1, <2>2, CurrentGraph DEF Base, After, Sweeping, Walking
<1>6. post_order_id_[reverse_post_order_[j]] > post_order_id_[reverse_post_order_[i]]
  <2>1. /\ post_order_id_[reverse_post_order_[j]] = Len(reverse_post_order_) - j
        /\ post_order_id_[reverse_post_order_[i]] = Len(reverse_post_order_) - i
    BY <1>3 DEF Base, Ordered
  <2> QED BY <2>1, <1>2, <1>3
<1>7. reverse_post_order_[i] \in Forward[reverse_post_order_[j]]
  BY <1>4, <1>5, <1>6, ForwardGraph
<1> QED BY <1>1, <1>3, <1>7

\* What dominates a block on forward branches is higher in the order.
LEMMA ForwardDominatorIsHigher ==
  ASSUME Base, NEW a \in Reachable, NEW n \in Reachable, Dominates(Forward, root, a, n), a # n
  PROVE  post_order_id_[a] > post_order_id_[n]
<1> SUFFICES ASSUME ~(post_order_id_[a] > post_order_id_[n]) PROVE FALSE
  OBVIOUS
<1> DEFINE l == Len(reverse_post_order_)
           A == Around(Forward, root, a)
           S == {i \in 1..l : /\ reverse_post_order_[i] \notin A
                              /\ post_order_id_[reverse_post_order_[i]] > post_order_id_[a]}
<1>1. l \in Nat BY DEF Base, TypeOK
<1>2. /\ \A i \in 1..l : /\ reverse_post_order_[i] \in Reachable
                         /\ post_order_id_[reverse_post_order_[i]] = l - i
      /\ \A b \in Reachable : \E i \in 1..l : b = reverse_post_order_[i]
      /\ l >= 1 /\ reverse_post_order_[1] = root /\ Reachable \subseteq Block
  BY Order DEF Base, Ordered
<1>3. /\ root \in A /\ \A c \in A : c # a => Forward[c] \subseteq A
  BY ForwardGraph, AroundSteps
<1>4. PICK ia \in 1..l : a = reverse_post_order_[ia] BY <1>2
<1>5. PICK n0 \in 1..l : n = reverse_post_order_[n0] BY <1>2
<1>6. n0 < ia BY <1>1, <1>2, <1>4, <1>5
<1>7. n0 \in S
  <2>1. a # root
    <3> SUFFICES ASSUME a = root PROVE FALSE OBVIOUS
    <3>1. post_order_id_[a] = l - 1 BY <1>1, <1>2
    <3>2. post_order_id_[a] = l - ia BY <1>2, <1>4
    <3> QED BY <3>1, <3>2, <1>1, <1>6
  <2>2. n \notin A BY <2>1, DominatesAround
  <2>3. post_order_id_[n] > post_order_id_[a] BY <1>1, <1>2, <1>4, <1>5, <1>6
  <2> QED BY <2>2, <2>3, <1>5
<1>8. PICK i \in S : \A j \in S : i <= j
  <2>1. S \in SUBSET Nat /\ S # {} BY <1>1, <1>7
  <2> HIDE DEF S
  <2> QED BY <2>1, LeastNat
<1>9. i \in 1..l /\ i # 1 BY <1>2, <1>3
<1>10. PICK j \in 1..(i - 1) : j \in 1..l /\ reverse_post_order_[i] \in Forward[reverse_post_order_[j]]
  BY <1>9, ForwardBranch
<1>11. j < i BY <1>9, <1>10, <1>1
<1>12. post_order_id_[reverse_post_order_[j]] > post_order_id_[a]
  <2>1. post_order_id_[reverse_post_order_[i]] > post_order_id_[a] BY <1>8
  <2> QED BY <2>1, <1>1, <1>2, <1>4, <1>9, <1>10, <1>11
<1>13. reverse_post_order_[j] # a
  <2>1. post_order_id_[a] = l - ia BY <1>2, <1>4
  <2> QED BY <2>1, <1>12, <1>1
<1>14. reverse_post_order_[j] \in A
  <2>1. j \notin S
    <3> SUFFICES ASSUME j \in S PROVE FALSE OBVIOUS
    <3>1. i <= j BY <1>8
    <3> QED BY <3>1, <1>9, <1>10, <1>11
  <2> QED BY <2>1, <1>10, <1>12
<1>15. reverse_post_order_[i] \in A BY <1>3, <1>10, <1>13, <1>14
<1> QED BY <1>15, <1>8

\* Chains hold dominators on forward branches only.
LEMMA ChainIsForward ==
  ASSUME Base, Forest, \A b \in Done \ {root} : Dominates(Forward, root, idom_[b], b),
         NEW b \in Done, NEW c \in Chain(idom_, b)
  PROVE  Dominates(Forward, root, c, b)
<1> DEFINE S == {x \in Done : Dominates(Forward, root, x, b)}
<1>1. /\ idom_ \in [Block \cup {Null} -> Block \cup {Null}] /\ Done \subseteq Block
      /\ Graph(Block, Forward, root)
  BY Order, ForwardGraph DEF Done
<1>2. ASSUME NEW x \in S PROVE idom_[x] \in S
  <2>1. CASE x = root BY <2>1, <1>2 DEF Forest
  <2>2. CASE x # root
    <3>1. idom_[x] \in Done /\ Dominates(Forward, root, idom_[x], x) BY <2>2, <1>2 DEF Forest
    <3>2. Dominates(Forward, root, x, b) BY <1>2
    <3> QED BY <3>1, <3>2, <1>1, DominatesTransitive
  <2> QED BY <2>1, <2>2
<1>3. Chain(idom_, b) \subseteq S
  <2>1. b \in S /\ b \in Block BY <1>1 DEF Dominates
  <2> HIDE DEF S
  <2> QED BY <2>1, <1>1, <1>2, ChainInside
<1> QED BY <1>3

\* When a block gets its idom, all its forward predecessors have theirs.
LEMMA ForwardIsDone ==
  ASSUME Base, Swept, pc \in Sweeping, at \in 1..Len(reverse_post_order_), NEW p \in Reachable,
         post_order_id_[p] > post_order_id_[reverse_post_order_[at]]
  PROVE  p \in Done /\ \E i \in 1..Len(reverse_post_order_) : i < at /\ p = reverse_post_order_[i]
<1>1. PICK i \in 1..Len(reverse_post_order_) : p = reverse_post_order_[i] BY Order
<1>2. /\ post_order_id_[reverse_post_order_[i]] = Len(reverse_post_order_) - i
      /\ post_order_id_[reverse_post_order_[at]] = Len(reverse_post_order_) - at
  BY <1>1 DEF Base, Ordered
<1>3. Len(reverse_post_order_) \in Nat BY DEF Base, TypeOK
<1>4. i < at BY <1>1, <1>2, <1>3
<1> QED BY <1>1, <1>4 DEF Swept

\* The new idom of bb is on the chain bb has, if it has one.
LEMMA NewIdomIsAbove ==
  ASSUME Base, Idom, Rising, pc = "preds", k > Len(f.pre[bb])
  PROVE  /\ Dominates(Forward, root, new_idom, bb)
         /\ bb \in Done => /\ post_order_id_[new_idom] >= post_order_id_[idom_[bb]]
                           /\ new_idom \in Chain(idom_, bb)
<1> USE DEF Sweeping, Folding, Walking, After
<1>1. /\ Forest /\ Swept /\ \A b \in Done \ {root} : Low(b)
      /\ \A i \in 1..Len(reverse_post_order_) : i < at => Merges(reverse_post_order_[i])
  BY DEF Idom, Rising, Base
<1>2. /\ bb \in Reachable \ {root} /\ new_idom \in Done
      /\ \A q \in DonePre(bb) : Chain(idom_, new_idom) \subseteq Chain(idom_, q)
  BY FoldEnds
<1>3. /\ post_order_id_ \in [Block -> Nat] /\ idom_ \in [Block \cup {Null} -> Block \cup {Null}]
      /\ Done \subseteq Reachable /\ Reachable \subseteq Block /\ Graph(Block, Forward, root)
  BY Order, ForwardGraph DEF Done
<1>4. bb = reverse_post_order_[at] /\ at \in 1..Len(reverse_post_order_)
  BY DEF Base, TypeOK, Shape, bb
<1>5. new_idom \in Chain(idom_, new_idom) BY <1>2, <1>3, ChainSteps
<1>6. \A q \in DonePre(bb) : new_idom \in Chain(idom_, q) BY <1>2, <1>5
<1>7. ASSUME NEW p \in Reachable, bb \in Forward[p]
      PROVE  /\ p \in DonePre(bb) /\ p \in Block
             /\ \E i \in 1..Len(reverse_post_order_) : i < at /\ p = reverse_post_order_[i]
  <2>1. bb \in Edges[p] /\ post_order_id_[p] > post_order_id_[bb]
    BY <1>3, <1>7, ForwardGraph
  <2>2. p \in Done /\ \E i \in 1..Len(reverse_post_order_) : i < at /\ p = reverse_post_order_[i]
    BY <2>1, <1>1, <1>4, ForwardIsDone
  <2>3. p \in Image(f.pre[bb])
    BY <2>1, <1>3, CurrentGraph DEF Base
  <2> QED BY <2>2, <2>3, <1>3 DEF DonePre
<1>8. Dominates(Forward, root, new_idom, bb)
  <2>1. ASSUME NEW p \in Reach(Forward, {root}), bb \in Forward[p]
        PROVE  Dominates(Forward, root, new_idom, p)
    <3>1. p \in Reachable BY ForwardGraph
    <3>2. p \in DonePre(bb) BY <3>1, <2>1, <1>7
    <3>3. p \in Done BY <3>2 DEF DonePre
    <3> QED BY <3>2, <3>3, <1>1, <1>6, ChainIsForward DEF Low
  <2> QED BY <2>1, <1>2, <1>3, DominatesJoin
<1>9. ASSUME bb \in Done
      PROVE  /\ post_order_id_[new_idom] >= post_order_id_[idom_[bb]]
             /\ new_idom \in Chain(idom_, bb)
  <2> DEFINE a == idom_[bb]
  <2>1. /\ a \in Done /\ post_order_id_[a] > post_order_id_[bb] /\ Low(bb) /\ bb \in Block
        /\ a \in Reachable /\ a \in Block
    BY <1>1, <1>2, <1>3, <1>9 DEF Forest
  <2>2. a # bb BY <2>1, <1>3
  <2>3. new_idom \in Common(bb) BY <1>2, <1>3, <1>6 DEF Common
  <2>4. post_order_id_[new_idom] >= post_order_id_[a] BY <2>1, <2>3 DEF Low
  <2>5. PICK j \in 1..(at - 1) : /\ j \in 1..Len(reverse_post_order_)
                                 /\ bb \in Forward[reverse_post_order_[j]]
    <3>1. at # 1 BY <1>2, <1>4 DEF Base, Ordered
    <3> QED BY <3>1, <1>4, ForwardBranch
  <2> DEFINE p == reverse_post_order_[j]
  <2>6. p \in Reachable /\ bb \in Forward[p] BY <2>5, Order
  <2>7. p \in DonePre(bb) /\ p \in Block BY <2>6, <1>7
  <2>8. Merges(p)
    <3>1. j < at BY <1>4, <2>5
    <3> QED BY <3>1, <2>5, <1>1
  <2>9. Dominates(Forward, root, a, bb) BY <2>1 DEF Low
  <2> HIDE DEF a, p
  <2>10. Dominates(Forward, root, a, p)
    BY <2>2, <2>6, <2>7, <2>9, <1>3, DominatesPredecessor
  <2>11. new_idom \in Chain(idom_, a)
    BY <2>1, <2>4, <2>7, <2>8, <2>10, <1>6 DEF Merges
  <2>12. Chain(idom_, bb) = {bb} \cup Chain(idom_, a)
    BY <2>1, <1>3, ChainUnfold DEF a
  <2> QED BY <2>4, <2>11, <2>12 DEF a
<1> QED BY <1>8, <1>9

\* SetIdom rewrites no chain but those that pass through bb, and only shortens
\* those.
LEMMA ChainsShrink ==
  ASSUME Base, Idom, Rising, SetIdom
  PROVE  /\ \A b \in Done : Chain(idom_', b) \subseteq Chain(idom_, b)
         /\ \A b \in Done : post_order_id_[b] > post_order_id_[bb] =>
              Chain(idom_', b) = Chain(idom_, b)
         /\ Chain(idom_', bb) = {bb} \cup Chain(idom_, new_idom)
<1> USE DEF Sweeping, Folding, Walking, After
<1>1. /\ pc = "preds" /\ k > Len(f.pre[bb]) /\ idom_' = [idom_ EXCEPT ![bb] = new_idom]
  BY DEF SetIdom
<1>2. /\ Forest /\ bb \in Reachable /\ new_idom \in Done
      /\ post_order_id_[new_idom] > post_order_id_[bb]
      /\ bb \in Done => new_idom \in Chain(idom_, bb)
  BY <1>1, FoldEnds, NewIdomIsAbove DEF Idom, Base
<1>3. /\ post_order_id_ \in [Block -> Nat] /\ idom_ \in [Block \cup {Null} -> Block \cup {Null}]
      /\ Done \subseteq Block /\ bb \in Block
  BY <1>2, Order DEF Done
<1>4. /\ idom_' \in [Block \cup {Null} -> Block \cup {Null}] /\ idom_'[bb] = new_idom
      /\ \A c \in Block : c # bb => idom_'[c] = idom_[c]
  BY <1>1, <1>2, <1>3
<1>5. ASSUME NEW b \in Done PROVE Chain(idom_', b) \subseteq Chain(idom_, b)
  <2> DEFINE S == Chain(idom_, b)
  <2>1. /\ S \subseteq Done /\ b \in S /\ \A c \in S : idom_[c] \in S
    BY <1>2, <1>3, <1>5, ChainRises, ChainSteps
  <2>2. \A c \in S : idom_'[c] \in S
    <3>1. ASSUME NEW c \in S PROVE idom_'[c] \in S
      <4>1. CASE c = bb
        <5>1. Chain(idom_, bb) \subseteq S BY <4>1, <3>1, <1>3, <1>5, ChainOn
        <5> QED BY <5>1, <4>1, <2>1, <1>2, <1>4
      <4>2. CASE c # bb BY <4>2, <3>1, <2>1, <1>3, <1>4
      <4> QED BY <4>1, <4>2
    <3> QED BY <3>1
  <2> HIDE DEF S
  <2>3. Chain(idom_', b) \subseteq S BY <2>1, <2>2, <1>3, <1>4, <1>5, ChainInside
  <2> QED BY <2>3 DEF S
<1>6. ASSUME NEW b \in Done, post_order_id_[b] > post_order_id_[bb]
      PROVE  Chain(idom_', b) = Chain(idom_, b)
  <2>1. \A c \in Chain(idom_, b) : c \in Block /\ (c = b \/ post_order_id_[c] > post_order_id_[b])
    BY <1>2, <1>3, ChainRises
  <2>2. \A c \in Chain(idom_, b) : c # bb BY <2>1, <1>3, <1>6
  <2> QED BY <2>1, <2>2, <1>3, <1>4, ChainLocal
<1>7. Chain(idom_', bb) = {bb} \cup Chain(idom_, new_idom)
  <2>1. Chain(idom_', bb) = {bb} \cup Chain(idom_', new_idom)
    BY <1>2, <1>3, <1>4, ChainUnfold
  <2>2. Chain(idom_', new_idom) = Chain(idom_, new_idom) BY <1>2, <1>6
  <2> QED BY <2>1, <2>2
<1> QED BY <1>5, <1>6, <1>7

LEMMA RisingSet ==
  ASSUME Base, Idom, Rising, SetIdom
  PROVE  Rising'
<1> USE DEF Sweeping, Folding, Walking, After
<1>1. /\ pc = "preds" /\ k > Len(f.pre[bb]) /\ pc' = "block" /\ at' = at + 1 /\ at \in Nat
      /\ UNCHANGED <<m, visiting>> /\ idom_' = [idom_ EXCEPT ![bb] = new_idom]
  BY DEF SetIdom, Base, TypeOK
<1>2. /\ Forest /\ Swept /\ bb \in Reachable \ {root} /\ new_idom \in Done
      /\ Common(bb) \subseteq Chain(idom_, new_idom)
      /\ \A q \in DonePre(bb) : Chain(idom_, new_idom) \subseteq Chain(idom_, q)
      /\ post_order_id_[new_idom] > post_order_id_[bb]
      /\ Dominates(Forward, root, new_idom, bb)
      /\ \A b \in Done \ {root} : Low(b)
      /\ \A i \in 1..Len(reverse_post_order_) : i < at => Merges(reverse_post_order_[i])
  BY <1>1, FoldEnds, NewIdomIsAbove DEF Idom, Base, Rising
<1>3. /\ post_order_id_ \in [Block -> Nat] /\ idom_ \in [Block \cup {Null} -> Block \cup {Null}]
      /\ Done \subseteq Reachable /\ Reachable \subseteq Block /\ Graph(Block, Forward, root)
  BY Order, ForwardGraph DEF Done
<1>4. /\ f' = f /\ root' = root /\ Reachable' = Reachable /\ Forward' = Forward
      /\ reverse_post_order_' = reverse_post_order_ /\ post_order_id_' = post_order_id_
  BY <1>1, GraphStays DEF visiting, Forward
<1>5. /\ idom_'[bb] = new_idom /\ \A b \in Block \cup {Null} : b # bb => idom_'[b] = idom_[b]
      /\ bb \in Block /\ bb # Null /\ new_idom # Null
  BY <1>1, <1>2, <1>3, NullAssumption
<1>6. Done' = Done \cup {bb}
  BY <1>2, <1>3, <1>4, <1>5 DEF Done
<1>7. /\ \A b \in Done : Chain(idom_', b) \subseteq Chain(idom_, b)
      /\ \A b \in Done : post_order_id_[b] > post_order_id_[bb] => Chain(idom_', b) = Chain(idom_, b)
      /\ Chain(idom_', bb) = {bb} \cup Chain(idom_, new_idom)
  BY ChainsShrink
<1>8. bb = reverse_post_order_[at] /\ at \in 1..Len(reverse_post_order_)
  BY <1>1 DEF Base, TypeOK, Shape, bb
<1>9. ASSUME NEW b \in Block, NEW c \in Common(b)' PROVE c \in Common(b)
  <2>1. c \in Block /\ \A q \in Image(f.pre[b]) \cap Done' : c \in Chain(idom_', q)
    BY <1>4, <1>9 DEF Common, DonePre
  <2>2. \A q \in DonePre(b) : c \in Chain(idom_, q)
    BY <2>1, <1>6, <1>7 DEF DonePre
  <2> QED BY <2>1, <2>2 DEF Common
<1>10. ASSUME NEW b \in Done' \ {root} PROVE Low(b)'
  <2>1. CASE b = bb
    <3>1. ASSUME NEW c \in Common(b)' PROVE post_order_id_[c] >= post_order_id_[new_idom]
      <4>1. c \in Chain(idom_, new_idom) BY <2>1, <3>1, <1>2, <1>5, <1>9
      <4>2. c \in Done /\ (c = new_idom \/ post_order_id_[c] > post_order_id_[new_idom])
        BY <4>1, <1>2, ChainRises
      <4>3. post_order_id_[c] \in Nat /\ post_order_id_[new_idom] \in Nat
        BY <4>2, <1>2, <1>3
      <4> QED BY <4>2, <4>3
    <3> QED BY <3>1, <2>1, <1>2, <1>4, <1>5 DEF Low
  <2>2. CASE b # bb
    <3>1. Low(b) /\ idom_'[b] = idom_[b] /\ b \in Block BY <2>2, <1>2, <1>3, <1>5, <1>6, <1>10
    <3> QED BY <3>1, <1>4, <1>9 DEF Low
  <2> QED BY <2>1, <2>2
\* What dominates a block swept before bb keeps its chain.
<1>11. ASSUME NEW y \in Reachable, post_order_id_[y] > post_order_id_[bb],
              NEW a \in Reachable, Dominates(Forward, root, a, y)
       PROVE  a \in Done /\ Chain(idom_', a) = Chain(idom_, a) /\ y \in Done
  <2>1. a = y \/ post_order_id_[a] > post_order_id_[y] BY <1>11, ForwardDominatorIsHigher
  <2>2. post_order_id_[a] \in Nat /\ post_order_id_[y] \in Nat /\ post_order_id_[bb] \in Nat
    BY <1>3, <1>5
  <2>3. post_order_id_[a] > post_order_id_[bb] BY <2>1, <2>2, <1>11
  <2>4. a \in Done /\ y \in Done BY <2>3, <1>1, <1>2, <1>8, <1>11, ForwardIsDone
  <2> QED BY <2>3, <2>4, <1>7
<1>12. ASSUME NEW i \in 1..Len(reverse_post_order_), i < at PROVE Merges(reverse_post_order_[i])'
  <2> DEFINE y == reverse_post_order_[i]
  <2>1. /\ y \in Reachable /\ Merges(y) /\ y' = y /\ Dominates(Forward, root, y, y)
    BY <1>2, <1>4, <1>12, Order DEF Dominates
  <2>2. post_order_id_[y] > post_order_id_[bb]
    <3>1. post_order_id_[y] = Len(reverse_post_order_) - i BY DEF Base, Ordered
    <3>2. post_order_id_[bb] = Len(reverse_post_order_) - at BY <1>8 DEF Base, Ordered
    <3>3. Len(reverse_post_order_) \in Nat BY DEF Base, TypeOK
    <3> QED BY <3>1, <3>2, <3>3, <1>8, <1>12
  <2> HIDE DEF y
  <2>3. Chain(idom_', y) = Chain(idom_, y) BY <2>1, <2>2, <1>11
  <2>4. Merges(y)' BY <2>1, <2>2, <2>3, <1>4, <1>11 DEF Merges
  <2> QED BY <2>4 DEF y
<1>13. ASSUME NEW x, x = bb PROVE Merges(x)'
  <2> SUFFICES ASSUME NEW a \in Reachable, Dominates(Forward, root, a, bb),
                      NEW c \in Chain(idom_', bb), post_order_id_[c] >= post_order_id_[a]
               PROVE  c \in Chain(idom_', a)
    BY <1>4, <1>13 DEF Merges
  <2>1. CASE a = bb BY <2>1
  <2>2. CASE a # bb
    <3>1. post_order_id_[a] > post_order_id_[bb] BY <2>2, <1>2, ForwardDominatorIsHigher
    <3>2. c # bb BY <3>1, <1>3, <1>5
    <3>3. c \in Chain(idom_, new_idom) BY <3>2, <1>7
    <3>4. PICK j \in 1..(at - 1) : /\ j \in 1..Len(reverse_post_order_)
                                   /\ bb \in Forward[reverse_post_order_[j]]
      <4>1. at # 1 BY <1>2, <1>8 DEF Base, Ordered
      <4> QED BY <4>1, <1>8, ForwardBranch
    <3> DEFINE p == reverse_post_order_[j]
    <3>5. p \in Reachable /\ p \in Block /\ bb \in Forward[p] BY <3>4, <1>3, Order
    <3>6. Merges(p)
      <4>1. j < at BY <3>4, <1>8
      <4> QED BY <4>1, <3>4, <1>2
    <3> HIDE DEF p
    <3>7. bb \in Edges[p] /\ post_order_id_[p] > post_order_id_[bb] BY <3>5, ForwardGraph
    <3>8. p \in DonePre(bb)
      <4>1. p \in Done BY <3>5, <3>7, <1>1, <1>2, <1>8, ForwardIsDone
      <4>2. p \in Image(f.pre[bb]) BY <3>5, <3>7, CurrentGraph DEF Base
      <4> QED BY <4>1, <4>2 DEF DonePre
    <3>9. c \in Chain(idom_, p) BY <3>3, <3>8, <1>2
    <3>10. Dominates(Forward, root, a, p) BY <2>2, <3>5, <1>3, DominatesPredecessor
    <3>11. c \in Chain(idom_, a) BY <3>6, <3>9, <3>10 DEF Merges
    <3>12. Chain(idom_', a) = Chain(idom_, a) BY <3>5, <3>7, <3>10, <1>11
    <3> QED BY <3>11, <3>12
  <2> QED BY <2>1, <2>2
<1>14. \A i \in 1..Len(reverse_post_order_) : i < at + 1 => Merges(reverse_post_order_[i])'
  <2>1. \A i \in 1..Len(reverse_post_order_) : i < at + 1 => i < at \/ i = at BY <1>1
  <2>2. ASSUME NEW i \in 1..Len(reverse_post_order_), i = at
        PROVE  Merges(reverse_post_order_[i])'
    <3> DEFINE y == reverse_post_order_[i]
    <3>1. y' = y /\ y = bb BY <2>2, <1>4, <1>8
    <3> HIDE DEF y
    <3>2. Merges(y)' BY <3>1, <1>13
    <3> QED BY <3>2 DEF y
  <2> QED BY <2>1, <2>2, <1>12
<1> QED BY <1>1, <1>4, <1>10, <1>14 DEF Rising

\* A step that writes no idom changes nothing of it.
LEMMA RisingStays ==
  ASSUME UNCHANGED <<m, visiting, idom_>>
  PROVE  /\ \A b \in Done : Low(b) => Low(b)'
         /\ \A b : Merges(b) => Merges(b)'
<1>1. /\ Forward' = Forward /\ root' = root /\ Reachable' = Reachable /\ idom_' = idom_
      /\ post_order_id_' = post_order_id_
  BY GraphStays DEF visiting, Forward
<1>2. \A b : Common(b)' = Common(b) BY ForestStays
<1> QED BY <1>1, <1>2 DEF Low, Merges

LEMMA StepRising ==
  TypeOK /\ Shape /\ Ordered /\ Idom /\ Rising /\ [Next]_vars => Rising'
<1> SUFFICES ASSUME TypeOK, Shape, Ordered, Idom, Rising, [Next]_vars PROVE Rising'
  OBVIOUS
<1> USE DEF Sweeping, Folding, Walking, After
<1>1. ASSUME pc' \notin After PROVE Rising' BY <1>1 DEF Rising
<1>2. ASSUME UNCHANGED <<m, visiting, idom_>>, pc \in After PROVE \A b \in Done' \ {root'} : Low(b)'
  BY <1>2, ForestStays, RisingStays DEF Rising
<1>3. ASSUME UNCHANGED <<m, visiting, idom_>>, pc \in After, pc' \notin Sweeping PROVE Rising'
  BY <1>3, <1>2 DEF Rising
<1>4. ASSUME UNCHANGED <<m, visiting, idom_>>, pc \in Sweeping, at' = at PROVE Rising'
  <2>1. reverse_post_order_' = reverse_post_order_ BY <1>4 DEF visiting
  <2>2. \A i \in 1..Len(reverse_post_order_) : i < at => Merges(reverse_post_order_[i])'
    BY <2>1, <1>4, RisingStays DEF Rising
  <2> QED BY <2>1, <2>2, <1>4, <1>2 DEF Rising
<1>5. CASE SkipDeclaration BY <1>1, <1>5 DEF SkipDeclaration
<1>6. CASE StartFunction BY <1>1, <1>6 DEF StartFunction
<1>7. CASE VisitSucc BY <1>1, <1>7 DEF VisitSucc
<1>8. CASE FinishVisit BY <1>1, <1>8 DEF FinishVisit
<1>9. CASE StartIdom
  <2>1. pc = "visit" /\ m' = m /\ pc' = "while" /\ root' = root /\ Reachable' = Reachable /\ f' = f
    BY <1>9, GraphStays DEF StartIdom
  <2>2. Reachable \subseteq Image(f.blocks) /\ Image(f.blocks) \subseteq Block
    BY <2>1, CurrentGraph
  <2>3. \A b \in Reachable : b # root => idom_'[b] = Null
    BY <1>9, <2>2 DEF StartIdom, TypeOK
  <2>4. Done' \ {root'} = {} BY <2>1, <2>3 DEF Done
  <2> QED BY <2>1, <2>4 DEF Rising
<1>10. CASE Sweep
  <2>0. Base BY <1>10, TablesStay DEF Base
  <2>1. CASE StartSweep
    <3>1. /\ UNCHANGED <<m, visiting, idom_>> /\ pc = "while" /\ at' = 1
      BY <2>1 DEF StartSweep, results
    <3>2. \A i \in 1..Len(reverse_post_order_)' : ~(i < 1) OBVIOUS
    <3> QED BY <3>1, <3>2, <1>2 DEF Rising
  <2>2. CASE SkipRoot
    <3>1. /\ UNCHANGED <<m, visiting, idom_>> /\ pc = "block" /\ at' = at + 1 /\ at \in Nat
          /\ bb = reverse_post_order_[at] /\ bb = root /\ at <= Len(reverse_post_order_)
      BY <2>2 DEF SkipRoot, results, TypeOK, bb
    <3>2. Graph(Block, Forward, root) BY <2>0, ForwardGraph
    <3>3. Merges(root)
      <4>1. \A a : Dominates(Forward, root, a, root) => a = root
        BY <3>2, EntryDominated
      <4> QED BY <4>1 DEF Merges
    <3>4. \A i \in 1..Len(reverse_post_order_) : i < at + 1 => i < at \/ i = at BY <3>1
    <3>5. \A i \in 1..Len(reverse_post_order_) : i < at + 1 => Merges(reverse_post_order_[i])
      BY <3>1, <3>3, <3>4 DEF Rising
    <3>6. reverse_post_order_' = reverse_post_order_ BY <3>1 DEF visiting
    <3>7. \A i \in 1..Len(reverse_post_order_) : i < at + 1 => Merges(reverse_post_order_[i])'
      BY <3>1, <3>5, <3>6, RisingStays
    <3> QED BY <3>1, <3>6, <3>7, <1>2 DEF Rising
  <2>3. CASE FindPred BY <1>4, <2>3 DEF FindPred, results
  <2>4. CASE SkipPred BY <1>4, <2>4 DEF SkipPred, results
  <2>5. CASE StartIntersect BY <1>4, <2>5 DEF StartIntersect, results
  <2>6. CASE ClimbFirst BY <1>4, <2>6 DEF ClimbFirst, Climb, results
  <2>7. CASE ClimbSecond BY <1>4, <2>7 DEF ClimbSecond, Climb, results
  <2>8. CASE Meet BY <1>4, <2>8 DEF Meet, results
  <2>9. CASE SetIdom BY <2>0, <2>9, RisingSet
  <2>10. CASE EndOfSweep BY <1>3, <2>10 DEF EndOfSweep, results
  <2> QED BY <1>10, <2>1, <2>2, <2>3, <2>4, <2>5, <2>6, <2>7, <2>8, <2>9, <2>10 DEF Sweep
<1>11. CASE Walk
  <2>1. /\ UNCHANGED <<m, visiting, idom_>> /\ pc' \in Walking /\ pc \in After
    <3>1. CASE StartFrontier BY <3>1 DEF StartFrontier, results
    <3>2. CASE SkipNonJoin BY <3>2 DEF SkipNonJoin, results
    <3>3. CASE StartJoin BY <3>3 DEF StartJoin, results
    <3>4. CASE Run BY <3>4 DEF Run
    <3>5. CASE EndOfRun BY <3>5 DEF EndOfRun, results
    <3> QED BY <1>11, <3>1, <3>2, <3>3, <3>4, <3>5 DEF Walk
  <2> QED BY <2>1, <1>3
<1>12. CASE CreateDomTree BY <1>1, <1>12 DEF CreateDomTree
<1>13. CASE UNCHANGED vars
  <2>1. UNCHANGED <<m, visiting, idom_>> /\ pc' = pc /\ at' = at BY <1>13 DEF vars, visiting
  <2> QED BY <2>1, <1>1, <1>3, <1>4
<1> QED
  BY NextCases, <1>5, <1>6, <1>7, <1>8, <1>9, <1>10, <1>11, <1>12, <1>13

\* A block's new idom is never below the one it had: for every module, the
\* sweeps of create_idom only move idoms up the order.
THEOREM IdomRises == Spec => IdomOnlyRises
<1>1. Init => Rising
  BY DEF Init, Rising, After, Sweeping, Walking
<1>2. (TypeOK /\ Shape) /\ (Visit /\ Ordered) /\ Idom /\ Rising /\ [Next]_vars => Rising'
  BY StepRising
<1>3. (TypeOK /\ Shape) /\ (Visit /\ Ordered) /\ Idom /\ Rising /\ [Next]_vars =>
        [pc = "preds" /\ pc' = "block" /\ idom_[bb] # Null =>
           post_order_id_[idom_'[bb]] >= post_order_id_[idom_[bb]]]_vars
  <2> SUFFICES ASSUME TypeOK, Shape, Ordered, Idom, Rising, [Next]_vars,
                      pc = "preds", pc' = "block", idom_[bb] # Null
               PROVE  post_order_id_[idom_'[bb]] >= post_order_id_[idom_[bb]]
    OBVIOUS
  <2>1. SetIdom
    <3>1. ~SkipDeclaration /\ ~StartFunction /\ ~VisitSucc /\ ~FinishVisit /\ ~StartIdom
          /\ ~CreateDomTree /\ ~UNCHANGED vars
      BY DEF SkipDeclaration, StartFunction, VisitSucc, FinishVisit, StartIdom, CreateDomTree, vars
    <3>2. ~StartSweep /\ ~SkipRoot /\ ~FindPred /\ ~SkipPred /\ ~StartIntersect
          /\ ~ClimbFirst /\ ~ClimbSecond /\ ~Meet /\ ~EndOfSweep
      BY DEF StartSweep, SkipRoot, FindPred, SkipPred, StartIntersect, ClimbFirst, ClimbSecond,
             Meet, EndOfSweep
    <3>3. ~Walk
      BY DEF Walk, StartFrontier, SkipNonJoin, StartJoin, Run, EndOfRun
    <3> QED BY <3>1, <3>2, <3>3, NextCases DEF Sweep
  <2>2. Base BY DEF Base, After, Sweeping
  <2>3. bb \in Done /\ bb \in Block
    BY <2>1, <2>2, FoldEnds, Order DEF SetIdom, Done
  <2>4. idom_'[bb] = new_idom BY <2>1, <2>2, <2>3, Order DEF SetIdom
  <2> QED BY <2>1, <2>2, <2>3, <2>4, NewIdomIsAbove DEF SetIdom
<1> QED BY <1>1, <1>2, <1>3, Typed, VisitIsOrdered, IdomIsSound, PTL DEF Spec, IdomOnlyRises
=============================================================================
