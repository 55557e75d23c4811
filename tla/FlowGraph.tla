----------------------------- MODULE FlowGraph -----------------------------
(***************************************************************************)
(* Vocabulary for the control-flow graph of one IR function.  A graph is   *)
(* a function `succ' from basic blocks to the set of their successors, as  *)
(* BasicBlock::get_succ_basic_blocks gives them; the predecessor list the  *)
(* code keeps beside it is its inverse (Predecessors).                     *)
(*                                                                         *)
(* The operators below are the reference definitions the passes are        *)
(* compared with: they speak of paths and never of the passes' own data.   *)
(***************************************************************************)
EXTENDS Naturals, Sequences, FiniteSets

\* The blocks that branch to b.
Predecessors(succ, b) == {p \in DOMAIN succ : b \in succ[p]}

\* For each n, the blocks at most n edges away from the set `from'.
Within(succ, from) ==
  LET within[n \in Nat] ==
        IF n = 0 THEN from
        ELSE LET sofar == within[n-1] IN sofar \cup (UNION {succ[b] : b \in sofar})
  IN  within

\* The blocks on some path that starts in the set `from', `from' included.
Reach(succ, from) == Within(succ, from)[Cardinality(DOMAIN succ)]

\* The graph without the blocks in `cut': paths may enter them, not leave.
Without(succ, cut) == [b \in DOMAIN succ |-> IF b \in cut THEN {} ELSE succ[b]]

\* d dominates b: every path from the entry to b passes through d.
Dominates(succ, entry, d, b) ==
  \/ d = b
  \/ d = entry
  \/ b \notin Reach(Without(succ, {d}), {entry})

StrictlyDominates(succ, entry, d, b) == d # b /\ Dominates(succ, entry, d, b)

\* The strict dominator of b that every other one dominates.
IsImmediateDominator(succ, entry, d, b) ==
  /\ StrictlyDominates(succ, entry, d, b)
  /\ \A e \in Reach(succ, {entry}) :
       StrictlyDominates(succ, entry, e, b) => Dominates(succ, entry, e, d)

\* The blocks with a predecessor n dominates that n does not strictly dominate.
DominanceFrontier(succ, entry, n) ==
  LET live == Reach(succ, {entry})
  IN  {j \in live : /\ \E p \in Predecessors(succ, j) \cap live : Dominates(succ, entry, n, p)
                    /\ ~StrictlyDominates(succ, entry, n, j)}

\* The blocks n immediately dominates: its children in the dominator tree.
DominatorChildren(succ, entry, n) ==
  {b \in Reach(succ, {entry}) : IsImmediateDominator(succ, entry, n, b)}

-----------------------------------------------------------------------------
\* The strongly connected components of two blocks or more.
Components(succ) ==
  LET together(b) == {c \in Reach(succ, succ[b]) : b \in Reach(succ, succ[c])}
  IN  {together(b) : b \in DOMAIN succ} \ {c \in SUBSET DOMAIN succ : Cardinality(c) < 2}

\* The blocks that branch back to h, which dominates them.
BackEdgesTo(succ, entry, h) ==
  {p \in Predecessors(succ, h) \cap Reach(succ, {entry}) : Dominates(succ, entry, h, p)}

\* h and the blocks that come back to it without passing through it.
NaturalLoop(succ, entry, h) ==
  {h} \cup {b \in Reach(succ, {entry}) :
              Reach(Without(succ, {h}), {b}) \cap (BackEdgesTo(succ, entry, h) \ {h}) # {}}

\* The headers of the loops of two blocks or more.
LoopHeaders(succ, entry) ==
  {h \in Reach(succ, {entry}) : /\ BackEdgesTo(succ, entry, h) # {}
                                /\ NaturalLoop(succ, entry, h) # {h}}

\* Without the edges back to a dominator no cycle is left.
Reducible(succ, entry) ==
  LET forward == [b \in DOMAIN succ |-> {c \in succ[b] : ~Dominates(succ, entry, c, b)}]
  IN  \A b \in Reach(succ, {entry}) : b \notin Reach(forward, forward[b])

\* The paths from the entry with at most `bound' blocks, as sequences.
PathsFrom(succ, entry, bound) ==
  LET paths[n \in Nat] ==
        IF n <= 1 THEN {<<entry>>}
        ELSE LET shorter == paths[n-1]
             IN  shorter \cup {Append(x[1], x[2]) : x \in {y \in shorter \X DOMAIN succ :
                                                       y[2] \in succ[y[1][Len(y[1])]]}}
  IN  paths[bound]

-----------------------------------------------------------------------------
(***************************************************************************)
(* Code on a graph: for each block a sequence of instructions, records     *)
(* with an id, an op, args and for a phi the blocks `from' they come from. *)
(***************************************************************************)

\* Value v is defined before instruction n of block b, or in a block that
\* dominates b.
DefinedAbove(code, succ, entry, v, b, n) ==
  \E c \in DOMAIN code : \E k \in 1..Len(code[c]) :
    /\ code[c][k].id = v
    /\ IF c = b THEN k < n ELSE Dominates(succ, entry, c, b)

\* The definition of each operand in a block the entry reaches dominates the
\* use: at the end of the incoming block, for the operand of a phi.
OperandsDominate(code, literals, succ, entry) ==
  \A b \in Reach(succ, {entry}) : \A k \in 1..Len(code[b]) :
    \A j \in 1..Len(code[b][k].args) :
      LET arg  == code[b][k].args[j]
          from == code[b][k].from[j]
      IN  \/ arg \in literals
          \/ IF code[b][k].op = "phi"
             THEN DefinedAbove(code, succ, entry, arg, from, Len(code[from]) + 1)
             ELSE DefinedAbove(code, succ, entry, arg, b, k)
=============================================================================
