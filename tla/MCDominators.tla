---------------------------- MODULE MCDominators ----------------------------
(***************************************************************************)
(* Small instances of Dominators: every graph of an entry and three blocks *)
(* with at most two successors a block, blocks the entry does not reach    *)
(* included, and every graph on an entry and two blocks with successor and *)
(* predecessor lists in every order.                                       *)
(***************************************************************************)
EXTENDS Dominators, TLC

CONSTANT Size    \* "all": every graph; "dead": only deadJoin

MCBlock == {"entry", "b1", "b2", "b3", "g"} \cup (IF Size = "dead" THEN {"t", "e"} ELSE {})
MCNull  == "null"

\* Lists without repetition, of two elements at most.
Lists(S) == {<<>>} \cup {<<x>> : x \in S} \cup {<<p[1], p[2]>> : p \in {q \in S \X S : q[1] # q[2]}}

ByRank(s, list, b) == SelectSeq(list, LAMBDA p : b \in Image(s[p]))
Total(list, s) == [b \in MCBlock |-> IF b \in Image(list) THEN s[b] ELSE <<>>]

Build(list, s, order) ==
  LET t == Total(list, s)
  IN  [blocks |-> list, succ |-> t,
       pre |-> [b \in MCBlock |-> ByRank(t, order, b)]]

four  == <<"entry", "b1", "b2", "b3">>
three == <<"entry", "b1", "b2">>

Ascending == {<<>>, <<"b1">>, <<"b2">>, <<"b3">>, <<"b1", "b2">>, <<"b1", "b3">>, <<"b2", "b3">>}
OverFour  == {Build(four, s, four) : s \in [Image(four) -> Ascending]}
OverThree ==
  {Build(three, x[1], x[2]) :
     x \in [Image(three) -> Lists({"b1", "b2"})] \X
           {<<p[1], p[2], p[3]>> : p \in {q \in Image(three) \X Image(three) \X Image(three) :
                                            Cardinality(Image(q)) = 3}}}

declaration == Build(<<>>, <<>>, <<>>)
leaf == Build(<<"g">>, "g" :> <<>>, <<"g">>)

\* What the builder makes of
\*   if (c) { if (d) return 1; else return 2; } else x = 1;   return x;
\* g, the block after the inner if, is dead and branches to b3, the block after
\* the outer one.
deadJoin ==
  LET list == <<"entry", "b1", "b2", "b3", "t", "e", "g">>
  IN  Build(list,
            "entry" :> <<"b2", "b1">> @@ "b1" :> <<"e", "t">> @@ "t" :> <<>> @@ "e" :> <<>>
              @@ "g" :> <<"b3">> @@ "b2" :> <<"b3">> @@ "b3" :> <<>>,
            <<"entry", "b1", "g", "b2">>)

MCModules ==
  IF Size = "dead" THEN {<<deadJoin>>}
  ELSE {<<h>> : h \in OverFour \cup OverThree}
         \cup {<<declaration, h, leaf>> : h \in OverThree}
=============================================================================
