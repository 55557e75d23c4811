--------------------------- MODULE MCLoopInvHoist ---------------------------
(***************************************************************************)
(* Small instances of LoopInvHoist and the search it runs.  The search     *)
(* alone: every graph on an entry and three other blocks with up to two    *)
(* successors each, the entry branching to one, and the graphs the builder *)
(* makes of nested and consecutive whiles, in empty blocks.  Both: an if   *)
(* in a while and a while in a while, with two operations, one on the      *)
(* result of the other or not, in any two of the blocks of the loops, on   *)
(* values of the loop and of the block before it.                          *)
(***************************************************************************)
EXTENDS LoopInvHoist, TLC

CONSTANT Programs    \* "all", or the one of "call"

MCBlock   == {"e", "h", "b", "t", "l", "x", "a", "c", "d", "f", "g"}
MCNoBlock == "none"
MCInputs  == {<<2, 3>>, <<3, 0>>}
v(k) == <<"v", k>>
ptr == <<"g", 1>>

Graph(next) == [blocks |-> DOMAIN next, entry |-> "e", succ |-> next]

UpToTwo(S) == {s \in SUBSET S : Cardinality(s) <= 2}
Rest == {"a", "b", "c"}
AllSmall == {Graph("e" :> {"a"} @@ next) : next \in [Rest -> UpToTwo(Rest)]}

\* e: while (a) { b: while (c) { d } f }
Nested == Graph("e" :> {"a"} @@ "a" :> {"b"} @@ "b" :> {"c"} @@ "c" :> {"d", "f"}
                @@ "d" :> {"c"} @@ "f" :> {"a"})
\* e: while (a) { while (b) { c } d: while (f) { g } }
TwoInside == Graph("e" :> {"a"} @@ "a" :> {"b"} @@ "b" :> {"c", "d"} @@ "c" :> {"b"}
                @@ "d" :> {"f"} @@ "f" :> {"g", "a"} @@ "g" :> {"f"})
\* e: while (a) { b } while (c) { d }, the second entered from the first
InARow == Graph("e" :> {"a"} @@ "a" :> {"b", "c"} @@ "b" :> {"a"} @@ "c" :> {"d"} @@ "d" :> {"c"})
\* e: while (a) { while (b) { while (c) { d } } }, each loop entered from the
\* base of the one around it
Three == Graph("e" :> {"a"} @@ "a" :> {"b"} @@ "b" :> {"c", "a"} @@ "c" :> {"d", "b"}
                @@ "d" :> {"c"})
\* e: while (a) { if (b) { if (c) return; else return; d } f }  g: c stands for
\* both returns, d is the dead block after them
Returns == Graph("e" :> {"a"} @@ "a" :> {"b", "g"} @@ "b" :> {"c", "f"} @@ "c" :> {} @@ "d" :> {"f"}
                @@ "f" :> {"a"} @@ "g" :> {})

SearchOnly == AllSmall \cup {Nested, TwoInside, InARow, Three, Returns}

-----------------------------------------------------------------------------
Op(k, op, args) == [id |-> v(k), op |-> op, loc |-> <<"none", 0>>, args |-> args, from |-> <<>>]
\* An operation on x and y, or one that has no operands.
Mid(k, op, x, y) ==
  CASE op = "load"  -> [Op(k, op, <<>>) EXCEPT !.loc = ptr]
    [] op = "input" -> Op(k, op, <<>>)
    [] OTHER        -> Op(k, op, <<x, y>>)
Phi(k, args, from) == [Op(k, "phi", args) EXCEPT !.from = from]

\* e: while (h) { b: if (..) t; l }  x
If == "e" :> {"h"} @@ "h" :> {"b", "x"} @@ "b" :> {"t", "l"} @@ "t" :> {"l"} @@ "l" :> {"h"} @@ "x" :> {}
\* e: while (h) { b: while (t) { l } }  x
While == "e" :> {"h"} @@ "h" :> {"b", "x"} @@ "b" :> {"t"} @@ "t" :> {"l", "h"} @@ "l" :> {"t"} @@ "x" :> {}

\* p and q: blocks and operations of the two; the latch of h adds to its phi.
Make(next, p, i, q, j) ==
  LET latch   == IF next = If THEN "l" ELSE "t"
      mid(c)  == (IF p = c THEN <<i>> ELSE <<>>) \o (IF q = c THEN <<j>> ELSE <<>>)
      end(c, k) == <<Op(k, IF next[c] = {} THEN "ret" ELSE "br", <<>>)>>
      join    == IF next = If THEN <<Phi(8, <<v(1), v(2)>>, <<"b", "t">>)>> ELSE <<>>
      store   == [Op(12, "store", <<IF next = If THEN v(8) ELSE v(3)>>) EXCEPT !.loc = ptr]
  IN  [cellOf |-> ptr :> "g", mem |-> "g" :> <<"i32", 1>>,
       ids |-> {v(k) : k \in 0..20},
       code |-> [c \in MCBlock |->
         CASE c \notin DOMAIN next -> <<>>
           [] c = "e" -> <<Op(1, "input", <<>>), Op(2, "input", <<>>)>> \o end(c, 21)
           [] c = "h" -> <<Phi(3, <<v(1), v(4)>>, <<"e", latch>>)>> \o mid(c) \o end(c, 22)
           [] c = latch -> join \o mid(c) \o <<Op(4, "add", <<v(3), v(2)>>), store>> \o end(c, 23)
           [] c = "x" -> end(c, 24)
           [] OTHER   -> mid(c) \o end(c, IF c = "b" THEN 25 ELSE IF c = "t" THEN 26 ELSE 27)]]

\* The second operation may use the first where it is defined above it.
Above == {<<"b", "t">>, <<"b", "l">>, <<"h", "t">>, <<"b", "b">>, <<"t", "t">>}
Out(k, x) == Op(k, "output", <<x>>)
MidOps == {"add", "sdiv", "load", "input"}
Two(next) ==
  {Make(next, pq[1], Mid(5, i, x, v(2)), pq[2], Mid(6, j, y, z)) :
     pq \in Above, i \in MidOps, j \in {"mul"},
     x \in {v(1), v(3)}, y \in {v(5), v(2)}, z \in {v(1), v(5)}}
\* The result is shown where it was computed.
Shown(f) ==
  LET b == CHOOSE c \in MCBlock : \E k \in 1..Len(f.code[c]) : f.code[c][k].id = v(6)
      n == Len(f.code[b])
  IN  [f EXCEPT !.code[b] = SubSeq(@, 1, n - 1) \o <<Out(7, v(6)), @[n]>>]

\* while (..) { x = input(); output(x + c); .. }
call == Shown(Make(If, "b", Mid(5, "input", v(1), v(1)), "b", Mid(6, "add", v(5), v(1))))

MCGraphs == IF Programs = "call" THEN {Graph(If)}
            ELSE {Graph(If), Graph(While)} \cup SearchOnly
MCFunctions ==
  [g \in MCGraphs |->
     IF Programs = "call" THEN {call}
     ELSE IF g \in SearchOnly THEN {Empty}
     ELSE {Shown(f) : f \in Two(g.succ)}]
=============================================================================
