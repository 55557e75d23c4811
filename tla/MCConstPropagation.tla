------------------------- MODULE MCConstPropagation -------------------------
(***************************************************************************)
(* Small instances of ConstPropagation with ints of four bits and floats   *)
(* of two significant bits.  One block: every operation on boundary ints,  *)
(* compared, converted, and every order of some stores, loads and calls on *)
(* two globals and a local variable.  Several blocks: a branch and a loop  *)
(* whose blocks store to, forget and divide by a global, with a phi, in    *)
(* two orders of the block list.                                           *)
(***************************************************************************)
EXTENDS ConstPropagation, TLC

CONSTANT Programs    \* "all", or the one of "called"

MCBlock  == {"e", "t", "j"}
MCInputs == {<<2, 3>>, <<0, -1>>}
i32(n) == <<"i32", n>>
fp(n)  == <<"float", n>>
v(k)   == <<"v", k>>

g == <<"g", 1>>     \* a global int
h == <<"g", 2>>     \* a global float
a == <<"p", 1>>     \* an alloca
q == <<"p", 2>>     \* the address of element 0 of an array, computed once
r == <<"p", 3>>     \* and computed again, to be read
w == <<"p", 4>>     \* and once more, to be written
MCCellOf == g :> "g" @@ h :> "h" @@ a :> "a" @@ q :> "A[0]" @@ r :> "A[0]" @@ w :> "A[0]"
MCMem    == "g" :> i32(5) @@ "h" :> fp(6) @@ "a" :> Undef @@ "A[0]" :> i32(7)

\* Ids are of the type their instruction gives; phis are of ints.
TypeOf(body, id) ==
  LET makers == {i \in UNION {{body[b][k] : k \in 1..Len(body[b])} : b \in DOMAIN body} : i.id = id}
      gives(ops) == \E i \in makers : i.op \in ops
  IN  IF gives(FloatOp \cup {"sitofp"}) \/ \E i \in makers : i.op = "load" /\ i.loc = h THEN "float"
      ELSE IF gives(CmpOp) THEN "i1" ELSE "i32"

Make(list, next, body) ==
  [blocks |-> list, succ |-> [b \in MCBlock |-> IF b \in DOMAIN next THEN next[b] ELSE {}],
   code   |-> [b \in MCBlock |-> IF b \in DOMAIN body THEN body[b] ELSE <<>>],
   cellOf |-> MCCellOf,
   type   |-> [x \in DOMAIN MCCellOf \cup {v(k) : k \in 0..9} |->
                 IF x = h THEN "float" ELSE IF x \in DOMAIN MCCellOf THEN "i32" ELSE TypeOf(body, x)],
   mem    |-> MCMem, ids |-> {v(k) : k \in 0..9}]

\* Instructions; those that define nothing have the id v(0).
Op(k, op, args) == [id |-> v(k), op |-> op, loc |-> <<"none", 0>>, args |-> args, from |-> <<>>]
In(k)       == Op(k, "input", <<>>)
Out(x)      == Op(0, "output", <<x>>)
Call        == Op(0, "call", <<>>)
Store(x, p) == [Op(0, "store", <<x>>) EXCEPT !.loc = p]
Load(k, p)  == [Op(k, "load", <<>>) EXCEPT !.loc = p]
Phi(k, args, from) == [Op(k, "phi", args) EXCEPT !.from = from]

OneBlock(seq) == Make(<<"e">>, "e" :> {}, "e" :> seq)

Boundary == {-8, -1, 0, 3, 4, 5, 7}
\* zext((m op n) cmp c) - 1
Compared ==
  {OneBlock(<<In(1), Op(2, op, <<i32(m), i32(n)>>), Op(3, cmp, <<v(2), c>>),
              Op(4, "zext", <<v(3)>>), Op(5, "sub", <<v(4), i32(1)>>), Out(v(5)), Out(v(2))>>) :
     op \in IntOp, m \in Boundary, n \in Boundary, cmp \in {"eq", "lt", "ge"}, c \in {i32(4), v(1)}}
\* (int)((float)(m - n) op 3.0), compared and divided by as well
Converted2 ==
  {OneBlock(<<Op(2, "sub", <<i32(m), i32(n)>>), Op(3, "sitofp", <<v(2)>>),
              Op(4, op, <<v(3), x>>), Op(5, "fptosi", <<v(4)>>), Out(v(5)),
              Op(8, "sdiv", <<i32(-8), v(5)>>), Out(v(8)), Op(6, cmp, <<v(4), fp(3)>>), Op(7, "zext", <<v(6)>>), Out(v(7))>>) :
     op \in FloatOp, m \in Boundary, n \in Boundary, x \in {fp(3), fp(0)},
     cmp \in {"gt", "le", "ne"}}

\* Sequences of accesses after one input; the k-th defines v(2k), v(2k + 1).
ShowG(k) == <<Load(2 * k, g), Op(2 * k + 1, "add", <<v(2 * k), i32(1)>>), Out(v(2 * k + 1))>>
ShowH(k) == <<Load(2 * k, h), Op(2 * k + 1, "fptosi", <<v(2 * k)>>), Out(v(2 * k + 1))>>
Show(k, p) == <<Load(2 * k, p), Out(v(2 * k))>>
GlobalAccess(k) == {<<Store(i32(3), g)>>, <<Store(i32(2), g)>>, <<Store(v(1), g)>>, ShowG(k), <<Call>>}
MixedAccess(k)  == {<<Store(i32(3), g)>>, <<Store(fp(2), h)>>, <<Store(i32(4), a)>>, <<Store(v(1), a)>>,
                    <<Store(i32(5), q)>>, <<Store(v(1), q)>>, <<Store(i32(6), w)>>, Show(k, r), ShowH(k), Show(k, a)}
Programs4 ==
  {OneBlock(<<In(1)>> \o s[1] \o s[2] \o s[3] \o s[4]) :
     s \in GlobalAccess(1) \X GlobalAccess(2) \X GlobalAccess(3) \X GlobalAccess(4)}
Programs3 ==
  {OneBlock(<<In(1)>> \o s[1] \o s[2] \o s[3]) :
     s \in MixedAccess(1) \X MixedAccess(2) \X MixedAccess(3)}

\* if (..) t; j  and  while (..) t, with something done in each block.
DiamondNext == "e" :> {"t", "j"} @@ "t" :> {"j"}
LoopNext    == "e" :> {"j"} @@ "j" :> {"t"} @@ "t" :> {"j"}
Body(k) == {<<>>, <<Store(i32(0), g)>>, <<Store(i32(2), g)>>, <<Store(v(1), g)>>,
            <<Load(k, g), Op(k + 1, "sdiv", <<i32(4), v(k)>>), Out(v(k + 1))>>}
Branching ==
  {Make(list, next,
        "e" :> <<In(1), Op(8, "add", <<i32(2), i32(1)>>)>> \o x
     @@ "t" :> <<Op(9, "mul", <<v(8), c>>)>> \o y
     @@ "j" :> <<Phi(7, <<v(8), v(9)>>, <<"e", "t">>), Out(v(7))>> \o z) :
   list \in {<<"e", "t", "j">>, <<"e", "j", "t">>}, next \in {DiamondNext, LoopNext},
   x \in {<<>>, <<Store(i32(0), g)>>, <<Store(v(1), g)>>},
   y \in Body(2), z \in Body(4), c \in {i32(2), v(7)}}

\* In a diamond t does not use the phi of j.
Sound(f) == f.succ["e"] = {"j"} \/ f.code["t"][1].args[2] # v(7)

\* g = 1; f(); output(g);
called == OneBlock(<<Store(i32(1), g), Call, Load(1, g), Out(v(1))>>)

\* a = 1; a = 2; output(a);   output(3 + 2 == 4), where 5 is rounded to 4
kept    == OneBlock(<<Store(i32(1), a), Store(i32(2), a), Load(1, a), Out(v(1))>>)
rounded == OneBlock(<<Op(1, "add", <<i32(3), i32(2)>>), Op(2, "eq", <<v(1), i32(4)>>),
                      Op(3, "zext", <<v(2)>>), Out(v(3))>>)

MCFunctions ==
  IF Programs = "called" THEN {called}
  ELSE Compared \cup Converted2 \cup Programs4 \cup Programs3 \cup {called, kept, rounded}
         \cup {f \in Branching : Sound(f)}
=============================================================================
