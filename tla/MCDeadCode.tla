----------------------------- MODULE MCDeadCode -----------------------------
(***************************************************************************)
(* Small instances of DeadCode: the graphs the builder makes of two ifs in *)
(* a row, one in the other, one in a while, and of an if with an else, in  *)
(* the order in which it lists the blocks, in the SSA form Mem2Reg leaves; *)
(* also for a variable that has no value on some ways, and in code that    *)
(* is never reached.  Each condition is 1, 0 or unknown; each phi has      *)
(* every pair of operands that dominate their edges, in either order.      *)
(***************************************************************************)
EXTENDS DeadCode, TLC

bE == <<"e", "bb">>
bT == <<"t", "bb">>
bJ == <<"j", "bb">>
bS == <<"s", "bb">>
bK == <<"k", "bb">>
bH == <<"h", "bb">>
bX == <<"x", "bb">>

MCBlock   == {bE, bT, bJ, bS, bK, bH, bX}
MCTrue    == <<"", "1">>
MCFalse   == <<"", "0">>
MCLiteral == {MCTrue, MCFalse, <<"", "x">>}
MCNoValue == <<"", "none">>
MCValue   == {"e", "t", "j", "s", "k", "h", "x"} \X {"phi", "in", "out", "end"}
phi(b) == <<b[1], "phi">>
in(b) == <<b[1], "in">>
out(b) == <<b[1], "out">>
end(b) == <<b[1], "end">>
Of(u)  == <<u[1], "bb">>      \* the block of an instruction

\* Every block reads a value; the blocks of `joins' begin with a phi, those of
\* `shows' output a value; `cond' gives the condition of a branch of two ways.
Code(list, joins, shows) ==
  [b \in MCBlock |->
     IF b \notin Image(list) THEN <<>>
     ELSE (IF b \in joins THEN <<phi(b)>> ELSE <<>>) \o <<in(b)>>
          \o (IF b \in shows THEN <<out(b)>> ELSE <<>>) \o <<end(b)>>]

\* next[b]: the targets of b, the one for true first.
Total(next, b) == IF b \in DOMAIN next THEN next[b] ELSE <<>>
Make(list, next, cond, phis, show) ==
  [blocks |-> list,
   succ |-> [b \in MCBlock |-> Image(Total(next, b))],
   pre  |-> [b \in MCBlock |-> {p \in Image(list) : b \in Image(Total(next, p))}],
   code |-> Code(list, DOMAIN phis, DOMAIN show),
   op   |-> [u \in MCValue |->
               CASE u[2] = "phi" -> "phi"  [] u[2] = "in" -> "input"  [] u[2] = "out" -> "output"
                 [] u[2] = "end" -> IF Total(next, Of(u)) = <<>> THEN "ret" ELSE "br"],
   operands |-> [u \in MCValue |->
               CASE u[2] = "phi" /\ Of(u) \in DOMAIN phis -> phis[Of(u)]
                 [] u[2] = "out" /\ Of(u) \in DOMAIN show -> <<show[Of(u)]>>
                 [] u[2] = "end" /\ Len(Total(next, Of(u))) = 2 -> <<cond[Of(u)]>> \o next[Of(u)]
                 [] u[2] = "end" /\ Len(Total(next, Of(u))) = 1 -> next[Of(u)]
                 [] OTHER -> <<>>]]

\* The two orders of a phi's pairs <<value, block>>.
Phis(S, b, T, c) ==
  {<<x[1], b, x[2], c>> : x \in S \X T} \cup {<<x[2], c, x[1], b>> : x \in S \X T}
Conds(b) == {MCTrue, MCFalse, in(b)}
lit == <<"", "x">>

\* if (..) {..}  if (..) {..}
TwoIfs ==
  {Make(<<bE, bT, bJ, bS, bK>>,
        bE :> <<bT, bJ>> @@ bT :> <<bJ>> @@ bJ :> <<bS, bK>> @@ bS :> <<bK>>,
        bE :> c[1] @@ bJ :> c[2], bJ :> p @@ bK :> q, bK :> o) :
     c \in Conds(bE) \X Conds(bJ),
     p \in Phis({in(bE), lit}, bE, {in(bE), in(bT)}, bT),
     q \in Phis({in(bE), phi(bJ)}, bJ, {phi(bJ), in(bS)}, bS),
     o \in {phi(bJ), phi(bK)}}

\* if (..) { if (..) {..} }
Nested ==
  {Make(<<bE, bT, bJ, bS, bK>>,
        bE :> <<bT, bJ>> @@ bT :> <<bS, bK>> @@ bS :> <<bK>> @@ bK :> <<bJ>>,
        bE :> c[1] @@ bT :> c[2], bJ :> p @@ bK :> q, bJ :> phi(bJ) @@ bK :> phi(bK)) :
     c \in Conds(bE) \X Conds(bT),
     p \in Phis({in(bE)}, bE, {in(bE), in(bT), phi(bK)}, bK),
     q \in Phis({in(bE), in(bT)}, bT, {in(bS), in(bT)}, bS)}

\* while (..) { if (..) {..} }
LoopIf ==
  {Make(<<bE, bH, bT, bX, bS, bK>>,
        bE :> <<bH>> @@ bH :> <<bT, bX>> @@ bT :> <<bS, bK>> @@ bS :> <<bK>>
          @@ bK :> <<bH>>,
        bH :> c[1] @@ bT :> c[2], bH :> p @@ bK :> q, bX :> phi(bH) @@ bK :> phi(bK)) :
     c \in {in(bH), MCFalse} \X Conds(bT),
     p \in Phis({in(bE)}, bE, {phi(bK), in(bK), phi(bH)}, bK),
     q \in Phis({phi(bH), in(bT)}, bT, {phi(bH), in(bS)}, bS)}

\* if (..) {..} else {..}
IfElse ==
  {Make(<<bE, bT, bS, bJ>>, bE :> <<bT, bS>> @@ bT :> <<bJ>> @@ bS :> <<bJ>>,
        bE :> c, bJ :> p, bJ :> phi(bJ) @@ bT :> lit) :
     c \in Conds(bE), p \in Phis({in(bE), in(bT)}, bT, {in(bS), lit}, bS)}

\* a = b; c = b; if (1) { a = b + 1; } if (1) { c = a; } output(c);
shift ==
  Make(<<bE, bT, bJ, bS, bK>>,
       bE :> <<bT, bJ>> @@ bT :> <<bJ>> @@ bJ :> <<bS, bK>> @@ bS :> <<bK>>,
       bE :> MCTrue @@ bJ :> MCTrue,
       bJ :> <<in(bE), bE, in(bT), bT>> @@ bK :> <<in(bE), bJ, phi(bJ), bS>>,
       bK :> phi(bK))

\* a = b; if (1) { a = b + 1; } c = a; if (1) { c = a; } output(c);
same == [shift EXCEPT !.operands[phi(bK)] = <<phi(bJ), bJ, phi(bJ), bS>>]

\* while (..) { int a; int b; b = a; if (..) { a = input(); } output(a or b); }
\* a has no value at the end of e: the phi of h has the pair of k only.
LoopLocal ==
  {Make(<<bE, bH, bT, bX, bS, bK>>,
        bE :> <<bH>> @@ bH :> <<bT, bX>> @@ bT :> <<bS, bK>> @@ bS :> <<bK>>
          @@ bK :> <<bH>>,
        bH :> c[1] @@ bT :> c[2], bH :> <<phi(bK), bK>> @@ bK :> q, o) :
     c \in {in(bH), MCTrue, MCFalse} \X Conds(bT),
     q \in Phis({phi(bH)}, bT, {in(bS), lit}, bS),
     o \in {bS :> in(bS), bK :> phi(bK), bK :> phi(bH)}}

\* if (..) { int a; if (..) { a = input(); output(a); } }
NestedLocal ==
  {Make(<<bE, bT, bJ, bS, bK>>,
        bE :> <<bT, bJ>> @@ bT :> <<bS, bK>> @@ bS :> <<bK>> @@ bK :> <<bJ>>,
        bE :> c[1] @@ bT :> c[2], bJ :> <<phi(bK), bK>> @@ bK :> <<v, bS>>, o) :
     c \in Conds(bE) \X Conds(bT), v \in {in(bS), lit}, o \in {bS :> in(bS), bK :> phi(bK)}}

\* int a; if (..) { a = input(); }  if (..) { a = input(); } output(a);
TwoIfsLocal ==
  {Make(<<bE, bT, bJ, bS, bK>>,
        bE :> <<bT, bJ>> @@ bT :> <<bJ>> @@ bJ :> <<bS, bK>> @@ bS :> <<bK>>,
        bE :> c[1] @@ bJ :> c[2], bJ :> <<in(bT), bT>> @@ bK :> q, bK :> phi(bK)) :
     c \in Conds(bE) \X Conds(bJ), q \in Phis({phi(bJ)}, bJ, {in(bS)}, bS)}

\* if (..) { int a; a = input(); output(a); } else { }, the second part renamed first
ElseLocal ==
  {Make(<<bE, bT, bS, bJ>>, bE :> <<bT, bS>> @@ bT :> <<bJ>> @@ bS :> <<bJ>>,
        bE :> c, bJ :> <<in(bT), bT>>, bT :> in(bT)) : c \in Conds(bE)}

\* if (..) { return; } else { return; }  if (..) { a = input(); }
Unreached ==
  {Make(<<bE, bT, bS, bJ, bX, bK>>, bE :> <<bT, bS>> @@ bJ :> <<bX, bK>> @@ bX :> <<bK>>,
        bE :> c[1] @@ bJ :> c[2], bK :> <<>>, bT :> in(bT)) : c \in Conds(bE) \X Conds(bJ)}

MCFunctions ==
  TwoIfs \cup Nested \cup LoopIf \cup IfElse \cup {shift, same}
    \cup LoopLocal \cup NestedLocal \cup TwoIfsLocal \cup ElseLocal \cup Unreached
=============================================================================
