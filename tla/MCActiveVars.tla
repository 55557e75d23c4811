---------------------------- MODULE MCActiveVars ----------------------------
(***************************************************************************)
(* Small instances of ActiveVars: every graph on an entry and two blocks   *)
(* (loops, joins and unreachable blocks included), a value v computed in   *)
(* any block, optionally a phi p of v and a literal at the head of any     *)
(* other block, and reads of both in any block where SSA allows them.      *)
(***************************************************************************)
EXTENDS ActiveVars, TLC

MCBlock   == {"entry", "b1", "b2", "g"}
MCVar     == {"v", "p", "a"}
MCLiteral == {"5"}
MCCallee  == {"@f"}
MCNoValue == "void"

inner == {"b1", "b2"}
body  == {"entry"} \cup inner

Ins(o, os, d) == [op |-> o, ops |-> os, dst |-> d]

\* Out-degree at most two, and no branch to the entry, as the builder makes.
Shapes == {[b \in MCBlock |-> IF b \in body THEN s[b] ELSE {}]
            : s \in [body -> SUBSET inner]}

\* The code of block b: its phi, its reads above and below the definition
\* of v, and the terminator its successors call for.
PhiOps(s, q) ==
  LET preds == Predecessors(s, q.at)
      ops1(b) == <<IF b = q.from THEN "v" ELSE "5", b>>
  IN  IF preds = {} THEN <<>>
      ELSE IF Cardinality(preds) = 1 THEN ops1(CHOOSE b \in preds : TRUE)
      ELSE LET b == CHOOSE x \in preds : TRUE
               rest == preds \ {b}
               c == CHOOSE x \in rest : TRUE
           IN  IF rest = {c} THEN ops1(b) \o ops1(c)
               ELSE ops1(b) \o ops1(c) \o ops1(CHOOSE x \in rest : x # c)

Term(s, b, cond) ==
  IF s[b] = {} THEN Ins("ret", IF cond = "5" THEN <<>> ELSE <<cond>>, "void")
  ELSE IF Cardinality(s[b]) = 1
       THEN Ins("br", <<CHOOSE x \in s[b] : TRUE>>, "void")
       ELSE Ins("br", <<cond, "b1", "b2">>, "void")

CodeOf(s, dv, q, uv, up, b) ==
    (IF q.at = b THEN <<Ins("phi", PhiOps(s, q), "p")>> ELSE <<>>)
 \o (IF up = b THEN <<Ins("call", <<"@f", "p", "5">>, "void")>> ELSE <<>>)
 \o (IF dv = b THEN <<Ins("compute", <<"5", "a">>, "v")>> ELSE <<>>)
 \o <<Term(s, b, IF b \in uv THEN "v" ELSE "5")>>

Build(s, dv, q, uv, up) ==
  [blocks |-> <<"entry", "b1", "b2">>, succ |-> s,
   code |-> [b \in MCBlock |->
              IF b \in body THEN CodeOf(s, dv, q, uv, up, b) ELSE <<>>]]

NoPhi == [at |-> "none", from |-> "none"]

\* Reads stand where their definition dominates them.
Dom(s, d, b) == b \in Reach(s, {"entry"}) => Dominates(s, "entry", d, b)
Functions ==
  {Build(x[1], x[2], x[3], x[4], x[5]) : x \in
    {y \in Shapes \X body \X ({NoPhi} \cup [at : inner, from : body])
           \X (SUBSET body) \X (body \cup {"none"}) :
       LET s == y[1]  dv == y[2]  q == y[3]  uv == y[4]  up == y[5] IN
         /\ \A b \in uv : Dom(s, dv, b)
         /\ q # NoPhi => /\ q.from \in Predecessors(s, q.at)
                         /\ Dom(s, dv, q.from)
         /\ up # "none" => q # NoPhi /\ Dom(s, q.at, up)}}

\* A module of a declaration, a loop and a second function after it.
declaration == [blocks |-> <<>>, succ |-> Empty, code |-> [b \in MCBlock |-> <<>>]]
loop == Build([b \in MCBlock |-> CASE b = "entry" -> {"b1"} [] b = "b1" -> {"b1", "b2"}
                                   [] OTHER -> {}],
              "entry", [at |-> "b1", from |-> "entry"], {"b2"}, "b1")
leaf == [blocks |-> <<"g">>, succ |-> Empty,
         code |-> [b \in MCBlock |-> IF b = "g"
            THEN <<Ins("load", <<"a">>, "v"), Ins("store", <<"v", "a">>, "void"),
                   Ins("ret", <<"v">>, "void")>> ELSE <<>>]]

MCModules == {<<f>> : f \in Functions} \cup {<<declaration, loop, leaf>>}
=============================================================================
