----------------------------- MODULE MCMem2Reg -----------------------------
(***************************************************************************)
(* Small instances of Mem2Reg: the graphs the builder makes of one or two  *)
(* nested if and while statements, with two local variables a and b and a  *)
(* global G, and for every block one of a few pieces of code.              *)
(***************************************************************************)
EXTENDS Mem2Reg, TLC

MCBlock   == {"e", "b1", "b2", "b3", "b4", "b5"}
MCVar     == {"a", "b"}
MCMemory  == {"G"}
MCNoId    == <<"", "void">>
MCLiteral == {<<"", "x">>, <<"", "y">>}
MCPhiId(b, v) == <<b, v>>
MCValue   == MCBlock \X {"i", "j", "a", "b"}
argx == <<"", "x">>
argy == <<"", "y">>

Load(i, l)  == [op |-> "load", id |-> i, loc |-> l, args |-> <<>>, from |-> <<>>]
Store(v, l) == [op |-> "store", id |-> MCNoId, loc |-> l, args |-> <<v>>, from |-> <<>>]
Alloca(l)   == [op |-> "alloca", id |-> MCNoId, loc |-> l, args |-> <<>>, from |-> <<>>]
Output(v)   == [op |-> "output", id |-> MCNoId, loc |-> "none", args |-> <<v>>, from |-> <<>>]
Input(i)    == [op |-> "input", id |-> i, loc |-> "none", args |-> <<>>, from |-> <<>>]

\* Pieces of code for block n.
Piece(p, n) ==
  LET i == <<n, "i">>  j == <<n, "j">> IN
  CASE p = "nop"    -> <<>>
    [] p = "show a" -> <<Load(i, "a"), Output(i)>>
    [] p = "show b" -> <<Load(i, "b"), Output(i)>>
    [] p = "a=in"   -> <<Input(i), Store(i, "a")>>
    [] p = "b=a"    -> <<Load(i, "a"), Store(i, "b")>>
    [] p = "swap"   -> <<Load(i, "a"), Load(j, "b"), Store(j, "a"), Store(i, "b")>>
    [] p = "global" -> <<Load(i, "a"), Store(i, "G"), Load(j, "G"), Store(j, "b")>>
    [] p = "local b" -> <<Alloca("b"), Input(i), Store(i, "b"), Load(j, "b"), Output(j)>>
    [] p = "params" -> <<Alloca("a"), Alloca("b"), Store(argx, "a"), Store(argy, "b")>>
    [] p = "param a" -> <<Alloca("a"), Alloca("b"), Store(argx, "a")>>
    [] p = "unset"  -> <<Alloca("a"), Alloca("b")>>

Total(s) == [n \in MCBlock |-> IF n \in DOMAIN s THEN s[n] ELSE {}]
Fun(s, q) == [entry |-> "e", blocks |-> DOMAIN s, succ |-> Total(s),
              code |-> [n \in MCBlock |-> IF n \in DOMAIN s THEN Piece(q[n], n) ELSE <<>>]]

IfThen   == "e" :> {"b1", "b2"} @@ "b1" :> {"b2"} @@ "b2" :> {}
IfElse   == "e" :> {"b1", "b2"} @@ "b1" :> {"b3"} @@ "b2" :> {"b3"} @@ "b3" :> {}
IfReturn == [IfElse EXCEPT !["b1"] = {}]
BothReturn == [IfReturn EXCEPT !["b2"] = {}]
\* The same with an if statement after it, in the block nothing reaches, whose
\* branches meet in a dead join.
DeadIf   == "e" :> {"b1", "b2"} @@ "b1" :> {} @@ "b2" :> {} @@ "b3" :> {"b4", "b5"}
              @@ "b4" :> {"b5"} @@ "b5" :> {}
While    == "e" :> {"b1"} @@ "b1" :> {"b2", "b3"} @@ "b2" :> {"b1"} @@ "b3" :> {}
WhileIf  == "e" :> {"b1"} @@ "b1" :> {"b2", "b3"} @@ "b2" :> {"b4", "b5"}
              @@ "b4" :> {"b5"} @@ "b5" :> {"b1"} @@ "b3" :> {}
IfWhile  == "e" :> {"b1", "b2"} @@ "b1" :> {"b3"} @@ "b3" :> {"b4", "b5"}
              @@ "b4" :> {"b3"} @@ "b5" :> {"b2"} @@ "b2" :> {}

\* The entry block, the blocks in the middle and the blocks that return.
Codes(s, entry, inner, exits) ==
  {q \in [DOMAIN s -> entry \cup inner \cup exits] :
     \A n \in DOMAIN s : q[n] \in IF n = "e" THEN entry ELSE IF s[n] = {} THEN exits ELSE inner}

entries == {"params", "param a", "unset"}
all     == {"nop", "show a", "show b", "a=in", "b=a", "swap", "global"}
few     == {"nop", "a=in", "b=a"}
shows   == {"show a", "show b"}

GoodPrograms ==
       UNION {{Fun(s, q) : q \in Codes(s, entries, all, all)} : s \in {IfThen}}
  \cup UNION {{Fun(s, q) : q \in Codes(s, {"params", "unset"}, all, all)} : s \in {IfElse, While}}
  \cup UNION {{Fun(s, q) : q \in Codes(s, entries, few, shows)} : s \in {IfReturn, BothReturn}}
  \cup UNION {{Fun(s, q) : q \in Codes(s, {"params"}, few, shows)} : s \in {WhileIf, IfWhile, DeadIf}}

\* if (c) { int b; b = input(); output(b); } else { }
ScopedLocal == Fun(IfElse, "e" :> "params" @@ "b1" :> "local b" @@ "b2" :> "nop" @@ "b3" :> "show a")
scoped == [ScopedLocal EXCEPT !.code["e"] = <<Alloca("a"), Store(argx, "a")>>]

MCFunctions == GoodPrograms \cup {scoped}
=============================================================================
