----------------------------- MODULE MCCompiler -----------------------------
(***************************************************************************)
(* Small instances of Compiler: programs with every production, spelled    *)
(* with few and with all parentheses, texts with a syntax error after,     *)
(* between and inside declarations, and command lines.                     *)
(***************************************************************************)
EXTENDS Compiler
LOCAL INSTANCE SequencesExt

N(n) == [k |-> "num", v |-> <<"i32", n>>]
F(n) == [k |-> "num", v |-> <<"float", n>>]
V(id) == [k |-> "var", id |-> id, ix |-> <<>>]
E(id, e) == [k |-> "var", id |-> id, ix |-> <<e>>]
Assign(var, e) == [k |-> "assign", var |-> var, e |-> e]
B(l, op, r) == [k |-> "bin", op |-> op, l |-> l, r |-> r]
C(id, args) == [k |-> "call", id |-> id, args |-> args]
X(e) == [k |-> "expr", e |-> <<e>>]
Skip == [k |-> "expr", e |-> <<>>]
Do(decls, stmts) == [k |-> "block", decls |-> decls, stmts |-> stmts]
If(c, t) == [k |-> "if", c |-> c, then |-> t, other |-> <<>>]
IfElse_(c, t, o) == [k |-> "if", c |-> c, then |-> t, other |-> <<o>>]
While(c, s) == [k |-> "while", c |-> c, body |-> s]
Ret(e) == [k |-> "return", e |-> <<e>>]
RetVoid == [k |-> "return", e |-> <<>>]
D(type, id, num) == [k |-> "decl", type |-> type, id |-> id, num |-> num]
P(type, id, isarray) == [type |-> type, id |-> id, isarray |-> isarray]
Fun(ret, id, params, stmts) ==
  [k |-> "fun", ret |-> <<ret>>, id |-> id, params |-> params, body |-> Do(<<>>, stmts)]

x == V("x")
y == V("y")
Expressions ==
  {B(B(x, "-", y), "-", N(1)), B(x, "-", B(y, "+", N(1))), B(B(x, "*", y), "/", F(3)),
   B(B(x, "+", y), "*", B(x, "/", y)), B(x, "+", B(y, "*", N(2))), B(x, "/", B(y, "*", N(2))),
   B(B(x, "<", y), "==", B(x, "+", N(1))), B(x, "<=", B(y, "-", N(1))),
   Assign(x, Assign(E("a", B(x, ">", y)), N(0))), B(Assign(x, N(1)), "!=", x),
   C("f", <<x, B(x, "-", N(1)), Assign(y, F(2))>>), E("a", E("a", C("g", <<>>)))}
Statements ==
  {If(x, IfElse_(y, X(x), X(y))), IfElse_(x, IfElse_(y, Skip, Skip), Ret(x)),
   IfElse_(x, Do(<<>>, <<If(y, X(x))>>), X(y)), If(x, While(y, IfElse_(x, RetVoid, Skip))),
   Do(<<D("i32", "x", 0), D("float", "y", 3), D("i32", "z", 1)>>, <<X(x), X(y), RetVoid>>),
   Do(<<>>, <<Do(<<D("float", "x", 0)>>, <<>>), While(x, Skip), Ret(y)>>)}
Declarations ==
  {<<D("i32", "g", 0), D("float", "h", 2), Fun("i32", "f", <<P("i32", "n", FALSE)>>, <<Ret(N(1))>>)>>,
   <<Fun("float", "f", <<P("i32", "n", FALSE), P("float", "b", TRUE), P("i32", "c", TRUE)>>, <<>>),
     D("i32", "g", 0), Fun("void", "main", <<>>, <<>>)>>}
MCPrograms ==
  {<<Fun("void", "main", <<>>, <<X(e)>>)>> : e \in Expressions}
    \cup {<<Fun("void", "main", <<>>, <<s>>)>> : s \in Statements} \cup Declarations

\* Texts with errors, and one with a number no int holds.
First == Spell(CHOOSE p \in Declarations : p[1].k = "decl", FALSE)
Small == Spell(<<D("i32", "g", 0)>>, FALSE)
Dropped(t, n) == SubSeq(t, 1, n - 1) \o SubSeq(t, n + 1, Len(t))
Strange == {<<"ERROR", "#">>, <<"}", "}">>, <<"INTEGER", "1">>, <<"void", "void">>}
MCErrors ==
  {Dropped(First, n) : n \in 1..Len(First)} \cup {Append(First, t) : t \in Strange}
    \cup {Lit("int") \o Id("f") \o Lit("(") \o Lit("void") \o <<t>> : t \in Strange} \cup {<<>>}
    \cup {Lit("void") \o Id("v") \o Lit(";"),
          Lit("int") \o Id("a") \o Lit("[") \o <<<<"INTEGER", TooBig>>>> \o Lit("]") \o Lit(";")}

Use(words, t, others, can) ==
  [argv |-> words, text |-> t, writable |-> can, files |-> (<<"p", ".cminus">> :> <<"source">>) @@ others]
In == <<"p", ".cminus">>
Old == <<"p", ".ll">> :> <<"ll", [ast |-> NoAst, passes |-> <<>>]>>
Flags == {<<w>> : w \in ToSet(PassFlags)}
Lines ==
  {<<>>, <<<<"-h">>>>, <<In, <<"--help">>>>, <<In, In>>, <<In, <<"-o">>>>,
   <<<<"-o">>, <<"q">>, <<"-o">>, <<"q">>, In>>, <<<<"q", ".cminus">>>>, <<<<"p">>>>, <<<<"p", ".cminus", ".c">>>>,
   <<In>>, <<In, <<"-emit-llvm">>>>, <<In, <<"-o">>, <<"q">>>>, <<<<"-o">>, <<"-emit-llvm">>, In>>,
   <<In, <<"-o">>, In>>}
    \cup {<<f, In, g>> : f \in Flags, g \in Flags}
MCUses ==
  {Use(<<In, <<"-emit-llvm">>>>, t, <<>>, TRUE) : t \in MCErrors \cup DOMAIN Meaning}
    \cup {Use(l, Small, others, can) : l \in Lines, others \in {<<>>, Old}, can \in BOOLEAN}
MCValue == 1..4
MCPrefix == <<"op", "op", "label", "void">>
=============================================================================
