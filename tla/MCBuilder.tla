----------------------------- MODULE MCBuilder -----------------------------
(***************************************************************************)
(* Small instances of Builder: a program with a global, a global array and *)
(* three functions, whose main reads x, does two statements of a pool, and *)
(* shows every variable.                                                   *)
(***************************************************************************)
EXTENDS BuilderMeaning

CONSTANT Pool    \* "all", or the one of "order"

N(n) == [k |-> "num", v |-> <<"i32", n>>]
F(n) == [k |-> "num", v |-> <<"float", n>>]
V(id) == [k |-> "var", id |-> id, ix |-> <<>>]
E(id, i) == [k |-> "var", id |-> id, ix |-> <<i>>]
Set_(var, e) == [k |-> "assign", var |-> var, e |-> e]
B(l, op, r) == [k |-> "bin", op |-> op, l |-> l, r |-> r]
C(id, args) == [k |-> "call", id |-> id, args |-> args]
X(e) == [k |-> "expr", e |-> <<e>>]
Is(var, e) == X(Set_(var, e))
Do(decls, stmts) == [k |-> "block", decls |-> decls, stmts |-> stmts]
IfElse_(c, t, o) == [k |-> "if", c |-> c, then |-> t, other |-> o]
While(c, s) == [k |-> "while", c |-> c, body |-> s]
Ret(e) == [k |-> "return", e |-> <<e>>]
RetVoid == [k |-> "return", e |-> <<>>]
D(type, id, num) == [k |-> "decl", type |-> type, id |-> id, num |-> num]
Fun(ret, id, params, body) == [k |-> "fun", ret |-> ret, id |-> id, params |-> params, body |-> body]
P(type, id, isarray) == [type |-> type, id |-> id, isarray |-> isarray]

x == V("x")
y == V("y")
g == V("g")
a(i) == E("a", i)
plus(e, n) == B(e, "+", N(n))

\* float half(float p, int b[]) { b[1] = p; return p / 2; }
half == Fun(FLOAT, "half", <<P("float", "p", FALSE), P("i32", "b", TRUE)>>,
            Do(<<>>, <<Is(E("b", N(1)), V("p")), Ret(B(V("p"), "/", N(2)))>>))
\* int down(int n) { int g; if (n > 0) { g = down(n - 1); return g + 1.5; } }
down == Fun(I32, "down", <<P("i32", "n", FALSE)>>,
            Do(<<D("i32", "g", 0)>>,
               <<IfElse_(B(V("n"), ">", N(0)),
                   Do(<<>>, <<Is(g, C("down", <<B(V("n"), "-", N(1))>>)), Ret(B(g, "+", F(3)))>>),
                   <<>>)>>))
\* void keep(float c[], int i) { c[i] = c[0] + i; if (i) return; g = i; }
keep == Fun(VOID, "keep", <<P("float", "c", TRUE), P("i32", "i", FALSE)>>,
            Do(<<>>, <<Is(E("c", V("i")), B(E("c", N(0)), "+", V("i"))),
                       IfElse_(V("i"), RetVoid, <<>>), Is(g, V("i"))>>))

\* a[g] = (g = 1);
order == Is(a(g), Set_(g, N(1)))

Statements ==
  { Is(x, B(y, "/", N(2))),
    Is(y, B(x, "/", N(2))),
    Is(a(x), plus(x, 1)),
    Is(a(Set_(g, plus(g, 1))), a(g)),
    Is(a(y), B(x, "*", F(3))),
    Do(<<D("float", "x", 0)>>, <<Is(V("x"), F(3)), Is(g, V("x"))>>),
    IfElse_(B(x, "<", y), Ret(N(1)), <<Is(x, plus(x, 1))>>),
    IfElse_(x, IfElse_(y, Is(g, N(1)), <<Is(g, N(2))>>), <<>>),
    While(B(x, ">", N(0)),
          Do(<<>>, <<Is(x, B(x, "-", N(1))), IfElse_(g, Ret(x), <<>>), Is(g, B(g, "+", x))>>)),
    While(B(a(x), "==", N(0)),
          Do(<<D("i32", "x", 0)>>, <<Is(x, g), Is(a(N(0)), plus(x, 1)), Is(a(N(1)), N(2))>>)),
    Is(y, C("half", <<x, V("a")>>)),
    Is(g, C("down", <<y>>)),
    X(C("keep", <<V("z"), plus(x, 1)>>)),
    Do(<<>>, <<IfElse_(x, Do(<<>>, <<Ret(x), Is(g, N(1))>>), <<Ret(Set_(y, x))>>), Is(g, N(2))>>),
    Is(x, B(Set_(x, N(2)), "+", B(x, "*", B(x, ">=", F(4))))),
    While(x, While(y, Do(<<>>, <<Is(y, N(0)), Is(x, N(0))>>))),
    order }

\* float z[2] is local; y = x; what is shown at the end.
Main(s, t) ==
  Fun(I32, "main", <<>>,
      Do(<<D("i32", "x", 0), D("float", "y", 0), D("float", "z", 2)>>,
         <<Is(x, C("input", <<>>)), Is(y, x), Is(E("z", N(0)), N(1)), s, t,
           X(C("output", <<x>>)), X(C("outputFloat", <<y>>)), X(C("outputFloat", <<g>>)),
           X(C("output", <<a(N(1))>>)), X(C("output", <<E("z", N(0))>>)), Ret(y)>>))
Program(s, t) == <<D("i32", "g", 0), D("i32", "a", 3), half, down, keep, Main(s, t)>>

MCPrograms ==
  IF Pool = "order" THEN {Program(order, Do(<<>>, <<>>))}
  ELSE {Program(s, t) : s \in Statements, t \in Statements}
MCInputs == {<<2>>, <<1>>, <<0>>, <<-1>>}
=============================================================================
