--------------------------- MODULE BuilderMeaning ---------------------------
(***************************************************************************)
(* What a cminus-f program means, by Documentations/common/cminusf.md, and *)
(* what the IR that Builder makes of it does: the two are compared.  Both  *)
(* are evaluators that run out of fuel after so many iterations and calls. *)
(*                                                                         *)
(* A value at run time is <<"i32", n>>, <<"float", n>> for n / 2 (finer    *)
(* fractions are cut off), or <<"ptr", object, index>>.  Memory maps       *)
(* objects to sequences of values.  `status' is "run", "ret" after a       *)
(* return, "exit" after a negative index, "none" where the program has no  *)
(* meaning, and "fuel" where it is not followed further.                   *)
(***************************************************************************)
EXTENDS Builder, TLC
LOCAL INSTANCE SequencesExt

CONSTANTS
  Inputs,         \* what input() may return: sequences of numbers, repeated
  Fuel            \* iterations and calls followed

Undef == <<"undef", 0>>
Start == [mem |-> <<>>, next |-> 1, out |-> <<>>, ins |-> 0, status |-> "run", ret |-> Undef, fuel |-> Fuel]
Running(st) == st.status = "run"
End(st, status) == IF Running(st) THEN [st EXCEPT !.status = status] ELSE st
Burn(st) == IF st.fuel = 0 THEN End(st, "fuel") ELSE [st EXCEPT !.fuel = @ - 1]

Quotient(a, b) ==
  LET abs(x) == IF x < 0 THEN -x ELSE x
  IN  IF (a < 0) = (b < 0) THEN abs(a) \div abs(b) ELSE -(abs(a) \div abs(b))
Truth(c) == IF c THEN 1 ELSE 0
Holds(op, a, b) ==
  CASE op = "<" -> a < b [] op = "<=" -> a <= b [] op = ">" -> a > b
    [] op = ">=" -> a >= b [] op = "==" -> a = b [] op = "!=" -> a # b
IntOf(v)   == IF v[1] = "float" THEN <<"i32", Quotient(v[2], 2)>> ELSE v
FloatOf(v) == IF v[1] = "i32" THEN <<"float", 2 * v[2]>> ELSE v
To(t, v) == CASE t = I32 -> IntOf(v) [] t = FLOAT -> FloatOf(v) [] OTHER -> v
\* Undef for a division by zero.
Number(op, int, a, b) ==
  CASE op = "+" -> a + b
    [] op = "-" -> a - b
    [] op = "*" -> IF int THEN a * b ELSE Quotient(a * b, 2)
    [] op = "/" -> IF int THEN Quotient(a, b) ELSE Quotient(2 * a, b)
Operate(op, int, a, b) ==
  CASE op \in Relop -> <<"i32", Truth(Holds(op, a[2], b[2]))>>
    [] op = "/" /\ b[2] = 0 -> Undef
    [] OTHER -> <<IF int THEN "i32" ELSE "float", Number(op, int, a[2], b[2])>>

Allocate(st, len, v) ==
  [st EXCEPT !.mem = (st.next :> [i \in 1..(IF len = 0 THEN 1 ELSE len) |-> v]) @@ @, !.next = @ + 1]
Inside(st, p) == p[1] = "ptr" /\ p[2] \in DOMAIN st.mem /\ p[3] + 1 \in 1..Len(st.mem[p[2]])
Content(st, p) == IF Inside(st, p) THEN st.mem[p[2]][p[3] + 1] ELSE Undef
Set(st, p, v) == IF Inside(st, p) THEN [st EXCEPT !.mem[p[2]][p[3] + 1] = v] ELSE End(st, "none")

\* The functions declared in the constructor.
Builtin(st, f, args, in) ==
  CASE f = 1 -> [v |-> <<"i32", in[(st.ins % Len(in)) + 1]>>, st |-> [st EXCEPT !.ins = @ + 1]]
    [] f = 4 -> [v |-> Undef, st |-> End(st, "exit")]
    [] OTHER -> [v |-> Undef, st |-> [st EXCEPT !.out = Append(@, args[1])]]

-----------------------------------------------------------------------------
(* The language.  env maps names to [object, type, array, builtin, fun].   *)
None(st) == [v |-> Undef, st |-> st]
Check(r) == IF r.v = Undef /\ Running(r.st) THEN None(End(r.st, "none")) ELSE r

\* addressFirst: which side of an assignment is evaluated first.
RECURSIVE Eval(_, _, _, _), Locate(_, _, _, _), EvalAll(_, _, _, _), Execute(_, _, _, _), Apply(_, _, _, _)

Entry(p, t, array) == [p |-> p, type |-> t, array |-> array]
Locate(e, env, st, how) ==
  LET base == env[e.id].p
  IN  IF e.ix = <<>> THEN [v |-> base, st |-> st]
      ELSE LET i == Eval(e.ix[1], env, st, how)
               n == IntOf(i.v)[2]
           IN  IF ~Running(i.st) THEN None(i.st)
               ELSE IF n < 0 THEN None(End(i.st, "exit"))
               ELSE [v |-> <<"ptr", base[2], base[3] + n>>, st |-> i.st]

Eval(e, env, st, how) ==
  IF ~Running(st) THEN None(st) ELSE
  CASE e.k = "num" -> [v |-> e.v, st |-> st]
    [] e.k = "var" ->
         LET p == Locate(e, env, st, how)
         IN  IF ~Running(p.st) THEN None(p.st)
             ELSE IF env[e.id].array /\ e.ix = <<>> THEN p
             ELSE Check([v |-> Content(p.st, p.v), st |-> p.st])
    [] e.k = "assign" ->
         LET p1 == Locate(e.var, env, st, how)
             x1 == Eval(e.e, env, IF how.addressFirst THEN p1.st ELSE st, how)
             p2 == IF how.addressFirst \/ ~Running(x1.st) THEN p1 ELSE Locate(e.var, env, x1.st, how)
             s2 == IF how.addressFirst THEN x1.st ELSE IF Running(x1.st) THEN p2.st ELSE x1.st
             v  == To(<<env[e.var.id].type>>, x1.v)
         IN  IF ~Running(s2) THEN None(s2) ELSE [v |-> v, st |-> Set(s2, p2.v, v)]
    [] e.k = "bin" ->
         LET l == Eval(e.l, env, st, how)
             r == Eval(e.r, env, l.st, how)
             int == l.v[1] = "i32" /\ r.v[1] = "i32"
         IN  IF ~Running(r.st) THEN None(r.st)
             ELSE Check([v |-> IF int THEN Operate(e.op, TRUE, l.v, r.v)
                               ELSE Operate(e.op, FALSE, FloatOf(l.v), FloatOf(r.v)), st |-> r.st])
    [] e.k = "call" ->
         LET args == EvalAll(e.args, env, [vs |-> <<>>, st |-> st], how)
         IN  IF ~Running(args.st) THEN None(args.st) ELSE Apply(e.id, args.vs, args.st, how)
EvalAll(es, env, acc, how) ==
  IF es = <<>> THEN acc
  ELSE LET x == Eval(Head(es), env, acc.st, how)
       IN  EvalAll(Tail(es), env, [vs |-> Append(acc.vs, x.v), st |-> x.st], how)

\* how.funs: the functions of the program; how.globals: their global names.
Apply(id, args, st, how) ==
  IF id \notin DOMAIN how.funs
  THEN LET f == CHOOSE k \in 1..4 : Builtins[k].id = id
       IN  Builtin(st, f, [i \in DOMAIN args |-> To(Builtins[f].params[i], args[i])], how.in)
  ELSE LET f == how.funs[id]
           bind(acc, i) ==
             LET p == f.params[i]
             IN  IF p.isarray
                 THEN [acc EXCEPT !.env = (p.id :> Entry(args[i], p.type, TRUE)) @@ @]
                 ELSE [st  |-> Allocate(acc.st, 0, To(<<p.type>>, args[i])),
                       env |-> (p.id :> Entry(<<"ptr", acc.st.next, 0>>, p.type, FALSE)) @@ acc.env]
           bound == FoldLeftDomain(LAMBDA acc, i : bind(acc, i),
                                   [st |-> Burn(st), env |-> how.globals], f.params)
           end == Execute(f.body, bound.env, bound.st, [how EXCEPT !.ret = f.ret])
       IN  CASE end.status = "ret" -> [v |-> end.ret, st |-> [end EXCEPT !.status = "run"]]
             [] end.status = "run" -> [v |-> To(f.ret, <<"i32", 0>>), st |-> end]
             [] OTHER -> None(end)

Execute(s, env, st, how) ==
  IF ~Running(st) THEN st ELSE
  CASE s.k = "expr" -> IF s.e = <<>> THEN st ELSE Eval(s.e[1], env, st, how).st
    [] s.k = "block" ->
         LET declare(acc, d) ==
               [st  |-> Allocate(acc.st, d.num, Undef),
                env |-> (d.id :> Entry(<<"ptr", acc.st.next, 0>>, d.type, d.num # 0)) @@ acc.env]
             in == FoldLeft(LAMBDA acc, d : declare(acc, d), [st |-> st, env |-> env], s.decls)
         IN  FoldLeft(LAMBDA acc, t : Execute(t, in.env, acc, how), in.st, s.stmts)
    [] s.k = "if" ->
         LET c == Eval(s.c, env, st, how)
         IN  IF ~Running(c.st) THEN c.st
             ELSE IF c.v[2] # 0 THEN Execute(s.then, env, c.st, how)
             ELSE IF s.other = <<>> THEN c.st ELSE Execute(s.other[1], env, c.st, how)
    [] s.k = "while" ->
         LET c == Eval(s.c, env, st, how)
         IN  IF ~Running(c.st) \/ c.v[2] = 0 THEN c.st
             ELSE Execute(s, env, Burn(Execute(s.body, env, c.st, how)), how)
    [] s.k = "return" ->
         IF s.e = <<>> THEN End(st, "ret")
         ELSE LET x == Eval(s.e[1], env, st, how)
              IN  IF Running(x.st) THEN [x.st EXCEPT !.status = "ret", !.ret = To(how.ret, x.v)] ELSE x.st

Declared(kind) == SelectSeq(program, LAMBDA d : d.k = kind)
Means(in, addressFirst) ==
  LET globals == FoldLeft(LAMBDA acc, d :
                    [st  |-> Allocate(acc.st, d.num, <<d.type, 0>>),
                     env |-> (d.id :> Entry(<<"ptr", acc.st.next, 0>>, d.type, d.num # 0)) @@ acc.env],
                    [st |-> Start, env |-> <<>>], Declared("decl"))
      named(id) == CHOOSE f \in ToSet(Declared("fun")) : f.id = id
      how == [addressFirst |-> addressFirst, in |-> in, globals |-> globals.env, ret |-> VOID,
              funs |-> [id \in {f.id : f \in ToSet(Declared("fun"))} |-> named(id)]]
  IN  Apply("main", <<>>, globals.st, how)

-----------------------------------------------------------------------------
(* The IR.  env maps the values computed by a call of a function.          *)
RECURSIVE Run(_, _, _, _, _), CallFunction(_, _, _, _)
Value(env, v) == IF v[1] \in {"v", "g"} THEN env[v] ELSE v
Computed(i, x) ==
  CASE i.op = "sitofp" -> FloatOf(x[1])
    [] i.op = "fptosi" -> IntOf(x[1])
    [] i.op = "zext"   -> x[1]
    [] i.op = "gep"    -> <<"ptr", x[1][2], x[1][3] + x[Len(x)][2]>>
    [] OTHER           -> Operate(i.op, i.int, x[1], x[2])

\* From instruction k of block b.
Run(b, k, env, st, in) ==
  IF ~Running(st) THEN st ELSE
  LET i == ir.code[b[2]][k]
      x == [j \in DOMAIN i.args |-> Value(env, i.args[j])]
      go(v, s) == Run(b, k + 1, (i.id :> v) @@ env, s, in)
  IN
  CASE k > Len(ir.code[b[2]]) -> End(st, "broken")
    [] i.op = "ret" -> [st EXCEPT !.status = "ret", !.ret = IF x = <<>> THEN Undef ELSE x[1]]
    [] i.op = "br"  ->
         LET t == IF Len(x) = 1 \/ x[1][2] = 0 THEN x[Len(x)] ELSE x[2]
         IN  Run(t, 1, env, IF t[2] <= b[2] THEN Burn(st) ELSE st, in)
    [] i.op = "alloca" -> go(<<"ptr", st.next, 0>>, Allocate(st, x[1][2], Undef))
    [] i.op = "load"   -> IF Content(st, x[1]) = Undef THEN End(st, "none") ELSE go(Content(st, x[1]), st)
    [] i.op = "store"  -> go(Undef, Set(st, x[2], x[1]))
    [] i.op = "call"   ->
         LET r == CallFunction(x[1], Tail(x), st, in)
         IN  go(r.v, r.st)
    [] OTHER -> IF Computed(i, x) = Undef THEN End(st, "none") ELSE go(Computed(i, x), st)
CallFunction(f, args, st, in) ==
  IF f[2] <= 4 THEN Builtin(st, f[2], args, in)
  ELSE LET formal == ir.sig[f].args
           env == [v \in ToSet(formal) |-> args[CHOOSE i \in DOMAIN args : formal[i] = v]]
                  @@ [g \in DOMAIN ir.globals |-> <<"ptr", -g[2], 0>>]
           end == Run(ir.blocks[f][1], 1, env, Burn(st), in)
       IN  IF end.status = "ret" THEN [v |-> end.ret, st |-> [end EXCEPT !.status = "run"]]
           ELSE None(end)
IRDoes(in) ==
  LET zero(g) == [i \in 1..(IF ir.globals[g] = 0 THEN 1 ELSE ir.globals[g]) |->
                    <<ir.type[g][Len(ir.type[g])], 0>>]
      \* A global is the object of its negative number.
      mem == [o \in {-g[2] : g \in DOMAIN ir.globals} |-> zero(<<"g", -o>>)]
  IN  CallFunction(inner[1]["main"], <<>>, [Start EXCEPT !.mem = mem], in)

-----------------------------------------------------------------------------
Built == todo = <<>>
Count(P(_)) == Cardinality({i \in 1..Len(todo) : P(todo[i])})

\* The scopes are those of the functions and compound statements the visit is
\* in, and the flags that pass between visits are down at the end.
ScopesAreOpenVisits ==
  /\ Len(inner) = 1 + Count(LAMBDA t : t.do = "fun end")
                     + Count(LAMBDA t : t.do = "statement" /\ t.vals[2] = CONST_INT(1))
  /\ \A i \in 1..Len(inner) : \A id \in DOMAIN inner[i] :
       inner[i][id] \in DOMAIN ir.sig \/ IsPtr(ir, inner[i][id])
  /\ Built => ~require_lvalue /\ ~pre_enter_scope

Terminator(i) == i.op \in {"br", "ret"}
Targets(i) == {a \in ToSet(i.args) : a[1] = "bb"}

\* Every block of a function ends in its only terminator, which goes to blocks
\* of that function; the edges of the blocks are those of the terminators,
\* also those of blocks behind a return.
BlocksWellFormed ==
  Built => \A f \in DOMAIN ir.blocks : \A b \in ToSet(ir.blocks[f]) :
    LET code == ir.code[b[2]]
        in(i) == \E n \in 1..Len(ir.succ_bbs_[i[2]]) : ir.succ_bbs_[i[2]][n] = b
    IN  /\ code # <<>>
        /\ \A k \in 1..Len(code) : Terminator(code[k]) <=> k = Len(code)
        /\ ToSet(ir.succ_bbs_[b[2]]) = Targets(code[Len(code)])
        /\ Targets(code[Len(code)]) \subseteq ToSet(ir.blocks[f])
        /\ ToSet(ir.pre_bbs_[b[2]]) = {p \in ToSet(ir.blocks[f]) : in(p)}

\* What the operands of an instruction of function f must be.
Takes(f, i) ==
  LET t(k) == TypeIn(ir, i.args[k])
      operand == IF i.int THEN I32 ELSE FLOAT
  IN
  CASE i.op = "alloca" -> TRUE
    [] i.op = "load"   -> t(1)[1] = "ptr" /\ ir.type[i.id] = Elem(t(1))
    [] i.op = "store"  -> t(2) = Ptr(t(1))
    [] i.op = "gep"    -> t(1)[1] = "ptr" /\ \A k \in 2..Len(i.args) : t(k) = I32
    [] i.op = "call"   -> /\ Len(i.args) - 1 = Len(ir.sig[i.args[1]].params)
                          /\ \A k \in 2..Len(i.args) : t(k) = ir.sig[i.args[1]].params[k - 1]
    [] i.op = "br"     -> Len(i.args) = 3 => t(1) = I1
    [] i.op = "ret"    -> (IF i.args = <<>> THEN VOID ELSE t(1)) = ir.sig[f].ret
    [] i.op = "sitofp" -> t(1) = I32
    [] i.op = "fptosi" -> t(1) = FLOAT
    [] i.op = "zext"   -> t(1) = I1
    [] OTHER           -> t(1) = operand /\ t(2) = operand

\* Every instruction gets operands of the types it takes, each computed above
\* it or in a block that dominates its own: no conversion is forgotten.
OperandsTyped ==
  Built => \A f \in DOMAIN ir.blocks : ir.blocks[f] # <<>> =>
    LET in  == ToSet(ir.blocks[f])
        succ == [b \in in |-> ToSet(ir.succ_bbs_[b[2]])]
        defines(b, v) == \E k \in 1..Len(ir.code[b[2]]) : ir.code[b[2]][k].id = v
    IN  \A b \in in : \A k \in 1..Len(ir.code[b[2]]) :
          LET i == ir.code[b[2]][k]
          IN  /\ Takes(f, i)
              /\ \A v \in {a \in ToSet(i.args) : a[1] = "v"} \ ToSet(ir.sig[f].args) :
                   \/ \E j \in 1..(k - 1) : ir.code[b[2]][j].id = v
                   \/ \E d \in in : defines(d, v) /\ StrictlyDominates(succ, ir.blocks[f][1], d, b)

Agree(m, r) ==
  m.st.status \in {"run", "exit"} =>
    r.st.status = m.st.status /\ r.st.out = m.st.out /\ r.v = m.v

\* Whatever it reads, a program with a meaning shows, returns and ends in the
\* IR as the language says, if the right side of an assignment comes first.
MeaningKept == Built => \A in \in Inputs : Agree(Means(in, FALSE), IRDoes(in))

\* The semantics of assignment is to find the address of the variable first
\* and then to evaluate the right side.
AssignsAsDocumented == Built => \A in \in Inputs : Agree(Means(in, TRUE), IRDoes(in))
=============================================================================
