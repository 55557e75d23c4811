------------------------------ MODULE Spelling ------------------------------
(***************************************************************************)
(* The text of a program, by Documentations/common/cminusf.md: the tokens  *)
(* that spell an AST, with no more parentheses than the precedences need,  *)
(* or with parentheses around every operand.  It knows nothing of the      *)
(* grammar's rules; Parser and AST must lead back to the AST.              *)
(***************************************************************************)
EXTENDS Integers, Sequences, TLC
LOCAL INSTANCE SequencesExt

Lit(s) == <<<<s, s>>>>
Id(s)  == <<<<"ID", s>>>>
Integer(n) == <<<<"INTEGER", ToString(n)>>>>
Halves(h) == <<<<"FLOATPOINT", ToString(h \div 2) \o IF h % 2 = 0 THEN "." ELSE ".5">>>>
TypeWord(t) == Lit(IF t = "i32" THEN "int" ELSE t)
\* The texts in ts with a comma between two of them.
Commas(ts) == FoldLeftDomain(LAMBDA acc, i : acc \o (IF i = 1 THEN <<>> ELSE Lit(",")) \o ts[i], <<>>, ts)
Concat(ts) == FoldLeft(LAMBDA acc, t : acc \o t, <<>>, ts)

\* How tightly an expression binds: assignments least, factors most.
Binds(e) ==
  CASE e.k = "assign" -> 0
    [] e.k = "bin" -> (CASE e.op \in {"+", "-"} -> 2 [] e.op \in {"*", "/"} -> 3 [] OTHER -> 1)
    [] OTHER -> 4

\* Where at least `least' is needed.
RECURSIVE Expr(_, _, _), Stmt(_, _)
Expr(e, least, full) ==
  LET open == Binds(e) < least \/ (full /\ least > 0 /\ Binds(e) < 4)
      it ==
        CASE e.k = "num" /\ e.v[1] = "i32" -> Integer(e.v[2])
          [] e.k = "num" /\ e.v[1] = "float" -> Halves(e.v[2])
          [] e.k = "var" ->
               Id(e.id) \o IF e.ix = <<>> THEN <<>> ELSE Lit("[") \o Expr(e.ix[1], 0, full) \o Lit("]")
          [] e.k = "assign" -> Expr(e.var, 4, full) \o Lit("=") \o Expr(e.e, 0, full)
          [] e.k = "bin" ->
               LET b == Binds(e)
               IN  Expr(e.l, IF b = 1 THEN 2 ELSE b, full) \o Lit(e.op) \o Expr(e.r, b + 1, full)
          [] e.k = "call" ->
               Id(e.id) \o Lit("(") \o Commas([i \in DOMAIN e.args |-> Expr(e.args[i], 0, full)]) \o Lit(")")
  IN  IF open THEN Lit("(") \o it \o Lit(")") ELSE it

Decl(d) ==
  TypeWord(d.type) \o Id(d.id) \o (IF d.num = 0 THEN <<>> ELSE Lit("[") \o Integer(d.num) \o Lit("]")) \o Lit(";")
\* An else belongs to the last if before it that has none.
Stmt(s, full) ==
  CASE s.k = "expr"   -> (IF s.e = <<>> THEN <<>> ELSE Expr(s.e[1], 0, full)) \o Lit(";")
    [] s.k = "block"  -> Lit("{") \o Concat([i \in DOMAIN s.decls |-> Decl(s.decls[i])])
                           \o Concat([i \in DOMAIN s.stmts |-> Stmt(s.stmts[i], full)]) \o Lit("}")
    [] s.k = "if"     -> Lit("if") \o Lit("(") \o Expr(s.c, 0, full) \o Lit(")") \o Stmt(s.then, full)
                           \o IF s.other = <<>> THEN <<>> ELSE Lit("else") \o Stmt(s.other[1], full)
    [] s.k = "while"  -> Lit("while") \o Lit("(") \o Expr(s.c, 0, full) \o Lit(")") \o Stmt(s.body, full)
    [] s.k = "return" -> Lit("return") \o (IF s.e = <<>> THEN <<>> ELSE Expr(s.e[1], 0, full)) \o Lit(";")

ParamText(p) == TypeWord(p.type) \o Id(p.id) \o IF p.isarray THEN Lit("[") \o Lit("]") ELSE <<>>
FunText(f, full) ==
  TypeWord(f.ret[1]) \o Id(f.id) \o Lit("(")
    \o (IF f.params = <<>> THEN Lit("void") ELSE Commas([i \in DOMAIN f.params |-> ParamText(f.params[i])]))
    \o Lit(")") \o Stmt(f.body, full)
Spell(program, full) ==
  Concat([i \in DOMAIN program |-> IF program[i].k = "decl" THEN Decl(program[i]) ELSE FunText(program[i], full)])
=============================================================================
