------------------------------ MODULE Builder ------------------------------
(***************************************************************************)
(* CminusfBuilder of src/cminusfc/cminusf_builder.cpp: the visitor that    *)
(* turns the AST of a cminus-f program into IR.                            *)
(*                                                                         *)
(* The recursion of accept is a stack `todo' of steps, the next one first. *)
(* A step is the visit of a node, named after the node's kind, or what a   *)
(* visit does after a call of accept it makes; `vals' holds the local      *)
(* variables of the visit that it needs then.                              *)
(*                                                                         *)
(* A Value is a pair: <<"i32", n>> and <<"float", n>> are constants,       *)
(* <<"v", k>> an instruction or argument, <<"g", k>> a global, <<"f", k>>  *)
(* a function, <<"bb", k>> a basic block, <<"null", 0>> nothing.  A type   *)
(* is a sequence of words: <<"ptr", "array", "i32">>.                      *)
(***************************************************************************)
EXTENDS Integers, Sequences, FlowGraph
LOCAL INSTANCE SequencesExt
LOCAL INSTANCE TLC

CONSTANT Programs   \* the ASTs that may be visited

VARIABLES
  program,          \* the AST
  todo,
  inner,            \* Scope: a map from names to values for each scope
  tmp_val, require_lvalue, cur_fun, pre_enter_scope,
  ir                \* the module, and the block where IRBuilder inserts

flags == <<tmp_val, require_lvalue, cur_fun, pre_enter_scope>>
vars == <<program, todo, inner, flags, ir>>

Null == <<"null", 0>>
CONST_INT(n)   == <<"i32", n>>
CONST_FP(n) == <<"float", n>>
I32 == <<"i32">>
I1  == <<"i1">>
FLOAT == <<"float">>
VOID  == <<"void">>
Ptr(t) == <<"ptr">> \o t
Elem(t) == Tail(t)

-----------------------------------------------------------------------------
(* The IR under construction: for every block, by number, its code and its *)
(* edges; for every function its blocks and its signature; for every       *)
(* global its length, 0 if it is no array.                                 *)
TypeIn(m, v) == IF v[1] \in {"i32", "float"} THEN <<v[1]>> ELSE m.type[v]
IsInt(m, v)  == TypeIn(m, v) \in {I32, I1}
IsPtr(m, v)  == TypeIn(m, v)[1] = "ptr"
last(m) == <<"v", m.n>>

\* A new instruction at the end of the insert block.
Emit(m, op, int, args, t) ==
  LET v == <<"v", m.n + 1>>
  IN  [m EXCEPT !.n = @ + 1, !.type = (v :> t) @@ @,
                !.code[m.bb[2]] =
                  Append(@, [id |-> v, op |-> op, int |-> int, args |-> args])]
create_binary(m, op, int, l, r) == Emit(m, op, int, <<l, r>>, IF int THEN I32 ELSE FLOAT)
create_cmp(m, op, int, l, r) == Emit(m, op, int, <<l, r>>, I1)
create_zext(m, v) == Emit(m, "zext", FALSE, <<v>>, I32)
create_sitofp(m, v) == Emit(m, "sitofp", FALSE, <<v>>, FLOAT)
create_fptosi(m, v) == Emit(m, "fptosi", FALSE, <<v>>, I32)
create_call(m, f, args) == Emit(m, "call", FALSE, <<f>> \o args, m.sig[f].ret)
create_ret(m, v) == Emit(m, "ret", FALSE, <<v>>, VOID)
create_void_ret(m) == Emit(m, "ret", FALSE, <<>>, VOID)
create_alloca(m, t, length) == Emit(m, "alloca", FALSE, <<CONST_INT(length)>>, Ptr(t))
create_store(m, v, p) == Emit(m, "store", FALSE, <<v, p>>, VOID)
create_load(m, p) == Emit(m, "load", FALSE, <<p>>, Elem(TypeIn(m, p)))
\* The first index of a gep is into what the pointer points to, only a second
\* one into the array; get_element_type asserts that it is no pointer.
get_element_type(t, idxs) == IF t[1] = "array" /\ Len(idxs) > 1 THEN Tail(t) ELSE t
create_gep(m, p, idxs) ==
  Emit(m, "gep", FALSE, <<p>> \o idxs, Ptr(get_element_type(Elem(TypeIn(m, p)), idxs)))

\* BasicBlock::create
NewBlock(m, f) ==
  [m EXCEPT !.code = Append(@, <<>>), !.pre_bbs_ = Append(@, <<>>), !.succ_bbs_ = Append(@, <<>>),
            !.blocks[f] = Append(@, <<"bb", Len(m.code) + 1>>)]
newest(m) == <<"bb", Len(m.code)>>
At(m, b) == [m EXCEPT !.bb = b]

Link(m, b) == [m EXCEPT !.pre_bbs_[b[2]] = Append(@, m.bb), !.succ_bbs_[m.bb[2]] = Append(@, b)]
Br(m, b) == Emit(Link(m, b), "br", FALSE, <<b>>, VOID)
CondBr(m, c, t, f) == Emit(Link(Link(m, f), t), "br", FALSE, <<c, t, f>>, VOID)
\* erase_from_parent of a block without edges
EraseBlock(m, f, b) == [m EXCEPT !.blocks[f] = SelectSeq(@, LAMBDA x : x # b)]

\* get_terminator of the insert block
Terminated(m) ==
  LET code == m.code[m.bb[2]]
  IN  code # <<>> /\ code[Len(code)].op \in {"br", "ret"}
BrUnlessTerminated(m, b) == IF Terminated(m) THEN m ELSE Br(m, b)

\* The value 0 of the return type of f.
RetZero(m, f) ==
  LET t == m.sig[f].ret
  IN  CASE t = VOID  -> create_void_ret(m)
        [] t = FLOAT -> create_ret(m, CONST_FP(0))
        [] OTHER     -> create_ret(m, CONST_INT(0))

\* A conversion gives the module and the value; `Same' where there is none.
Same(m, v) == [m |-> m, v |-> v]
ToFloat(m, v) == LET e == create_sitofp(m, v) IN [m |-> e, v |-> last(e)]
ToInt(m, v)   == LET e == create_fptosi(m, v) IN [m |-> e, v |-> last(e)]
promote(m, l, r) ==
  IF TypeIn(m, l) = TypeIn(m, r) THEN [m |-> m, l |-> l, r |-> r, int |-> IsInt(m, l)]
  ELSE IF IsInt(m, l) THEN LET c == ToFloat(m, l) IN [m |-> c.m, l |-> c.v, r |-> r, int |-> FALSE]
  ELSE LET c == ToFloat(m, r) IN [m |-> c.m, l |-> l, r |-> c.v, int |-> FALSE]

\* icmp_ne or fcmp_ne with 0
Test(m, v) ==
  create_cmp(m, "!=", IsInt(m, v), v, IF IsInt(m, v) THEN CONST_INT(0) ELSE CONST_FP(0))

\* Scope: the innermost binding; push does not replace one.
find_OutermostFirst(id) ==
  LET i == CHOOSE i \in 1..Len(inner) :
             id \in DOMAIN inner[i] /\ \A j \in 1..(i - 1) : id \notin DOMAIN inner[j]
  IN  inner[i][id]
find(id) ==
  LET i == CHOOSE i \in 1..Len(inner) :
             id \in DOMAIN inner[i] /\ \A j \in (i + 1)..Len(inner) : id \notin DOMAIN inner[j]
  IN  inner[i][id]
push(scopes, id, v) == [scopes EXCEPT ![Len(scopes)] = @ @@ (id :> v)]

-----------------------------------------------------------------------------
Builtins ==
  <<[id |-> "input", ret |-> I32, params |-> <<>>], [id |-> "output", ret |-> VOID, params |-> <<I32>>],
    [id |-> "outputFloat", ret |-> VOID, params |-> <<FLOAT>>],
    [id |-> "neg_idx_except", ret |-> VOID, params |-> <<>>]>>

Visit(n) == [do |-> n.k, node |-> n, vals |-> <<>>]
Does(step) == todo # <<>> /\ Head(todo).do = step
node == Head(todo).node
vals == Head(todo).vals
Then(step, v) == [do |-> step, node |-> node, vals |-> v]
Continue(steps) == todo' = steps \o Tail(todo)
VisitAll(ns) == [i \in 1..Len(ns) |-> Visit(ns[i])]

Init ==
  /\ program \in Programs
  /\ todo = VisitAll(program)
  /\ inner = <<[id \in {Builtins[k].id : k \in 1..4} |->
                  <<"f", CHOOSE k \in 1..4 : Builtins[k].id = id>>]>>
  /\ tmp_val = Null /\ require_lvalue = FALSE /\ cur_fun = Null /\ pre_enter_scope = FALSE
  /\ ir = [bb |-> Null, n |-> 0, type |-> <<>>, code |-> <<>>, globals |-> <<>>, pre_bbs_ |-> <<>>, succ_bbs_ |-> <<>>,
           blocks |-> [f \in {<<"f", k>> : k \in 1..4} |-> <<>>],
           sig |-> [f \in {<<"f", k>> : k \in 1..4} |->
                      [ret |-> Builtins[f[2]].ret, params |-> Builtins[f[2]].params, args |-> <<>>]]]

\* visit(ASTNum)
Num ==
  /\ Does("num")
  /\ tmp_val' = node.v
  /\ Continue(<<>>)
  /\ UNCHANGED <<program, inner, require_lvalue, cur_fun, pre_enter_scope, ir>>

\* visit(ASTVarDeclaration): a global, which is zero, or an alloca.
VarDeclaration ==
  /\ Does("decl")
  /\ LET t == IF node.num = 0 THEN <<node.type>> ELSE <<"array", node.type>>
         global == <<"g", ir.n + 1>>
     IN  IF Len(inner) = 1
         THEN /\ ir' = [ir EXCEPT !.n = @ + 1, !.type = (global :> Ptr(t)) @@ @,
                               !.globals = (global :> node.num) @@ @]
              /\ inner' = push(inner, node.id, global)
         ELSE /\ ir' = create_alloca(ir, t, node.num)
              /\ inner' = push(inner, node.id, last(ir'))
  /\ Continue(<<>>)
  /\ UNCHANGED <<program, flags>>

\* visit(ASTFunDeclaration): the body's scope has the parameters as well.
ParamType(p) == IF p.isarray THEN Ptr(<<p.type>>) ELSE <<p.type>>
FunDeclaration ==
  /\ Does("fun")
  /\ LET f    == <<"f", Cardinality(DOMAIN ir.sig) + 1>>
         types == [i \in DOMAIN node.params |-> ParamType(node.params[i])]
         args == [i \in DOMAIN node.params |-> <<"v", ir.n + i>>]
         declared == [ir EXCEPT
           !.n = @ + Len(args), !.blocks = (f :> <<>>) @@ @,
           !.sig = (f :> [ret |-> node.ret, params |-> types, args |-> args]) @@ @,
           !.type = [v \in ToSet(args) |-> types[v[2] - ir.n]] @@ @]
         entry == NewBlock(declared, f)
         param(acc, i) ==
           LET a == create_alloca(acc.m, types[i], 0)
           IN  [m |-> create_store(a, args[i], last(a)),
                scopes |-> push(acc.scopes, node.params[i].id, last(a))]
         all == FoldLeftDomain(LAMBDA acc, i : param(acc, i),
                  [m |-> At(entry, newest(entry)),
                   scopes |-> Append(push(inner, node.id, f), <<>>)], node.params)
     IN  cur_fun' = f /\ ir' = all.m /\ inner' = all.scopes
  /\ pre_enter_scope' = TRUE
  /\ Continue(<<Visit(node.body), Then("fun end", <<>>)>>)
  /\ UNCHANGED <<program, tmp_val, require_lvalue>>
FunEnd ==
  /\ Does("fun end")
  /\ ir' = IF Terminated(ir) THEN ir ELSE RetZero(ir, cur_fun)
  /\ inner' = Front(inner)
  /\ Continue(<<>>)
  /\ UNCHANGED <<program, flags>>

-----------------------------------------------------------------------------
\* visit(ASTCompoundStmt)
Compound ==
  /\ Does("block")
  /\ inner' = IF pre_enter_scope THEN inner ELSE Append(inner, <<>>)
  /\ pre_enter_scope' = FALSE
  /\ Continue(VisitAll(node.decls) \o
              <<Then("statement", <<CONST_INT(1), CONST_INT(IF pre_enter_scope THEN 0 ELSE 1)>>)>>)
  /\ UNCHANGED <<program, tmp_val, require_lvalue, cur_fun, ir>>

\* The next statement, unless the last one returned.
Through_ToTheEnd(i) == i > Len(node.stmts)
Through(i) == i > Len(node.stmts) \/ (i > 1 /\ Terminated(ir))
Left_Always(need) == Front(inner)
Left(need) == IF need = CONST_INT(1) THEN Front(inner) ELSE inner
Statement ==
  /\ Does("statement")
  /\ LET i == vals[1][2]
     IN  IF Through(i)
         THEN /\ inner' = Left(vals[2])
              /\ Continue(<<>>)
         ELSE /\ Continue(<<Visit(node.stmts[i]), Then("statement", <<CONST_INT(i + 1), vals[2]>>)>>)
              /\ UNCHANGED inner
  /\ UNCHANGED <<program, flags, ir>>

\* visit(ASTExpressionStmt)
ExpressionStmt ==
  /\ Does("expr")
  /\ Continue(VisitAll(node.e))
  /\ UNCHANGED <<program, inner, flags, ir>>

\* visit(ASTSelectionStmt)
Selection ==
  /\ Does("if")
  /\ Continue(<<Visit(node.c), Then("if test", <<>>)>>)
  /\ UNCHANGED <<program, inner, flags, ir>>
IfTest ==
  /\ Does("if test")
  /\ LET t == NewBlock(ir, cur_fun)  f == NewBlock(t, cur_fun)  cont == NewBlock(f, cur_fun)
         cond == Test(cont, tmp_val)
         other == IF node.other = <<>> THEN newest(cont) ELSE newest(f)
     IN  /\ ir' = At(CondBr(cond, last(cond), newest(t), other), newest(t))
         /\ Continue(<<Visit(node.then), Then("if then", <<newest(f), newest(cont)>>)>>)
  /\ UNCHANGED <<program, inner, flags>>
IfThen ==
  /\ Does("if then")
  /\ LET m == BrUnlessTerminated(ir, vals[2])
     IN  IF node.other = <<>>
         THEN ir' = At(EraseBlock(m, cur_fun, vals[1]), vals[2]) /\ Continue(<<>>)
         ELSE /\ ir' = At(m, vals[1])
              /\ Continue(<<Visit(node.other[1]), Then("if else", vals)>>)
  /\ UNCHANGED <<program, inner, flags>>
IfElse ==
  /\ Does("if else")
  /\ ir' = At(BrUnlessTerminated(ir, vals[2]), vals[2])
  /\ Continue(<<>>)
  /\ UNCHANGED <<program, inner, flags>>

\* visit(ASTIterationStmt)
Iteration ==
  /\ Does("while")
  /\ LET expr == NewBlock(ir, cur_fun)
     IN  /\ ir' = At(BrUnlessTerminated(expr, newest(expr)), newest(expr))
         /\ Continue(<<Visit(node.c), Then("while test", <<newest(expr)>>)>>)
  /\ UNCHANGED <<program, inner, flags>>
WhileTest ==
  /\ Does("while test")
  /\ LET t == NewBlock(ir, cur_fun)  cont == NewBlock(t, cur_fun)
         cond == Test(cont, tmp_val)
     IN  /\ ir' = At(CondBr(cond, last(cond), newest(t), newest(cont)), newest(t))
         /\ Continue(<<Visit(node.body), Then("while body", Append(vals, newest(cont)))>>)
  /\ UNCHANGED <<program, inner, flags>>
WhileBody ==
  /\ Does("while body")
  /\ ir' = At(BrUnlessTerminated(ir, vals[1]), vals[2])
  /\ Continue(<<>>)
  /\ UNCHANGED <<program, inner, flags>>

\* visit(ASTReturnStmt)
Return ==
  /\ Does("return")
  /\ IF node.e = <<>>
     THEN ir' = create_void_ret(ir) /\ Continue(<<>>)
     ELSE UNCHANGED ir /\ Continue(<<Visit(node.e[1]), Then("return value", <<>>)>>)
  /\ UNCHANGED <<program, inner, flags>>
ReturnValue ==
  /\ Does("return value")
  /\ LET t == ir.sig[cur_fun].ret
         c == IF t = TypeIn(ir, tmp_val) THEN Same(ir, tmp_val)
              ELSE IF t = I32 THEN ToInt(ir, tmp_val) ELSE ToFloat(ir, tmp_val)
     IN  tmp_val' = c.v /\ ir' = create_ret(c.m, c.v)
  /\ Continue(<<>>)
  /\ UNCHANGED <<program, inner, require_lvalue, cur_fun, pre_enter_scope>>

-----------------------------------------------------------------------------
Scalar(t) == t \in {I32, FLOAT}

\* visit(ASTVar)
Variable ==
  /\ Does("var") /\ node.ix = <<>>
  /\ LET var == find(node.id)  t == Elem(TypeIn(ir, var))
     IN  IF require_lvalue THEN tmp_val' = var /\ UNCHANGED ir
         ELSE /\ ir' = IF t[1] # "array" THEN create_load(ir, var)
                       ELSE create_gep(ir, var, <<CONST_INT(0), CONST_INT(0)>>)
              /\ tmp_val' = last(ir')
  /\ require_lvalue' = FALSE
  /\ Continue(<<>>)
  /\ UNCHANGED <<program, inner, cur_fun, pre_enter_scope>>
Index ==
  /\ Does("var") /\ node.ix # <<>>
  /\ require_lvalue' = FALSE
  /\ Continue(<<Visit(node.ix[1]),
                Then("element", <<find(node.id), CONST_INT(IF require_lvalue THEN 1 ELSE 0)>>)>>)
  /\ UNCHANGED <<program, inner, tmp_val, cur_fun, pre_enter_scope, ir>>

\* A negative index calls neg_idx_except and returns.
Except(m, b) ==
  RetZero(create_call(At(m, b), find("neg_idx_except"), <<>>), cur_fun)
Element ==
  /\ Does("element")
  /\ LET var == vals[1]
         t == Elem(TypeIn(ir, var))
         except == NewBlock(ir, cur_fun)  cont == NewBlock(except, cur_fun)
         val == IF TypeIn(cont, tmp_val) = FLOAT THEN ToInt(cont, tmp_val) ELSE Same(cont, tmp_val)
         neg == create_cmp(val.m, "<", TRUE, val.v, CONST_INT(0))
         br  == CondBr(neg, last(neg), newest(except), newest(cont))
         in  == At(Except(br, newest(except)), newest(cont))
         p   == IF Scalar(t) THEN create_gep(in, var, <<val.v>>)
                ELSE IF t[1] = "ptr"
                THEN LET base == create_load(in, var) IN create_gep(base, last(base), <<val.v>>)
                ELSE create_gep(in, var, <<CONST_INT(0), val.v>>)
     IN  ir' = IF vals[2] = CONST_INT(1) THEN p ELSE create_load(p, last(p))
  /\ tmp_val' = last(ir')
  /\ require_lvalue' = IF vals[2] = CONST_INT(1) THEN FALSE ELSE require_lvalue
  /\ Continue(<<>>)
  /\ UNCHANGED <<program, inner, cur_fun, pre_enter_scope>>

\* visit(ASTAssignExpression)
Assign ==
  /\ Does("assign")
  /\ Continue(<<Visit(node.e), Then("address", <<>>)>>)
  /\ UNCHANGED <<program, inner, flags, ir>>
Address ==
  /\ Does("address")
  /\ require_lvalue' = TRUE
  /\ Continue(<<Visit(node.var), Then("store", <<tmp_val>>)>>)
  /\ UNCHANGED <<program, inner, tmp_val, cur_fun, pre_enter_scope, ir>>
Stored_Unconverted(m, v, t) == Same(m, v)
Stored(m, v, t) ==
  IF t = TypeIn(m, v) THEN Same(m, v)
  ELSE IF TypeIn(m, v) = I32 THEN ToFloat(m, v) ELSE ToInt(m, v)
Store ==
  /\ Does("store")
  /\ LET c == Stored(ir, vals[1], Elem(TypeIn(ir, tmp_val)))
     IN  ir' = create_store(c.m, c.v, tmp_val) /\ tmp_val' = c.v
  /\ Continue(<<>>)
  /\ UNCHANGED <<program, inner, require_lvalue, cur_fun, pre_enter_scope>>

\* visit(ASTSimpleExpression), visit(ASTAdditiveExpression), visit(ASTTerm)
Relop == {"<", "<=", ">", ">=", "==", "!="}
Binary ==
  /\ Does("bin")
  /\ Continue(<<Visit(node.l), Then("right", <<>>)>>)
  /\ UNCHANGED <<program, inner, flags, ir>>
Right ==
  /\ Does("right")
  /\ Continue(<<Visit(node.r), Then("compute", <<tmp_val>>)>>)
  /\ UNCHANGED <<program, inner, flags, ir>>
Compute ==
  /\ Does("compute")
  /\ LET p == promote(ir, vals[1], tmp_val)
         cmp == create_cmp(p.m, node.op, p.int, p.l, p.r)
     IN  ir' = IF node.op \in Relop THEN create_zext(cmp, last(cmp))
               ELSE create_binary(p.m, node.op, p.int, p.l, p.r)
  /\ tmp_val' = last(ir')
  /\ Continue(<<>>)
  /\ UNCHANGED <<program, inner, require_lvalue, cur_fun, pre_enter_scope>>

\* visit(ASTCall): vals are the function and the arguments so far.
Call ==
  /\ Does("call")
  /\ Continue(<<Then("argument", <<find(node.id)>>)>>)
  /\ UNCHANGED <<program, inner, flags, ir>>
Argument ==
  /\ Does("argument") /\ Len(vals) <= Len(node.args)
  /\ Continue(<<Visit(node.args[Len(vals)]), Then("convert", vals)>>)
  /\ UNCHANGED <<program, inner, flags, ir>>
Convert ==
  /\ Does("convert")
  /\ LET c == IF \/ IsPtr(ir, tmp_val)
                 \/ ir.sig[vals[1]].params[Len(vals)] = TypeIn(ir, tmp_val) THEN Same(ir, tmp_val)
              ELSE IF IsInt(ir, tmp_val) THEN ToFloat(ir, tmp_val) ELSE ToInt(ir, tmp_val)
     IN  /\ tmp_val' = c.v /\ ir' = c.m
         /\ Continue(<<Then("argument", Append(vals, c.v))>>)
  /\ UNCHANGED <<program, inner, require_lvalue, cur_fun, pre_enter_scope>>
CallNow ==
  /\ Does("argument") /\ Len(vals) = Len(node.args) + 1
  /\ ir' = create_call(ir, Head(vals), Tail(vals))
  /\ tmp_val' = last(ir')
  /\ Continue(<<>>)
  /\ UNCHANGED <<program, inner, require_lvalue, cur_fun, pre_enter_scope>>

Next ==
  \/ Num \/ VarDeclaration \/ FunDeclaration \/ FunEnd
  \/ Compound \/ Statement \/ ExpressionStmt \/ Selection \/ IfTest \/ IfThen \/ IfElse
  \/ Iteration \/ WhileTest \/ WhileBody \/ Return \/ ReturnValue
  \/ Variable \/ Index \/ Element \/ Assign \/ Address \/ Store
  \/ Binary \/ Right \/ Compute \/ Call \/ Argument \/ Convert \/ CallNow

Spec == Init /\ [][Next]_vars
=============================================================================
