-------------------------------- MODULE AST --------------------------------
(***************************************************************************)
(* AST::transform_node_iter of src/common/ast.cpp: the AST of a syntax     *)
(* tree of Parser, as Builder visits it.  The nodes of an expression that  *)
(* have one child only stand for that child.                               *)
(*                                                                         *)
(* Children are numbered from 0, as in the code.                           *)
(***************************************************************************)
EXTENDS Parser
LOCAL INSTANCE SequencesExt

child(n, i) == n.children[i + 1]
children_num(n) == Len(n.children)
name(n) == n.name

\* std::stoi and std::stof of the texts of numbers; a float has two halves.
stoi(s) == CHOOSE i \in 0..9 : ToString(i) = s
FloatText(h) == ToString(h \div 2) \o IF h % 2 = 0 THEN "." ELSE ".5"
stof(s) == CHOOSE h \in 0..9 : FloatText(h) = s
\* A number that no int holds: stoi throws, and nothing catches it.  stof does
\* not: the texts have fewer than the 30 characters a node's name has room for,
\* and no number as short as that is too big or too near to zero for a float.
TooBig == "2147483648"
RECURSIVE Throws(_)
Throws(n) == \/ n.name = TooBig
             \/ \E i \in 1..Len(n.children) : Throws(n.children[i])

\* What a loop pushes on its stack: the last child of each node of a list that
\* has k children, from the end of the list to its beginning.
RECURSIVE Pushed(_, _), Rest(_, _)
Pushed(list, k) ==
  IF children_num(list) = k
  THEN <<child(list, k - 1)>> \o Pushed(child(list, 0), k) ELSE <<>>
\* The node of the list where the loop stops.
Rest(list, k) == IF children_num(list) = k THEN Rest(child(list, 0), k) ELSE list
PushedAll(list, k) == Pushed(list, k) \o <<child(Rest(list, k), 0)>>

-----------------------------------------------------------------------------
RECURSIVE transform_node_iter(_)
Popped_InOrder(s) == [i \in 1..Len(s) |-> transform_node_iter(s[i])]
Popped(s) == LET top == Reverse(s) IN [i \in 1..Len(s) |-> transform_node_iter(top[i])]

Program_(n) == Popped(PushedAll(child(n, 0), 2))

\* What is no int is a float, void too.
TypeOf(n) == IF name(child(child(n, 0), 0)) = "int" THEN "i32" ELSE "float"
VarDecl(n) ==
  [k |-> "decl", type |-> TypeOf(n), id |-> name(child(n, 1)),
   num |-> IF children_num(n) = 6 THEN stoi(name(child(n, 3))) ELSE 0]

\* The child of params is the leaf `void' or a list.
FunDecl(n) ==
  LET list == child(child(n, 3), 0)
      type == name(child(child(n, 0), 0))
  IN  [k |-> "fun",
       ret |-> CASE type = "int" -> <<"i32">> [] type = "float" -> <<"float">> [] OTHER -> <<"void">>,
       id |-> name(child(n, 1)),
       params |-> IF children_num(list) = 0 THEN <<>> ELSE Popped(PushedAll(list, 3)),
       body |-> transform_node_iter(child(n, 5))]
Param(n) ==
  [type |-> TypeOf(n), id |-> name(child(n, 1)), isarray |-> children_num(n) > 2]

CompoundStmt(n) ==
  [k |-> "block", decls |-> Popped(Pushed(child(n, 1), 2)), stmts |-> Popped(Pushed(child(n, 2), 2))]
ExpressionStmt(n) ==
  [k |-> "expr", e |-> IF children_num(n) = 2 THEN <<transform_node_iter(child(n, 0))>> ELSE <<>>]
SelectionStmt(n) ==
  [k |-> "if", c |-> transform_node_iter(child(n, 2)), then |-> transform_node_iter(child(n, 4)),
   other |-> IF children_num(n) = 7 THEN <<transform_node_iter(child(n, 6))>> ELSE <<>>]
IterationStmt(n) ==
  [k |-> "while", c |-> transform_node_iter(child(n, 2)), body |-> transform_node_iter(child(n, 4))]
ReturnStmt(n) ==
  [k |-> "return", e |-> IF children_num(n) = 3 THEN <<transform_node_iter(child(n, 1))>> ELSE <<>>]

Expression(n) ==
  IF children_num(n) = 1 THEN transform_node_iter(child(n, 0))
  ELSE [k |-> "assign", var |-> transform_node_iter(child(n, 0)), e |-> transform_node_iter(child(n, 2))]
Var(n) ==
  [k |-> "var", id |-> name(child(n, 0)),
   ix |-> IF children_num(n) = 4 THEN <<transform_node_iter(child(n, 2))>> ELSE <<>>]
\* simple-expression, additive-expression and term: the operator is the name
\* of the child of relop, addop or mulop.
Operation(n) ==
  IF children_num(n) = 3
  THEN [k |-> "bin", op |-> name(child(child(n, 1), 0)),
        l |-> transform_node_iter(child(n, 0)), r |-> transform_node_iter(child(n, 2))]
  ELSE transform_node_iter(child(n, 0))
Factor(n) ==
  LET f == child(n, IF children_num(n) = 3 THEN 1 ELSE 0)
  IN  CASE name(f) \in {"expression", "var", "call"} -> transform_node_iter(f)
        [] name(f) = "integer" -> [k |-> "num", v |-> <<"i32", stoi(name(child(f, 0)))>>]
        [] name(f) = "float"   -> [k |-> "num", v |-> <<"float", stof(name(child(f, 0)))>>]
Call_(n) ==
  LET list == child(child(n, 2), 0)
  IN  [k |-> "call", id |-> name(child(n, 0)),
       args |-> IF name(list) = "arg-list" THEN Popped(PushedAll(list, 3)) ELSE <<>>]

transform_node_iter(n) ==
  CASE n.name = "program"          -> Program_(n)
    [] n.name \in {"declaration", "statement"} -> transform_node_iter(child(n, 0))
    [] n.name = "var-declaration"  -> VarDecl(n)
    [] n.name = "fun-declaration"  -> FunDecl(n)
    [] n.name = "param"            -> Param(n)
    [] n.name = "compound-stmt"    -> CompoundStmt(n)
    [] n.name = "expression-stmt"  -> ExpressionStmt(n)
    [] n.name = "selection-stmt"   -> SelectionStmt(n)
    [] n.name = "iteration-stmt"   -> IterationStmt(n)
    [] n.name = "return-stmt"      -> ReturnStmt(n)
    [] n.name = "expression"       -> Expression(n)
    [] n.name = "var"              -> Var(n)
    [] n.name \in {"simple-expression", "additive-expression", "term"} -> Operation(n)
    [] n.name = "factor"           -> Factor(n)
    [] n.name = "call"             -> Call_(n)
=============================================================================
