------------------------------- MODULE Parser -------------------------------
(***************************************************************************)
(* The parser that bison makes of src/parser/syntax_analyzer.y: an         *)
(* automaton over the items of the grammar that shifts a token if it can,  *)
(* and reduces otherwise.  A reduction runs the action of its rule, which  *)
(* makes a node of the syntax tree of src/common/syntax_tree.c; the one of *)
(* `program' also sets the root.                                           *)
(*                                                                         *)
(* bison reduces by default: where a rule is complete it is reduced        *)
(* whatever token comes next, and the error is found later.                *)
(*                                                                         *)
(* A token is a pair of its kind and its text.  The kind of a keyword, an  *)
(* operator or a punctuation mark is that text.                            *)
(***************************************************************************)
EXTENDS Integers, Sequences, FiniteSets, TLC
LOCAL INSTANCE SequencesExt

VARIABLES
  text,       \* the tokens yylex returns
  pos,        \* how many of them have been shifted
  stack,      \* of pairs of a state, which is a set of items, and a node
  root,       \* gt->root
  yyparse     \* "running", or what it returns: "accepted" or "failed"

parserVars == <<text, pos, stack, root, yyparse>>

\* For every symbol its right-hand sides.
Productions ==
  "$accept" :> << <<"program", "$end">> >> @@
  "program" :> << <<"declaration-list">> >> @@
  "declaration-list" :> << <<"declaration-list", "declaration">>, <<"declaration">> >> @@
  "declaration" :> << <<"var-declaration">>, <<"fun-declaration">> >> @@
  "var-declaration" :> << <<"type-specifier", "ID", ";">>,
                          <<"type-specifier", "ID", "[", "INTEGER", "]", ";">> >> @@
  "type-specifier" :> << <<"int">>, <<"float">>, <<"void">> >> @@
  "fun-declaration" :> << <<"type-specifier", "ID", "(", "params", ")", "compound-stmt">> >> @@
  "params" :> << <<"param-list">>, <<"void">> >> @@
  "param-list" :> << <<"param-list", ",", "param">>, <<"param">> >> @@
  "param" :> << <<"type-specifier", "ID">>, <<"type-specifier", "ID", "[", "]">> >> @@
  "compound-stmt" :> << <<"{", "local-declarations", "statement-list", "}">> >> @@
  "local-declarations" :> << <<"local-declarations", "var-declaration">>, <<>> >> @@
  "statement-list" :> << <<"statement-list", "statement">>, <<>> >> @@
  "statement" :> << <<"expression-stmt">>, <<"compound-stmt">>, <<"selection-stmt">>,
                    <<"iteration-stmt">>, <<"return-stmt">> >> @@
  "expression-stmt" :> << <<"expression", ";">>, <<";">> >> @@
  "selection-stmt" :> << <<"if", "(", "expression", ")", "statement">>,
                         <<"if", "(", "expression", ")", "statement", "else", "statement">> >> @@
  "iteration-stmt" :> << <<"while", "(", "expression", ")", "statement">> >> @@
  "return-stmt" :> << <<"return", ";">>, <<"return", "expression", ";">> >> @@
  "expression" :> << <<"var", "=", "expression">>, <<"simple-expression">> >> @@
  "var" :> << <<"ID">>, <<"ID", "[", "expression", "]">> >> @@
  "simple-expression" :> << <<"additive-expression", "relop", "additive-expression">>,
                            <<"additive-expression">> >> @@
  "relop" :> << <<"<=">>, <<"<">>, <<">">>, <<">=">>, <<"==">>, <<"!=">> >> @@
  "additive-expression" :> << <<"additive-expression", "addop", "term">>, <<"term">> >> @@
  "addop" :> << <<"+">>, <<"-">> >> @@
  "term" :> << <<"term", "mulop", "factor">>, <<"factor">> >> @@
  "mulop" :> << <<"*">>, <<"/">> >> @@
  "factor" :> << <<"(", "expression", ")">>, <<"var">>, <<"call">>, <<"integer">>, <<"float">> >> @@
  "integer" :> << <<"INTEGER">> >> @@
  "float" :> << <<"FLOATPOINT">> >> @@
  "call" :> << <<"ID", "(", "args", ")">> >> @@
  "args" :> << <<"arg-list">>, <<>> >> @@
  "arg-list" :> << <<"arg-list", ",", "expression">>, <<"expression">> >>

\* An item <<A, k, d>>: d symbols of the k-th right-hand side of A are read.
Symbols == DOMAIN Productions
Rhs(i) == Productions[i[1]][i[2]]
Complete(i) == i[3] = Len(Rhs(i))
Next_(i) == Rhs(i)[i[3] + 1]
Items(A) == {<<A, k, 0>> : k \in 1..Len(Productions[A])}
\* The items that begin what the items of S may read next, and S.
RECURSIVE Close(_)
Close(S) ==
  LET T == S \cup UNION {Items(Next_(i)) : i \in {i \in S : ~Complete(i) /\ Next_(i) \in Symbols}}
  IN  IF T = S THEN S ELSE Close(T)
Starts == [A \in Symbols |-> Close(Items(A))]
Closure(S) == S \cup UNION {Starts[Next_(i)] : i \in {i \in S : ~Complete(i) /\ Next_(i) \in Symbols}}
Goto(S, X) == {<<i[1], i[2], i[3] + 1>> : i \in {i \in Closure(S) : ~Complete(i) /\ Next_(i) = X}}

-----------------------------------------------------------------------------
Unset == [name |-> "unset", children |-> <<>>]
new_syntax_tree_node(name) == [name |-> name, children |-> <<>>]
node(name, children) ==
  [name |-> name,
   children |-> IF children = <<>> THEN <<new_syntax_tree_node("epsilon")>> ELSE children]

state == stack[Len(stack)].state
lookahead == IF pos < Len(text) THEN text[pos + 1] ELSE <<"$end", "">>

\* Two rules are complete at once only after `void' in parentheses.
Reducible ==
  LET done == {i \in Closure(state) : Complete(i)}
  IN  {i \in done : Cardinality(done) = 1 \/ ((i[1] = "params") <=> (lookahead[1] = ")"))}
CanShift == Goto(state, lookahead[1]) # {}

ParserInit ==
  /\ pos = 0 /\ root = Unset /\ yyparse = "running"
  /\ stack = <<[state |-> Items("$accept"), node |-> Unset]>>

Shift ==
  /\ yyparse = "running" /\ CanShift /\ pos < Len(text)
  /\ stack' = Append(stack, [state |-> Goto(state, lookahead[1]),
                             node |-> new_syntax_tree_node(lookahead[2])])
  /\ pos' = pos + 1
  /\ UNCHANGED <<text, root, yyparse>>

Reduce_RootTooEarly ==
  /\ yyparse = "running" /\ ~CanShift
  /\ \E i \in Reducible :
       LET n    == Len(stack) - i[3]
           made == node(i[1], [k \in 1..i[3] |-> stack[n + k].node])
       IN  /\ stack' = Append(SubSeq(stack, 1, n), [state |-> Goto(stack[n].state, i[1]), node |-> made])
           /\ root' = IF i[1] \in {"program", "declaration-list"} THEN made ELSE root
  /\ UNCHANGED <<text, pos, yyparse>>
Reduce ==
  /\ yyparse = "running" /\ ~CanShift
  /\ \E i \in Reducible :
       LET n    == Len(stack) - i[3]
           made == node(i[1], [k \in 1..i[3] |-> stack[n + k].node])
       IN  /\ stack' = Append(SubSeq(stack, 1, n), [state |-> Goto(stack[n].state, i[1]), node |-> made])
           /\ root' = IF i[1] = "program" THEN made ELSE root
  /\ UNCHANGED <<text, pos, yyparse>>

\* yyerror only shows where; nothing is read further.
Fail ==
  /\ yyparse = "running" /\ ~CanShift /\ Reducible = {}
  /\ yyparse' = "failed"
  /\ UNCHANGED <<text, pos, stack, root>>

Accept ==
  /\ yyparse = "running" /\ CanShift /\ pos = Len(text)
  /\ yyparse' = "accepted"
  /\ UNCHANGED <<text, pos, stack, root>>

ParserNext == Shift \/ Reduce \/ Fail \/ Accept
=============================================================================
