---------------------------- MODULE IRSemantics ----------------------------
(***************************************************************************)
(* What a function in the IR does along one path of its control-flow       *)
(* graph: the reference the transforming passes are compared with.         *)
(*                                                                         *)
(* An instruction is a record [id, op, loc, args, from].  `id' is the value *)
(* it defines, `loc' the variable, global or array element it loads from or *)
(* stores to, `args' its value operands and, for a phi, `from' the blocks   *)
(* they come from.  Values are pairs of a block and a name.  Operations:    *)
(*   alloca loc          a fresh, uninitialised cell                       *)
(*   load loc            the cell's content                                *)
(*   store loc <<v>>     the cell gets v                                   *)
(*   phi <<v,..>>,<<b,..>>  the v of the block b the path comes from       *)
(*   input               an unknown value, a new one in each execution     *)
(*   output <<v>>        v becomes visible                                 *)
(* At run time a value is a pair of the value that made it and a count;    *)
(* the content of an uninitialised cell is Undef.                          *)
(***************************************************************************)
EXTENDS Naturals, Sequences, FlowGraph
LOCAL INSTANCE SequencesExt

Undef == <<<<"", "undef">>, 0>>

ReadValue(env, v) == IF v \in DOMAIN env THEN env[v] ELSE <<v, 0>>

\* The operand of phi i for the block prev, if it has one.
PhiArg(i, prev) ==
  LET at == {k \in 1..Len(i.from) : i.from[k] = prev}
  IN  IF at = {} THEN {} ELSE {i.args[CHOOSE k \in at : \A j \in at : k <= j]}

\* All phis of a block take their values at once, on entry from prev.
EnterBlock(code, s, prev, b) ==
  LET phis == {k \in 1..Len(code[b]) : code[b][k].op = "phi"}
      value(k) == LET arg == PhiArg(code[b][k], prev)
                  IN  IF arg = {} THEN Undef ELSE ReadValue(s.env, CHOOSE v \in arg : TRUE)
  IN  [s EXCEPT !.env = [v \in DOMAIN s.env |->
         IF \E k \in phis : code[b][k].id = v
         THEN value(CHOOSE k \in phis : code[b][k].id = v) ELSE s.env[v]]]

Execute(i, s) ==
  CASE i.op = "alloca" -> [s EXCEPT !.mem[i.loc] = Undef]
    [] i.op = "load"   -> [s EXCEPT !.env[i.id] = s.mem[i.loc]]
    [] i.op = "store"  -> [s EXCEPT !.mem[i.loc] = ReadValue(s.env, i.args[1])]
    [] i.op = "input"  -> [s EXCEPT !.env[i.id] = <<i.id, s.inputs>>, !.inputs = @ + 1]
    [] i.op = "output" -> [s EXCEPT !.seen = Append(@, ReadValue(s.env, i.args[1]))]
    [] OTHER           -> s

\* The state after the blocks of `path', for the values in `ids' and the cells
\* in `cells': content of the cells, values computed, values seen outside.
RunPath(code, ids, cells, path) ==
  LET start == [mem |-> [c \in cells |-> Undef], env |-> [v \in ids |-> Undef],
                seen |-> <<>>, inputs |-> 0]
      block(s, n) ==
        FoldLeft(LAMBDA t, i : Execute(i, t),
                 IF n = 1 THEN s ELSE EnterBlock(code, s, path[n-1], path[n]),
                 code[path[n]])
  IN  FoldLeftDomain(block, start, path)

\* `new' agrees with `old' wherever old is defined.
Refines(new, old) == old = Undef \/ new = old

\* Along the path both codes show the same values in the same order, and leave
\* the same in the cells of `shared', wherever the first code's are defined.
SameOnPath(old, new, ids, cells, shared, path) ==
  LET o == RunPath(old, ids, cells, path)
      n == RunPath(new, ids, cells, path)
  IN  /\ Len(o.seen) = Len(n.seen)
      /\ \A k \in 1..Len(o.seen) : Refines(n.seen[k], o.seen[k])
      /\ \A c \in shared : Refines(n.mem[c], o.mem[c])
=============================================================================
