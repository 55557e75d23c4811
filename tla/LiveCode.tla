------------------------------ MODULE LiveCode ------------------------------
(***************************************************************************)
(* Functions as the live-variable analysis sees them, and what live means. *)
(*                                                                         *)
(* An instruction has its operand list; `dst' is the instruction itself    *)
(* when it is not of void type.  "compute" stands for the arithmetic,      *)
(* compare, cast, alloca and getelementptr instructions.  A br has a       *)
(* label, or a condition and two labels; a call has the callee in front; a *)
(* phi has value, label, value, label, ...                                 *)
(***************************************************************************)
EXTENDS Naturals, Sequences, FlowGraph

CONSTANTS
  Block,       \* basic blocks, as pointers: distinct in distinct functions
  Var,         \* values that are not ConstantInt or ConstantFP
  Literal,     \* ConstantInt and ConstantFP values
  Callee,      \* the Function values that are operand 0 of a call
  NoValue,     \* the result of an instruction of void type
  Modules      \* the modules the pass may be given

\* A module has finitely many blocks.
ASSUME BlocksAssumption == IsFiniteSet(Block)

Operand == Var \cup Literal \cup Callee \cup Block

\* Labels and callees are objects of their own, and so are literals.
ASSUME OperandsAssumption ==
  Var \cap (Literal \cup Callee \cup Block) = {} /\ NoValue \notin Var

Instr ==
  {i \in [op: {"compute", "load", "store", "br", "ret", "call", "phi"},
          ops: Seq(Operand), dst: Var \cup {NoValue}] :
     /\ i.op = "phi" => Len(i.ops) % 2 = 0
     /\ \A k \in 1..Len(i.ops) :
          CASE i.op = "br"   -> IF k = 1 /\ Len(i.ops) = 3 THEN i.ops[k] \in Var \cup Literal
                                ELSE i.ops[k] \in Block
            [] i.op = "call" -> IF k = 1 THEN i.ops[k] \in Callee ELSE i.ops[k] \in Var \cup Literal
            [] i.op = "phi"  -> IF k % 2 = 1 THEN i.ops[k] \in Var \cup Literal
                                ELSE i.ops[k] \in Block
            [] OTHER         -> i.ops[k] \in Var \cup Literal}

BlocksOf(f) == {f.blocks[k] : k \in 1..Len(f.blocks)}

\* A function: its block list, and the successors and code of each block.
\* An external declaration has no block.
Function ==
  {f \in [blocks: Seq(Block), succ: [Block -> SUBSET Block], code: [Block -> Seq(Instr)]] :
     \A b \in BlocksOf(f) : f.succ[b] \subseteq BlocksOf(f)}

ASSUME ModulesAssumption == Modules \subseteq Seq(Function)

-----------------------------------------------------------------------------
\* The variables an instruction reads where it stands: those among its
\* operands.  A phi reads nothing there but, at the end of block b, the
\* operands in front of that label.
VarsRead(i) == IF i.op = "phi" THEN {} ELSE Var \cap {i.ops[k] : k \in 1..Len(i.ops)}
VarsFrom(i, b) ==
  IF i.op # "phi" THEN {}
  ELSE Var \cap {i.ops[k] : k \in {j \in 1..(Len(i.ops) - 1) : i.ops[j + 1] = b}}

\* Of the first n instructions: the variables some of them reads and none
\* above it defines, and the variables they define.
Exposed(code, n) ==
  {v \in Var : \E k \in 1..n : v \in VarsRead(code[k]) /\ \A j \in 1..(k - 1) : code[j].dst # v}
Defined(code, n) == {v \in Var : \E k \in 1..n : code[k].dst = v}

Use(f, b) == Exposed(f.code[b], Len(f.code[b]))
Def(f, b) == Defined(f.code[b], Len(f.code[b]))
PhiUse(f, b) ==
  {v \in Var : \E c \in BlocksOf(f) : \E k \in 1..Len(f.code[c]) : v \in VarsFrom(f.code[c][k], b)}

(***************************************************************************)
(* Live on paths: from the entry of block b some path reaches a read of v  *)
(* before any instruction that defines v.                                  *)
(***************************************************************************)
LiveAtEntry(f, b, v) ==
  LET through == Without(f.succ, {c \in Block : v \in Def(f, c)})
  IN  \E c \in Reach(through, {b}) :
        \/ v \in Use(f, c)
        \/ v \notin Def(f, c) /\ v \in PhiUse(f, c)

LiveAtExit(f, b, v) ==
  v \in PhiUse(f, b) \/ \E s \in f.succ[b] : LiveAtEntry(f, s, v)

(***************************************************************************)
(* Live as the least solution of the data-flow equations.                  *)
(***************************************************************************)
OutEquation(f, in, b) == PhiUse(f, b) \cup UNION {in[s] : s \in f.succ[b]}
InEquation(f, in, b)  == Use(f, b) \cup (OutEquation(f, in, b) \ Def(f, b))

Solution(f, in, out) ==
  \A b \in BlocksOf(f) : in[b] = InEquation(f, in, b) /\ out[b] = OutEquation(f, in, b)

\* Every map is above in unless the equations would enlarge it.
BelowAll(f, in) ==
  \A S \in [BlocksOf(f) -> SUBSET Var] :
    \/ \A b \in BlocksOf(f) : in[b] \subseteq S[b]
    \/ \E b \in BlocksOf(f) : ~(InEquation(f, S, b) \subseteq S[b])
=============================================================================
