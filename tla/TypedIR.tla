------------------------------ MODULE TypedIR ------------------------------
(***************************************************************************)
(* What a function in the IR computes along one path, with numbers: the    *)
(* reference constant propagation is compared with.                        *)
(*                                                                         *)
(* A value at run time is a pair of a type and a number: <<"i32", n>> with *)
(* n in `Width' bits, <<"i1", 0 or 1>>, <<"float", n>>.  A float is a      *)
(* number of `Precision' significant bits; fractions are left out, as what *)
(* matters is that not every int is a float.  Literals in the code are     *)
(* such pairs, other operands <<"v", k>> (an instruction).  Instructions   *)
(* are the records of IRSemantics; `loc' is a pointer, <<"g", k>> for a    *)
(* global and <<"p", k>> for an alloca or the address of an element, and   *)
(* cellOf gives the cell it points to.  A call shows the called function   *)
(* every global and may leave anything in them.                            *)
(***************************************************************************)
EXTENDS Integers, Sequences, FlowGraph

CONSTANTS Width, Precision

IntOp   == {"add", "sub", "mul", "sdiv"}
FloatOp == {"fadd", "fsub", "fmul", "fdiv"}
CmpOp   == {"eq", "ne", "gt", "ge", "lt", "le"}
CastOp  == {"sitofp", "fptosi"}

IntMin == -(2^(Width - 1))
IntMax == 2^(Width - 1) - 1
IntRange == IntMin..IntMax
Wrap(n) == ((n - IntMin) % (2^Width)) + IntMin
Magnitude(n) == IF n < 0 THEN -n ELSE n
Divide(a, b) ==
  LET q == Magnitude(a) \div Magnitude(b)
  IN  IF (a < 0) = (b < 0) THEN q ELSE -q

\* The nearest float, the even one of two that are as near.
RoundFloat(n) ==
  LET m    == Magnitude(n)
      unit == 2^(CHOOSE k \in 0..(2 * Width) :
                   /\ m < 2^(Precision + k)
                   /\ \A j \in 0..(k - 1) : m >= 2^(Precision + j))
      q    == m \div unit
      up   == 2 * (m % unit) > unit \/ (2 * (m % unit) = unit /\ q % 2 = 1)
      r    == unit * (IF up THEN q + 1 ELSE q)
  IN  IF n < 0 THEN -r ELSE r

\* x / 0.0 is an infinity; one number stands for it.
Infinity == 2^(2 * Width)
Arithmetic(op, a, b) ==
  CASE op = "add"  -> Wrap(a + b)
    [] op = "sub"  -> Wrap(a - b)
    [] op = "mul"  -> Wrap(a * b)
    [] op = "sdiv" -> Divide(a, b)
    [] op = "fadd" -> RoundFloat(a + b)
    [] op = "fsub" -> RoundFloat(a - b)
    [] op = "fmul" -> RoundFloat(a * b)
    [] op = "fdiv" -> IF b = 0 THEN Infinity ELSE RoundFloat(Divide(a, b))

\* sdiv traps on these.
Traps(op, a, b) == op = "sdiv" /\ (b = 0 \/ (a = IntMin /\ b = -1))

Compare(op, a, b) ==
  CASE op = "eq" -> a = b [] op = "ne" -> a # b
    [] op = "gt" -> a > b [] op = "ge" -> a >= b
    [] op = "lt" -> a < b [] op = "le" -> a <= b
Bit(c) == <<"i1", IF c THEN 1 ELSE 0>>

-----------------------------------------------------------------------------
Undef == <<"undef", 0>>

\* The value of an operation on values that are defined; a float too large for
\* an int has none.
Result(op, x) ==
  CASE op \in IntOp   -> <<"i32", Arithmetic(op, x[1][2], x[2][2])>>
    [] op \in FloatOp -> <<"float", Arithmetic(op, x[1][2], x[2][2])>>
    [] op \in CmpOp   -> Bit(Compare(op, x[1][2], x[2][2]))
    [] op = "sitofp"  -> <<"float", RoundFloat(x[1][2])>>
    [] op = "fptosi"  -> IF x[1][2] \in IntRange THEN <<"i32", x[1][2]>> ELSE Undef
    [] op = "zext"    -> <<"i32", x[1][2]>>

\* On the values x and y; an undefined one may be the one that traps.
MayTrap(x, y) == y = Undef \/ y[2] = 0 \/ ((x = Undef \/ x[2] = IntMin) /\ y[2] = -1)

IsGlobal(p) == p[1] = "g"

\* f: a function with its code and cellOf; s: ub (a division trapped), the
\* content of cells, the values computed, what was seen from outside, and how
\* many inputs were read.
Read(s, v) == IF v[1] = "v" THEN s.env[v] ELSE v
Input(in, n) == <<"i32", in[(n % Len(in)) + 1]>>

Step(f, in, i, s) ==
  LET x == [k \in 1..Len(i.args) |-> Read(s, i.args[k])]
  IN
  IF s.ub THEN s ELSE
  CASE i.op = "load"   -> [s EXCEPT !.env[i.id] = s.mem[f.cellOf[i.loc]]]
    [] i.op = "store"  -> [s EXCEPT !.mem[f.cellOf[i.loc]] = x[1]]
    [] i.op = "input"  -> [s EXCEPT !.env[i.id] = Input(in, s.inputs), !.inputs = @ + 1]
    [] i.op = "output" -> [s EXCEPT !.seen = Append(@, [c \in {"out"} |-> x[1]])]
    [] i.op = "call"   ->
         LET globals == {p \in DOMAIN f.cellOf : IsGlobal(p)}
         IN  [s EXCEPT
               !.seen = Append(@, [p \in globals |-> s.mem[f.cellOf[p]]]),
               !.mem  = [c \in DOMAIN s.mem |->
                           IF \E p \in globals : f.cellOf[p] = c
                           THEN <<f.mem[c][1], in[1]>> ELSE s.mem[c]]]
    [] i.op \in IntOp \cup FloatOp \cup CmpOp \cup CastOp \cup {"zext"} ->
         IF i.op = "sdiv" /\ MayTrap(x[1], x[2]) THEN [s EXCEPT !.ub = TRUE]
         ELSE IF \E k \in 1..Len(x) : x[k] = Undef THEN [s EXCEPT !.env[i.id] = Undef]
         ELSE [s EXCEPT !.env[i.id] = Result(i.op, x)]
    [] OTHER -> s

\* All phis of a block take their values at once.
Arrive(code, s, prev, b) ==
  LET phi(v) == {k \in 1..Len(code[b]) : code[b][k].op = "phi" /\ code[b][k].id = v}
      at(k)  == {j \in 1..Len(code[b][k].from) : code[b][k].from[j] = prev}
  IN  [s EXCEPT !.env = [v \in DOMAIN s.env |->
         IF phi(v) = {} THEN s.env[v]
         ELSE LET k == CHOOSE k \in phi(v) : TRUE
              IN  IF at(k) = {} THEN Undef
                  ELSE Read(s, code[b][k].args[CHOOSE j \in at(k) : TRUE])]]

\* The state on entry, after the first k instructions of a block from state s,
\* at the head of the n-th block of a path, and after the blocks of `path' but
\* the last and the first `upto' instructions of that one.
Start(f) == [ub |-> FALSE, mem |-> f.mem, env |-> [v \in f.ids |-> Undef],
             seen |-> <<>>, inputs |-> 0]
Steps(f, in, block, s) ==
  LET after[k \in Nat] == IF k = 0 THEN s ELSE Step(f, in, block[k], after[k-1])
  IN  after
Heads(f, code, in, path) ==
  LET head[n \in Nat] ==
        IF n <= 1 THEN Start(f)
        ELSE LET block == code[path[n-1]]
             IN  Arrive(code, Steps(f, in, block, head[n-1])[Len(block)], path[n-1], path[n])
  IN  head
RunTo(f, code, in, path, upto) ==
  Steps(f, in, code[path[Len(path)]], Heads(f, code, in, path)[Len(path)])[upto]

Agrees(new, old) == old = Undef \/ new = old

\* Along the path, unless the old code traps, both show the same and leave the
\* same in the globals, wherever the old one's is defined.
SameAlong(f, old, new, in, path) ==
  LET b == path[Len(path)]
      o == RunTo(f, old, in, path, Len(old[b]))
      n == RunTo(f, new, in, path, Len(new[b]))
  IN  o.ub \/ /\ ~n.ub /\ Len(o.seen) = Len(n.seen)
              /\ \A k \in 1..Len(o.seen) :
                   \A c \in DOMAIN o.seen[k] : Agrees(n.seen[k][c], o.seen[k][c])
              /\ \A p \in DOMAIN f.cellOf :
                   IsGlobal(p) => Agrees(n.mem[f.cellOf[p]], o.mem[f.cellOf[p]])
=============================================================================
