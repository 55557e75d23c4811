---------------------------- MODULE LoopInvHoist ----------------------------
(***************************************************************************)
(* LoopInvHoist::run of src/optimization/LoopInvHoist.cpp for one          *)
(* function: LoopSearch looks for its loops, and then each loop and the    *)
(* loops around it give up the instructions whose operands are defined     *)
(* outside of it to the block before it.  Loops and the blocks of a loop   *)
(* are unordered_sets: any order.  A loop is its set of blocks, {} is      *)
(* nullptr.                                                                *)
(*                                                                         *)
(* Instructions are those of TypedIR; the last one of a block is its       *)
(* terminator.  Every instruction has an id, also those without a value.   *)
(* The search looks at blocks only: what they hold is chosen when it ends. *)
(* The use lists that delete_instr clears are left out: no pass runs after *)
(* this one.                                                               *)
(***************************************************************************)
EXTENDS TypedIR, LoopSearch

CONSTANT Functions   \* what the blocks of a graph may hold: sets of [code, cellOf, mem, ids]

ASSUME FunctionsAssumption ==
  \A g \in Graphs : \A f \in Functions[g] : DOMAIN f.code = Block

IsVoid(i) == i.op \in {"store", "output", "call", "br", "ret"}

InstrsOf(c) == UNION {{c[b][k] : k \in 1..Len(c[b])} : b \in Block}
IdsOf(c) == {i.id : i \in InstrsOf(c)}
ArgsOf(i) == {i.args[j] : j \in 1..Len(i.args)}
LiteralsOf(c) == (UNION {ArgsOf(i) : i \in InstrsOf(c)}) \ IdsOf(c)

\* What the builder makes and mem2reg leaves, as far as there is code to move:
\* every block is live, a loop is entered at its header, from one block that is
\* in the loops around it and in no other; an id is defined once, a block ends
\* in an instruction without a value, no operand is one, and each is defined
\* above its uses.
BuiltGraph(g) ==
  LET loop(h) == NaturalLoop(g.succ, g.entry, h)
      headers == LoopHeaders(g.succ, g.entry)
  IN  /\ Reach(g.succ, {g.entry}) = g.blocks /\ Reducible(g.succ, g.entry)
      /\ \A h \in headers : \E p \in g.blocks :
           /\ Predecessors(g.succ, h) \ loop(h) = {p}
           /\ \A o \in headers \ {h} : p \in loop(o) => h \in loop(o)
BuiltCode(g, c) ==
  /\ c \in [Block -> Seq(InstrsOf(c))]
  /\ \A b, d \in Block : \A k \in 1..Len(c[b]), j \in 1..Len(c[d]) :
       c[b][k].id = c[d][j].id => b = d /\ k = j
  /\ \A b \in g.blocks : c[b] # <<>> /\ IsVoid(c[b][Len(c[b])])
  /\ \A i, u \in InstrsOf(c) : IsVoid(i) => i.id \notin ArgsOf(u)
  /\ OperandsDominate(c, LiteralsOf(c), g.succ, g.entry)
NoCode == [b \in Block |-> <<>>]

ASSUME CodeAssumption ==
  \A g \in Graphs : \A f \in Functions[g] :
    f.code = NoCode \/ (BuiltGraph(g) /\ BuiltCode(g, f.code))

VARIABLES
  func_,         \* the function before the pass
  code,          \* the instructions of each block
  inner_loops,   \* the loops still to begin with
  in2out_loop,   \* the loop being treated
  BBs, at, ip,   \* its blocks not examined yet, the one examined, its instruction
  labels,        \* values defined in the loop
  moves          \* instructions to move, in order

scan  == <<BBs, at, ip, labels>>
hoist == <<func_, code, inner_loops, in2out_loop, scan, moves>>
vars  == <<search, hoist>>

Empty == [code |-> NoCode, cellOf |-> <<>>, mem |-> <<>>, ids |-> {}]
get_loop_base(loop) == CHOOSE b \in DOMAIN base2loop : base2loop[b] = loop

Init ==
  /\ build_cfg
  /\ func_ = Empty /\ code = Empty.code
  /\ inner_loops = {} /\ in2out_loop = {}
  /\ BBs = {} /\ at = NoBlock /\ ip = 1 /\ labels = {}
  /\ moves = <<>>

\* The innermost loop with the base of each loop.
Innermost == {get_inner_loop(base) : base \in DOMAIN base2loop}
CollectLoops ==
  /\ pc = "found"
  /\ func_' \in Functions[func]
  /\ code' = func_'.code
  /\ inner_loops' = Innermost
  /\ pc' = "next"
  /\ UNCHANGED <<in2out_loop, scan, moves>>

-----------------------------------------------------------------------------
IdsIn(b) == {code[b][k].id : k \in 1..Len(code[b])}

\* The values the first pass over the loop records.
Labels_Function(loop) == UNION {IdsIn(b) : b \in Block}
Labels(loop) == UNION {IdsIn(b) : b \in loop}
Examining(loop) ==
  /\ in2out_loop' = loop
  /\ BBs' = loop /\ at' = NoBlock /\ ip' = 1
  /\ labels' = Labels(loop)
  /\ moves' = <<>>
  /\ pc' = "examine"

Begin ==
  /\ pc = "next" /\ in2out_loop = {}
  /\ \E loop \in inner_loops :
       /\ inner_loops' = inner_loops \ {loop}
       /\ Examining(loop)
  /\ UNCHANGED <<func_, code>>

\* The loop around it, as the search tells it, if there is one.
Outward ==
  /\ pc = "next" /\ in2out_loop # {}
  /\ \E prev \in Outside(get_loop_base(in2out_loop)) :
       LET parent == get_parent_loop(get_loop_base(in2out_loop), prev)
       IN  IF parent = {} THEN in2out_loop' = {} /\ UNCHANGED <<pc, scan, moves>>
           ELSE Examining(parent)
  /\ UNCHANGED <<func_, code, inner_loops>>

TakeBlock ==
  /\ pc = "examine" /\ at = NoBlock
  /\ \E b \in BBs : at' = b /\ BBs' = BBs \ {b}
  /\ ip' = 1
  /\ UNCHANGED <<func_, pc, code, inner_loops, in2out_loop, labels, moves>>

Movable_Phi(i) == ~IsVoid(i)
Movable(i) == ~IsVoid(i) /\ i.op # "phi"
Operands_First(i) == {i.args[k] : k \in 1..Len(i.args) \cap {1}}
Operands(i) == ArgsOf(i) \cup {i.loc}

\* One instruction: it moves if no operand is defined in the loop by one that
\* stays; calls, loads and divisions are no exception.
Examine ==
  /\ pc = "examine" /\ at # NoBlock /\ ip <= Len(code[at])
  /\ LET i == code[at][ip]
     IN  IF Movable(i) /\ Operands(i) \cap labels = {}
         THEN labels' = labels \ {i.id} /\ moves' = Append(moves, i)
         ELSE UNCHANGED <<labels, moves>>
  /\ ip' = ip + 1
  /\ UNCHANGED <<func_, pc, code, inner_loops, in2out_loop, BBs, at>>

EndBlock ==
  /\ pc = "examine" /\ at # NoBlock /\ ip > Len(code[at])
  /\ at' = NoBlock
  /\ UNCHANGED <<func_, pc, code, inner_loops, in2out_loop, BBs, ip, labels, moves>>

Examined ==
  /\ pc = "examine" /\ at = NoBlock /\ BBs = {}
  /\ pc' = "move"
  /\ UNCHANGED <<func_, code, inner_loops, in2out_loop, scan, moves>>

-----------------------------------------------------------------------------
\* The terminator comes off, the instruction and then the terminator are added.
WithBeforeEnd(s, i) == SubSeq(s, 1, Len(s) - 1) \o <<i, s[Len(s)]>>

\* Instruction::delete_instr, in the block that has the instruction.
Delete(s, i) ==
  LET at_ == {k \in 1..Len(s) : s[k].id = i.id}
  IN  IF at_ = {} THEN s
      ELSE LET k == CHOOSE k \in at_ : TRUE
           IN  SubSeq(s, 1, k - 1) \o SubSeq(s, k + 1, Len(s))

\* The destination is a predecessor of the base outside the loop, the last one
\* of the list; a base found by the search has one.
Move ==
  /\ pc = "move" /\ moves # <<>>
  /\ \E destina \in Outside(get_loop_base(in2out_loop)) :
       code' = [b \in Block |->
         LET kept == Delete(code[b], Head(moves))
         IN  IF b = destina THEN WithBeforeEnd(kept, Head(moves)) ELSE kept]
  /\ moves' = Tail(moves)
  /\ UNCHANGED <<func_, pc, inner_loops, in2out_loop, scan>>

Moved ==
  /\ pc = "move" /\ moves = <<>>
  /\ pc' = "next"
  /\ UNCHANGED <<func_, code, inner_loops, in2out_loop, scan, moves>>

Finish ==
  /\ pc = "next" /\ in2out_loop = {} /\ inner_loops = {}
  /\ pc' = "done"
  /\ UNCHANGED <<func_, code, inner_loops, in2out_loop, scan, moves>>

Next ==
  \/ Search /\ UNCHANGED hoist
  \/ (CollectLoops \/ Begin \/ Outward \/ TakeBlock \/ Examine \/ EndBlock \/ Examined
        \/ Move \/ Moved \/ Finish) /\ UNCHANGED <<func, graph, tarjan, sccs, loops>>

Spec == Init /\ [][Next]_vars

-----------------------------------------------------------------------------
CONSTANTS
  PathBound,   \* the longest path followed, in blocks
  Inputs       \* the sequences of numbers the program may read

BlockOf(c, id) == CHOOSE b \in Block : \E k \in 1..Len(c[b]) : c[b][k].id = id
Moves(id) == BlockOf(code, id) # BlockOf(func_.code, id)
MovedOps == {i.op : i \in {x \in UNION {{code[b][k] : k \in 1..Len(code[b])} : b \in Block} : Moves(x.id)}}

Literals == LiteralsOf(code)

\* Whatever moves, each value is still defined above all its uses: operands
\* never stay behind, nor move after the instruction that needs them.
DefinedBeforeUse == OperandsDominate(code, Literals, func.succ, func.entry)

\* If no call, load or division was moved, the program computes the same on
\* every path, also where a loop is moved out of a loop that was treated before.
MeaningKept ==
  pc = "done" /\ MovedOps \cap {"input", "load", "sdiv"} = {} =>
    \A path \in PathsFrom(func.succ, func.entry, PathBound), in \in Inputs :
      SameAlong(func_, func_.code, code, in, path)

Loop(h) == NaturalLoop(func.succ, func.entry, h)

\* An instruction of a loop whose operands were all defined outside of it, as
\* the program was, ends up outside of it.
ReadyIsHoisted ==
  pc = "done" =>
    \A h \in LoopHeaders(func.succ, func.entry) : \A b \in Loop(h) : \A k \in 1..Len(func_.code[b]) :
      LET i == func_.code[b][k]
      IN  Movable(i) /\ (\A v \in Operands(i) \cap IdsOf(code) : BlockOf(func_.code, v) \notin Loop(h))
            => BlockOf(code, i.id) \notin Loop(h)

\* The transformation is an equivalent one: whatever is moved, where no division
\* traps the program shows the same.
ShowsTheSame ==
  pc = "done" =>
    \A path \in PathsFrom(func.succ, func.entry, PathBound), in \in Inputs :
      LET n == RunTo(func_, code, in, path, Len(code[path[Len(path)]]))
      IN  n.ub \/ SameAlong(func_, func_.code, code, in, path)
=============================================================================
