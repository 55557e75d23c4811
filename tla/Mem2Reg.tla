------------------------------ MODULE Mem2Reg ------------------------------
(***************************************************************************)
(* Mem2Reg of src/optimization/Mem2Reg.cpp: it turns the scalars the       *)
(* builder keeps in allocas into SSA values.  generate_phi places phis on  *)
(* the iterated dominance frontier of the stores; re_name walks the        *)
(* dominator tree with one stack of current values per variable, replaces  *)
(* loads, and fills the phis of the successors; remove_alloca drops the    *)
(* allocas.  Dominators is used through what it promises (its run checks   *)
(* the promise): the frontier and the tree of the blocks the entry reaches;*)
(* for the others, its loop as it runs there.                              *)
(*                                                                         *)
(* One step is one instruction of the renaming loop, one block of a work   *)
(* list, or one call or return of re_name.  The sets of blocks and values  *)
(* the code loops over are ordered by address, so their order is a free    *)
(* choice.  The state pc = "abort" is the assert of line 130 failing,      *)
(* pc = "undefined" is back() of an empty vector on line 102.              *)
(***************************************************************************)
EXTENDS IRSemantics

CONSTANTS
  Block,       \* basic blocks
  Var,         \* allocas of scalar type: what the pass promotes
  Memory,      \* globals and array elements: get_lval is no alloca
  Value,       \* values of instructions, the phis PhiId makes included
  Literal,     \* constants and arguments
  NoLoc,       \* the loc of an instruction that is no memory operation
  NoId,        \* the id of an instruction of void type
  PhiId(_, _), \* the phi made for a block and a variable
  Functions    \* the functions the pass may be given

Location == Var \cup Memory
Operand  == Value \cup Literal
Instr == [op: {"alloca", "load", "store", "phi", "input", "output"},
          id: Value \cup {NoId}, loc: Location \cup {NoLoc},
          args: Seq(Operand), from: Seq(Block)]
Function == [entry: Block, blocks: SUBSET Block, succ: [Block -> SUBSET Block],
             code: [Block -> Seq(Instr)]]

\* Each value is made once, above the instructions that use it; allocas are
\* named by their loc and stores make no value.
SingleAssignment(f) ==
  /\ \A b \in Block : \A k \in 1..Len(f.code[b]) :
       LET i == f.code[b][k]
       IN  /\ i.op \in {"alloca", "store"} => i.id = NoId
           /\ \A c \in Block, v \in Var : i.id # PhiId(c, v)
           /\ \A c \in Block : \A l \in 1..Len(f.code[c]) :
                f.code[c][l].id = i.id /\ i.id # NoId => c = b /\ l = k
  /\ OperandsDominate(f.code, Literal, f.succ, f.entry)

\* A function as the builder leaves it: a branch stays in the function and
\* never goes back to the entry, there are no phis yet, and loads and stores
\* name their location.
WellFormed(f) ==
  /\ f.entry \in f.blocks
  /\ \A b \in Block : f.succ[b] \subseteq f.blocks \ {f.entry}
  /\ \A b \in Block : \A k \in 1..Len(f.code[b]) :
       LET i == f.code[b][k]
       IN  /\ i.op # "phi"
           /\ i.op = "load"  => i.loc \in Location /\ i.args = <<>> /\ i.from = <<>>
           /\ i.op = "store" => i.loc \in Location /\ Len(i.args) = 1
  /\ SingleAssignment(f)

ASSUME BlockAssumption == IsFiniteSet(Block) /\ NoLoc \notin Location
ASSUME ValueAssumption == Literal \cap Value = {} /\ NoId \notin Operand
ASSUME FunctionsAssumption == \A f \in Functions : f \in Function /\ WellFormed(f)
ASSUME PhiIdAssumption ==
  /\ \A b \in Block, v \in Var : PhiId(b, v) \in Value
  /\ \A b, c \in Block, v, w \in Var : PhiId(b, v) = PhiId(c, w) => b = c /\ v = w

VARIABLES
  func_,           \* the function before the pass
  code,            \* its code as the pass changes it
  pc,
  dominators_,     \* [frontier, children] of every block
  live_vars,       \* global_live_var_name, those not yet treated
  work_list, var,  \* generate_phi's loop for one variable
  bb_has_var_phi,
  var_val_stack,   \* the stacks; `keys' are the map's keys
  keys,
  calls            \* the calls of re_name in progress, innermost last

vars == <<func_, code, pc, dominators_, live_vars, work_list, var,
          bb_has_var_phi, var_val_stack, keys, calls>>
placing == <<live_vars, work_list, var, bb_has_var_phi>>

\* A call: its block, the next instruction, the dom tree children still to
\* visit, the instructions to delete; `at' is the part of re_name it is in.
Call(b) == [bb |-> b, at |-> "phis", ip |-> 1, left |-> dominators_.children[b],
            wait_delete |-> {}]
top == calls[Len(calls)]
SetTop(c) == [calls EXCEPT ![Len(calls)] = c]

NoVar == NoLoc
IsPhi(i) == i.op = "phi"
PhisOf(b) == {k \in 1..Len(code[b]) : IsPhi(code[b][k])}

Init ==
  /\ func_ \in Functions
  /\ code = func_.code
  /\ pc = "start"
  /\ dominators_ = [frontier |-> [b \in Block |-> {}], children |-> [b \in Block |-> {}]]
  /\ live_vars = {} /\ work_list = {} /\ var = NoVar /\ bb_has_var_phi = {}
  /\ var_val_stack = [v \in Var |-> <<>>] /\ keys = {}
  /\ calls = <<>>

-----------------------------------------------------------------------------
\* The variables stored to, and the blocks that store to v (step 1).
StoreBlocks(v) ==
  {b \in func_.blocks : \E k \in 1..Len(code[b]) :
                          code[b][k].op = "store" /\ code[b][k].loc = v}

\* The pointers that are neither global nor the address of an array element.
LiveVarNames == {v \in Var : StoreBlocks(v) # {}}

\* The frontier create_dominance_frontier gives a block the entry does not
\* reach: no such block has an idom, so the runner visits just the predecessors
\* of a dead join.  (On a dead way into a live join it never ends, and Mem2Reg
\* does not start: those joins are left out.)
DeadFrontier(live, b) ==
  {d \in func_.succ[b] \ live : Cardinality(Predecessors(func_.succ, d)) >= 2}

\* run: the dominators are computed, and generate_phi collects the variables.
FindLiveVars ==
  /\ pc = "start"
  /\ LET live == Reach(func_.succ, {func_.entry})
     IN  dominators_' =
           [frontier |-> [b \in Block |-> IF b \in live
                            THEN DominanceFrontier(func_.succ, func_.entry, b)
                            ELSE DeadFrontier(live, b)],
            children |-> [b \in Block |-> IF b \in live
                            THEN DominatorChildren(func_.succ, func_.entry, b) ELSE {}]]
  /\ live_vars' = LiveVarNames
  /\ pc' = "phi"
  /\ UNCHANGED <<func_, code, work_list, var, bb_has_var_phi, var_val_stack, keys, calls>>

NextVar ==
  /\ pc = "phi" /\ var = NoVar
  /\ \E v \in live_vars :
       /\ var' = v
       /\ live_vars' = live_vars \ {v}
       /\ work_list' = StoreBlocks(v)
  /\ UNCHANGED <<func_, code, pc, dominators_, bb_has_var_phi, var_val_stack, keys, calls>>

NewPhi(b, v) == [op |-> "phi", id |-> PhiId(b, v), loc |-> v, args |-> <<>>, from |-> <<>>]

\* The blocks to treat because block b has been: those that got a phi.
Requeue_None(b, lacking) == {}
Requeue(b, lacking) == lacking

\* One block of the work list: its frontier gets the phis it lacks, and the
\* blocks that get one join the list.
PlacePhis ==
  /\ pc = "phi" /\ var # NoVar
  /\ \E b \in work_list :
       LET lacking == {d \in dominators_.frontier[b] : <<d, var>> \notin bb_has_var_phi}
       IN  /\ code' = [d \in Block |-> IF d \in lacking
                         THEN <<NewPhi(d, var)>> \o code[d] ELSE code[d]]
           /\ bb_has_var_phi' = bb_has_var_phi \cup (lacking \X {var})
           /\ work_list' = (work_list \ {b}) \cup Requeue(b, lacking)
  /\ UNCHANGED <<func_, pc, dominators_, live_vars, var, var_val_stack, keys, calls>>

VarDone ==
  /\ pc = "phi" /\ var # NoVar /\ work_list = {}
  /\ var' = NoVar
  /\ UNCHANGED <<func_, code, pc, dominators_, live_vars, work_list,
                 bb_has_var_phi, var_val_stack, keys, calls>>

StartRename ==
  /\ pc = "phi" /\ var = NoVar /\ live_vars = {}
  /\ calls' = <<Call(func_.entry)>>
  /\ pc' = "rename"
  /\ UNCHANGED <<func_, code, dominators_, placing, var_val_stack, keys>>

-----------------------------------------------------------------------------
\* Step 3: every phi of the block becomes the current value of its variable.
PushPhis ==
  /\ pc = "rename" /\ calls # <<>> /\ top.at = "phis"
  /\ LET phi(v) == {k \in PhisOf(top.bb) : code[top.bb][k].loc = v}
     IN  /\ var_val_stack' = [v \in Var |-> IF phi(v) = {} THEN var_val_stack[v]
                                ELSE Append(var_val_stack[v], PhiId(top.bb, v))]
         /\ keys' = keys \cup {v \in Var : phi(v) # {}}
  /\ calls' = SetTop([top EXCEPT !.at = "instrs"])
  /\ UNCHANGED <<func_, code, pc, dominators_, placing>>

\* replace_all_use_with: v takes the place of old wherever old is an operand.
Subst(arg, old, v) == IF arg = old THEN v ELSE arg
ReplaceAllUse(old, v) ==
  [b \in Block |-> [k \in 1..Len(code[b]) |->
     [code[b][k] EXCEPT !.args = [j \in 1..Len(@) |-> Subst(@[j], old, v)]]]]

Scanning == pc = "rename" /\ calls # <<>> /\ top.at = "instrs" /\ top.ip <= Len(code[top.bb])
instr    == code[top.bb][top.ip]
Top(v)   == var_val_stack[v][Len(var_val_stack[v])]
Advance_Kept(deleted) == SetTop([top EXCEPT !.ip = @ + 1])
Advance(deleted) ==
  SetTop([top EXCEPT !.ip = @ + 1, !.wait_delete = @ \cup deleted])

\* Step 4: a load of a variable that is a key of the stack map.
RenameLoad ==
  /\ Scanning /\ instr.op = "load" /\ instr.loc \in keys
  /\ IF var_val_stack[instr.loc] = <<>>
     THEN pc' = "undefined" /\ UNCHANGED <<code, calls>>
     ELSE /\ code' = ReplaceAllUse(instr.id, Top(instr.loc))
          /\ calls' = Advance({top.ip})
          /\ UNCHANGED pc
  /\ UNCHANGED <<func_, dominators_, placing, var_val_stack, keys>>

\* Step 5: a store to a variable makes its operand the current value.
RenameStore ==
  /\ Scanning /\ instr.op = "store" /\ instr.loc \in Var
  /\ var_val_stack' = [var_val_stack EXCEPT ![instr.loc] = Append(@, instr.args[1])]
  /\ keys' = keys \cup {instr.loc}
  /\ calls' = Advance({top.ip})
  /\ UNCHANGED <<func_, code, pc, dominators_, placing>>

\* Every other instruction stays: a load or store of memory, a load of a
\* variable no store was seen for, anything that is no load or store.
KeepInstr ==
  /\ Scanning
  /\ ~(instr.op = "load" /\ instr.loc \in keys)
  /\ ~(instr.op = "store" /\ instr.loc \in Var)
  /\ calls' = Advance({})
  /\ UNCHANGED <<func_, code, pc, dominators_, placing, var_val_stack, keys>>

\* Step 6: the phis of the successors get a pair for this block.
Filled_NotItself(i) ==
  IF IsPhi(i) /\ i.loc \in keys /\ Top(i.loc) # i.id
  THEN [i EXCEPT !.args = Append(@, Top(i.loc)), !.from = Append(@, top.bb)]
  ELSE i
Filled(i) ==
  IF IsPhi(i) /\ i.loc \in keys
  THEN [i EXCEPT !.args = Append(@, Top(i.loc)), !.from = Append(@, top.bb)]
  ELSE i

FillPhis ==
  /\ pc = "rename" /\ calls # <<>> /\ top.at = "instrs" /\ top.ip > Len(code[top.bb])
  /\ LET succ == func_.succ[top.bb]
     IN  IF \E s \in succ : \E k \in PhisOf(s) :
              code[s][k].loc \in keys /\ var_val_stack[code[s][k].loc] = <<>>
         THEN pc' = "abort" /\ UNCHANGED <<code, calls>>
         ELSE /\ code' = [b \in Block |-> IF b \in succ
                            THEN [k \in 1..Len(code[b]) |-> Filled(code[b][k])]
                            ELSE code[b]]
              /\ calls' = SetTop([top EXCEPT !.at = "children"])
              /\ UNCHANGED pc
  /\ UNCHANGED <<func_, dominators_, placing, var_val_stack, keys>>

Descend ==
  /\ pc = "rename" /\ calls # <<>> /\ top.at = "children"
  /\ \E b \in top.left :
       calls' = Append(SetTop([top EXCEPT !.left = @ \ {b}]), Call(b))
  /\ UNCHANGED <<func_, code, pc, dominators_, placing, var_val_stack, keys>>

\* Step 7 and return: one pop for each store and phi of the block, then the
\* loads and stores are deleted.
Pops_StoresOnly(b, v) ==
  Cardinality({k \in 1..Len(code[b]) : code[b][k].op = "store" /\ code[b][k].loc = v})
Pops_LoadsToo(b, v) ==
  LET n == Cardinality({k \in 1..Len(code[b]) :
                          code[b][k].op \in {"load", "store", "phi"} /\ code[b][k].loc = v})
  IN  IF n > Len(var_val_stack[v]) THEN Len(var_val_stack[v]) ELSE n
Pops(b, v) == Cardinality({k \in 1..Len(code[b]) :
                             code[b][k].op \in {"store", "phi"} /\ code[b][k].loc = v})
KeepOnly(list, S) ==
  LET rank(k) == Cardinality({j \in S : j <= k})
  IN  [n \in 1..Cardinality(S) |-> list[CHOOSE k \in S : rank(k) = n]]
Return ==
  /\ pc = "rename" /\ calls # <<>> /\ top.at = "children" /\ top.left = {}
  /\ var_val_stack' = [v \in Var |->
       SubSeq(var_val_stack[v], 1, Len(var_val_stack[v]) - Pops(top.bb, v))]
  /\ code' = [code EXCEPT ![top.bb] = KeepOnly(@, (1..Len(@)) \ top.wait_delete)]
  /\ calls' = SubSeq(calls, 1, Len(calls) - 1)
  /\ UNCHANGED <<func_, pc, dominators_, placing, keys>>

\* remove_alloca, in every block of the function.
RemoveAlloca ==
  /\ pc = "rename" /\ calls = <<>>
  /\ code' = [b \in Block |->
       KeepOnly(code[b], {k \in 1..Len(code[b]) :
                            ~(code[b][k].op = "alloca" /\ code[b][k].loc \in Var)})]
  /\ pc' = "done"
  /\ UNCHANGED <<func_, dominators_, placing, var_val_stack, keys, calls>>

-----------------------------------------------------------------------------
Next ==
  \/ FindLiveVars \/ NextVar \/ PlacePhis \/ VarDone \/ StartRename
  \/ PushPhis \/ RenameLoad \/ RenameStore \/ KeepInstr \/ FillPhis
  \/ Descend \/ Return \/ RemoveAlloca

Spec == Init /\ [][Next]_vars

-----------------------------------------------------------------------------
(***************************************************************************)
(* The program as it was, on its paths.                                    *)
(***************************************************************************)
Live == Reach(func_.succ, {func_.entry})

Stores(b, v, n) == \E k \in 1..n : func_.code[b][k].op = "store" /\ func_.code[b][k].loc = v
LastOf(b)       == Len(func_.code[b])

\* Every path from the entry stores to v before instruction n of b is over.
AssignedAt(b, n, v) ==
  LET storing == {c \in func_.blocks : Stores(c, v, LastOf(c))}
      silent  == Reach(Without(func_.succ, storing), {func_.entry})
      open    == silent \ storing     \* left by a path with no store to v
  IN  \/ Stores(b, v, n)
      \/ /\ b # func_.entry
         /\ Predecessors(func_.succ, b) \cap open = {}

\* No load of a local variable comes before a store to it, on any path, and
\* all blocks are reachable.
WellInitialised ==
  /\ func_.blocks \subseteq Live
  /\ \A b \in func_.blocks : \A k \in 1..LastOf(b) :
       LET i == func_.code[b][k]
       IN  i.op = "load" /\ i.loc \in Var => AssignedAt(b, k, i.loc)

-----------------------------------------------------------------------------
\* Promotion keeps the meaning: on every path the function shows what it showed
\* and leaves in globals and arrays what it left, wherever that was no content
\* of an uninitialised local variable.
CONSTANT PathBound     \* the longest path compared, in blocks
MeaningKept ==
  pc = "done" =>
    \A path \in PathsFrom(func_.succ, func_.entry, PathBound) :
      SameOnPath(func_.code, code, Value, Location, Memory, path)

\* No load or store of the function refers to an alloca.
NoUseOfAlloca ==
  \A b \in func_.blocks : \A k \in 1..Len(code[b]) :
    code[b][k].op \in {"load", "store"} => code[b][k].loc \notin Var

\* A program whose locals are all assigned before they are read comes out in
\* the form LLVM accepts: nothing refers to an alloca that is gone, and the
\* definition of each operand dominates its use, at the end of the incoming
\* block for the operand of a phi.
SSAForm ==
  pc = "done" /\ WellInitialised =>
    NoUseOfAlloca /\ OperandsDominate(code, Literal, func_.succ, func_.entry)

\* The allocas are removed whatever still uses them: uses are left only in
\* blocks the entry does not reach, which are not renamed at all, and by loads
\* that some path reaches with the variable unassigned.
UsesLeft ==
  pc = "done" =>
    \A b \in Live : \A k \in 1..Len(code[b]) :
      code[b][k].op \in {"load", "store"} /\ code[b][k].loc \in Var =>
        \E n \in 1..LastOf(b) : /\ func_.code[b][n] = code[b][k]
                                /\ code[b][k].op = "load"
                                /\ ~AssignedAt(b, n, code[b][k].loc)

\* PhiInst::print adds [ undef, p ] for the predecessors p without a pair, if
\* there are fewer pairs than predecessors.
Undefs(b, i) ==
  LET preds == Predecessors(func_.succ, b)
  IN  IF Len(i.from) < Cardinality(preds) THEN preds \ {i.from[j] : j \in 1..Len(i.from)} ELSE {}

\* A phi of a block the entry reaches has a pair for each predecessor with a
\* value and for no other block, at least one, and is printed with exactly one
\* entry for each predecessor.  No pair, so undef in print, only where some path
\* leaves the variable unassigned, and then at each predecessor that dominates
\* this one.  A phi generate_phi put in a block the entry does not reach has no
\* pair at all, as re_name does not get there: print then takes its type from
\* operand 0 of none.
PhisMatchPredecessors ==
  pc = "done" =>
    \A b \in Block : \A k \in PhisOf(b) :
      LET i == code[b][k]
          from(p) == Cardinality({j \in 1..Len(i.from) : i.from[j] = p})
      IN  IF b \in Live
          THEN /\ i.from # <<>>
               /\ \A p \in Block :
                    /\ from(p) + (IF p \in Undefs(b, i) THEN 1 ELSE 0) = IF b \in func_.succ[p] THEN 1 ELSE 0
                    /\ p \in Undefs(b, i) /\ p \in Live => ~AssignedAt(p, LastOf(p), i.loc)
               /\ \A p, q \in Live : b \in func_.succ[p] /\ b \in func_.succ[q] =>
                    (from(p) # 0 /\ Dominates(func_.succ, func_.entry, p, q) => from(q) # 0)
          ELSE i.from = <<>>

\* The instructions of a call's block that have pushed a value of v.
Pushed(c, v) ==
  {k \in 1..Len(code[c.bb]) :
     /\ code[c.bb][k].loc = v
     /\ \/ code[c.bb][k].op = "phi" /\ c.at # "phis"
        \/ code[c.bb][k].op = "store" /\ k < c.ip}

\* The stacks hold exactly what the calls in progress have pushed: nothing of a
\* finished subtree is visible to its siblings.
StacksAreOpenCalls ==
  pc = "rename" =>
    \A v \in Var :
      Len(var_val_stack[v]) =
        Cardinality(UNION {{<<n, k>> : k \in Pushed(calls[n], v)} : n \in 1..Len(calls)})

\* The assert and the back() of an empty stack are reached only for a variable
\* that some path leaves unassigned at that place.
FailsOnlyUnassigned ==
  /\ pc = "abort" =>
       \E s \in func_.succ[top.bb] : \E k \in PhisOf(s) :
         ~AssignedAt(top.bb, LastOf(top.bb), code[s][k].loc)
  /\ pc = "undefined" =>
       ~AssignedAt(top.bb, top.ip - Cardinality(PhisOf(top.bb)), instr.loc)
=============================================================================
