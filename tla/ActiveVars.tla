----------------------------- MODULE ActiveVars -----------------------------
(***************************************************************************)
(* The live-variable pass, ActiveVars::run of                              *)
(* src/optimization/ActiveVars.cpp.  For every function with a body the    *)
(* pass scans the instructions of each block once, collecting live_use,    *)
(* live_def and phi_use, and then sweeps the blocks in list order until a  *)
(* whole sweep leaves every live_in unchanged.  live_out is rebuilt in     *)
(* each sweep from live_in values some of which are from the same sweep    *)
(* and some from the previous one, so what is printed is right only        *)
(* because the last sweep changed nothing.                                 *)
(*                                                                         *)
(* One step is one instruction scanned, one block visited, or one control  *)
(* decision of the two loops.  A std::map entry that does not exist yet    *)
(* reads as the empty set, as operator[] makes it, so maps are total here. *)
(***************************************************************************)
EXTENDS LiveCode

VARIABLES
  m,           \* the functions still to analyse, func_ at the head
  pc,          \* where run() stands
  at,          \* position in the block list of func_
  ip,          \* position in the instruction list of the block
  tmp_use, tmp_def,
  live_use, live_def, phi_use,
  live_in, live_out,
  isChanged,
  printed      \* what was written to active_vars.json, one entry a function

vars == <<m, pc, at, ip, tmp_use, tmp_def, live_use, live_def, phi_use,
          live_in, live_out, isChanged, printed>>

Empty == [b \in Block |-> {}]

func_ == Head(m)
bb    == func_.blocks[at]
instr == func_.code[bb][ip]

-----------------------------------------------------------------------------
\* The operands whose values the instruction reads in its own block: the
\* condition of a conditional branch, the value of a non-void return, all
\* arguments of a call but the callee, every operand of the others.  A phi
\* reads nothing here.
Reads(i) ==
  CASE i.op = "phi"  -> {}
    [] i.op = "br"   -> IF Len(i.ops) = 3 THEN {i.ops[1]} ELSE {}
    [] i.op = "call" -> {i.ops[k] : k \in 2..Len(i.ops)}
    [] OTHER         -> {i.ops[k] : k \in 1..Len(i.ops)}

\* What a phi adds to phi_use of each of its incoming blocks.  Its operand
\* list is value, label, value, label, ...
PhiReads_AnyEdge(i, b) ==
  IF i.op # "phi" THEN {}
  ELSE {i.ops[k] : k \in {j \in 1..Len(i.ops) : j % 2 = 1}}
PhiReads(i, b) ==
  IF i.op # "phi" THEN {}
  ELSE {i.ops[k] : k \in {j \in 1..Len(i.ops) : j % 2 = 1 /\ i.ops[j+1] = b}}

-----------------------------------------------------------------------------
Init ==
  /\ m \in Modules
  /\ pc = "function"
  /\ at = 1 /\ ip = 1
  /\ tmp_use = {} /\ tmp_def = {}
  /\ live_use = Empty /\ live_def = Empty /\ phi_use = Empty
  /\ live_in = Empty /\ live_out = Empty
  /\ isChanged = FALSE
  /\ printed = <<>>

\* Declarations have no blocks and are skipped.
SkipDeclaration ==
  /\ pc = "function" /\ m # <<>>
  /\ func_.blocks = <<>>
  /\ m' = Tail(m)
  /\ UNCHANGED <<pc, at, ip, tmp_use, tmp_def, live_use, live_def, phi_use,
                 live_in, live_out, isChanged, printed>>

StartFunction ==
  /\ pc = "function" /\ m # <<>>
  /\ func_.blocks # <<>>
  /\ pc' = "scan"
  /\ at' = 1 /\ ip' = 1
  /\ tmp_use' = {} /\ tmp_def' = {}
  /\ live_use' = Empty /\ live_def' = Empty /\ phi_use' = Empty
  /\ live_in' = Empty /\ live_out' = Empty
  /\ UNCHANGED <<m, isChanged, printed>>

\* One instruction: its reads count unless a literal or defined above it in
\* the block; its result counts as defined unless used above it.
ScanInstr ==
  /\ pc = "scan" /\ at <= Len(func_.blocks)
  /\ ip <= Len(func_.code[bb])
  /\ tmp_use' = tmp_use \cup ((Reads(instr) \ Literal) \ tmp_def)
  /\ tmp_def' = IF instr.dst \in tmp_use' \cup {NoValue} THEN tmp_def
                ELSE tmp_def \cup {instr.dst}
  /\ phi_use' = [b \in Block |-> phi_use[b] \cup (PhiReads(instr, b) \ Literal)]
  /\ ip' = ip + 1
  /\ UNCHANGED <<m, pc, at, live_use, live_def, live_in, live_out, isChanged,
                 printed>>

EndOfBlock ==
  /\ pc = "scan" /\ at <= Len(func_.blocks)
  /\ ip > Len(func_.code[bb])
  /\ live_use' = [live_use EXCEPT ![bb] = tmp_use]
  /\ live_def' = [live_def EXCEPT ![bb] = tmp_def]
  /\ tmp_use' = {} /\ tmp_def' = {}
  /\ at' = at + 1 /\ ip' = 1
  /\ UNCHANGED <<m, pc, phi_use, live_in, live_out, isChanged, printed>>

StartIteration ==
  /\ pc = "scan" /\ at > Len(func_.blocks)
  /\ live_in' = live_use
  /\ isChanged' = TRUE
  /\ pc' = "while"
  /\ UNCHANGED <<m, at, ip, tmp_use, tmp_def, live_use, live_def, phi_use,
                 live_out, printed>>

StartSweep ==
  /\ pc = "while" /\ isChanged
  /\ isChanged' = FALSE
  /\ live_out' = Empty
  /\ at' = 1
  /\ pc' = "sweep"
  /\ UNCHANGED <<m, ip, tmp_use, tmp_def, live_use, live_def, phi_use,
                 live_in, printed>>

\* live_out of a block from the live_in of its successors, as they stand.
OutOf(in, b) == phi_use[b] \cup UNION {in[s] : s \in func_.succ[b]}
InOf(in, b)  == (OutOf(in, b) \ live_def[b]) \cup live_use[b]

\* isChanged after a visit of b.
Changed_LastOnly(b)   == live_in[b] # InOf(live_in, b)
Changed_AfterClear(b) == isChanged \/ InOf(live_in, b) # {}
Changed(b) == isChanged \/ live_in[b] # InOf(live_in, b)

VisitBlock ==
  /\ pc = "sweep" /\ at <= Len(func_.blocks)
  /\ live_out' = [live_out EXCEPT ![bb] = OutOf(live_in, bb)]
  /\ live_in' = [live_in EXCEPT ![bb] = InOf(live_in, bb)]
  /\ isChanged' = Changed(bb)
  /\ at' = at + 1
  /\ UNCHANGED <<m, pc, ip, tmp_use, tmp_def, live_use, live_def, phi_use,
                 printed>>

EndOfSweep ==
  /\ pc = "sweep" /\ at > Len(func_.blocks)
  /\ pc' = "while"
  /\ UNCHANGED <<m, at, ip, tmp_use, tmp_def, live_use, live_def, phi_use,
                 live_in, live_out, isChanged, printed>>

\* A sweep changed nothing: print() both maps and take the next function.
PrintFunction ==
  /\ pc = "while" /\ ~isChanged
  /\ printed' = Append(printed, [func |-> func_, in |-> live_in, out |-> live_out])
  /\ m' = Tail(m)
  /\ pc' = "function"
  /\ UNCHANGED <<at, ip, tmp_use, tmp_def, live_use, live_def, phi_use,
                 live_in, live_out, isChanged>>

Terminated == pc = "function" /\ m = <<>>

Next ==
  \/ SkipDeclaration \/ StartFunction
  \/ ScanInstr \/ EndOfBlock \/ StartIteration
  \/ StartSweep \/ VisitBlock \/ EndOfSweep
  \/ PrintFunction

Spec == Init /\ [][Next]_vars

\* The pass is one thread of one process that nothing blocks: it goes on.
FairSpec == Spec /\ WF_vars(Next)

-----------------------------------------------------------------------------
\* The types of the pass's data: nothing but variables is ever called live,
\* no literal, label or callee.
TypeOK ==
  /\ m \in Seq(Function)
  /\ pc \in {"function", "scan", "while", "sweep"}
  /\ pc # "function" => m # <<>>
  /\ at \in Nat \ {0} /\ ip \in Nat \ {0}
  /\ live_use \in [Block -> SUBSET Var]
  /\ live_def \in [Block -> SUBSET Var]
  /\ phi_use \in [Block -> SUBSET Var]
  /\ live_in \in [Block -> SUBSET Var]
  /\ live_out \in [Block -> SUBSET Var]
  /\ tmp_use \in SUBSET Var /\ tmp_def \in SUBSET Var
  /\ isChanged \in BOOLEAN
  /\ printed \in Seq([func: Function, in: [Block -> SUBSET Var], out: [Block -> SUBSET Var]])

\* What run() writes to active_vars.json for a function is the liveness of
\* its code on paths: no variable missing, none too many, at every block.
PrintedIsLiveness ==
  \A k \in 1..Len(printed) :
    LET p == printed[k]
    IN  \A b \in BlocksOf(p.func) :
          /\ p.in[b]  = {v \in Var : LiveAtEntry(p.func, b, v)}
          /\ p.out[b] = {v \in Var : LiveAtExit(p.func, b, v)}

\* For every function in its turn the pass answers with the least solution of
\* the data-flow equations of that function's code, and with nothing else:
\* neither the sweeps, which read sets of this sweep and of the one before, nor
\* the tables of an earlier function show.
LV == INSTANCE LiveVariables WITH m <- m, printed <- printed
ImplementsLiveVariables == LV!Spec

\* run() comes to its end for every function: the sweeps converge.
Terminates == <>Terminated
=============================================================================
