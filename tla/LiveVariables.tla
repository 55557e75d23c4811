--------------------------- MODULE LiveVariables ---------------------------
(***************************************************************************)
(* What the live-variable pass promises, without saying how it computes:   *)
(* the functions of the module are taken in order, a declaration is passed *)
(* over, and for every other function one thing is printed, the least      *)
(* solution of the data-flow equations of its code.                        *)
(***************************************************************************)
EXTENDS LiveCode

VARIABLES
  m,           \* the functions still to come
  printed      \* the answers so far

Init == m \in Modules /\ printed = <<>>

Skip == m # <<>> /\ Head(m).blocks = <<>> /\ m' = Tail(m) /\ UNCHANGED printed

Answer ==
  /\ m # <<>> /\ Head(m).blocks # <<>>
  /\ m' = Tail(m)
  /\ LET p == printed'[Len(printed) + 1]
     IN  /\ printed' = Append(printed, p)
         /\ p.func = Head(m)
         /\ Solution(p.func, p.in, p.out)
         /\ BelowAll(p.func, p.in)

Next == Skip \/ Answer
Spec == Init /\ [][Next]_<<m, printed>>
=============================================================================
