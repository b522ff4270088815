----------------------------- MODULE CicloDeVida -----------------------------
(***************************************************************************)
(* What the scheduler promises about a process, whatever its threads do in *)
(* between: it is admitted once, it is dispatched only to a CPU that is    *)
(* free, that CPU is then no longer free, and neither the process nor a    *)
(* free CPU is ever lost.                                                  *)
(***************************************************************************)
EXTENDS Naturals

VARIABLES lugar,    \* "NEW", "READY" or "EXEC"
          libres    \* how many CPUs are free

vars == <<lugar, libres>>

Init == lugar = "NEW" /\ libres = 0

LlegaCpu ==
    /\ libres' = libres + 1
    /\ UNCHANGED lugar

Admite ==
    /\ lugar = "NEW"
    /\ lugar' = "READY"
    /\ UNCHANGED libres

Despacha ==
    /\ lugar = "READY"
    /\ libres > 0
    /\ lugar' = "EXEC"
    /\ libres' = libres - 1

Next == LlegaCpu \/ Admite \/ Despacha

EspecSegura == Init /\ [][Next]_vars

\* What can be admitted is, and so is what can be dispatched.
Justicia == WF_vars(Admite) /\ WF_vars(Despacha)

Spec == EspecSegura /\ Justicia
=============================================================================
