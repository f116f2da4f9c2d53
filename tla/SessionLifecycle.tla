-------------------------- MODULE SessionLifecycle --------------------------
(* What a Session promises its window: one receiver at a time, that it has  *)
(* ended before the session is over, and no way back from a stop.           *)
EXTENDS Naturals

VARIABLES
    phase,      \* "ended", "active" or "ending"
    live        \* processes that run and have not been told to die: 0 or 1

Init == phase = "ended" /\ live = 0

Begin == phase = "ended" /\ live = 0 /\ phase' = "active" /\ live' = 1

(* The helper has done its part: the receiver takes its place.              *)
HandOver == phase = "active" /\ live = 0 /\ live' = 1 /\ UNCHANGED phase

(* A stop or a failure; the process may be killed in the same step.         *)
Stop == phase = "active" /\ phase' = "ending" /\ live' \in {live, 0}

Dies == live = 1 /\ live' = 0 /\ UNCHANGED phase

End == phase # "ended" /\ live = 0 /\ phase' = "ended" /\ UNCHANGED live

Next == Begin \/ HandOver \/ Stop \/ Dies \/ End
Spec == Init /\ [][Next]_<<phase, live>>
=============================================================================
