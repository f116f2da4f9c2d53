------------------------ MODULE MCPhoneAuthorization ------------------------
(* The instances of the runs: a few PCs and Session objects, short timeouts. *)
EXTENDS PhoneAuthorization, TLC

\* A run of invariants only may exchange the identities of the PCs and of the sessions.
Symmetry == Permutations(Pc) \cup Permutations(SessionId)
=============================================================================
