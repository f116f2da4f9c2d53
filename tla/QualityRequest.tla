---------------------------- MODULE QualityRequest ----------------------------
(* What the desktop's user is promised about a wish for a picture quality: one at *)
(* a time; it is passed on once, answered at most once and never forgotten while  *)
(* the session lasts; and it is shown as applied only when it has been.           *)
CONSTANTS Modes, NoMode

VARIABLES
    at,     \* where the wish is: "none", "queued", "working", "applied" or
            \* "refused" but not yet read, or "over" with the session
    mode,   \* what is wished for, NoMode if nothing is
    shown   \* what the desktop says the virtual camera shows

Init == at = "none" /\ mode = NoMode /\ shown = NoMode

Ask ==
    /\ at = "none" /\ at' = "queued"
    /\ mode' \in Modes \ {shown}
    /\ UNCHANGED shown

Take    == at = "queued" /\ at' = "working" /\ UNCHANGED <<mode, shown>>
Confirm == at = "working" /\ at' = "applied" /\ UNCHANGED <<mode, shown>>
Refuse  == at \in {"queued", "working"} /\ at' = "refused" /\ UNCHANGED <<mode, shown>>

Read ==
    /\ at \in {"applied", "refused"} /\ at' = "none"
    /\ mode' = NoMode
    /\ shown' = IF at = "applied" THEN mode ELSE shown

(* The pictures of a wish that is worked on, and of the time between wishes.    *)
Hide  == mode # NoMode /\ shown' = NoMode /\ UNCHANGED <<at, mode>>
Count == at = "none" /\ shown' \in Modes /\ UNCHANGED <<at, mode>>

End == at # "over" /\ at' = "over" /\ mode' = NoMode /\ shown' = NoMode

Next == Ask \/ Take \/ Confirm \/ Refuse \/ Read \/ Hide \/ Count \/ End
Spec == Init /\ [][Next]_<<at, mode, shown>>
=============================================================================
