----------------------------- MODULE QualityTypes -----------------------------
(***************************************************************************)
(* The frames of the quality extension and of the video they are ordered   *)
(* against.  A mode is (width, height, fps) as one value.  Reasons, sizes  *)
(* and timestamps are left out.  `gen` numbers the phone's captures; it is *)
(* on no wire and only properties read it.                                 *)
(***************************************************************************)
EXTENDS Integers, Sequences, FiniteSets

CONSTANTS
    Modes,     \* the capture modes the phone's camera and edition allow
    AutoMode,  \* CaptureModes.autoPreferred: what a capture nobody chose gets
    NoMode

ASSUME ModesAssumption == AutoMode \in Modes /\ NoMode \notin Modes

\* QUALITY_CAPABILITIES: the modes are advertised only when `ready`.
Caps(revision, ready, epoch) ==
    [kind |-> "caps", revision |-> revision, ready |-> ready, epoch |-> epoch]
Paused(id, epoch, gen) == [kind |-> "paused", id |-> id, epoch |-> epoch, gen |-> gen]
\* QUALITY_RESULT: "switching", "rejected", "applied" or "staged".
Result(id, status, mode, gen) ==
    [kind |-> "result", id |-> id, status |-> status, mode |-> mode, gen |-> gen]
VideoConfig(mode) == [kind |-> "config", mode |-> mode]
\* A VIDEO_AU that yields a picture.
Unit(mode, gen) == [kind |-> "unit", mode |-> mode, gen |-> gen]
PrepareQuality(id, revision, mode) ==
    [kind |-> "prepare", id |-> id, revision |-> revision, mode |-> mode]
CommitQuality(id, epoch) == [kind |-> "commit", id |-> id, epoch |-> epoch]
=============================================================================
