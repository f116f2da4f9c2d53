--------------------------- MODULE QualitySwitching ---------------------------
(***************************************************************************)
(* A quality switch between the PC and the phone over one authorized       *)
(* session: PhoneQuality and HostQuality connected by the two directions   *)
(* of the transport.  The transport is reliable and in order; either end   *)
(* may stop at any moment without the other one noticing (AOA reports no   *)
(* disconnect).  There is no clock: an armed deadline may expire any time. *)
(***************************************************************************)
EXTENDS PhoneQuality, HostQuality

CONSTANTS
    MaxRequests,   \* bound: requests of the PC's user, beside the saved wish
    MaxPresses,    \* bound: presses of Start
    MaxPauses,     \* bound: times the phone's Activity is paused
    MaxRepeats     \* repetitions of PREPARE_QUALITY by a peer that is not this PC

ASSUME BoundsAssumption ==
    {MaxRequests, MaxPresses, MaxPauses, MaxRepeats} \subseteq Nat

VARIABLE used  \* how much of each bound is spent, and the saved wish

vars == <<phone, Host, used>>

Spend(what, max) == used[what] < max /\ used' = [used EXCEPT ![what] = @ + 1]
Free == UNCHANGED used

Init ==
    /\ PhoneInit
    /\ HostInit
    /\ \E wish \in Modes :
           used = [requests |-> 0, presses |-> 0, pauses |-> 0, repeats |-> 0, wish |-> wish]

\* The reader posts a command to the UI thread, which handles it there.
DeliverCommand ==
    /\ toPhone # <<>>
    /\ HandleCommand(Head(toPhone))
    /\ toPhone' = Tail(toPhone)
    /\ UNCHANGED <<worker, client, slot, events>> /\ Free

\* The writer sends control before video.
DeliverFrame ==
    \/ /\ phone.control # <<>>
       /\ Receive(Head(phone.control))
       /\ phone' = [phone EXCEPT !.control = Tail(@)]
       /\ Free
    \/ /\ phone.control = <<>> /\ phone.video # <<>>
       /\ Receive(Head(phone.video))
       /\ phone' = [phone EXCEPT !.video = Tail(@)]
       /\ Free

\* The contract of PREPARE_QUALITY is stated for peers that repeat a request, the
\* last one or an older one (of which the phone reads the id only).
RepeatPrepare ==
    /\ worker.id > 0 /\ toPhone = <<>> /\ Spend("repeats", MaxRepeats)
    /\ \E id \in 1..worker.id :
           toPhone' = <<PrepareQuality(id, worker.revision, worker.requested)>>
    /\ UNCHANGED <<phone, worker, client, slot, events>>

PhoneStep ==
    \/ CameraStarts \/ CaptureStarted \/ AccessUnit \/ CameraFails \/ PhoneDeadline \/ PhoneCloses
    \/ PressStop
    \/ \E granted, ready \in BOOLEAN : OnResume(granted, ready)
    \/ \E granted \in BOOLEAN : OnRequestPermissionsResult(granted)

HostStep ==
    TakeRequest \/ WorkerDeadline \/ WorkerFails \/ WorkerStops \/ HandleEvent(used.wish)
    \/ Watchdog \/ Stop \/ StopDeadline

Next ==
    \/ DeliverCommand \/ DeliverFrame \/ RepeatPrepare
    \/ PhoneStep /\ UNCHANGED Host /\ Free
    \/ PressStart /\ Spend("presses", MaxPresses) /\ UNCHANGED Host
    \/ OnPause /\ Spend("pauses", MaxPauses) /\ UNCHANGED Host
    \/ HostStep /\ UNCHANGED phone /\ Free
    \/ \E mode \in Modes : Apply(mode) /\ Spend("requests", MaxRequests) /\ UNCHANGED phone

Spec == Init /\ [][Next]_vars

\* Deadlines expire: the phone's Handler looks every 250 ms, the worker's loop
\* before every frame and every 100 ms, however many events fill its pipe between
\* two looks (hence SF), and the parent reads the events.  Nothing is assumed of
\* cameras, users or the peer.
FairSpec ==
    /\ Spec
    /\ WF_vars(PhoneDeadline /\ UNCHANGED Host /\ Free)
    /\ SF_vars(WorkerDeadline /\ UNCHANGED phone /\ Free)
    /\ WF_vars(HandleEvent(used.wish) /\ UNCHANGED phone /\ Free)

-----------------------------------------------------------------------------
(* Properties.                                                               *)

Phases == {"Idle", "Prepared", "Staged", "Starting", "Applied", "Failed"}
WorkerPhases == {"Idle", "Preparing", "Staged", "Switching", "AwaitingOutput", "Applied", "Failed"}
AnyMode == Modes \cup {NoMode}

\* Every field has its type, and a reply stands ready whenever a request has
\* been answered for the first time.
TypeOK ==
    /\ phone.phase \in Phases /\ phone.id \in Nat /\ phone.epoch \in Nat /\ phone.gen \in Nat
    /\ {phone.mode, phone.prepared, phone.captured} \subseteq AnyMode
    /\ {phone.armed, phone.startRequested, phone.foreground, phone.permission, phone.asking,
        phone.ready, phone.open, phone.invited, phone.intruded} \subseteq BOOLEAN
    /\ phone.revision \in Nat /\ phone.camera \in {"off", "starting", "configured", "running"}
    /\ (phone.id > 0) <=> (phone.reply # <<>>)
    /\ phone.phase \in Busy => phone.mode \in Modes /\ phone.prepared = phone.mode
    /\ worker.phase \in WorkerPhases /\ worker.id \in Nat /\ worker.epoch \in Nat \cup {-1}
    /\ {worker.requested, worker.config, worker.output, slot} \subseteq AnyMode
    /\ {worker.running, worker.armed, worker.advertised, worker.ready} \subseteq BOOLEAN
    /\ client.state \in {"running", "stopping", "down"}
    /\ {client.ready, client.checked, client.staged, client.watched} \subseteq BOOLEAN
    /\ {client.pending, client.applied} \subseteq AnyMode

\* The worker says Applied only after a picture of the requested mode, from a
\* capture begun after the phone's barrier, went to the output (quality.rs:1-2).
AppliedIsReal ==
    worker.phase = "Applied" => worker.seen.mode = worker.requested /\ worker.seen.gen > worker.fence

\* No barrier and no commit is taken for a stale one: a switch never waits for
\* its deadline because the two ends disagree on the epoch.  Unless a capture
\* was started behind the machine's back, see NoCaptureWhilePrepared.
EpochsAgree ==
    phone.open /\ worker.running /\ ~phone.intruded =>
        /\ \A i \in DOMAIN phone.control :
               LET m == phone.control[i]
               IN  m.kind = "paused" /\ m.id = worker.id /\ worker.phase = "Preparing"
                   => worker.epoch \in {-1, m.epoch}
        /\ \A i \in DOMAIN toPhone :
               LET c == toPhone[i]
               IN  c.kind = "commit" /\ phone.phase = "Prepared" => c.epoch = phone.epoch + 1

\* The video that follows a barrier is the requested one: the PC does not have
\* to end the session for a mode it did not ask for, however the phone's user
\* stops, restarts or leaves the switch.  Except one who stops a capture that the
\* phone has reported applied and starts an Auto one before the PC has its picture.
MatchingCapture ==
    /\ phone.open /\ worker.running /\ ~phone.intruded /\ AwaitingVideo
    /\ phone.phase = "Applied" => phone.captured = phone.mode
    /\ phone.control # <<>> /\ Head(phone.control).kind = "config"
    => Head(phone.control).mode = worker.requested

\* The desktop waits for exactly what its worker does: a wish is on its way to
\* the worker, being worked on, or answered in the pipe, and a worker switches to
\* nothing else.  "lost" is no place of QualityRequest: a wish that only one of
\* the two ends knows of breaks the refinement.
Answered(kinds) == \E i \in DOMAIN events : events[i].kind \in kinds
Working == WorkerBusy \/ worker.phase = "Staged"
Held == IF slot # NoMode THEN slot ELSE IF Working THEN worker.requested ELSE NoMode
Wish == IF client.state = "running" THEN client.pending ELSE NoMode
Shown == IF client.state = "running" THEN client.applied ELSE NoMode
Place ==
    CASE client.state # "running"                 -> "over"
      [] client.state = "running" /\ Held # NoMode ->
             IF Held # Wish THEN "lost" ELSE IF slot # NoMode THEN "queued" ELSE "working"
      [] client.state = "running" /\ Held = NoMode ->
             IF Wish = NoMode THEN "none"
             ELSE IF Answered({"applied"}) THEN "applied"
             ELSE IF Answered({"failed", "stopped"}) THEN "refused" ELSE "lost"

Wishes == INSTANCE QualityRequest WITH at <- Place, mode <- Wish, shown <- Shown
\* Client and Switch together keep what QualityRequest promises: a wish of the
\* desktop's user is passed on once, answered at most once and never forgotten,
\* and shown as applied only when it has been (quality.rs:1-2, session.rs:425-426).
WishIsKept == Wishes!Spec

\* What the desktop shows as applied is what the virtual camera shows, and never
\* the mode it is still waiting for (session.rs:425-426).
AppliedIsShown ==
    client.state = "running" /\ client.applied # NoMode =>
        /\ worker.running /\ events = <<>> => worker.output = client.applied
        /\ client.applied # client.pending

\* A capture begins only while a start by the phone's user stands: after a stop,
\* a failed switch or a camera error neither a late commit nor a return to the
\* app starts the camera again (02-control.md:35-37).
StopWins == [][phone'.gen > phone.gen => phone'.invited]_vars

\* Neither end stays in a switch for ever, whether or not the other one, the
\* camera or the output ever answers: the phone's five seconds
\* (02-control.md:42) and the PC's (quality-control-v0.md:98).
PhoneWaits == phone.open /\ phone.phase \in {"Prepared", "Starting"}
SwitchEnds == (PhoneWaits ~> ~PhoneWaits) /\ (WorkerBusy ~> ~WorkerBusy)

\* Violated.  02-control.md:37: capture is not resumed by an interruption or a
\* move to the background.  While the phone is prepared its camera is stopped
\* and its start request kept; onResume starts an Auto capture that the machine
\* does not know of.
NoCaptureWhilePrepared == phone.phase = "Prepared" => phone.camera = "off"
=============================================================================
