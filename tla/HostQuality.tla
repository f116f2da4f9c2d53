----------------------------- MODULE HostQuality ------------------------------
(***************************************************************************)
(* The PC's half of a quality switch: the worker process (quality::Switch  *)
(* inside receive_stream) and the desktop parent (Session and              *)
(* quality::Client), which passes one request at a time down `slot` and    *)
(* reads `events` from the worker's pipe.                                  *)
(* An iteration of the worker's loop takes a request, looks at the         *)
(* deadline and handles one frame: each is an action, and so is each event *)
(* the parent reads.                                                       *)
(***************************************************************************)
EXTENDS QualityTypes

CONSTANT
    MaxEvents  \* events the pipe and the parent's channel hold (32 in the channel)

VARIABLES
    worker,  \* Switch: phase, id (next_request_id is id + 1), epoch (-1: None),
             \* requested, armed (deadline_ms is set).  receive_stream: running,
             \* advertised, ready, revision, config, output (the mode of the open
             \* sink).  fence, seen: history, see AppliedIsReal.
    client,  \* state, ready, checked (initial_checked), pending, staged, applied, and
             \* watched (quality_deadline is set)
    slot,    \* quality_request, with Pending.quality and the pipe before it
    events,  \* the worker's pipe and the parent's channel
    toPhone

Host == <<worker, client, slot, events, toPhone>>

\* Switch.busy() and Switch.awaiting_video()
WorkerBusy == worker.phase \in {"Preparing", "Switching", "AwaitingOutput"}
AwaitingVideo == worker.phase \in {"Switching", "Staged", "AwaitingOutput"}

\* Events of the worker.
Event(kind, mode, flag) == [kind |-> kind, mode |-> mode, flag |-> flag]
Capabilities(ready) == Event("caps", NoMode, ready)
Progress(staged) == Event("progress", NoMode, staged)
Applied(mode) == Event("applied", mode, FALSE)
Failed(terminal) == Event("failed", NoMode, terminal)
Stats(mode) == Event("stats", mode, FALSE)
Stopped == Event("stopped", NoMode, FALSE)

\* The worker waits in event() while the pipe is full.
Runs == worker.running /\ Len(events) < MaxEvents
Tell(es) == events' = events \o es
Ended == [worker EXCEPT !.running = FALSE, !.phase = "Failed", !.armed = FALSE]
\* fail(): ReportFailed, then the error that ends receive_stream.
Fails == worker' = Ended /\ Tell(<<Failed(TRUE), Stopped>>)
\* Any other error of receive_stream.
Errs == worker' = Ended /\ Tell(<<Stopped>>)

\* Action.ReleaseOutputs
Released(w) == [w EXCEPT !.config = NoMode, !.output = NoMode]

-----------------------------------------------------------------------------
(* The worker.                                                              *)

\* The catalogue is advertised as a whole or not at all, so a mode of it is in it.
RequestRefused == ~worker.advertised \/ ~worker.ready

TakeRequest ==
    /\ Runs /\ slot # NoMode
    /\ slot' = NoMode
    /\ IF RequestRefused
       THEN Tell(<<Failed(FALSE)>>) /\ UNCHANGED <<worker, toPhone>>
       ELSE IF worker.phase \in {"Idle", "Applied", "Failed"}
       THEN /\ worker' = [worker EXCEPT !.phase = "Preparing", !.id = @ + 1, !.requested = slot,
                                        !.armed = TRUE]
            /\ toPhone' = Append(toPhone, PrepareQuality(worker.id + 1, worker.revision, slot))
            /\ UNCHANGED events
       ELSE UNCHANGED <<worker, toPhone, events>>
    /\ UNCHANGED client

WorkerDeadline ==
    /\ Runs /\ WorkerBusy /\ worker.armed
    /\ Fails
    /\ UNCHANGED <<client, slot, toPhone>>

ReceiveCaps(m) ==
    /\ worker' = [worker EXCEPT !.advertised = TRUE, !.ready = m.ready, !.revision = m.revision,
                     !.epoch = IF worker.phase \in {"Idle", "Applied", "Failed"} THEN m.epoch ELSE @]
    /\ Tell(<<Capabilities(m.ready)>>)
    /\ UNCHANGED <<client, slot, toPhone>>

\* PrepareAccepted with streaming = FALSE.
ReceiveStaged(m) ==
    /\ IF m.id = worker.id /\ worker.phase = "Preparing"
       THEN /\ worker' = [Released(worker) EXCEPT !.phase = "Staged", !.armed = FALSE, !.fence = m.gen]
            /\ Tell(<<Progress(TRUE)>>)
       ELSE UNCHANGED <<worker, events>>
    /\ UNCHANGED <<client, slot, toPhone>>

\* Mutant: the output timer waits for the configuration.
OutputTimer_Later == FALSE
OutputTimer == TRUE
\* PrepareAccepted with streaming = TRUE: the phone's user has started.
ReceiveSwitching(m) ==
    /\ IF m.id = worker.id /\ worker.phase = "Staged"
       THEN /\ worker' = [worker EXCEPT !.phase = "Switching", !.armed = OutputTimer]
            /\ Tell(<<Progress(FALSE)>>)
       ELSE UNCHANGED <<worker, events>>
    /\ UNCHANGED <<client, slot, toPhone>>

\* Mutant: a rejection is reported, and the switch goes on waiting for the phone.
AfterRejection_Waits == worker
AfterRejection == [worker EXCEPT !.phase = "Failed", !.armed = FALSE]
ReceiveRejected(m) ==
    /\ IF m.id # worker.id \/ ~(WorkerBusy \/ worker.phase = "Staged") THEN UNCHANGED <<worker, events>>
       ELSE IF worker.phase \in {"Switching", "AwaitingOutput"} THEN Fails
       ELSE /\ worker' = AfterRejection
            /\ Tell(<<Failed(FALSE)>> \o IF worker.phase = "Staged" THEN <<Progress(FALSE)>> ELSE <<>>)
    /\ UNCHANGED <<client, slot, toPhone>>

\* CaptureStarted: what the phone captures, not what the output shows.
ReceiveApplied(m) ==
    /\ IF m.id # worker.id \/ ~AwaitingVideo THEN UNCHANGED <<worker, events>>
       ELSE IF m.mode # worker.requested THEN Fails
       ELSE IF worker.phase = "Staged"
       THEN worker' = [worker EXCEPT !.phase = "Switching", !.armed = TRUE] /\ Tell(<<Progress(FALSE)>>)
       ELSE UNCHANGED <<worker, events>>
    /\ UNCHANGED <<client, slot, toPhone>>

\* Mutant: the commit repeats the epoch that PAUSED announced.
NextEpoch_Same(epoch) == epoch
NextEpoch(epoch) == epoch + 1
BarrierMatches(m) == m.id = worker.id /\ worker.phase = "Preparing" /\ worker.epoch \in {-1, m.epoch}
ReceivePaused(m) ==
    /\ IF BarrierMatches(m)
       THEN /\ worker' = [Released(worker) EXCEPT !.phase = "Switching", !.fence = m.gen,
                                                  !.epoch = NextEpoch(m.epoch)]
            /\ toPhone' = Append(toPhone, CommitQuality(m.id, NextEpoch(m.epoch)))
            /\ Tell(<<Progress(FALSE)>>)
       ELSE UNCHANGED <<worker, toPhone, events>>
    /\ UNCHANGED <<client, slot>>

ReceiveConfig(m) ==
    /\ IF AwaitingVideo
       THEN IF m.mode # worker.requested THEN Fails
            ELSE /\ worker' = [worker EXCEPT !.phase = "AwaitingOutput", !.config = m.mode,
                                             !.armed = @ \/ worker.phase = "Staged"]
                 /\ Tell(IF worker.phase = "Staged" THEN <<Progress(FALSE)>> ELSE <<>>)
       ELSE IF worker.config \notin {NoMode, m.mode} THEN Errs
       ELSE worker' = [worker EXCEPT !.config = m.mode] /\ UNCHANGED events
    /\ UNCHANGED <<client, slot, toPhone>>

\* Mutant: any picture confirms a switch that is on its way.
OutputConfirms_Busy == {"Preparing", "Switching", "AwaitingOutput"}
OutputConfirms == {"AwaitingOutput"}
\* The unit decodes; `active` is camera.ready(), `report` the second since the
\* last Stats.
ReceiveUnit(m, active, report) ==
    /\ IF worker.config = NoMode THEN UNCHANGED <<worker, events>>
       ELSE IF m.mode # worker.config THEN Errs
       ELSE LET opened == [worker EXCEPT !.output = worker.config]
                confirms == active /\ worker.phase \in OutputConfirms
            IN  /\ worker' = IF ~active THEN opened
                             ELSE IF confirms
                             THEN [opened EXCEPT !.phase = "Applied", !.armed = FALSE, !.seen = m]
                             ELSE [opened EXCEPT !.seen = m]
                /\ Tell((IF confirms THEN <<Applied(worker.requested)>> ELSE <<>>)
                        \o IF active /\ report THEN <<Stats(worker.config)>> ELSE <<>>)
    /\ UNCHANGED <<client, slot, toPhone>>

Receive(m) ==
    /\ Runs
    /\ \/ m.kind = "caps" /\ ReceiveCaps(m)
       \/ m.kind = "result" /\ m.status = "staged" /\ ReceiveStaged(m)
       \/ m.kind = "result" /\ m.status = "switching" /\ ReceiveSwitching(m)
       \/ m.kind = "result" /\ m.status = "rejected" /\ ReceiveRejected(m)
       \/ m.kind = "result" /\ m.status = "applied" /\ ReceiveApplied(m)
       \/ m.kind = "paused" /\ ReceivePaused(m)
       \/ m.kind = "config" /\ ReceiveConfig(m)
       \/ m.kind = "unit" /\ \E active, report \in BOOLEAN : ReceiveUnit(m, active, report)

\* The transport, the decoder or the sink fails.
WorkerFails ==
    /\ worker.running
    /\ Errs
    /\ UNCHANGED <<client, slot, toPhone>>

\* The stop flag: UserStop, then the loop ends without an error.
WorkerStops ==
    /\ Runs /\ client.state = "stopping"
    /\ worker' = Ended
    /\ Tell((IF WorkerBusy \/ worker.phase = "Staged" THEN <<Failed(FALSE)>> ELSE <<>>) \o <<Stopped>>)
    /\ UNCHANGED <<client, slot, toPhone>>

-----------------------------------------------------------------------------
(* The parent.                                                              *)

\* Client.begin() of a resolved wish, and queue_quality().
Begin(c, mode) ==
    IF c.pending # NoMode \/ c.applied = mode THEN client' = c /\ UNCHANGED slot
    ELSE /\ client' = [c EXCEPT !.pending = mode, !.staged = FALSE, !.watched = TRUE]
         /\ slot' = mode

\* prepare_quality()
Apply(mode) ==
    /\ client.state = "running" /\ client.pending = NoMode /\ client.ready
    /\ Begin([client EXCEPT !.checked = TRUE], mode)
    /\ UNCHANGED <<worker, events, toPhone>>

\* poll(), when `finished`: disconnected(), and the worker is killed and reaped.
Finish ==
    /\ client' = [client EXCEPT !.state = "down", !.ready = FALSE, !.pending = NoMode,
                                !.staged = FALSE, !.applied = NoMode, !.watched = FALSE]
    /\ worker' = Ended
    /\ events' = <<>>
    /\ slot' = NoMode

Cleared == [client EXCEPT !.pending = NoMode, !.staged = FALSE, !.watched = FALSE]

\* advertise(); `wish` is the saved one, resolved.
OnCapabilities(e, wish) ==
    LET c == [client EXCEPT !.ready = e.flag]
    IN  IF ~e.flag \/ c.checked THEN client' = c /\ UNCHANGED slot
        ELSE Begin([c EXCEPT !.checked = TRUE], wish)

Watch(staged) == IF staged THEN FALSE ELSE client.watched \/ client.staged
OnProgress(e) ==
    /\ client' = IF client.pending = NoMode THEN [client EXCEPT !.watched = @ /\ ~e.flag]
                 ELSE [client EXCEPT !.staged = e.flag, !.applied = NoMode, !.watched = Watch(e.flag)]
    /\ UNCHANGED slot

\* Mutant: Stats are believed while a switch is pending.
BelievesStats_Always == TRUE
BelievesStats == client.pending = NoMode
OnStats(e) ==
    /\ client' = IF BelievesStats THEN [client EXCEPT !.applied = e.mode] ELSE client
    /\ UNCHANGED slot

\* The head of the pipe, unless the parent is stopping: then only its end counts.
HandleEvent(wish) ==
    /\ client.state # "down" /\ events # <<>>
    /\ LET e == Head(events)
       IN  IF \/ e.kind = "stopped"
              \/ client.state = "running" /\ \/ e.kind = "failed" /\ e.flag
                                             \/ e.kind = "applied" /\ e.mode # client.pending
           THEN Finish
           ELSE /\ events' = Tail(events)
                /\ UNCHANGED worker
                /\ IF client.state = "stopping" THEN UNCHANGED <<client, slot>>
                   ELSE \/ e.kind = "caps" /\ OnCapabilities(e, wish)
                        \/ e.kind = "progress" /\ OnProgress(e)
                        \/ e.kind = "applied" /\ client' = [Cleared EXCEPT !.applied = e.mode] /\ UNCHANGED slot
                        \/ e.kind = "failed" /\ client' = Cleared /\ UNCHANGED slot
                        \/ e.kind = "stats" /\ OnStats(e)
    /\ UNCHANGED toPhone

\* quality_deadline: the parent ends a worker that answers nothing.
Watchdog ==
    /\ client.state = "running" /\ client.watched
    /\ Finish
    /\ UNCHANGED toPhone

Stop ==
    /\ client.state = "running"
    /\ client' = [Cleared EXCEPT !.state = "stopping"]
    /\ UNCHANGED <<worker, slot, events, toPhone>>

\* Session::deadline: a second after Stop the worker is killed.
StopDeadline ==
    /\ client.state = "stopping"
    /\ Finish
    /\ UNCHANGED toPhone

\* After the client authorization, with nothing received.
HostInit ==
    /\ worker = [running |-> TRUE, phase |-> "Idle", id |-> 0, epoch |-> -1, requested |-> NoMode,
                 armed |-> FALSE, advertised |-> FALSE, ready |-> FALSE, revision |-> 0,
                 config |-> NoMode, output |-> NoMode, fence |-> 0, seen |-> Unit(NoMode, 0)]
    /\ client = [state |-> "running", ready |-> FALSE, checked |-> FALSE, pending |-> NoMode,
                 staged |-> FALSE, applied |-> NoMode, watched |-> FALSE]
    /\ slot = NoMode /\ events = <<>> /\ toPhone = <<>>
=============================================================================
