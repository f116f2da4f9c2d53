----------------------------- MODULE PhoneQuality -----------------------------
(***************************************************************************)
(* The phone's half of a quality switch: QualitySwitch.Machine, its        *)
(* interpreter PhoneQualityController and MainActivity, which owns the     *)
(* camera.  All of it runs on the UI thread, so a handler with everything  *)
(* it calls is one action; the machine calls back into the Activity        *)
(* (StopCapture, StartCapture) and the Activity into the machine.          *)
(*                                                                         *)
(* FramedOutbound is taken at its word (see that module): ending a capture *)
(* drops its queued VIDEO_CONFIG and units, no callback of it is admitted  *)
(* later, and control goes before video.  Its two queues stand for the     *)
(* wire as well: the PC reads them directly.                               *)
(***************************************************************************)
EXTENDS QualityTypes, Queues

CONSTANT
    Granted  \* whether the camera permission is granted at first

ASSUME GrantedAssumption == Granted \subseteq BOOLEAN

VARIABLE phone
\* phase, id (lastRequestId), mode (stagedWidth ...), epoch, armed (deadlineMs is
\* set), reply (lastReply): the machine.  prepared: preparedMode.
\* startRequested, foreground, permission, asking (cameraPermissionPending),
\* ready and revision (advertisedCapabilities): MainActivity.
\* camera: "off" (cameraBridge is null), "starting", "configured" (onCameraStarted
\* has run, onStarted is posted), "running"; gen and captured: the last capture.
\* control, video: FramedOutbound.  open: the session exists and is authorized.
\* invited, intruded: history, see the properties.

Busy == {"Prepared", "Staged", "Starting"}

Send(p, frame) == [p EXCEPT !.control = Append(@, frame)]
\* Machine.reply()
Reply(p, frame) == [Send(p, frame) EXCEPT !.reply = frame]

\* CameraBridgeController.close(), with FramedOutbound.stopVideo().
CloseBridge(p) ==
    [p EXCEPT !.camera = "off", !.video = <<>>,
              !.control = Without(@, {VideoConfig(mode) : mode \in Modes})]

\* Machine.fail() and its two actions.
Fail(p) ==
    Reply([CloseBridge(p) EXCEPT !.phase = "Failed", !.armed = FALSE, !.mode = NoMode,
                                 !.startRequested = FALSE, !.invited = FALSE],
          Result(p.id, "rejected", NoMode, p.gen))

\* Mutant: a stop while the PC holds the barrier leaves the machine prepared.
UserStops_NotPrepared == Busy \ {"Prepared"}
\* The phases that UserStop ends.
UserStops == Busy

\* PhoneQualityController.cancel()
Cancel(p) == [(IF p.phase \in UserStops THEN Fail(p) ELSE p) EXCEPT !.prepared = NoMode]
\* MainActivity.stopCamera()
StopCamera(p) == Cancel(CloseBridge([p EXCEPT !.startRequested = FALSE, !.invited = FALSE]))

\* refreshQualityCapabilities(); `ready` is what the query finds.
Refresh(p, ready) ==
    LET revision == IF ready = p.ready THEN p.revision ELSE p.revision + 1
    IN  Send([p EXCEPT !.ready = ready, !.revision = revision], Caps(revision, ready, p.epoch))

\* Mutant: the capture that was staged for the user starts without a deadline.
StartTimer_Never == FALSE
StartTimer == TRUE
\* captureRequested(): BeginStagedCapture.
CaptureRequested(p) ==
    IF p.phase = "Staged"
    THEN Reply([p EXCEPT !.phase = "Starting", !.armed = StartTimer],
               Result(p.id, "switching", NoMode, p.gen))
    ELSE p

\* startCamera().  When the camera cannot be resolved or opened it ends in
\* stopCamera(), at once or from the camera thread: see CameraFails.
StartCamera(p, mode) ==
    IF ~p.startRequested \/ p.camera # "off" \/ ~p.foreground THEN p
    ELSE IF ~p.permission THEN [p EXCEPT !.asking = TRUE]
    ELSE [CaptureRequested(p) EXCEPT !.camera = "starting", !.captured = mode, !.gen = @ + 1,
                                     !.intruded = @ \/ p.phase = "Prepared"]
\* Mutant: a start by the phone's user ignores the staged mode.
RequestedMode_Auto(p) == AutoMode
\* The default argument: qualityController?.stagedMode, else Auto.
RequestedMode(p) == IF p.phase = "Staged" THEN p.prepared ELSE AutoMode
Start(p) == StartCamera(p, RequestedMode(p))

-----------------------------------------------------------------------------
(* The user and the system.                                                 *)

PressStart ==
    /\ phone.open /\ phone.foreground /\ ~phone.startRequested
    /\ phone' = Start([phone EXCEPT !.startRequested = TRUE, !.invited = TRUE])

\* The same button, or the notification's Stop while the camera runs.
PressStop ==
    /\ phone.open
    /\ (phone.foreground /\ phone.startRequested) \/ phone.camera # "off"
    /\ phone' = StopCamera(phone)

OnPause ==
    /\ phone.open /\ phone.foreground
    /\ phone' = [phone EXCEPT !.foreground = FALSE]

\* The permission may have been granted in Settings meanwhile, and the camera
\* service may not answer the query.
OnResume(granted, ready) ==
    /\ phone.open /\ ~phone.foreground
    /\ (phone.permission => granted) /\ (ready => granted)
    /\ LET p == Refresh([phone EXCEPT !.foreground = TRUE, !.permission = granted], ready)
       IN  phone' = IF p.startRequested THEN Start(p) ELSE p

OnRequestPermissionsResult(granted) ==
    /\ phone.open /\ phone.asking /\ (phone.permission => granted)
    /\ LET answered == [phone EXCEPT !.asking = FALSE, !.permission = granted]
           p == Refresh(answered, granted)
       IN  phone' = IF ~p.startRequested THEN p ELSE IF granted THEN Start(p) ELSE StopCamera(p)

\* setRepeatingRequest has succeeded: VIDEO_CONFIG, then onStarted is posted.
CameraStarts ==
    /\ phone.open /\ phone.camera = "starting"
    /\ phone' = Send([phone EXCEPT !.camera = "configured"], VideoConfig(phone.captured))

\* The posted onStarted: captureStarted().
CaptureStarted ==
    /\ phone.open /\ phone.camera = "configured"
    /\ LET p == [phone EXCEPT !.camera = "running"]
       IN  phone' = IF p.phase \notin {"Starting", "Staged"} THEN p
                    ELSE IF p.captured # p.mode THEN Fail(p)
                    ELSE Reply([p EXCEPT !.phase = "Applied", !.armed = FALSE],
                               Result(p.id, "applied", p.captured, p.gen))

\* onAccessUnit; one waiting unit is enough to tell what a PC can see.
AccessUnit ==
    /\ phone.open /\ phone.camera \in {"configured", "running"} /\ phone.video = <<>>
    /\ phone' = [phone EXCEPT !.video = <<Unit(phone.captured, phone.gen)>>]

\* captureFailed(), then stopCamera().
CameraFails ==
    /\ phone.open /\ phone.camera # "off"
    /\ phone' = StopCamera(IF phone.phase \in Busy THEN Fail(phone) ELSE phone)

\* tick() after PREPARED_DEADLINE_MS.
PhoneDeadline ==
    /\ phone.open /\ phone.armed /\ phone.phase \in {"Prepared", "Starting"}
    /\ phone' = Fail(phone)

\* The session ends or loses its authorization: closeSession().
PhoneCloses ==
    /\ phone.open
    /\ phone' = [CloseBridge(phone) EXCEPT !.open = FALSE, !.startRequested = FALSE]

-----------------------------------------------------------------------------
(* PhoneQualityController.handle().                                          *)

Accepted(c) == phone.permission /\ phone.foreground /\ c.revision = phone.revision /\ phone.ready

\* Only the last reply is replayed.
ReplayPrepare(c) ==
    /\ c.id = phone.id
    /\ phone' = Send(phone, phone.reply)

OldPrepare(c) ==
    /\ c.id < phone.id
    /\ UNCHANGED phone

BusyPrepare(c) ==
    /\ c.id > phone.id /\ phone.phase \in Busy
    /\ phone' = Send(phone, Result(c.id, "rejected", NoMode, phone.gen))

RejectPrepare(c) ==
    /\ c.id > phone.id /\ phone.phase \notin Busy /\ ~Accepted(c)
    /\ phone' = Reply([phone EXCEPT !.id = c.id],
                      Result(c.id, "rejected", NoMode, phone.gen))

\* Streaming: StopCapture, with the start request kept for the commit, and the
\* barrier.  Not streaming: the mode waits for the user's start.
AcceptPrepare(c) ==
    /\ c.id > phone.id /\ phone.phase \notin Busy /\ Accepted(c)
    /\ LET p == [phone EXCEPT !.id = c.id, !.mode = c.mode, !.prepared = c.mode]
       IN  phone' = IF phone.camera # "off"
                    THEN Reply([CloseBridge(p) EXCEPT !.phase = "Prepared", !.armed = TRUE],
                               Paused(c.id, p.epoch, p.gen))
                    ELSE Reply([p EXCEPT !.phase = "Staged", !.armed = FALSE],
                               Result(c.id, "staged", NoMode, p.gen))

HandlePrepare(c) ==
    ReplayPrepare(c) \/ OldPrepare(c) \/ BusyPrepare(c) \/ RejectPrepare(c) \/ AcceptPrepare(c)

HandleCommit(c) ==
    phone' = IF ~phone.foreground \/ ~phone.permission THEN Cancel(phone)
             ELSE IF phone.phase = "Prepared" /\ c.id = phone.id /\ c.epoch = phone.epoch + 1
             THEN StartCamera([phone EXCEPT !.phase = "Starting", !.epoch = c.epoch,
                                            !.startRequested = TRUE], phone.prepared)
             ELSE phone

HandleCommand(c) ==
    IF ~phone.open THEN UNCHANGED phone
    ELSE IF c.kind = "prepare" THEN HandlePrepare(c) ELSE HandleCommit(c)

\* A session that has just been authorized, its first frame the capabilities.
PhoneInit ==
    \E permission \in Granted :
        phone = Refresh(
            [phase |-> "Idle", id |-> 0, mode |-> NoMode, epoch |-> 0, armed |-> FALSE,
             reply |-> <<>>, prepared |-> NoMode, startRequested |-> FALSE,
             foreground |-> TRUE, permission |-> permission, asking |-> FALSE,
             ready |-> permission, revision |-> 1, camera |-> "off", gen |-> 0,
             captured |-> NoMode, control |-> <<>>, video |-> <<>>, open |-> TRUE,
             invited |-> FALSE, intruded |-> FALSE], permission)
=============================================================================
