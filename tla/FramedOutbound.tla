---------------------------- MODULE FramedOutbound ----------------------------
(***************************************************************************)
(* FramedOutbound.kt: the one bounded writer of a media session.  Control  *)
(* and video wait in two queues under one lock; a semaphore, released      *)
(* outside it for control, wakes the writer thread, which prefers control. *)
(* Captures are numbered: `generation` is the token of the current one and *)
(* stopVideo, a quality fence or the next capture makes all its callbacks, *)
(* queued frames and codec metadata stale.                                 *)
(*                                                                         *)
(* The callers are the UI thread, the session's reader, the camera thread  *)
(* and the encoder thread.  An operation is one action per critical        *)
(* section: `calls[t]` is where thread t stands between two of them.       *)
(* Payload bytes are left out; a unit is its capture and its number, so    *)
(* that a property can tell whether a receiver can decode what it gets.    *)
(***************************************************************************)
EXTENDS Queues, FiniteSets

CONSTANTS
    VideoCapacity,       \* videoCapacity, 2 in every session
    MaxControlFrames,    \* MAX_CONTROL_FRAMES
    MaxCaptures,         \* bound: captures begun in a behaviour
    MaxUnits,            \* bound: access units one encoder delivers
    MaxRequests,         \* bound: quality requests answered with a fence
    MaxControls          \* bound: other control frames and IDR requests

ASSUME ConstantsAssumption ==
    /\ VideoCapacity \in Nat \ {0}
    /\ MaxControlFrames \in Nat \ {0}
    /\ MaxCaptures \in Nat
    /\ MaxUnits \in Nat
    /\ MaxRequests \in Nat
    /\ MaxControls \in Nat

Threads == {"ui", "reader", "camera", "encoder"}
Captures == 1 .. MaxCaptures

\* A frame in a queue.  "fence" is PAUSED or a STAGED result: `gen` is the
\* capture it fenced.  "config" and "unit" carry the capture they are sent for,
\* and as `meta` the capture whose metadata they contain: the mode a config
\* names, the SPS/PPS before a keyframe (0: none).  "control" is the rest.
Frame == [kind : {"control", "fence", "config", "unit"}, gen : 0 .. MaxCaptures,
          meta : 0 .. MaxCaptures, n : 0 .. MaxUnits, key : BOOLEAN, disc : BOOLEAN]
Control == [kind |-> "control", gen |-> 0, meta |-> 0, n |-> 0, key |-> FALSE, disc |-> FALSE]
Fence(g) == [Control EXCEPT !.kind = "fence", !.gen = g]
Config(g, meta) == [Control EXCEPT !.kind = "config", !.gen = g, !.meta = meta]
Unit(g, n, key, meta, disc) ==
    [kind |-> "unit", gen |-> g, meta |-> meta, n |-> n, key |-> key, disc |-> disc]
NoFrame == Control

\* Where a thread stands: before enqueueControl's unlocked test, before its
\* critical section, before wake.release(), before onNeedIdr().  `token` is 0
\* for a frame without one; `idr` says that onNeedIdr() is still to come.
Call == [at : {"idle", "check", "enqueue", "release", "idr"}, frame : Frame,
         token : 0 .. MaxCaptures, idr : BOOLEAN]
Idle == [at |-> "idle", frame |-> NoFrame, token |-> 0, idr |-> FALSE]

VARIABLES
    running, controlQueue, videoQueue, wake, controlOverflowed,
    generation, videoEnabled, recovering, lastFence,
    codecConfig, \* latestCodecConfig, latestVideoConfig: the capture they
    videoConfig, \* describe, 0 when empty
    dropped,     \* droppedVideoFrames
    writer,      \* the writer thread: [at, hand]
    closing,     \* how far close() is: "open", "closing", "closed"
    calls,
    \* The environment: how far each capture's encoder and camera are.
    encoded,     \* units delivered; -1 before the output format
    configured,  \* captures whose onCameraStarted has run
    requests,    \* control frames and IDR requests so far
    \* History, read by properties only.
    barrier,     \* the newest capture whose fence reply has been written
    lastWritten, \* the last unit written: its capture and number
    synced,      \* last unit of the capture queued after a keyframe without a gap
    asked,       \* the encoder has been asked for a keyframe since its last one
    late         \* frames written after running was cleared

queues == <<controlQueue, videoQueue, wake>>
capture == <<generation, videoEnabled, codecConfig, videoConfig, recovering, lastFence>>
environment == <<encoded, configured, requests>>
history == <<barrier, lastWritten, synced, asked, late>>
vars == <<running, queues, controlOverflowed, capture, dropped, writer, closing, calls,
          environment, history>>

\* running.get() && videoEnabled && token == generation
Accepts(token) == running /\ videoEnabled /\ token = generation

IsConfig(f) == f.kind = "config"
\* controlQueue.removeAll { VIDEO_CONFIG }
WithoutConfig(q) == Without(q, {f \in Frame : IsConfig(f)})

\* Mutant: the metadata of the old capture stays for keyframe recovery.
ClearMetadata_Keeps == recovering' = FALSE /\ UNCHANGED <<codecConfig, videoConfig>>
ClearMetadata == recovering' = FALSE /\ codecConfig' = 0 /\ videoConfig' = 0

\* droppedVideoFrames += videoQueue.size
DiscardedUnits == dropped + Len(videoQueue)

\* clearVideo(): always under the lock.
ClearVideo ==
    /\ dropped' = DiscardedUnits
    /\ videoQueue' = <<>>
    /\ controlQueue' = WithoutConfig(controlQueue)
    /\ ClearMetadata

-----------------------------------------------------------------------------
(* The capture's owner, on the UI thread or the off-UI teardown thread.     *)

BeginCapture ==
    /\ calls["ui"].at = "idle" /\ generation < MaxCaptures
    /\ ClearVideo
    /\ generation' = generation + 1
    /\ videoEnabled' = TRUE
    /\ synced' = 0 /\ asked' = FALSE
    /\ UNCHANGED <<running, wake, controlOverflowed, lastFence, writer, closing, calls,
                   environment, barrier, lastWritten, late>>

\* stopVideo(), also the first thing closeMedia() does, on any thread.
StopVideo ==
    /\ ClearVideo
    /\ videoEnabled' = FALSE
    /\ UNCHANGED <<running, wake, controlOverflowed, generation, lastFence, writer, closing,
                   calls, environment, history>>

Enqueuing(t, frame, token, idr) ==
    calls' = [calls EXCEPT ![t] = [at |-> "check", frame |-> frame, token |-> token, idr |-> idr]]

AlreadyFenced(r) == lastFence.request = r
\* fenceOnce(): the key is the reply's type and request; a request has one of
\* the two types only (QualitySwitch.Machine.prepare).  `gen` is history.
FenceOnce(r) ==
    IF AlreadyFenced(r)
    THEN UNCHANGED <<dropped, videoQueue, controlQueue, capture>>
    ELSE /\ ClearVideo
         /\ videoEnabled' = FALSE
         /\ lastFence' = [request |-> r, gen |-> generation]
         /\ UNCHANGED generation

\* pauseQuality() and sendQualityResult(STAGED).  The machine answers the newest
\* request only: either for the first time or again (QualitySwitch.kt:94-99).
FenceReply(r) ==
    /\ calls["ui"].at = "idle"
    /\ r \in {lastFence.request, lastFence.request + 1}
    /\ r = lastFence.request => requests < MaxControls
    /\ FenceOnce(r)
    /\ Enqueuing("ui", Fence(lastFence'.gen), 0, FALSE)
    /\ requests' = IF lastFence.request = r THEN requests + 1 ELSE requests
    /\ UNCHANGED <<running, wake, controlOverflowed, writer, closing, encoded, configured, history>>

\* sendPong on the reader; sendQualityResult, sendCapabilities and
\* sendPairingInfo on the UI thread; sendAuthorization on either.
SendControl(t) ==
    /\ t \in {"ui", "reader"} /\ calls[t].at = "idle" /\ requests < MaxControls
    /\ Enqueuing(t, Control, 0, FALSE)
    /\ requests' = requests + 1
    /\ UNCHANGED <<running, queues, controlOverflowed, capture, dropped, writer, closing, encoded,
                   configured, history>>

-----------------------------------------------------------------------------
(* The producers.  A callback of a capture that is over may come at any time. *)

SetCodecConfig(g) ==
    /\ calls["encoder"].at = "idle" /\ g <= generation /\ encoded[g] = -1
    /\ encoded' = [encoded EXCEPT ![g] = 0]
    /\ codecConfig' = IF Accepts(g) THEN g ELSE codecConfig
    /\ UNCHANGED <<running, queues, controlOverflowed, generation, videoEnabled, videoConfig,
                   recovering, lastFence, dropped, writer, closing, calls, configured, requests,
                   history>>

\* sendVideoConfig(): its own critical section, then enqueueControl and the IDR.
SendVideoConfig(g) ==
    /\ calls["camera"].at = "idle" /\ g <= generation /\ g \notin configured
    /\ configured' = configured \cup {g}
    /\ IF Accepts(g)
       THEN videoConfig' = g /\ Enqueuing("camera", Config(g, g), g, TRUE)
       ELSE UNCHANGED <<videoConfig, calls>>
    /\ UNCHANGED <<running, queues, controlOverflowed, generation, videoEnabled, codecConfig,
                   recovering, lastFence, dropped, writer, closing, encoded, requests, history>>

\* What the encoder delivers next: the first unit of a capture is a keyframe.
Delivers(g, n, key) ==
    /\ calls["encoder"].at = "idle" /\ g <= generation
    /\ encoded[g] >= 0 /\ n = encoded[g] + 1 /\ n <= MaxUnits /\ (n = 1 => key)
    /\ encoded' = [encoded EXCEPT ![g] = n]
    /\ asked' = (asked /\ ~(key /\ g = generation))
    /\ UNCHANGED <<running, controlOverflowed, generation, videoEnabled, codecConfig, videoConfig,
                   lastFence, writer, closing, configured, requests, barrier, lastWritten,
                   late>>

Refuses(g) == ~Accepts(g) \/ videoConfig = 0
\* Mutant: one unit too many.
Overflows_OneMore == Len(videoQueue) > VideoCapacity
\* if (videoQueue.size >= videoCapacity)
Overflows == Len(videoQueue) >= VideoCapacity

UnitRefused(g, n, key) ==
    /\ Refuses(g)
    /\ Delivers(g, n, key)
    /\ UNCHANGED <<queues, recovering, dropped, calls, synced>>

\* Mutant: the overflowing unit is dropped alone, as if nothing depended on it.
StartRecovery_Not == UNCHANGED <<recovering, videoQueue>>
StartRecovery == recovering' = TRUE /\ videoQueue' = IF recovering THEN videoQueue ELSE <<>>
NeedsIdr == [calls EXCEPT !["encoder"] = [Idle EXCEPT !.at = "idr", !.idr = TRUE]]
\* Mutant: the queue is cleared, and nobody asks for a keyframe.
AfterDrop_Silent == calls
AfterDrop == IF recovering THEN calls ELSE NeedsIdr
\* A dependent unit while recovering, or the one that finds the queue full.
UnitDropped(g, n, key) ==
    /\ ~Refuses(g) /\ ~key /\ (recovering \/ Overflows)
    /\ Delivers(g, n, key)
    /\ StartRecovery
    /\ dropped' = 1 + IF recovering THEN dropped ELSE DiscardedUnits
    /\ calls' = AfterDrop
    /\ UNCHANGED <<controlQueue, wake, synced>>

\* The latest SPS/PPS goes before a keyframe; one that ends a recovery says so.
QueuedUnit(g, n, key) ==
    Unit(g, n, key, IF key THEN codecConfig ELSE 0, key /\ (recovering \/ Overflows))
\* A keyframe ends recovery and says so; it replaces the units of a full queue.
UnitQueued(g, n, key) ==
    /\ ~Refuses(g) /\ (key \/ (~recovering /\ ~Overflows))
    /\ Delivers(g, n, key)
    /\ LET kept == IF Overflows THEN <<>> ELSE videoQueue
       IN  /\ videoQueue' = Append(kept, QueuedUnit(g, n, key))
           /\ dropped' = dropped + Len(videoQueue) - Len(kept)
    /\ wake' = wake + 1
    /\ recovering' = FALSE
    /\ synced' = IF key \/ synced = n - 1 THEN n ELSE synced
    /\ calls' = IF Overflows THEN NeedsIdr ELSE calls
    /\ UNCHANGED controlQueue

SendAccessUnit(g, n, key) ==
    UnitRefused(g, n, key) \/ UnitDropped(g, n, key) \/ UnitQueued(g, n, key)

\* forceRecovery() on the reader: the snapshot, then enqueueControl and the IDR.
ForceRecovery ==
    /\ calls["reader"].at = "idle" /\ requests < MaxControls
    /\ videoEnabled /\ running
    /\ requests' = requests + 1
    /\ dropped' = DiscardedUnits
    /\ videoQueue' = <<>>
    /\ recovering' = TRUE
    /\ IF videoConfig # 0
       THEN Enqueuing("reader", Config(generation, videoConfig), generation, TRUE)
       ELSE calls' = [calls EXCEPT !["reader"] = [Idle EXCEPT !.at = "idr", !.idr = TRUE]]
    /\ UNCHANGED <<running, controlQueue, wake, controlOverflowed, generation, videoEnabled,
                   codecConfig, videoConfig, lastFence, writer, closing, encoded, configured, history>>

-----------------------------------------------------------------------------
(* enqueueControl(), on whichever thread.                                    *)

Returns(t) == [calls EXCEPT ![t] = IF @.idr THEN [Idle EXCEPT !.at = "idr", !.idr = TRUE] ELSE Idle]

\* if (!running.get() || controlOverflowed.get()) return
CheckControl(t) ==
    /\ calls[t].at = "check"
    /\ calls' = IF running /\ ~controlOverflowed THEN [calls EXCEPT ![t].at = "enqueue"]
                ELSE Returns(t)
    /\ UNCHANGED <<running, queues, controlOverflowed, capture, dropped, writer, closing,
                   environment, history>>

\* Mutant: the frame's token is not tested again under the lock.
Expected_NoToken(token) == running
Expected(token) == running /\ (token = 0 \/ Accepts(token))
\* The critical section; the caller that finds the queue full reports it
\* (onError, which ends the session: see Close).
EnqueueControl(t) ==
    /\ calls[t].at = "enqueue"
    /\ IF ~Expected(calls[t].token)
       THEN calls' = Returns(t) /\ UNCHANGED <<controlQueue, controlOverflowed>>
       ELSE IF Len(controlQueue) >= MaxControlFrames
       THEN calls' = Returns(t) /\ controlOverflowed' = TRUE /\ UNCHANGED controlQueue
       ELSE /\ controlQueue' = Append(controlQueue, calls[t].frame)
            /\ calls' = [calls EXCEPT ![t].at = "release"]
            /\ UNCHANGED controlOverflowed
    /\ UNCHANGED <<running, videoQueue, wake, capture, dropped, writer, closing, environment, history>>

\* Mutant: the writer is woken only by the frame that finds the queues empty,
\* tested after the lock has been given up.
Permit_IfAlone == IF Len(controlQueue) + Len(videoQueue) <= 1 THEN wake + 1 ELSE wake
\* wake.release()
Permit == wake + 1
Release(t) ==
    /\ calls[t].at = "release"
    /\ wake' = Permit
    /\ calls' = Returns(t)
    /\ UNCHANGED <<running, controlQueue, videoQueue, controlOverflowed, capture, dropped, writer,
                   closing, environment, history>>

\* onNeedIdr(): AuthorizedMediaSession's idrRequester, the current encoder's
\* requestIdr().
NeedIdr(t) ==
    /\ calls[t].at = "idr"
    /\ asked' = TRUE
    /\ calls' = [calls EXCEPT ![t] = Idle]
    /\ UNCHANGED <<running, queues, controlOverflowed, capture, dropped, writer, closing,
                   environment, barrier, lastWritten, synced, late>>

-----------------------------------------------------------------------------
(* The writer thread and close().                                            *)

\* Mutant: a writer that drains its queues before it looks at running.
Loop_Drains == IF running THEN "acquire"
               ELSE IF controlQueue \o videoQueue # <<>> THEN "take" ELSE "stopped"
\* while (running.get())
Loop == IF running THEN "acquire" ELSE "stopped"

\* wake.acquire(), then the second running.get()
Acquire ==
    /\ writer.at = "acquire" /\ wake > 0
    /\ wake' = wake - 1
    /\ writer' = [writer EXCEPT !.at = IF running THEN "take" ELSE "stopped"]
    /\ UNCHANGED <<running, controlQueue, videoQueue, controlOverflowed, capture, dropped, closing,
                   calls, environment, history>>

\* Control first; a permit without a frame (clearVideo took it) is spent.
Take ==
    /\ writer.at = "take"
    /\ IF controlQueue # <<>>
       THEN /\ writer' = [at |-> "write", hand |-> Head(controlQueue)]
            /\ controlQueue' = Tail(controlQueue) /\ UNCHANGED videoQueue
       ELSE IF videoQueue # <<>>
       THEN /\ writer' = [at |-> "write", hand |-> Head(videoQueue)]
            /\ videoQueue' = Tail(videoQueue) /\ UNCHANGED controlQueue
       ELSE writer' = [writer EXCEPT !.at = Loop] /\ UNCHANGED <<controlQueue, videoQueue>>
    /\ UNCHANGED <<running, wake, controlOverflowed, capture, dropped, closing, calls, environment,
                   history>>

\* Wire.writeFrame(): only now is the frame on the wire.
Write ==
    /\ writer.at = "write"
    /\ writer' = [at |-> Loop, hand |-> NoFrame]
    /\ barrier' = IF writer.hand.kind = "fence" /\ writer.hand.gen > barrier
                  THEN writer.hand.gen ELSE barrier
    /\ lastWritten' = IF writer.hand.kind = "unit" THEN [gen |-> writer.hand.gen, n |-> writer.hand.n]
                    ELSE lastWritten
    /\ late' = IF running THEN late ELSE late + 1
    /\ UNCHANGED <<running, queues, controlOverflowed, capture, dropped, closing, calls,
                   environment, synced, asked>>

\* The write throws: onError, and `finally` clears running.
WriteFails ==
    /\ writer.at = "write"
    /\ writer' = [writer EXCEPT !.at = "failed"]
    /\ UNCHANGED <<running, queues, controlOverflowed, capture, dropped, closing, calls,
                   environment, history>>
WriterEnds ==
    /\ writer.at = "failed"
    /\ running' = FALSE
    /\ writer' = [writer EXCEPT !.at = "stopped"]
    /\ UNCHANGED <<queues, controlOverflowed, capture, dropped, closing, calls, environment, history>>

\* close(): the flag and the wake-up, then, once the writer has ended or the
\* join of 500 ms is over, the queues.
Close ==
    /\ closing = "open"
    /\ closing' = "closing"
    /\ running' = FALSE
    /\ wake' = wake + 1
    /\ UNCHANGED <<controlQueue, videoQueue, controlOverflowed, capture, dropped, writer, calls,
                   environment, history>>
CloseClears ==
    /\ closing = "closing"
    /\ closing' = "closed"
    /\ controlQueue' = <<>>
    /\ videoQueue' = <<>>
    /\ dropped' = DiscardedUnits
    /\ videoEnabled' = FALSE
    /\ ClearMetadata
    /\ UNCHANGED <<running, wake, controlOverflowed, generation, lastFence, writer, calls,
                   environment, history>>

-----------------------------------------------------------------------------
\* start() precedes every other call (AuthorizedMediaSession.startMedia).
Init ==
    /\ running = TRUE /\ closing = "open"
    /\ controlQueue = <<>> /\ videoQueue = <<>> /\ wake = 0
    /\ controlOverflowed = FALSE
    /\ generation = 0 /\ videoEnabled = FALSE
    /\ codecConfig = 0 /\ videoConfig = 0 /\ recovering = FALSE
    /\ lastFence = [request |-> 0, gen |-> 0]
    /\ dropped = 0
    /\ writer = [at |-> "acquire", hand |-> NoFrame]
    /\ calls = [t \in Threads |-> Idle]
    /\ encoded = [g \in Captures |-> -1] /\ configured = {} /\ requests = 0
    /\ barrier = 0 /\ lastWritten = [gen |-> 0, n |-> 0] /\ synced = 0 /\ asked = FALSE
    /\ late = 0

OwnerStep == BeginCapture \/ StopVideo \/ \E r \in 1 .. MaxRequests : FenceReply(r)
ProducerStep ==
    \E g \in Captures :
        \/ SetCodecConfig(g)
        \/ SendVideoConfig(g)
        \/ \E n \in 1 .. MaxUnits, key \in BOOLEAN : SendAccessUnit(g, n, key)
CallStep(t) == CheckControl(t) \/ EnqueueControl(t) \/ Release(t) \/ NeedIdr(t)
WriterStep == Acquire \/ Take \/ Write \/ WriterEnds

Next ==
    \/ OwnerStep
    \/ ProducerStep
    \/ ForceRecovery
    \/ \E t \in Threads : SendControl(t) \/ CallStep(t)
    \/ WriterStep
    \/ WriteFails
    \/ Close
    \/ CloseClears

Spec == Init /\ [][Next]_vars

\* The threads run; the peer reads, so that a write ends.
FairSpec == Spec /\ WF_vars(WriterStep) /\ \A t \in Threads : WF_vars(CallStep(t))

-----------------------------------------------------------------------------
(* Properties.                                                               *)

\* Every variable has its type, and both queues stay within their bounds
\* (sendAccessUnit, enqueueControl) however many producers are about to enqueue.
TypeOK ==
    /\ running \in BOOLEAN /\ controlOverflowed \in BOOLEAN
    /\ controlQueue \in Seq(Frame) /\ Len(controlQueue) <= MaxControlFrames
    /\ videoQueue \in Seq(Frame) /\ Len(videoQueue) <= VideoCapacity
    /\ wake \in Nat /\ dropped \in Nat
    /\ generation \in 0 .. MaxCaptures /\ videoEnabled \in BOOLEAN /\ recovering \in BOOLEAN
    /\ codecConfig \in 0 .. MaxCaptures /\ videoConfig \in 0 .. MaxCaptures
    /\ lastFence \in [request : 0 .. MaxRequests, gen : 0 .. MaxCaptures]
    /\ writer \in [at : {"acquire", "take", "write", "failed", "stopped"}, hand : Frame]
    /\ closing \in {"open", "closing", "closed"}
    /\ calls \in [Threads -> Call]
    /\ encoded \in [Captures -> -1 .. MaxUnits] /\ configured \subseteq Captures
    /\ requests \in 0 .. MaxControls
    /\ barrier \in 0 .. MaxCaptures /\ synced \in 0 .. MaxUnits /\ asked \in BOOLEAN
    /\ lastWritten \in [gen : 0 .. MaxCaptures, n : 0 .. MaxUnits]
    /\ late \in Nat

Video(f) == f.kind \in {"config", "unit"}

\* Old queued video or configuration never follows PAUSED, also when a callback
\* was between two critical sections while the fence came (pauseQuality;
\* quality-control-v0.md:65-68).
NoVideoAfterItsFence == writer.at = "write" /\ Video(writer.hand) => writer.hand.gen > barrier

InFlight == {writer.hand} \cup {controlQueue[i] : i \in DOMAIN controlQueue}
            \cup {videoQueue[i] : i \in DOMAIN videoQueue}

\* No frame of a capture carries the mode or the SPS/PPS of another one, also
\* when a recovery resends them (clearVideo, forceRecovery).
OwnMetadata ==
    \A f \in InFlight : /\ f.kind = "config" => f.meta = f.gen
                        /\ f.kind = "unit" => f.meta \in {0, f.gen}

\* Every queued frame has a permit, or somebody about to give or to use one:
\* no frame waits for the next one to be noticed (wake).
NoStrandedFrame ==
    running => Len(controlQueue) + Len(videoQueue)
               <= wake + Cardinality({t \in Threads : calls[t].at = "release"})
                  + (IF writer.at = "take" THEN 1 ELSE 0)

\* What the peer has got and will get of the video, in order.
Stream ==
    (IF lastWritten.gen = 0 THEN <<>> ELSE <<Unit(lastWritten.gen, lastWritten.n, TRUE, 0, FALSE)>>)
    \o (IF writer.hand.kind = "unit" THEN <<writer.hand>> ELSE <<>>)
    \o videoQueue

Continues(u, next) == next.gen = u.gen /\ next.n = u.n + 1

\* Within a capture a unit follows the one it depends on, and a keyframe that
\* follows a gap announces the discontinuity (wire-v0.md:70-73).
GapsAreMarked ==
    \A i \in 2 .. Len(Stream) :
        LET u == Stream[i - 1]  next == Stream[i]
        IN  next.gen = u.gen /\ ~Continues(u, next) => next.key /\ next.disc

\* While the peer cannot decode the current capture, a keyframe has been asked
\* for or is about to be (sendVideoConfig, sendAccessUnit, forceRecovery).
NeedsKeyframe ==
    /\ running /\ videoEnabled /\ videoConfig # 0
    /\ recovering \/ (encoded[generation] > 0 /\ synced # encoded[generation])
KeyframeIsRequested == NeedsKeyframe => asked \/ \E t \in Threads : calls[t].idr

\* Once running is cleared only the frame already inside the writer can still
\* reach the peer, and nothing stays queued after close()
\* (AuthorizedMediaSession.kt:80-82).
QuietAfterClose ==
    /\ late <= 1
    /\ closing = "closed" => controlQueue = <<>> /\ videoQueue = <<>>

\* With the threads running and a peer that reads, whatever is queued leaves:
\* no wake-up is lost.
QueuesDrain ==
    running /\ controlQueue \o videoQueue # <<>> ~> controlQueue \o videoQueue = <<>> \/ ~running

\* Violated.  wire-v0.md:72: "It is invalid to drop an arbitrary H.264 P-frame
\* and then continue forwarding dependent P-frames as if nothing happened."
\* Units that the encoder delivers before sendVideoConfig ran are dropped
\* without recovery and their dependents are forwarded, to a peer that was
\* decoding the previous capture.
DependentsAreNotForwarded ==
    \A i \in 2 .. Len(Stream) : Continues(Stream[i - 1], Stream[i]) \/ Stream[i].key
=============================================================================
