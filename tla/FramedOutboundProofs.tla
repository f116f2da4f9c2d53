------------------------ MODULE FramedOutboundProofs ------------------------
(***************************************************************************)
(* Theorems about FramedOutbound, for every queue length and any number of *)
(* captures, units and requests: its variables keep their types, no old    *)
(* video follows a fence's reply, no frame carries another capture's       *)
(* metadata, none waits without a permit, gaps are marked, the keyframe    *)
(* that mends one is asked for, and close() ends the output.               *)
(***************************************************************************)
EXTENDS FramedOutbound, QueueProofs

-----------------------------------------------------------------------------
(* What clearVideo() leaves of the control queue. *)

\* WithoutConfig leaves frames of the queue, none of them a config.
LEMMA WithoutConfigFrames ==
    ASSUME NEW q \in Seq(Frame)
    PROVE  /\ WithoutConfig(q) \in Seq(Frame) /\ Len(WithoutConfig(q)) <= Len(q)
           /\ \A j \in DOMAIN WithoutConfig(q) :
                  ~IsConfig(WithoutConfig(q)[j]) /\ \E m \in DOMAIN q : WithoutConfig(q)[j] = q[m]
<1> DEFINE drop == {f \in Frame : IsConfig(f)}
           r == Without(q, drop)
<1>1. r \in Seq(Frame) /\ Len(r) <= Len(q)
  BY WithoutProperties
<1>2. PICK at \in [1..Len(r) -> 1..Len(q)] :
          \A j \in 1..Len(r) : r[j] = q[at[j]] /\ q[at[j]] \notin drop
  <2> HIDE DEF drop
  <2> QED
    BY WithoutProperties
<1>3. ASSUME NEW j \in DOMAIN r
      PROVE  ~IsConfig(r[j]) /\ \E m \in DOMAIN q : r[j] = q[m]
  <2>1. j \in 1..Len(r) /\ DOMAIN q = 1..Len(q)
    BY <1>1
  <2>2. at[j] \in 1..Len(q) /\ r[j] = q[at[j]] /\ q[at[j]] \notin drop
    BY <1>2, <2>1
  <2>3. q[at[j]] \in Frame
    BY <2>2
  <2> HIDE DEF r
  <2> QED
    BY <2>1, <2>2, <2>3
<1> QED
  BY <1>1, <1>3 DEF WithoutConfig

-----------------------------------------------------------------------------
(* The invariant. *)

\* Everything up to the newest fence is old: what still waits to be sent as video
\* is newer, and a capture that is enabled is too. A frame's metadata is its own.
QueuedOK(f, fenced) ==
    /\ f.kind = "config" => f.gen > fenced /\ f.meta = f.gen
    /\ f.kind = "unit" => f.gen > fenced /\ f.meta \in {0, f.gen}
    /\ f.kind = "fence" => f.gen <= fenced

\* A config that has not been queued yet carries the token that is tested again.
CallOK(c, fenced) ==
    /\ c.frame.kind # "unit"
    /\ c.frame.kind = "config" => c.token = c.frame.gen /\ c.token # 0 /\ c.frame.meta = c.frame.gen
    /\ c.frame.kind = "fence" => c.frame.gen <= fenced

CaptureInv ==
    /\ lastFence.gen <= generation
    /\ videoEnabled => lastFence.gen < generation
    /\ codecConfig \in {0, generation} /\ videoConfig \in {0, generation}

QueueInv ==
    /\ \A i \in DOMAIN controlQueue :
           controlQueue[i].kind # "unit" /\ QueuedOK(controlQueue[i], lastFence.gen)
    /\ \A i \in DOMAIN videoQueue :
           videoQueue[i].kind = "unit" /\ QueuedOK(videoQueue[i], lastFence.gen)

CallInv == \A t \in Threads : CallOK(calls[t], lastFence.gen)

\* What the writer has in hand was newer than every fence when it was taken; a
\* fence reply is written after it.
WriterInv ==
    /\ barrier <= lastFence.gen
    /\ writer.hand.kind = "fence" => writer.hand.gen <= lastFence.gen
    /\ writer.hand.kind = "config" => writer.hand.meta = writer.hand.gen
    /\ writer.hand.kind = "unit" => writer.hand.meta \in {0, writer.hand.gen}
    /\ NoVideoAfterItsFence

CloseInv ==
    /\ closing # "open" => ~running
    /\ late <= 1 /\ (late > 0 => ~running /\ writer.at = "stopped")
    /\ closing = "closed" => controlQueue = <<>> /\ videoQueue = <<>>

\* An idle thread has nothing to ask for.
AskInv ==
    /\ \A t \in Threads : calls[t].at = "idle" => ~calls[t].idr
    /\ KeyframeIsRequested

Follows(u, next) == next.gen = u.gen /\ ~Continues(u, next) => next.key /\ next.disc

\* The unit before the queue's first, and the last one the peer is to get.
Before == IF writer.hand.kind = "unit" THEN writer.hand ELSE lastWritten
Newest == IF videoQueue = <<>> THEN Before ELSE videoQueue[Len(videoQueue)]

\* While units are accepted, nothing the encoder delivered after the newest one
\* is missing.
TailOK ==
    running /\ videoEnabled /\ ~recovering /\ Newest.gen = generation
    => Newest.n = encoded[generation] /\ videoConfig # 0

\* Each unit follows the one before it, and none is of a later capture.
GapInv ==
    /\ writer.at \in {"acquire", "take"} => writer.hand.kind # "unit"
    /\ Before.gen <= generation
    /\ \A i \in DOMAIN videoQueue : videoQueue[i].gen <= generation
    /\ \A i \in 2..Len(videoQueue) : Follows(videoQueue[i - 1], videoQueue[i])
    /\ videoQueue # <<>> => Follows(Before, videoQueue[1])
    /\ writer.hand.kind = "unit" => Follows(lastWritten, writer.hand)
    /\ TailOK

OutInv ==
    /\ TypeOK /\ CaptureInv /\ QueueInv /\ CallInv /\ WriterInv /\ CloseInv
    /\ NoStrandedFrame /\ AskInv /\ GapInv

-----------------------------------------------------------------------------
(* Types. *)

LEMMA Constants ==
    /\ VideoCapacity \in Nat /\ VideoCapacity > 0
    /\ MaxControlFrames \in Nat /\ MaxControlFrames > 0
    /\ MaxCaptures \in Nat /\ MaxUnits \in Nat /\ MaxRequests \in Nat /\ MaxControls \in Nat
BY ConstantsAssumption

LEMMA Frames ==
    /\ Control \in Frame /\ Control.kind = "control"
    /\ \A g, m \in 0..MaxCaptures :
           /\ Fence(g) \in Frame /\ Fence(g).kind = "fence" /\ Fence(g).gen = g
           /\ Config(g, m) \in Frame /\ Config(g, m).kind = "config"
           /\ Config(g, m).gen = g /\ Config(g, m).meta = m
    /\ Idle \in Call /\ Idle.at = "idle" /\ Idle.frame = Control
<1>1. 0 \in 0..MaxCaptures /\ 0 \in 0..MaxUnits
  BY Constants
<1>2. Control \in Frame /\ Control.kind = "control"
  BY <1>1 DEF Frame, Control
<1>3. ASSUME NEW g \in 0..MaxCaptures, NEW m \in 0..MaxCaptures
      PROVE  /\ Fence(g) \in Frame /\ Fence(g).kind = "fence" /\ Fence(g).gen = g
             /\ Config(g, m) \in Frame /\ Config(g, m).kind = "config"
             /\ Config(g, m).gen = g /\ Config(g, m).meta = m
  BY <1>1 DEF Frame, Control, Fence, Config
<1>4. Idle \in Call /\ Idle.at = "idle" /\ Idle.frame = Control
  BY <1>1, <1>2 DEF Idle, NoFrame, Call
<1> QED
  BY <1>2, <1>3, <1>4

LEMMA UnitFrames ==
    ASSUME NEW g \in 0..MaxCaptures, NEW m \in 0..MaxCaptures, NEW n \in 0..MaxUnits,
           NEW key \in BOOLEAN, NEW disc \in BOOLEAN
    PROVE  /\ Unit(g, n, key, m, disc) \in Frame /\ Unit(g, n, key, m, disc).kind = "unit"
           /\ Unit(g, n, key, m, disc).gen = g /\ Unit(g, n, key, m, disc).meta = m
BY DEF Frame, Unit

LEMMA Cleared ==
    ASSUME TypeOK, ClearVideo
    PROVE  /\ controlQueue' \in Seq(Frame) /\ Len(controlQueue') <= Len(controlQueue)
           /\ \A j \in DOMAIN controlQueue' :
                  /\ controlQueue'[j].kind # "config"
                  /\ \E m \in DOMAIN controlQueue : controlQueue'[j] = controlQueue[m]
           /\ videoQueue' = <<>> /\ dropped' \in Nat
           /\ recovering' = FALSE /\ codecConfig' = 0 /\ videoConfig' = 0
<1>1. controlQueue \in Seq(Frame) /\ videoQueue \in Seq(Frame) /\ dropped \in Nat
  BY DEF TypeOK
<1>2. controlQueue' = WithoutConfig(controlQueue)
  BY DEF ClearVideo
<1>3. dropped' \in Nat /\ videoQueue' = <<>> /\ recovering' = FALSE /\ codecConfig' = 0
      /\ videoConfig' = 0
  BY <1>1 DEF ClearVideo, ClearMetadata, DiscardedUnits
<1> QED
  BY <1>1, <1>2, <1>3, WithoutConfigFrames DEF IsConfig

\* A thread between two critical sections.
LEMMA CallTypes ==
    ASSUME TypeOK, NEW t \in Threads
    PROVE  /\ calls[t] \in Call
           /\ \A c \in Call : [calls EXCEPT ![t] = c] \in [Threads -> Call]
           /\ [calls EXCEPT ![t].at = "enqueue"] \in [Threads -> Call]
           /\ [calls EXCEPT ![t].at = "release"] \in [Threads -> Call]
           /\ Returns(t) \in [Threads -> Call]
<1>1. calls \in [Threads -> Call] /\ calls[t] \in Call
  BY DEF TypeOK
<1>2. Idle \in Call /\ [Idle EXCEPT !.at = "idr", !.idr = TRUE] \in Call
  BY Frames DEF Call
<1>3. Returns(t) \in [Threads -> Call]
  BY <1>1, <1>2 DEF Returns
<1>4. /\ [calls EXCEPT ![t].at = "enqueue"] \in [Threads -> Call]
      /\ [calls EXCEPT ![t].at = "release"] \in [Threads -> Call]
  BY <1>1 DEF Call
<1> QED
  BY <1>1, <1>3, <1>4

LEMMA ClearedTypes ==
    ASSUME TypeOK, ClearVideo
    PROVE  /\ controlQueue' \in Seq(Frame) /\ Len(controlQueue') <= MaxControlFrames
           /\ videoQueue' \in Seq(Frame) /\ Len(videoQueue') <= VideoCapacity /\ dropped' \in Nat
           /\ recovering' = FALSE /\ codecConfig' = 0 /\ videoConfig' = 0
<1>1. Len(controlQueue) <= MaxControlFrames /\ controlQueue \in Seq(Frame)
  BY DEF TypeOK
<1>2. <<>> \in Seq(Frame) /\ Len(<<>>) <= VideoCapacity
  BY Constants
<1> QED
  BY <1>1, <1>2, Cleared, Constants

\* The writer takes the first frame, of the control queue if it has one.
LEMMA Taken ==
    ASSUME TypeOK, Take
    PROVE  /\ controlQueue' \in Seq(Frame) /\ Len(controlQueue') <= Len(controlQueue)
           /\ videoQueue' \in Seq(Frame) /\ Len(videoQueue') <= Len(videoQueue)
           /\ writer' \in [at : {"acquire", "take", "write", "failed", "stopped"}, hand : Frame]
           /\ \A i \in DOMAIN controlQueue' : \E j \in DOMAIN controlQueue :
                  controlQueue'[i] = controlQueue[j]
           /\ \A i \in DOMAIN videoQueue' : \E j \in DOMAIN videoQueue :
                  videoQueue'[i] = videoQueue[j]
           /\ \/ /\ writer'.hand = writer.hand /\ writer'.at \in {"acquire", "stopped"}
                 /\ controlQueue = <<>> /\ videoQueue = <<>>
                 /\ UNCHANGED <<controlQueue, videoQueue>>
              \/ /\ writer'.at = "write"
                 /\ Len(controlQueue') + Len(videoQueue') = Len(controlQueue) + Len(videoQueue) - 1
                 /\ \/ \E j \in DOMAIN controlQueue : writer'.hand = controlQueue[j]
                    \/ \E j \in DOMAIN videoQueue : writer'.hand = videoQueue[j]
<1>1. /\ controlQueue \in Seq(Frame) /\ videoQueue \in Seq(Frame)
      /\ writer \in [at : {"acquire", "take", "write", "failed", "stopped"}, hand : Frame]
  BY DEF TypeOK
<1>2. ASSUME NEW q \in Seq(Frame), q # <<>>
      PROVE  /\ Tail(q) \in Seq(Frame) /\ Len(Tail(q)) = Len(q) - 1 /\ Len(q) \in Nat
             /\ \A i \in DOMAIN Tail(q) : i + 1 \in DOMAIN q /\ Tail(q)[i] = q[i + 1]
             /\ 1 \in DOMAIN q /\ Head(q) = q[1] /\ Head(q) \in Frame
  BY <1>2
<1>3. CASE controlQueue # <<>>
  <2>1. /\ writer' = [at |-> "write", hand |-> Head(controlQueue)]
        /\ controlQueue' = Tail(controlQueue) /\ videoQueue' = videoQueue
    BY <1>3 DEF Take
  <2>2. Len(videoQueue) \in Nat
    BY <1>1
  <2> QED
    BY <1>1, <1>2, <1>3, <2>1, <2>2
<1>4. CASE controlQueue = <<>> /\ videoQueue # <<>>
  <2>1. /\ writer' = [at |-> "write", hand |-> Head(videoQueue)]
        /\ videoQueue' = Tail(videoQueue) /\ controlQueue' = controlQueue
    BY <1>4 DEF Take
  <2>2. Len(controlQueue) \in Nat
    BY <1>1
  <2> QED
    BY <1>1, <1>2, <1>4, <2>1, <2>2
<1>5. CASE controlQueue = <<>> /\ videoQueue = <<>>
  BY <1>1, <1>5 DEF Take, Loop
<1> QED
  BY <1>3, <1>4, <1>5

\* A frame to be queued by thread t, which may still be refused.
LEMMA CallOfFrame ==
    ASSUME TypeOK, NEW t \in Threads, NEW f \in Frame, NEW token \in 0..MaxCaptures,
           NEW idr \in BOOLEAN, Enqueuing(t, f, token, idr)
    PROVE  calls' \in [Threads -> Call]
<1> DEFINE c == [at |-> "check", frame |-> f, token |-> token, idr |-> idr]
<1>1. c \in Call /\ calls' = [calls EXCEPT ![t] = c]
  BY DEF Call, Enqueuing
<1> HIDE DEF c
<1> QED
  BY <1>1, CallTypes

\* Thread t is about to ask for a keyframe.
LEMMA CallForIdr ==
    ASSUME TypeOK, NEW t \in Threads
    PROVE  [calls EXCEPT ![t] = [Idle EXCEPT !.at = "idr", !.idr = TRUE]] \in [Threads -> Call]
<1>1. [Idle EXCEPT !.at = "idr", !.idr = TRUE] \in Call
  BY Frames DEF Call
<1> HIDE DEF Idle
<1> QED
  BY <1>1, CallTypes

LEMMA TypesKeep ==
    ASSUME TypeOK, [Next]_vars
    PROVE  TypeOK'
<1>1. CASE BeginCapture
  <2>1. /\ controlQueue' \in Seq(Frame) /\ Len(controlQueue') <= MaxControlFrames
        /\ videoQueue' \in Seq(Frame) /\ Len(videoQueue') <= VideoCapacity /\ dropped' \in Nat
        /\ recovering' = FALSE /\ codecConfig' = 0 /\ videoConfig' = 0
    BY <1>1, ClearedTypes DEF BeginCapture
  <2>2. generation' \in 0..MaxCaptures
    BY <1>1, Constants DEF BeginCapture, TypeOK
  <2>3. 0 \in 0..MaxCaptures /\ 0 \in 0..MaxUnits
    BY Constants
  <2> QED
    BY <1>1, <2>1, <2>2, <2>3 DEF BeginCapture, TypeOK, environment
<1>2. CASE StopVideo
  <2>1. /\ controlQueue' \in Seq(Frame) /\ Len(controlQueue') <= MaxControlFrames
        /\ videoQueue' \in Seq(Frame) /\ Len(videoQueue') <= VideoCapacity /\ dropped' \in Nat
        /\ recovering' = FALSE /\ codecConfig' = 0 /\ videoConfig' = 0
    BY <1>2, ClearedTypes DEF StopVideo
  <2>2. 0 \in 0..MaxCaptures
    BY Constants
  <2> QED
    BY <1>2, <2>1, <2>2 DEF StopVideo, TypeOK, environment, history
<1>3. ASSUME NEW r \in 1..MaxRequests, FenceReply(r)
      PROVE  TypeOK'
  <2>3. Enqueuing("ui", Fence(lastFence'.gen), 0, FALSE)
    BY <1>3 DEF FenceReply
  <2>4. ASSUME lastFence'.gen \in 0..MaxCaptures
        PROVE  calls' \in [Threads -> Call]
    <3>1. Fence(lastFence'.gen) \in Frame /\ 0 \in 0..MaxCaptures /\ "ui" \in Threads
      BY <2>4, Frames, Constants DEF Threads
    <3> QED
      BY <2>3, <3>1, CallOfFrame
  <2>1. CASE AlreadyFenced(r)
    <3>1. UNCHANGED <<dropped, videoQueue, controlQueue, capture>>
      BY <1>3, <2>1 DEF FenceReply, FenceOnce
    <3>2. lastFence' = lastFence /\ lastFence.gen \in 0..MaxCaptures
      BY <3>1 DEF capture, TypeOK
    <3>3. calls' \in [Threads -> Call]
      BY <2>3, <2>4, <3>2
    <3>4. requests' \in 0..MaxControls
      BY <1>3, Constants DEF FenceReply, TypeOK
    <3> QED
      BY <1>3, <3>1, <3>3, <3>4 DEF FenceReply, TypeOK, capture, history
  <2>2. CASE ~AlreadyFenced(r)
    <3>1. ClearVideo /\ videoEnabled' = FALSE /\ generation' = generation
          /\ lastFence' = [request |-> r, gen |-> generation]
      BY <1>3, <2>2 DEF FenceReply, FenceOnce
    <3>2. /\ controlQueue' \in Seq(Frame) /\ Len(controlQueue') <= MaxControlFrames
          /\ videoQueue' \in Seq(Frame) /\ Len(videoQueue') <= VideoCapacity /\ dropped' \in Nat
          /\ recovering' = FALSE /\ codecConfig' = 0 /\ videoConfig' = 0
      BY <3>1, ClearedTypes
    <3>3. /\ lastFence'.gen \in 0..MaxCaptures
          /\ lastFence' \in [request : 0..MaxRequests, gen : 0..MaxCaptures]
      BY <3>1, Constants DEF TypeOK
    <3>4. calls' \in [Threads -> Call]
      BY <2>3, <2>4, <3>3
    <3>5. requests' \in 0..MaxControls
      BY <1>3, Constants DEF FenceReply, TypeOK
    <3>6. 0 \in 0..MaxCaptures
      BY Constants
    <3> QED
      BY <1>3, <3>1, <3>2, <3>3, <3>4, <3>5, <3>6 DEF FenceReply, TypeOK, history
  <2> QED
    BY <2>1, <2>2
<1>4. ASSUME NEW g \in Captures, SetCodecConfig(g)
      PROVE  TypeOK'
  <2>1. g \in 0..MaxCaptures /\ 0 \in -1..MaxUnits
    BY Constants DEF Captures
  <2> QED
    BY <1>4, <2>1, SMTT(30) DEF SetCodecConfig, TypeOK, queues, history
<1>5. ASSUME NEW g \in Captures, SendVideoConfig(g)
      PROVE  TypeOK'
  <2>1. g \in 0..MaxCaptures
    BY Constants DEF Captures
  <2>2. calls' \in [Threads -> Call] /\ videoConfig' \in 0..MaxCaptures
    <3>1. CASE Enqueuing("camera", Config(g, g), g, TRUE)
      <4>1. Config(g, g) \in Frame /\ "camera" \in Threads
        BY <2>1, Frames DEF Threads
      <4>2. calls' \in [Threads -> Call]
        BY <2>1, <3>1, <4>1, CallOfFrame
      <4>3. videoConfig' \in {g, videoConfig}
        BY <1>5 DEF SendVideoConfig
      <4> QED
        BY <2>1, <4>2, <4>3 DEF TypeOK
    <3>2. CASE UNCHANGED <<videoConfig, calls>>
      BY <3>2 DEF TypeOK
    <3> QED
      BY <1>5, <2>1, <3>1, <3>2 DEF SendVideoConfig
  <2> QED
    BY <1>5, <2>2, SMTT(30) DEF SendVideoConfig, TypeOK, queues, history
<1>6. ASSUME NEW g \in Captures, NEW n \in 1..MaxUnits, NEW key \in BOOLEAN,
             SendAccessUnit(g, n, key)
      PROVE  TypeOK'
  <2>1. /\ encoded' \in [Captures -> -1..MaxUnits] /\ asked' \in BOOLEAN
        /\ UNCHANGED <<running, controlOverflowed, generation, videoEnabled, codecConfig,
                       videoConfig, lastFence, writer, closing, configured, requests, barrier,
                       lastWritten, late>>
    <3>1. Delivers(g, n, key)
      BY <1>6 DEF SendAccessUnit, UnitRefused, UnitDropped, UnitQueued
    <3>2. n \in -1..MaxUnits /\ encoded \in [Captures -> -1..MaxUnits]
      BY Constants DEF TypeOK
    <3>3. encoded' \in [Captures -> -1..MaxUnits] /\ asked' \in BOOLEAN
      BY <3>1, <3>2 DEF Delivers
    <3> QED
      BY <3>1, <3>3 DEF Delivers
  <2>2. g \in 0..MaxCaptures /\ n \in 0..MaxUnits /\ codecConfig \in 0..MaxCaptures
        /\ 0 \in 0..MaxCaptures
    BY Constants DEF Captures, TypeOK
  <2>3. NeedsIdr \in [Threads -> Call]
    BY CallForIdr DEF NeedsIdr, Threads
  <2>4. CASE UnitRefused(g, n, key)
    BY <2>1, <2>4 DEF UnitRefused, TypeOK, queues
  <2>5. CASE UnitDropped(g, n, key)
    <3>1. recovering' = TRUE /\ videoQueue' \in Seq(Frame) /\ Len(videoQueue') <= VideoCapacity
      <4>1. <<>> \in Seq(Frame) /\ Len(<<>>) <= VideoCapacity
        BY Constants
      <4> QED
        BY <2>5, <4>1 DEF UnitDropped, StartRecovery, TypeOK
    <3>2. dropped' \in Nat /\ calls' \in [Threads -> Call]
      BY <2>3, <2>5, SMTT(30) DEF UnitDropped, AfterDrop, DiscardedUnits, TypeOK
    <3>3. UNCHANGED <<controlQueue, wake, synced>>
      BY <2>5 DEF UnitDropped
    <3> QED
      BY <2>1, <3>1, <3>2, <3>3 DEF TypeOK
  <2>6. CASE UnitQueued(g, n, key)
    <3> DEFINE kept == IF Overflows THEN <<>> ELSE videoQueue
               unit == QueuedUnit(g, n, key)
    <3>1. unit \in Frame
      <4>1. (key /\ (recovering \/ Overflows)) \in BOOLEAN
            /\ (IF key THEN codecConfig ELSE 0) \in 0..MaxCaptures
        BY <2>2
      <4> QED
        BY <2>2, <4>1, UnitFrames DEF QueuedUnit
    <3>2. kept \in Seq(Frame) /\ Len(kept) < VideoCapacity /\ Len(kept) <= Len(videoQueue)
      BY Constants DEF TypeOK, Overflows
    <3>3. /\ videoQueue' = Append(kept, unit) /\ dropped' = dropped + Len(videoQueue) - Len(kept)
          /\ wake' = wake + 1 /\ recovering' = FALSE /\ UNCHANGED controlQueue
          /\ synced' \in {n, synced} /\ calls' \in {NeedsIdr, calls}
      BY <2>6 DEF UnitQueued
    <3> HIDE DEF kept, unit
    <3>4. videoQueue' \in Seq(Frame) /\ Len(videoQueue') <= VideoCapacity
      BY <3>1, <3>2, <3>3, Constants
    <3>5. dropped' \in Nat /\ wake' \in Nat
      BY <3>2, <3>3 DEF TypeOK
    <3>6. synced' \in 0..MaxUnits /\ calls' \in [Threads -> Call]
      BY <2>2, <2>3, <3>3 DEF TypeOK
    <3> QED
      BY <2>1, <3>3, <3>4, <3>5, <3>6 DEF TypeOK
  <2> QED
    BY <1>6, <2>4, <2>5, <2>6 DEF SendAccessUnit
<1>7. CASE ForceRecovery
  <2>1. calls' \in [Threads -> Call]
    <3>1. CASE Enqueuing("reader", Config(generation, videoConfig), generation, TRUE)
      <4>1. generation \in 0..MaxCaptures /\ videoConfig \in 0..MaxCaptures
        BY DEF TypeOK
      <4>2. Config(generation, videoConfig) \in Frame
        BY <4>1, Frames
      <4> QED
        BY <3>1, <4>1, <4>2, CallOfFrame DEF Threads
    <3>2. CASE calls' = [calls EXCEPT !["reader"] = [Idle EXCEPT !.at = "idr", !.idr = TRUE]]
      BY <3>2, CallForIdr DEF Threads
    <3> QED
      BY <1>7, <3>1, <3>2 DEF ForceRecovery
  <2>2. dropped' \in Nat
    BY <1>7, SMTT(30) DEF ForceRecovery, DiscardedUnits, TypeOK
  <2>3. <<>> \in Seq(Frame) /\ Len(<<>>) <= VideoCapacity
    BY Constants
  <2>4. requests' \in 0..MaxControls
    <3>1. requests' = requests + 1 /\ requests < MaxControls
      BY <1>7 DEF ForceRecovery
    <3>2. requests \in 0..MaxControls
      BY DEF TypeOK
    <3> QED
      BY <3>1, <3>2, Constants
  <2> QED
    BY <1>7, <2>1, <2>2, <2>3, <2>4 DEF ForceRecovery, TypeOK, history
<1>8. ASSUME NEW t \in Threads, SendControl(t)
      PROVE  TypeOK'
  <2>1. calls' \in [Threads -> Call]
    <3>1. Enqueuing(t, Control, 0, FALSE) /\ 0 \in 0..MaxCaptures
      <4>1. 0 \in 0..MaxCaptures
        BY Constants
      <4> QED
        BY <1>8, <4>1 DEF SendControl
    <3> QED
      BY <3>1, Frames, CallOfFrame
  <2>2. requests' \in 0..MaxControls
    BY <1>8, Constants DEF SendControl, TypeOK
  <2> QED
    BY <1>8, <2>1, <2>2 DEF SendControl, TypeOK, queues, capture, history
<1>9. ASSUME NEW t \in Threads, CheckControl(t)
      PROVE  TypeOK'
  <2>1. calls' \in [Threads -> Call]
    BY <1>9, CallTypes DEF CheckControl
  <2> QED
    BY <1>9, <2>1, SMTT(30) DEF CheckControl, TypeOK, queues, capture, environment, history
<1>10. ASSUME NEW t \in Threads, Release(t)
       PROVE  TypeOK'
  <2>1. calls' \in [Threads -> Call]
    BY <1>10, CallTypes DEF Release
  <2> QED
    BY <1>10, <2>1 DEF Release, Permit, TypeOK, capture, environment, history
<1>11. ASSUME NEW t \in Threads, NeedIdr(t)
       PROVE  TypeOK'
  <2>1. calls' \in [Threads -> Call]
    BY <1>11, Frames, CallTypes DEF NeedIdr
  <2> QED
    BY <1>11, <2>1 DEF NeedIdr, TypeOK, queues, capture, environment
<1>12. ASSUME NEW t \in Threads, EnqueueControl(t)
      PROVE  TypeOK'
  <2>1. calls' \in [Threads -> Call]
    BY <1>12, CallTypes DEF EnqueueControl
  <2>2. /\ controlQueue' \in Seq(Frame) /\ Len(controlQueue') <= MaxControlFrames
        /\ controlOverflowed' \in BOOLEAN
    <3>1. calls[t].frame \in Frame
      BY CallTypes DEF Call
    <3>2. controlQueue \in Seq(Frame) /\ Len(controlQueue) <= MaxControlFrames
      BY DEF TypeOK
    <3>3. controlOverflowed' \in BOOLEAN
      BY <1>12 DEF EnqueueControl, TypeOK
    <3>4. CASE UNCHANGED controlQueue
      BY <3>2, <3>4, <3>3
    <3>5. CASE ~(Len(controlQueue) >= MaxControlFrames)
               /\ controlQueue' = Append(controlQueue, calls[t].frame)
      BY <3>1, <3>2, <3>3, <3>5, Constants
    <3> QED
      BY <1>12, <3>4, <3>5 DEF EnqueueControl
  <2> QED
    BY <1>12, <2>1, <2>2 DEF EnqueueControl, TypeOK, capture, environment, history
<1>13. CASE Acquire
  <2>1. wake' \in Nat
    BY <1>13, SMTT(30) DEF Acquire, TypeOK
  <2>2. writer' \in [at : {"acquire", "take", "write", "failed", "stopped"}, hand : Frame]
    BY <1>13 DEF Acquire, TypeOK
  <2> QED
    BY <1>13, <2>1, <2>2 DEF Acquire, TypeOK, capture, environment, history
<1>14. CASE WriteFails
  <2>1. writer' \in [at : {"acquire", "take", "write", "failed", "stopped"}, hand : Frame]
    BY <1>14 DEF WriteFails, TypeOK
  <2> QED
    BY <1>14, <2>1 DEF WriteFails, TypeOK, queues, capture, environment, history
<1>15. CASE WriterEnds
  <2>1. writer' \in [at : {"acquire", "take", "write", "failed", "stopped"}, hand : Frame]
    BY <1>15 DEF WriterEnds, TypeOK
  <2> QED
    BY <1>15, <2>1 DEF WriterEnds, TypeOK, queues, capture, environment, history
<1>16. CASE Close
  <2>1. wake' \in Nat
    BY <1>16 DEF Close, TypeOK
  <2> QED
    BY <1>16, <2>1 DEF Close, TypeOK, capture, environment, history
<1>17. CASE Take
  <2>1. /\ controlQueue' \in Seq(Frame) /\ Len(controlQueue') <= Len(controlQueue)
        /\ videoQueue' \in Seq(Frame) /\ Len(videoQueue') <= Len(videoQueue)
        /\ writer' \in [at : {"acquire", "take", "write", "failed", "stopped"}, hand : Frame]
    BY <1>17, Taken
  <2>2. Len(controlQueue') <= MaxControlFrames /\ Len(videoQueue') <= VideoCapacity
    BY <2>1, Constants DEF TypeOK
  <2> QED
    BY <1>17, <2>1, <2>2 DEF Take, TypeOK, capture, environment, history
<1>18. CASE Write
  <2>1. Loop \in {"acquire", "stopped"} /\ NoFrame \in Frame
    BY Frames DEF Loop, NoFrame
  <2>2. writer.hand.gen \in 0..MaxCaptures /\ writer.hand.n \in 0..MaxUnits
    BY DEF TypeOK, Frame
  <2> QED
    BY <1>18, <2>1, <2>2, SMTT(30) DEF Write, TypeOK, queues, capture, environment
<1>19. CASE CloseClears
  <2>1. <<>> \in Seq(Frame) /\ Len(<<>>) <= VideoCapacity /\ Len(<<>>) <= MaxControlFrames
        /\ 0 \in 0..MaxCaptures
    BY Constants
  <2>2. dropped' \in Nat
    BY <1>19 DEF CloseClears, DiscardedUnits, TypeOK
  <2> QED
    BY <1>19, <2>1, <2>2 DEF CloseClears, ClearMetadata, TypeOK, environment, history
<1>20. CASE UNCHANGED vars
  BY <1>20 DEF vars, TypeOK, queues, capture, environment, history
<1> QED
  BY <1>1, <1>3, <1>4, <1>5, <1>6, <1>7, <1>8, <1>9, <1>12, <1>13, <1>17, <1>18, <1>19, <1>20,
     <1>2, <1>10, <1>11, <1>14, <1>15, <1>16 DEF Next, OwnerStep, ProducerStep, CallStep, WriterStep

-----------------------------------------------------------------------------
(* Captures and fences. *)

LEMMA FrameNumbers ==
    ASSUME TypeOK
    PROVE  /\ \A f \in Frame : f.gen \in Nat
           /\ \A t \in Threads : calls[t] \in Call /\ calls[t].frame.gen \in Nat
           /\ writer.hand \in Frame /\ writer.hand.gen \in Nat
           /\ lastFence.gen \in Nat /\ barrier \in Nat
<1>1. ASSUME NEW f \in Frame
      PROVE  f.gen \in Nat
  <2>1. f.gen \in 0..MaxCaptures
    BY DEF Frame
  <2> QED
    BY <2>1, Constants
<1>2. ASSUME NEW t \in Threads
      PROVE  calls[t] \in Call /\ calls[t].frame \in Frame
  <2>1. calls[t] \in Call
    BY DEF TypeOK
  <2> QED
    BY <2>1 DEF Call
<1>3. writer.hand \in Frame
  BY DEF TypeOK
<1>4. lastFence.gen \in 0..MaxCaptures /\ barrier \in 0..MaxCaptures
  BY DEF TypeOK
<1> QED
  BY <1>1, <1>2, <1>3, <1>4, Constants

\* The other actions leave the capture and the fences alone.
OtherStep ==
    \/ \E t \in Threads : SendControl(t) \/ CallStep(t)
    \/ WriterStep \/ WriteFails \/ Close \/ UNCHANGED vars

LEMMA CaptureStands ==
    ASSUME OtherStep
    PROVE  UNCHANGED <<generation, videoEnabled, codecConfig, videoConfig, lastFence>>
<1>1. ASSUME NEW t \in Threads, SendControl(t)
      PROVE  UNCHANGED capture
  BY <1>1 DEF SendControl
<1>2. ASSUME NEW t \in Threads, CallStep(t)
      PROVE  UNCHANGED capture
  BY <1>2 DEF CallStep, CheckControl, EnqueueControl, Release, NeedIdr
<1>3. CASE WriterStep \/ WriteFails \/ Close
  BY <1>3 DEF WriterStep, Acquire, Take, Write, WriterEnds, WriteFails, Close, capture
<1>4. CASE UNCHANGED vars
  BY <1>4 DEF vars, capture
<1> QED
  BY <1>1, <1>2, <1>3, <1>4 DEF OtherStep, capture

LEMMA NextSteps ==
    ASSUME [Next]_vars
    PROVE  \/ BeginCapture \/ StopVideo \/ \E r \in 1..MaxRequests : FenceReply(r)
           \/ \E g \in Captures : SetCodecConfig(g) \/ SendVideoConfig(g)
           \/ \E g \in Captures, n \in 1..MaxUnits, key \in BOOLEAN : SendAccessUnit(g, n, key)
           \/ ForceRecovery \/ CloseClears \/ OtherStep
BY DEF Next, OwnerStep, ProducerStep, OtherStep

\* A fence covers at least what the fence before it did.
LEMMA FencesGrow ==
    ASSUME TypeOK, CaptureInv, [Next]_vars
    PROVE  CaptureInv' /\ lastFence.gen <= lastFence'.gen
<1>1. /\ generation \in 0..MaxCaptures /\ lastFence.gen \in 0..MaxCaptures
      /\ codecConfig \in 0..MaxCaptures /\ videoConfig \in 0..MaxCaptures
      /\ MaxCaptures \in Nat
  BY Constants DEF TypeOK
<1>2. CASE BeginCapture
  <2>1. /\ generation' = generation + 1 /\ codecConfig' = 0 /\ videoConfig' = 0
        /\ lastFence' = lastFence
    BY <1>2 DEF BeginCapture, ClearVideo, ClearMetadata
  <2> QED
    BY <1>1, <2>1 DEF CaptureInv
<1>3. CASE StopVideo
  <2>1. /\ generation' = generation /\ codecConfig' = 0 /\ videoConfig' = 0
        /\ lastFence' = lastFence /\ videoEnabled' = FALSE
    BY <1>3 DEF StopVideo, ClearVideo, ClearMetadata
  <2> QED
    BY <1>1, <2>1 DEF CaptureInv
<1>4. ASSUME NEW r \in 1..MaxRequests, FenceReply(r)
      PROVE  CaptureInv' /\ lastFence.gen <= lastFence'.gen
  <2>1. CASE AlreadyFenced(r)
    BY <1>1, <1>4, <2>1 DEF FenceReply, FenceOnce, capture, CaptureInv
  <2>2. CASE ~AlreadyFenced(r)
    <3>1. /\ generation' = generation /\ codecConfig' = 0 /\ videoConfig' = 0
          /\ lastFence' = [request |-> r, gen |-> generation] /\ videoEnabled' = FALSE
      BY <1>4, <2>2 DEF FenceReply, FenceOnce, ClearVideo, ClearMetadata
    <3> QED
      BY <1>1, <3>1 DEF CaptureInv
  <2> QED
    BY <2>1, <2>2
<1>5. ASSUME NEW g \in Captures, SetCodecConfig(g) \/ SendVideoConfig(g)
      PROVE  CaptureInv' /\ lastFence.gen <= lastFence'.gen
  <2>1. /\ codecConfig' \in {codecConfig, generation} /\ videoConfig' \in {videoConfig, generation}
        /\ UNCHANGED <<generation, videoEnabled, lastFence>>
    BY <1>5 DEF SetCodecConfig, SendVideoConfig, Accepts
  <2> QED
    BY <1>1, <2>1 DEF CaptureInv
<1>6. ASSUME NEW g \in Captures, NEW n \in 1..MaxUnits, NEW key \in BOOLEAN,
             SendAccessUnit(g, n, key)
      PROVE  CaptureInv' /\ lastFence.gen <= lastFence'.gen
  <2>1. UNCHANGED <<generation, videoEnabled, codecConfig, videoConfig, lastFence>>
    BY <1>6 DEF SendAccessUnit, UnitRefused, UnitDropped, UnitQueued, Delivers
  <2> QED
    BY <1>1, <2>1 DEF CaptureInv
<1>7. CASE ForceRecovery
  <2>1. UNCHANGED <<generation, videoEnabled, codecConfig, videoConfig, lastFence>>
    BY <1>7 DEF ForceRecovery
  <2> QED
    BY <1>1, <2>1 DEF CaptureInv
<1>8. CASE CloseClears
  <2>1. /\ generation' = generation /\ codecConfig' = 0 /\ videoConfig' = 0
        /\ lastFence' = lastFence /\ videoEnabled' = FALSE
    BY <1>8 DEF CloseClears, ClearMetadata
  <2> QED
    BY <1>1, <2>1 DEF CaptureInv
<1>9. CASE OtherStep
  BY <1>1, <1>9, CaptureStands DEF CaptureInv
<1> QED
  BY <1>2, <1>3, <1>4, <1>5, <1>6, <1>7, <1>8, <1>9, NextSteps

-----------------------------------------------------------------------------
(* Frames. *)

LEMMA EmptyQueue == DOMAIN (<<>>) = {} /\ Len(<<>>) = 0 /\ <<>> \in Seq(Frame)
OBVIOUS

\* A later fence makes no frame worse that is not video.
LEMMA OlderFrames ==
    ASSUME NEW f \in Frame, NEW fenced \in Nat, NEW later \in Nat, fenced <= later,
           QueuedOK(f, fenced), fenced = later \/ ~Video(f)
    PROVE  QueuedOK(f, later)
<1>1. f.gen \in Nat
  BY Constants DEF Frame
<1> QED
  BY <1>1 DEF QueuedOK, Video

LEMMA QueuesAfterClear ==
    ASSUME TypeOK, QueueInv, ClearVideo, NEW later \in Nat, lastFence.gen <= later
    PROVE  /\ \A i \in DOMAIN controlQueue' :
                  controlQueue'[i].kind # "unit" /\ QueuedOK(controlQueue'[i], later)
           /\ \A i \in DOMAIN videoQueue' :
                  videoQueue'[i].kind = "unit" /\ QueuedOK(videoQueue'[i], later)
<1>1. lastFence.gen \in Nat /\ controlQueue \in Seq(Frame)
  BY Constants DEF TypeOK
<1>2. ASSUME NEW i \in DOMAIN controlQueue'
      PROVE  controlQueue'[i].kind # "unit" /\ QueuedOK(controlQueue'[i], later)
  <2>1. PICK m \in DOMAIN controlQueue : controlQueue'[i] = controlQueue[m]
    BY Cleared
  <2>2. controlQueue'[i].kind # "config" /\ controlQueue[m] \in Frame
    BY <1>1, Cleared
  <2>3. controlQueue[m].kind # "unit" /\ QueuedOK(controlQueue[m], lastFence.gen)
    BY DEF QueueInv
  <2> QED
    BY <1>1, <2>1, <2>2, <2>3, OlderFrames DEF Video
<1>3. videoQueue' = <<>>
  BY Cleared
<1> QED
  BY <1>2, <1>3, EmptyQueue

LEMMA QueuesKeep ==
    ASSUME TypeOK, CaptureInv, QueueInv, CallInv, [Next]_vars
    PROVE  QueueInv'
<1>1. /\ generation \in 0..MaxCaptures /\ lastFence.gen \in 0..MaxCaptures
      /\ codecConfig \in 0..MaxCaptures /\ MaxCaptures \in Nat
      /\ controlQueue \in Seq(Frame) /\ videoQueue \in Seq(Frame)
  BY Constants DEF TypeOK
<1>2. CASE BeginCapture \/ StopVideo
  <2>1. ClearVideo /\ lastFence' = lastFence
    BY <1>2 DEF BeginCapture, StopVideo
  <2> QED
    BY <1>1, <2>1, QueuesAfterClear DEF QueueInv
<1>3. ASSUME NEW r \in 1..MaxRequests, FenceReply(r)
      PROVE  QueueInv'
  <2>1. CASE AlreadyFenced(r)
    BY <1>3, <2>1 DEF FenceReply, FenceOnce, capture, QueueInv
  <2>2. CASE ~AlreadyFenced(r)
    <3>1. ClearVideo /\ lastFence'.gen = generation
      BY <1>3, <2>2 DEF FenceReply, FenceOnce
    <3>2. generation \in Nat /\ lastFence.gen <= generation
      BY <1>1 DEF CaptureInv
    <3> QED
      BY <3>1, <3>2, QueuesAfterClear DEF QueueInv
  <2> QED
    BY <2>1, <2>2
<1>4. ASSUME NEW g \in Captures, SetCodecConfig(g) \/ SendVideoConfig(g)
      PROVE  QueueInv'
  BY <1>4 DEF SetCodecConfig, SendVideoConfig, QueueInv, queues
<1>5. ASSUME NEW g \in Captures, NEW n \in 1..MaxUnits, NEW key \in BOOLEAN,
             SendAccessUnit(g, n, key)
      PROVE  QueueInv'
  <2>1. lastFence' = lastFence /\ controlQueue' = controlQueue
    BY <1>5 DEF SendAccessUnit, UnitRefused, UnitDropped, UnitQueued, Delivers, queues
  <2>2. CASE videoQueue' \in {videoQueue, <<>>}
    BY <2>1, <2>2, EmptyQueue DEF QueueInv
  <2>3. CASE UnitQueued(g, n, key)
    <3> DEFINE kept == IF Overflows THEN <<>> ELSE videoQueue
               unit == QueuedUnit(g, n, key)
    <3>1. videoQueue' = Append(kept, unit)
      BY <2>3 DEF UnitQueued
    <3>2. /\ kept \in Seq(Frame)
          /\ \A i \in DOMAIN kept : kept[i].kind = "unit" /\ QueuedOK(kept[i], lastFence.gen)
      BY <1>1, EmptyQueue DEF QueueInv
    <3>3. g = generation /\ lastFence.gen < generation
      BY <2>3 DEF UnitQueued, Refuses, Accepts, CaptureInv
    <3>4. /\ unit \in Frame /\ unit.kind = "unit" /\ unit.gen = g
          /\ unit.meta \in {0, codecConfig}
      <4> DEFINE meta == IF key THEN codecConfig ELSE 0
                 disc == key /\ (recovering \/ Overflows)
      <4>1. /\ g \in 0..MaxCaptures /\ n \in 0..MaxUnits
            /\ meta \in 0..MaxCaptures /\ meta \in {0, codecConfig} /\ disc \in BOOLEAN
        BY <1>1, Constants DEF Captures
      <4>2. unit = Unit(g, n, key, meta, disc)
        BY DEF QueuedUnit
      <4> HIDE DEF meta, disc, unit
      <4> QED
        BY <4>1, <4>2, UnitFrames
    <3>5. QueuedOK(unit, lastFence.gen)
      BY <3>3, <3>4 DEF QueuedOK, CaptureInv
    <3> HIDE DEF kept, unit
    <3>6. \A i \in DOMAIN videoQueue' :
              videoQueue'[i] = unit \/ (i \in DOMAIN kept /\ videoQueue'[i] = kept[i])
      BY <3>1, <3>2, <3>4
    <3> QED
      BY <2>1, <3>2, <3>4, <3>5, <3>6 DEF QueueInv
  <2> QED
    BY <1>5, <2>2, <2>3 DEF SendAccessUnit, UnitRefused, UnitDropped, StartRecovery, queues
<1>6. CASE ForceRecovery
  <2>1. lastFence' = lastFence /\ controlQueue' = controlQueue /\ videoQueue' = <<>>
    BY <1>6 DEF ForceRecovery
  <2> QED
    BY <2>1, EmptyQueue DEF QueueInv
<1>7. CASE CloseClears
  <2>1. controlQueue' = <<>> /\ videoQueue' = <<>>
    BY <1>7 DEF CloseClears
  <2> QED
    BY <2>1, EmptyQueue DEF QueueInv
<1>8. ASSUME NEW t \in Threads, EnqueueControl(t)
      PROVE  QueueInv'
  <2>1. lastFence' = lastFence /\ videoQueue' = videoQueue
    BY <1>8 DEF EnqueueControl, capture
  <2>2. CASE controlQueue' = controlQueue
    BY <2>1, <2>2 DEF QueueInv
  <2>3. CASE Expected(calls[t].token) /\ controlQueue' = Append(controlQueue, calls[t].frame)
    <3> DEFINE f == calls[t].frame
    <3>1. f \in Frame /\ CallOK(calls[t], lastFence.gen)
      BY CallTypes DEF CallInv, Call
    <3>2. f.kind # "unit" /\ QueuedOK(f, lastFence.gen)
      BY <1>1, <2>3, <3>1 DEF CallOK, QueuedOK, Expected, Accepts, CaptureInv
    <3> HIDE DEF f
    <3>3. \A i \in DOMAIN controlQueue' : controlQueue'[i] = f
              \/ (i \in DOMAIN controlQueue /\ controlQueue'[i] = controlQueue[i])
      BY <1>1, <2>3, <3>1 DEF f
    <3> QED
      BY <2>1, <3>2, <3>3 DEF QueueInv
  <2> QED
    BY <1>8, <2>2, <2>3 DEF EnqueueControl
<1>9. CASE Take
  <2>1. lastFence' = lastFence
    BY <1>9 DEF Take, capture
  <2> QED
    BY <1>9, <2>1, Taken DEF QueueInv
<1>10. CASE OtherStep /\ ~Take /\ ~\E t \in Threads : EnqueueControl(t)
  <2>1. lastFence' = lastFence
    BY <1>10, CaptureStands
  <2>2. UNCHANGED <<controlQueue, videoQueue>>
    BY <1>10 DEF OtherStep, SendControl, CallStep, CheckControl, Release, NeedIdr, WriterStep,
       Acquire, Write, WriterEnds, WriteFails, Close, queues, vars
  <2> QED
    BY <2>1, <2>2 DEF QueueInv
<1> QED
  BY <1>2, <1>3, <1>4, <1>5, <1>6, <1>7, <1>8, <1>9, <1>10, NextSteps

\* Thread t turns to c, or stays as it is.
LEMMA OneCallMoves ==
    ASSUME TypeOK, CallInv, NEW t \in Threads, NEW c, NEW fenced \in Nat,
           calls' = [calls EXCEPT ![t] = c] \/ calls' = calls,
           lastFence.gen <= fenced, CallOK(c, fenced)
    PROVE  \A u \in Threads : CallOK(calls'[u], fenced)
<1>1. SUFFICES ASSUME NEW u \in Threads PROVE CallOK(calls'[u], fenced)
  OBVIOUS
<1>2. calls \in [Threads -> Call] /\ calls[u].frame.gen \in Nat /\ lastFence.gen \in Nat
  BY FrameNumbers DEF TypeOK
<1>3. CallOK(calls[u], fenced)
  BY <1>2 DEF CallInv, CallOK
<1> QED
  BY <1>2, <1>3

\* Thread t has nothing left to send, or goes on with what it has.
LEMMA OneCallGoesOn ==
    ASSUME TypeOK, CallInv, NEW t \in Threads,
           \/ calls' = Returns(t) \/ calls' = calls \/ calls' = [calls EXCEPT ![t] = Idle]
           \/ calls' = [calls EXCEPT ![t] = [Idle EXCEPT !.at = "idr", !.idr = TRUE]]
           \/ calls' = [calls EXCEPT ![t].at = "enqueue"]
           \/ calls' = [calls EXCEPT ![t].at = "release"]
    PROVE  \A u \in Threads : CallOK(calls'[u], lastFence.gen)
<1>1. calls \in [Threads -> Call] /\ lastFence.gen \in Nat /\ calls[t] \in Call
  BY Constants DEF TypeOK
<1>2. /\ CallOK(Idle, lastFence.gen)
      /\ CallOK([Idle EXCEPT !.at = "idr", !.idr = TRUE], lastFence.gen)
  BY DEF CallOK, Idle, NoFrame, Control
<1>3. ASSUME NEW at
      PROVE  CallOK([calls[t] EXCEPT !.at = at], lastFence.gen)
  <2> DEFINE c == [calls[t] EXCEPT !.at = at]
  <2>1. c.frame = calls[t].frame /\ c.token = calls[t].token
    BY <1>1 DEF Call
  <2>2. CallOK(calls[t], lastFence.gen)
    BY DEF CallInv
  <2> HIDE DEF c
  <2> QED
    BY <2>1, <2>2 DEF CallOK
<1>4. \E c : (calls' = calls \/ calls' = [calls EXCEPT ![t] = c]) /\ CallOK(c, lastFence.gen)
  <2>1. CASE calls' = Returns(t)
    <3> DEFINE c == IF calls[t].idr THEN [Idle EXCEPT !.at = "idr", !.idr = TRUE] ELSE Idle
    <3>1. calls' = [calls EXCEPT ![t] = c] /\ CallOK(c, lastFence.gen)
      BY <1>1, <1>2, <2>1 DEF Returns
    <3> HIDE DEF c
    <3> QED
      BY <3>1
  <2>2. CASE calls' = calls
    BY <1>2, <2>2
  <2>3. CASE \/ calls' = [calls EXCEPT ![t] = Idle]
             \/ calls' = [calls EXCEPT ![t] = [Idle EXCEPT !.at = "idr", !.idr = TRUE]]
    BY <1>2, <2>3
  <2>4. CASE calls' = [calls EXCEPT ![t].at = "enqueue"]
    <3> DEFINE c == [calls[t] EXCEPT !.at = "enqueue"]
    <3>1. calls' = [calls EXCEPT ![t] = c] /\ CallOK(c, lastFence.gen)
      BY <1>3, <2>4
    <3> HIDE DEF c
    <3> QED
      BY <3>1
  <2>5. CASE calls' = [calls EXCEPT ![t].at = "release"]
    <3> DEFINE c == [calls[t] EXCEPT !.at = "release"]
    <3>1. calls' = [calls EXCEPT ![t] = c] /\ CallOK(c, lastFence.gen)
      BY <1>3, <2>5
    <3> HIDE DEF c
    <3> QED
      BY <3>1
  <2> QED
    BY <2>1, <2>2, <2>3, <2>4, <2>5
<1> QED
  BY <1>1, <1>4, OneCallMoves

LEMMA CallsKeep ==
    ASSUME TypeOK, CaptureInv, CallInv, [Next]_vars
    PROVE  CallInv'
<1>1. /\ generation \in 0..MaxCaptures /\ lastFence.gen \in Nat /\ generation \in Nat
      /\ videoConfig \in 0..MaxCaptures /\ MaxCaptures \in Nat /\ calls \in [Threads -> Call]
  BY Constants DEF TypeOK
<1>2. /\ "ui" \in Threads /\ "reader" \in Threads /\ "camera" \in Threads
      /\ "encoder" \in Threads
  BY DEF Threads
<1>3. CASE BeginCapture \/ StopVideo \/ CloseClears
  BY <1>3 DEF BeginCapture, StopVideo, CloseClears, CallInv
<1>4. ASSUME NEW r \in 1..MaxRequests, FenceReply(r)
      PROVE  CallInv'
  <2> DEFINE f == Fence(lastFence'.gen)
             c == [at |-> "check", frame |-> f, token |-> 0, idr |-> FALSE]
  <2>1. lastFence'.gen \in 0..MaxCaptures
    BY TypesKeep DEF TypeOK
  <2>2. f.kind = "fence" /\ f.gen = lastFence'.gen /\ lastFence'.gen \in Nat
    BY <1>1, <2>1, Frames
  <2>3. calls' = [calls EXCEPT !["ui"] = c]
    BY <1>4 DEF FenceReply, Enqueuing
  <2> HIDE DEF f
  <2>4. CallOK(c, lastFence'.gen)
    BY <2>2 DEF CallOK
  <2>5. lastFence.gen <= lastFence'.gen
    BY FencesGrow
  <2> QED
    BY <1>2, <2>2, <2>3, <2>4, <2>5, OneCallMoves DEF CallInv
<1>5. ASSUME NEW g \in Captures, SetCodecConfig(g)
      PROVE  CallInv'
  BY <1>5 DEF SetCodecConfig, CallInv
<1>6. ASSUME NEW g \in Captures, SendVideoConfig(g)
      PROVE  CallInv'
  <2> DEFINE c == [at |-> "check", frame |-> Config(g, g), token |-> g, idr |-> TRUE]
  <2>1. lastFence' = lastFence /\ (calls' = calls \/ calls' = [calls EXCEPT !["camera"] = c])
    BY <1>6 DEF SendVideoConfig, Enqueuing
  <2>2. /\ Config(g, g).kind = "config" /\ Config(g, g).gen = g /\ Config(g, g).meta = g /\ g # 0
    BY <1>1, Frames DEF Captures
  <2>3. CallOK(c, lastFence.gen)
    BY <2>2 DEF CallOK
  <2> HIDE DEF c
  <2> QED
    BY <1>1, <1>2, <2>1, <2>3, OneCallMoves DEF CallInv
<1>7. ASSUME NEW g \in Captures, NEW n \in 1..MaxUnits, NEW key \in BOOLEAN,
             SendAccessUnit(g, n, key)
      PROVE  CallInv'
  <2>1. lastFence' = lastFence
    BY <1>7 DEF SendAccessUnit, UnitRefused, UnitDropped, UnitQueued, Delivers
  <2>2. \/ calls' = calls
        \/ calls' = [calls EXCEPT !["encoder"] = [Idle EXCEPT !.at = "idr", !.idr = TRUE]]
    BY <1>7 DEF SendAccessUnit, UnitRefused, UnitDropped, UnitQueued, AfterDrop, NeedsIdr
  <2> QED
    BY <1>2, <2>1, <2>2, OneCallGoesOn DEF CallInv
<1>8. CASE ForceRecovery
  <2> DEFINE c == [at |-> "check", frame |-> Config(generation, videoConfig),
                   token |-> generation, idr |-> TRUE]
  <2>1. lastFence' = lastFence
    BY <1>8 DEF ForceRecovery
  <2>2. CASE videoConfig # 0
    <3>1. calls' = [calls EXCEPT !["reader"] = c]
      BY <1>8, <2>2 DEF ForceRecovery, Enqueuing
    <3>2. videoConfig = generation /\ generation # 0
      BY <2>2 DEF CaptureInv
    <3>3. /\ Config(generation, videoConfig).kind = "config"
          /\ Config(generation, videoConfig).gen = generation
          /\ Config(generation, videoConfig).meta = generation
      BY <1>1, <3>2, Frames
    <3>4. CallOK(c, lastFence.gen)
      BY <3>2, <3>3 DEF CallOK
    <3> HIDE DEF c
    <3> QED
      BY <1>1, <1>2, <2>1, <3>1, <3>4, OneCallMoves DEF CallInv
  <2>3. CASE videoConfig = 0
    <3>1. calls' = [calls EXCEPT !["reader"] = [Idle EXCEPT !.at = "idr", !.idr = TRUE]]
      BY <1>8, <2>3 DEF ForceRecovery
    <3> QED
      BY <1>2, <2>1, <3>1, OneCallGoesOn DEF CallInv
  <2> QED
    BY <2>2, <2>3
<1>9. ASSUME NEW t \in Threads, SendControl(t)
      PROVE  CallInv'
  <2> DEFINE c == [at |-> "check", frame |-> Control, token |-> 0, idr |-> FALSE]
  <2>1. lastFence' = lastFence
    BY <1>9, CaptureStands DEF OtherStep
  <2>2. calls' = [calls EXCEPT ![t] = c]
    BY <1>9 DEF SendControl, Enqueuing
  <2>3. CallOK(c, lastFence.gen)
    BY DEF CallOK, Control
  <2> HIDE DEF c
  <2> QED
    BY <1>1, <2>1, <2>2, <2>3, OneCallMoves DEF CallInv
<1>10. ASSUME NEW t \in Threads, CallStep(t)
       PROVE  CallInv'
  <2>1. lastFence' = lastFence
    BY <1>10, CaptureStands DEF OtherStep
  <2>2. \/ calls' = Returns(t) \/ calls' = [calls EXCEPT ![t] = Idle]
        \/ calls' = [calls EXCEPT ![t].at = "enqueue"]
        \/ calls' = [calls EXCEPT ![t].at = "release"]
    BY <1>10 DEF CallStep, CheckControl, EnqueueControl, Release, NeedIdr
  <2> QED
    BY <2>1, <2>2, OneCallGoesOn DEF CallInv
<1>11. CASE WriterStep \/ WriteFails \/ Close \/ UNCHANGED vars
  <2>1. lastFence' = lastFence
    BY <1>11, CaptureStands DEF OtherStep
  <2>2. calls' = calls
    BY <1>11 DEF WriterStep, Acquire, Take, Write, WriterEnds, WriteFails, Close, vars
  <2> QED
    BY <2>1, <2>2 DEF CallInv
<1> QED
  BY <1>3, <1>4, <1>5, <1>6, <1>7, <1>8, <1>9, <1>10, <1>11, NextSteps DEF OtherStep

-----------------------------------------------------------------------------
(* The writer, the permits and the end. *)

LEMMA WriterKeeps ==
    ASSUME TypeOK, CaptureInv, QueueInv, WriterInv, [Next]_vars
    PROVE  WriterInv'
<1>1. /\ lastFence.gen \in Nat /\ barrier \in Nat /\ lastFence'.gen \in Nat
      /\ writer.hand.gen \in Nat /\ writer'.hand \in Frame /\ writer'.hand.gen \in Nat
  <2>1. TypeOK'
    BY TypesKeep
  <2>2. lastFence'.gen \in 0..MaxCaptures /\ writer'.hand \in Frame
    BY <2>1 DEF TypeOK
  <2> QED
    BY <2>2, FrameNumbers, Constants
<1>2. lastFence.gen <= lastFence'.gen
  BY FencesGrow
<1>3. CASE UNCHANGED <<writer, barrier>>
  BY <1>1, <1>2, <1>3 DEF WriterInv, NoVideoAfterItsFence
<1>4. CASE Acquire \/ WriteFails \/ WriterEnds
  <2>1. barrier' = barrier /\ writer'.hand = writer.hand /\ writer'.at # "write"
    BY <1>4 DEF Acquire, WriteFails, WriterEnds, history, TypeOK
  <2> QED
    BY <1>1, <1>2, <2>1 DEF WriterInv, NoVideoAfterItsFence
<1>5. CASE Take
  <2>1. barrier' = barrier /\ lastFence' = lastFence
    BY <1>5 DEF Take, history, capture
  <2>2. CASE writer'.hand = writer.hand /\ writer'.at \in {"acquire", "stopped"}
    BY <1>1, <2>1, <2>2 DEF WriterInv, NoVideoAfterItsFence
  <2>3. CASE \/ \E j \in DOMAIN controlQueue : writer'.hand = controlQueue[j]
             \/ \E j \in DOMAIN videoQueue : writer'.hand = videoQueue[j]
    <3>1. QueuedOK(writer'.hand, lastFence.gen)
      BY <2>3 DEF QueueInv
    <3> QED
      BY <1>1, <2>1, <3>1 DEF WriterInv, QueuedOK, NoVideoAfterItsFence, Video
  <2> QED
    BY <1>5, <2>2, <2>3, Taken
<1>6. CASE Write
  <2>1. /\ writer'.hand = Control /\ writer'.at # "write" /\ lastFence' = lastFence
        /\ barrier' \in {barrier, writer.hand.gen}
        /\ barrier' = writer.hand.gen => writer.hand.kind = "fence" \/ barrier' = barrier
    BY <1>6 DEF Write, Loop, NoFrame, capture
  <2> QED
    BY <1>1, <2>1, Frames DEF WriterInv, NoVideoAfterItsFence
<1>7. Acquire \/ WriteFails \/ WriterEnds \/ Take \/ Write \/ UNCHANGED <<writer, barrier>>
  <2>1. CASE BeginCapture \/ StopVideo \/ CloseClears \/ ForceRecovery
    BY <2>1 DEF BeginCapture, StopVideo, CloseClears, ForceRecovery, history
  <2>2. ASSUME NEW r \in 1..MaxRequests, FenceReply(r) PROVE UNCHANGED <<writer, barrier>>
    BY <2>2 DEF FenceReply, history
  <2>3. ASSUME NEW g \in Captures, SetCodecConfig(g) \/ SendVideoConfig(g)
        PROVE  UNCHANGED <<writer, barrier>>
    BY <2>3 DEF SetCodecConfig, SendVideoConfig, history
  <2>4. ASSUME NEW g \in Captures, NEW n \in 1..MaxUnits, NEW key \in BOOLEAN,
               SendAccessUnit(g, n, key)
        PROVE  UNCHANGED <<writer, barrier>>
    BY <2>4 DEF SendAccessUnit, UnitRefused, UnitDropped, UnitQueued, Delivers
  <2>5. ASSUME NEW t \in Threads, SendControl(t) \/ CallStep(t)
        PROVE  UNCHANGED <<writer, barrier>>
    BY <2>5 DEF SendControl, CallStep, CheckControl, EnqueueControl, Release, NeedIdr, history
  <2>6. CASE Close \/ UNCHANGED vars
    BY <2>6 DEF Close, vars, history
  <2> QED
    BY <2>1, <2>2, <2>3, <2>4, <2>5, <2>6, NextSteps DEF OtherStep, WriterStep
<1> QED
  BY <1>3, <1>4, <1>5, <1>6, <1>7

\* After the end nothing is queued any more.
LEMMA QueuesStayEmpty ==
    ASSUME TypeOK, [Next]_vars, ~running, controlQueue = <<>>, videoQueue = <<>>
    PROVE  controlQueue' = <<>> /\ videoQueue' = <<>>
<1>1. ASSUME ClearVideo
      PROVE  controlQueue' = <<>> /\ videoQueue' = <<>>
  <2>1. controlQueue' \in Seq(Frame) /\ Len(controlQueue') <= 0 /\ videoQueue' = <<>>
    BY <1>1, Cleared, EmptyQueue
  <2> QED
    BY <2>1
<1>2. CASE BeginCapture \/ StopVideo
  BY <1>1, <1>2 DEF BeginCapture, StopVideo
<1>3. ASSUME NEW r \in 1..MaxRequests, FenceReply(r)
      PROVE  controlQueue' = <<>> /\ videoQueue' = <<>>
  BY <1>1, <1>3 DEF FenceReply, FenceOnce
<1>4. ASSUME NEW g \in Captures, SetCodecConfig(g) \/ SendVideoConfig(g)
      PROVE  controlQueue' = <<>> /\ videoQueue' = <<>>
  BY <1>4 DEF SetCodecConfig, SendVideoConfig, queues
<1>5. ASSUME NEW g \in Captures, NEW n \in 1..MaxUnits, NEW key \in BOOLEAN,
             SendAccessUnit(g, n, key)
      PROVE  controlQueue' = <<>> /\ videoQueue' = <<>>
  BY <1>5 DEF SendAccessUnit, UnitRefused, UnitDropped, UnitQueued, Refuses, Accepts, queues
<1>6. CASE ForceRecovery \/ CloseClears
  BY <1>6 DEF ForceRecovery, CloseClears
<1>7. ASSUME NEW t \in Threads, SendControl(t) \/ CallStep(t)
      PROVE  controlQueue' = <<>> /\ videoQueue' = <<>>
  BY <1>7 DEF SendControl, CallStep, CheckControl, EnqueueControl, Expected, Release, NeedIdr, queues
<1>8. CASE WriterStep \/ WriteFails \/ Close \/ UNCHANGED vars
  BY <1>8 DEF WriterStep, Acquire, Take, Write, WriterEnds, WriteFails, Close, vars, queues
<1> QED
  BY <1>2, <1>3, <1>4, <1>5, <1>6, <1>7, <1>8, NextSteps DEF OtherStep

LEMMA CloseKeeps ==
    ASSUME TypeOK, CloseInv, [Next]_vars
    PROVE  CloseInv'
<1>1. late \in Nat /\ running \in BOOLEAN /\ late' \in Nat
  BY TypesKeep DEF TypeOK
<1>2. CASE UNCHANGED <<running, closing, writer, late>>
  BY <1>2, QueuesStayEmpty DEF CloseInv
<1>3. CASE Acquire \/ Take \/ WriteFails \/ WriterEnds
  <2>1. /\ closing' = closing /\ late' = late /\ writer.at # "stopped"
        /\ (~running => ~running')
    BY <1>3 DEF Acquire, Take, WriteFails, WriterEnds, history
  <2>2. late = 0
    BY <1>1, <2>1 DEF CloseInv
  <2>3. late' <= 1 /\ ~(late' > 0)
    BY <2>1, <2>2
  <2>4. closing' = "closed" => controlQueue' = <<>> /\ videoQueue' = <<>>
    BY <2>1, QueuesStayEmpty DEF CloseInv
  <2> QED
    BY <2>1, <2>3, <2>4 DEF CloseInv
<1>4. CASE Write
  <2>1. /\ closing' = closing /\ running' = running /\ writer.at # "stopped"
        /\ late' = IF running THEN late ELSE late + 1
        /\ writer'.at = IF running THEN "acquire" ELSE "stopped"
    BY <1>4 DEF Write, Loop
  <2>2. late = 0
    BY <1>1, <2>1 DEF CloseInv
  <2>3. late' <= 1 /\ (late' > 0 => ~running' /\ writer'.at = "stopped")
    BY <1>1, <2>1, <2>2
  <2>4. closing' = "closed" => controlQueue' = <<>> /\ videoQueue' = <<>>
    BY <2>1, QueuesStayEmpty DEF CloseInv
  <2> QED
    BY <2>1, <2>3, <2>4 DEF CloseInv
<1>5. CASE Close
  BY <1>5 DEF Close, CloseInv, history
<1>6. CASE CloseClears
  BY <1>6 DEF CloseClears, CloseInv, history
<1>7. Acquire \/ Take \/ WriteFails \/ WriterEnds \/ Write \/ Close \/ CloseClears
      \/ UNCHANGED <<running, closing, writer, late>>
  <2>1. CASE BeginCapture \/ StopVideo
    BY <2>1 DEF BeginCapture, StopVideo, history
  <2>2. ASSUME NEW r \in 1..MaxRequests, FenceReply(r)
        PROVE  UNCHANGED <<running, closing, writer, late>>
    BY <2>2 DEF FenceReply, history
  <2>3. ASSUME NEW g \in Captures, SetCodecConfig(g) \/ SendVideoConfig(g)
        PROVE  UNCHANGED <<running, closing, writer, late>>
    BY <2>3 DEF SetCodecConfig, SendVideoConfig, history
  <2>4. ASSUME NEW g \in Captures, NEW n \in 1..MaxUnits, NEW key \in BOOLEAN,
               SendAccessUnit(g, n, key)
        PROVE  UNCHANGED <<running, closing, writer, late>>
    BY <2>4 DEF SendAccessUnit, UnitRefused, UnitDropped, UnitQueued, Delivers
  <2>5. ASSUME NEW t \in Threads, SendControl(t) \/ CallStep(t)
        PROVE  UNCHANGED <<running, closing, writer, late>>
    BY <2>5 DEF SendControl, CallStep, CheckControl, EnqueueControl, Release, NeedIdr, history
  <2>6. CASE ForceRecovery \/ UNCHANGED vars
    BY <2>6 DEF ForceRecovery, vars, history
  <2> QED
    BY <2>1, <2>2, <2>3, <2>4, <2>5, <2>6, NextSteps DEF OtherStep, WriterStep
<1> QED
  BY <1>2, <1>3, <1>4, <1>5, <1>6, <1>7

Releasing == {t \in Threads : calls[t].at = "release"}
Queued == Len(controlQueue) + Len(videoQueue)

LEMMA PermitNumbers ==
    ASSUME TypeOK
    PROVE  Queued \in Nat /\ wake \in Nat /\ IsFiniteSet(Releasing) /\ Cardinality(Releasing) \in Nat
<1>1. Len(controlQueue) \in Nat /\ Len(videoQueue) \in Nat /\ wake \in Nat
  BY DEF TypeOK
<1>2. IsFiniteSet(Threads)
  <2>1. IsFiniteSet({"ui"}) /\ IsFiniteSet({"ui"} \cup {"reader"})
    BY FS_EmptySet, FS_AddElement
  <2>2. IsFiniteSet(({"ui"} \cup {"reader"}) \cup {"camera"})
    BY <2>1, FS_AddElement
  <2>3. IsFiniteSet((({"ui"} \cup {"reader"}) \cup {"camera"}) \cup {"encoder"})
    BY <2>2, FS_AddElement
  <2>4. Threads = (({"ui"} \cup {"reader"}) \cup {"camera"}) \cup {"encoder"}
    BY DEF Threads
  <2> QED
    BY <2>3, <2>4
<1>3. Releasing \in SUBSET Threads
  BY DEF Releasing
<1>4. IsFiniteSet(Releasing)
  BY <1>2, <1>3, FS_Subset
<1> QED
  BY <1>1, <1>4, FS_CardinalityType DEF Queued

LEMMA ReleasingStands ==
    ASSUME TypeOK, NEW t \in Threads, calls[t].at # "release", NEW c, c.at # "release",
           calls' = calls \/ calls' = [calls EXCEPT ![t] = c]
    PROVE  Releasing' = Releasing
<1>1. calls \in [Threads -> Call]
  BY DEF TypeOK
<1>2. \A u \in Threads : calls'[u].at = "release" <=> calls[u].at = "release"
  BY <1>1
<1> QED
  BY <1>2 DEF Releasing

\* A frame fewer, or none more, and the permits as they were.
NoMoreQueued ==
    Queued' <= Queued /\ UNCHANGED <<running, wake, writer>> /\ Releasing' = Releasing

LEMMA ClearingKeepsPermits ==
    ASSUME TypeOK, ClearVideo
    PROVE  Queued' <= Queued
<1>1. /\ controlQueue' \in Seq(Frame) /\ Len(controlQueue') <= Len(controlQueue)
      /\ videoQueue' = <<>>
  BY Cleared
<1>2. controlQueue \in Seq(Frame) /\ videoQueue \in Seq(Frame)
  BY DEF TypeOK
<1>3. Len(controlQueue) \in Nat /\ Len(videoQueue) \in Nat /\ Len(controlQueue') \in Nat
      /\ Len(videoQueue') = 0
  BY <1>1, <1>2, EmptyQueue
<1> QED
  BY <1>1, <1>3 DEF Queued

LEMMA Counting ==
    ASSUME TypeOK
    PROVE  /\ Len(controlQueue) \in Nat /\ Len(videoQueue) \in Nat
           /\ Len(<<>>) = 0
           /\ "ui" \in Threads /\ "reader" \in Threads /\ "camera" \in Threads /\ "encoder" \in Threads
           /\ calls \in [Threads -> Call]
BY EmptyQueue DEF TypeOK, Threads

\* The owner, the producers and the reader's recovery add no frame, unless with
\* its permit.
LEMMA ProducersKeepPermits ==
    ASSUME TypeOK, [Next]_vars,
           \/ BeginCapture \/ StopVideo \/ CloseClears \/ ForceRecovery
           \/ \E r \in 1..MaxRequests : FenceReply(r)
           \/ \E g \in Captures : SetCodecConfig(g) \/ SendVideoConfig(g)
           \/ \E g \in Captures, n \in 1..MaxUnits, key \in BOOLEAN : SendAccessUnit(g, n, key)
           \/ \E t \in Threads : SendControl(t)
    PROVE  \/ NoMoreQueued
           \/ /\ UNCHANGED <<running, writer>> /\ Releasing' = Releasing
              /\ wake' = wake + 1 /\ Queued' <= Queued + 1
<1> DEFINE idr == [Idle EXCEPT !.at = "idr", !.idr = TRUE]
<1>1. idr.at = "idr"
  BY DEF Idle
<1> HIDE DEF idr
<1>2. CASE BeginCapture \/ StopVideo
  <2>1. ClearVideo /\ UNCHANGED <<running, wake, writer, calls>>
    BY <1>2 DEF BeginCapture, StopVideo
  <2> QED
    BY <2>1, ClearingKeepsPermits DEF NoMoreQueued, Releasing
<1>3. CASE CloseClears
  <2>1. /\ controlQueue' = <<>> /\ videoQueue' = <<>>
        /\ UNCHANGED <<running, wake, writer, calls>>
    BY <1>3 DEF CloseClears
  <2> QED
    BY <2>1, Counting DEF NoMoreQueued, Releasing, Queued
<1>4. CASE ForceRecovery
  <2> DEFINE c == [at |-> "check", frame |-> Config(generation, videoConfig),
                   token |-> generation, idr |-> TRUE]
  <2>1. /\ controlQueue' = controlQueue /\ videoQueue' = <<>> /\ UNCHANGED <<running, wake, writer>>
        /\ calls["reader"].at = "idle"
        /\ calls' = [calls EXCEPT !["reader"] = c] \/ calls' = [calls EXCEPT !["reader"] = idr]
    BY <1>4 DEF ForceRecovery, Enqueuing, idr
  <2>2. c.at = "check"
    OBVIOUS
  <2> HIDE DEF c
  <2>3. Releasing' = Releasing
    BY <1>1, <2>1, <2>2, Counting, ReleasingStands
  <2> QED
    BY <2>1, <2>3, Counting DEF NoMoreQueued, Queued
<1>5. ASSUME NEW r \in 1..MaxRequests, FenceReply(r)
      PROVE  NoMoreQueued
  <2> DEFINE c == [at |-> "check", frame |-> Fence(lastFence'.gen), token |-> 0, idr |-> FALSE]
  <2>1. /\ UNCHANGED <<running, wake, writer>> /\ calls["ui"].at = "idle"
        /\ calls' = [calls EXCEPT !["ui"] = c]
        /\ ClearVideo \/ UNCHANGED <<controlQueue, videoQueue>>
    BY <1>5 DEF FenceReply, FenceOnce, Enqueuing
  <2>2. c.at = "check"
    OBVIOUS
  <2> HIDE DEF c
  <2>3. Releasing' = Releasing
    BY <2>1, <2>2, Counting, ReleasingStands
  <2>4. Queued' <= Queued
    <3>1. CASE ClearVideo
      BY <3>1, ClearingKeepsPermits
    <3>2. CASE UNCHANGED <<controlQueue, videoQueue>>
      BY <3>2, Counting DEF Queued
    <3> QED
      BY <2>1, <3>1, <3>2
  <2> QED
    BY <2>1, <2>3, <2>4 DEF NoMoreQueued
<1>6. ASSUME NEW g \in Captures, SetCodecConfig(g)
      PROVE  NoMoreQueued
  BY <1>6, Counting DEF SetCodecConfig, NoMoreQueued, Queued, Releasing, queues
<1>7. ASSUME NEW g \in Captures, SendVideoConfig(g)
      PROVE  NoMoreQueued
  <2> DEFINE c == [at |-> "check", frame |-> Config(g, g), token |-> g, idr |-> TRUE]
  <2>1. /\ UNCHANGED <<running, wake, writer, controlQueue, videoQueue>>
        /\ calls["camera"].at = "idle"
        /\ calls' = calls \/ calls' = [calls EXCEPT !["camera"] = c]
    BY <1>7 DEF SendVideoConfig, Enqueuing, queues
  <2>2. c.at = "check"
    OBVIOUS
  <2> HIDE DEF c
  <2>3. Releasing' = Releasing
    BY <2>1, <2>2, Counting, ReleasingStands
  <2> QED
    BY <2>1, <2>3, Counting DEF NoMoreQueued, Queued
<1>8. ASSUME NEW g \in Captures, NEW n \in 1..MaxUnits, NEW key \in BOOLEAN,
             SendAccessUnit(g, n, key)
      PROVE  \/ NoMoreQueued
             \/ /\ UNCHANGED <<running, writer>> /\ Releasing' = Releasing
                /\ wake' = wake + 1 /\ Queued' <= Queued + 1
  <2>1. /\ UNCHANGED <<running, writer, controlQueue>> /\ calls["encoder"].at = "idle"
        /\ calls' = calls \/ calls' = [calls EXCEPT !["encoder"] = idr]
    BY <1>8 DEF SendAccessUnit, UnitRefused, UnitDropped, UnitQueued, Delivers, AfterDrop, NeedsIdr,
       queues, idr
  <2>2. Releasing' = Releasing
    BY <1>1, <2>1, Counting, ReleasingStands
  <2>3. CASE UnitRefused(g, n, key) \/ UnitDropped(g, n, key)
    <3>1. wake' = wake /\ (videoQueue' = videoQueue \/ videoQueue' = <<>>)
      BY <2>3 DEF UnitRefused, UnitDropped, StartRecovery, queues
    <3> QED
      BY <2>1, <2>2, <3>1, Counting DEF NoMoreQueued, Queued
  <2>4. CASE UnitQueued(g, n, key)
    <3> DEFINE kept == IF Overflows THEN <<>> ELSE videoQueue
               unit == QueuedUnit(g, n, key)
    <3>1. wake' = wake + 1 /\ videoQueue' = Append(kept, unit)
      BY <2>4 DEF UnitQueued
    <3>2. kept \in Seq(Frame) /\ Len(kept) <= Len(videoQueue)
      BY Counting, EmptyQueue DEF TypeOK
    <3> HIDE DEF kept, unit
    <3>3. Len(videoQueue') = Len(kept) + 1 /\ Len(kept) \in Nat
      BY <3>1, <3>2
    <3> QED
      BY <2>1, <2>2, <3>1, <3>2, <3>3, Counting DEF Queued
  <2> QED
    BY <1>8, <2>3, <2>4 DEF SendAccessUnit
<1>9. ASSUME NEW t \in Threads, SendControl(t)
      PROVE  NoMoreQueued
  <2> DEFINE c == [at |-> "check", frame |-> Control, token |-> 0, idr |-> FALSE]
  <2>1. /\ UNCHANGED <<running, wake, writer, controlQueue, videoQueue>>
        /\ calls[t].at = "idle" /\ calls' = [calls EXCEPT ![t] = c]
    BY <1>9 DEF SendControl, Enqueuing, queues
  <2>2. c.at = "check"
    OBVIOUS
  <2> HIDE DEF c
  <2>3. Releasing' = Releasing
    BY <2>1, <2>2, ReleasingStands
  <2> QED
    BY <2>1, <2>3, Counting DEF NoMoreQueued, Queued
<1> QED
  BY <1>2, <1>3, <1>4, <1>5, <1>6, <1>7, <1>8, <1>9

LEMMA PermitsKeep ==
    ASSUME TypeOK, NoStrandedFrame, [Next]_vars
    PROVE  NoStrandedFrame'
<1> DEFINE taking == IF writer.at = "take" THEN 1 ELSE 0
<1>1. /\ Queued \in Nat /\ wake \in Nat /\ IsFiniteSet(Releasing)
      /\ Cardinality(Releasing) \in Nat
      /\ (running => Queued <= wake + Cardinality(Releasing) + taking)
  BY PermitNumbers DEF NoStrandedFrame, Queued, Releasing
<1>2. SUFFICES running' => Queued' <= wake' + Cardinality(Releasing') + taking'
  BY DEF NoStrandedFrame, Queued, Releasing
<1>3. CASE NoMoreQueued
  <2>1. taking' = taking /\ Cardinality(Releasing') = Cardinality(Releasing)
        /\ running' = running /\ wake' = wake /\ Queued' <= Queued
    BY <1>3 DEF NoMoreQueued
  <2>2. Queued' \in Nat
    BY TypesKeep DEF TypeOK, Queued
  <2> HIDE DEF taking
  <2>3. taking \in {0, 1}
    BY DEF taking
  <2> QED
    BY <1>1, <2>1, <2>2, <2>3
<1>4. CASE /\ UNCHANGED <<running, writer>> /\ Releasing' = Releasing
           /\ wake' = wake + 1 /\ Queued' <= Queued + 1
  <2>1. taking' = taking /\ Cardinality(Releasing') = Cardinality(Releasing)
        /\ running' = running /\ wake' = wake + 1 /\ Queued' <= Queued + 1
    BY <1>4
  <2>2. Queued' \in Nat
    BY TypesKeep DEF TypeOK, Queued
  <2> HIDE DEF taking
  <2>3. taking \in {0, 1}
    BY DEF taking
  <2> QED
    BY <1>1, <2>1, <2>2, <2>3
<1>5. ASSUME NEW t \in Threads, CheckControl(t) \/ NeedIdr(t)
      PROVE  NoMoreQueued
  <2>1. /\ UNCHANGED <<running, wake, writer, controlQueue, videoQueue>>
        /\ calls[t].at \in {"check", "idr"}
        /\ \/ calls' = [calls EXCEPT ![t].at = "enqueue"]
           \/ calls' = Returns(t) \/ calls' = [calls EXCEPT ![t] = Idle]
    BY <1>5 DEF CheckControl, NeedIdr, queues
  <2>2. \A u \in Threads : calls'[u].at = "release" <=> calls[u].at = "release"
    <3>1. CASE calls' = [calls EXCEPT ![t].at = "enqueue"]
      <4>1. \A u \in Threads : calls'[u].at = IF u = t THEN "enqueue" ELSE calls[u].at
        BY <3>1, Counting DEF Call
      <4> QED
        BY <2>1, <4>1
    <3>2. CASE calls' = Returns(t)
      BY <2>1, <3>2, Counting DEF Returns, Idle
    <3>3. CASE calls' = [calls EXCEPT ![t] = Idle]
      BY <2>1, <3>3, Counting DEF Idle
    <3> QED
      BY <2>1, <3>1, <3>2, <3>3
  <2>3. Releasing' = Releasing
    BY <2>2 DEF Releasing
  <2> QED
    BY <2>1, <2>3, Counting DEF NoMoreQueued, Queued
<1>6. ASSUME NEW t \in Threads, EnqueueControl(t)
      PROVE  running' => Queued' <= wake' + Cardinality(Releasing') + taking'
  <2>1. /\ UNCHANGED <<running, wake, writer, videoQueue>> /\ calls[t].at = "enqueue"
    BY <1>6 DEF EnqueueControl
  <2>2. CASE calls' = Returns(t) /\ controlQueue' = controlQueue
    <3>1. \A u \in Threads : calls'[u].at = "release" <=> calls[u].at = "release"
      BY <2>1, <2>2, Counting DEF Returns, Idle
    <3>2. Releasing' = Releasing
      BY <3>1 DEF Releasing
    <3> QED
      BY <1>3, <2>1, <2>2, <3>2, Counting DEF NoMoreQueued, Queued
  <2>3. CASE /\ controlQueue' = Append(controlQueue, calls[t].frame)
             /\ calls' = [calls EXCEPT ![t].at = "release"]
    <3>1. Queued' = Queued + 1
      <4>1. calls[t].frame \in Frame /\ controlQueue \in Seq(Frame)
        BY FrameNumbers DEF Call, TypeOK
      <4>2. Len(controlQueue') = Len(controlQueue) + 1
        BY <2>3, <4>1
      <4> QED
        BY <2>1, <4>2, Counting DEF Queued
    <3>2. Releasing' = Releasing \cup {t} /\ t \notin Releasing
      <4>1. \A u \in Threads : calls'[u].at = IF u = t THEN "release" ELSE calls[u].at
        BY <2>3, Counting DEF Call
      <4> QED
        BY <2>1, <4>1 DEF Releasing
    <3>3. Cardinality(Releasing') = Cardinality(Releasing) + 1
      BY <1>1, <3>2, FS_AddElement
    <3>4. taking' = taking
      BY <2>1
    <3> HIDE DEF taking
    <3>5. taking \in {0, 1}
      BY DEF taking
    <3> QED
      BY <1>1, <2>1, <3>1, <3>3, <3>4, <3>5
  <2> QED
    BY <1>6, <2>2, <2>3 DEF EnqueueControl
<1>7. ASSUME NEW t \in Threads, Release(t)
      PROVE  running' => Queued' <= wake' + Cardinality(Releasing') + taking'
  <2>1. /\ UNCHANGED <<running, writer, controlQueue, videoQueue>> /\ calls[t].at = "release"
        /\ wake' = wake + 1 /\ calls' = Returns(t)
    BY <1>7 DEF Release, Permit
  <2>2. Releasing' = Releasing \ {t} /\ t \in Releasing
    <3>1. \A u \in Threads : IF u = t THEN calls'[u].at # "release" ELSE calls'[u].at = calls[u].at
      BY <2>1, Counting DEF Returns, Idle
    <3> QED
      BY <2>1, <3>1 DEF Releasing
  <2>3. Cardinality(Releasing') = Cardinality(Releasing) - 1
    BY <1>1, <2>2, FS_RemoveElement
  <2>4. taking' = taking /\ Queued' = Queued
    BY <2>1 DEF Queued
  <2> HIDE DEF taking
  <2>5. taking \in {0, 1}
    BY DEF taking
  <2> QED
    BY <1>1, <2>1, <2>3, <2>4, <2>5
<1>8. CASE Acquire
  <2>1. /\ UNCHANGED <<running, controlQueue, videoQueue, calls>> /\ writer.at = "acquire"
        /\ wake' = wake - 1 /\ (running => writer'.at = "take")
    BY <1>8 DEF Acquire, TypeOK
  <2>2. Queued' = Queued /\ Releasing' = Releasing
    BY <2>1 DEF Queued, Releasing
  <2>3. taking = 0 /\ (running => taking' = 1)
    BY <2>1
  <2> HIDE DEF taking
  <2> QED
    BY <1>1, <2>1, <2>2, <2>3
<1>9. CASE Take
  <2>1. /\ UNCHANGED <<running, wake, calls>> /\ writer.at = "take"
        /\ writer'.at # "take"
    BY <1>9, Taken DEF Take
  <2>2. \/ Queued' = Queued - 1
        \/ Queued' = 0
    BY <1>9, Taken, EmptyQueue DEF Queued
  <2>3. Releasing' = Releasing
    BY <2>1 DEF Releasing
  <2>4. taking = 1 /\ taking' = 0
    BY <2>1
  <2> HIDE DEF taking
  <2> QED
    BY <1>1, <2>1, <2>2, <2>3, <2>4
<1>10. CASE Write \/ WriteFails
  <2>1. /\ UNCHANGED <<running, wake, controlQueue, videoQueue, calls>>
        /\ writer.at # "take" /\ writer'.at # "take"
    BY <1>10 DEF Write, WriteFails, Loop, queues, TypeOK
  <2>2. Queued' = Queued /\ Releasing' = Releasing /\ taking = 0 /\ taking' = 0
    BY <2>1 DEF Queued, Releasing
  <2> HIDE DEF taking
  <2> QED
    BY <1>1, <2>1, <2>2
<1>11. CASE WriterEnds \/ Close
  BY <1>11 DEF WriterEnds, Close
<1>12. CASE UNCHANGED vars
  <2>1. NoMoreQueued
    BY <1>12, Counting DEF vars, queues, NoMoreQueued, Queued, Releasing
  <2> QED
    BY <1>3, <2>1
<1> HIDE DEF taking
<1>13. ASSUME \/ BeginCapture \/ StopVideo \/ CloseClears \/ ForceRecovery
              \/ \E r \in 1..MaxRequests : FenceReply(r)
              \/ \E g \in Captures : SetCodecConfig(g) \/ SendVideoConfig(g)
              \/ \E g \in Captures, n \in 1..MaxUnits, key \in BOOLEAN : SendAccessUnit(g, n, key)
              \/ \E t \in Threads : SendControl(t)
       PROVE  running' => Queued' <= wake' + Cardinality(Releasing') + taking'
  BY <1>3, <1>4, <1>13, ProducersKeepPermits
<1>14. ASSUME NEW t \in Threads, CallStep(t)
       PROVE  running' => Queued' <= wake' + Cardinality(Releasing') + taking'
  BY <1>3, <1>5, <1>6, <1>7, <1>14 DEF CallStep
<1>15. CASE OtherStep /\ ~\E t \in Threads : SendControl(t)
  BY <1>8, <1>9, <1>10, <1>11, <1>12, <1>14, <1>15 DEF OtherStep, WriterStep
<1> QED
  BY <1>13, <1>15, NextSteps

-----------------------------------------------------------------------------
(* Keyframes. *)

\* A thread that turns to something new was idle, so that no other request is
\* lost.
LEMMA AskingStands ==
    ASSUME TypeOK, AskInv, NEW t \in Threads, calls[t].at = "idle", NEW c,
           c.at # "idle",
           calls' = calls \/ calls' = [calls EXCEPT ![t] = c]
    PROVE  /\ \A u \in Threads : calls'[u].at = "idle" => ~calls'[u].idr
           /\ \A u \in Threads : calls[u].idr => calls'[u].idr
<1>1. calls \in [Threads -> Call] /\ ~calls[t].idr
  BY DEF TypeOK, AskInv
<1> QED
  BY <1>1 DEF AskInv

LEMMA KeyframesKeep ==
    ASSUME TypeOK, CaptureInv, AskInv, [Next]_vars
    PROVE  AskInv'
<1> DEFINE idr == [Idle EXCEPT !.at = "idr", !.idr = TRUE]
<1>1. idr.at = "idr" /\ idr.idr = TRUE
  BY DEF Idle
<1> HIDE DEF idr
<1>2. CASE BeginCapture \/ StopVideo \/ CloseClears
  <2>1. calls' = calls /\ videoConfig' = 0
    BY <1>2 DEF BeginCapture, StopVideo, CloseClears, ClearVideo, ClearMetadata
  <2> QED
    BY <2>1 DEF AskInv, KeyframeIsRequested, NeedsKeyframe
<1>3. ASSUME NEW r \in 1..MaxRequests, FenceReply(r)
      PROVE  AskInv'
  <2> DEFINE c == [at |-> "check", frame |-> Fence(lastFence'.gen), token |-> 0, idr |-> FALSE]
  <2>1. /\ calls["ui"].at = "idle" /\ calls' = [calls EXCEPT !["ui"] = c]
        /\ UNCHANGED <<running, encoded, asked, synced>>
        /\ videoConfig' = 0 \/ UNCHANGED capture
    BY <1>3 DEF FenceReply, FenceOnce, Enqueuing, ClearVideo, ClearMetadata, history
  <2>2. c.at = "check"
    OBVIOUS
  <2> HIDE DEF c
  <2>3. /\ \A u \in Threads : calls'[u].at = "idle" => ~calls'[u].idr
        /\ \A u \in Threads : calls[u].idr => calls'[u].idr
    BY <2>1, <2>2, Counting, AskingStands
  <2> QED
    BY <2>1, <2>3 DEF AskInv, KeyframeIsRequested, NeedsKeyframe, capture
<1>4. ASSUME NEW g \in Captures, SetCodecConfig(g)
      PROVE  AskInv'
  <2>1. /\ UNCHANGED <<running, videoEnabled, videoConfig, recovering, calls, asked, synced, generation>>
        /\ encoded[g] = -1 /\ encoded' = [encoded EXCEPT ![g] = 0]
    BY <1>4 DEF SetCodecConfig, history
  <2>2. encoded'[generation] > 0 => encoded[generation] = encoded'[generation]
    <3>1. encoded \in [Captures -> -1..MaxUnits]
      BY DEF TypeOK
    <3>2. encoded'[g] = 0
      BY <2>1, <3>1
    <3>3. generation # g => encoded'[generation] = encoded[generation]
      BY <2>1
    <3> QED
      BY <3>2, <3>3
  <2> QED
    BY <2>1, <2>2 DEF AskInv, KeyframeIsRequested, NeedsKeyframe
<1>5. ASSUME NEW g \in Captures, SendVideoConfig(g)
      PROVE  AskInv'
  <2> DEFINE c == [at |-> "check", frame |-> Config(g, g), token |-> g, idr |-> TRUE]
  <2>1. /\ calls["camera"].at = "idle"
        /\ calls' = [calls EXCEPT !["camera"] = c] \/ UNCHANGED <<videoConfig, calls>>
        /\ UNCHANGED <<running, videoEnabled, generation, recovering, encoded, asked, synced>>
    BY <1>5 DEF SendVideoConfig, Enqueuing, history
  <2>2. c.at = "check" /\ c.idr = TRUE
    OBVIOUS
  <2> HIDE DEF c
  <2>3. \A u \in Threads : calls'[u].at = "idle" => ~calls'[u].idr
    BY <2>1, <2>2, Counting, AskingStands
  <2>4. CASE calls' = [calls EXCEPT !["camera"] = c]
    <3>1. calls'["camera"].idr
      BY <2>2, <2>4, Counting
    <3> QED
      BY <2>3, <3>1, Counting DEF AskInv, KeyframeIsRequested
  <2>5. CASE UNCHANGED <<videoConfig, calls>>
    BY <2>1, <2>3, <2>5 DEF AskInv, KeyframeIsRequested, NeedsKeyframe
  <2> QED
    BY <2>1, <2>4, <2>5
<1>6. ASSUME NEW g \in Captures, NEW n \in 1..MaxUnits, NEW key \in BOOLEAN,
             SendAccessUnit(g, n, key)
      PROVE  AskInv'
  <2>1. /\ calls["encoder"].at = "idle" /\ encoded[g] = n - 1 /\ n = encoded[g] + 1
        /\ encoded' = [encoded EXCEPT ![g] = n] /\ (n = 1 => key)
        /\ asked' = (asked /\ ~(key /\ g = generation))
        /\ UNCHANGED <<running, generation, videoEnabled, videoConfig>>
    <3>1. Delivers(g, n, key)
      BY <1>6 DEF SendAccessUnit, UnitRefused, UnitDropped, UnitQueued
    <3>2. encoded[g] \in -1..MaxUnits /\ n \in Nat
      BY DEF TypeOK
    <3>3. n = encoded[g] + 1
      BY <3>1 DEF Delivers
    <3>4. encoded[g] = n - 1
      BY <3>2, <3>3
    <3> QED
      BY <3>1, <3>3, <3>4 DEF Delivers
  <2>2. encoded'[g] = n /\ (generation # g => encoded'[generation] = encoded[generation])
    <3>1. encoded \in [Captures -> -1..MaxUnits]
      BY DEF TypeOK
    <3> QED
      BY <2>1, <3>1
  <2>3. calls' = calls \/ calls' = [calls EXCEPT !["encoder"] = idr]
    BY <1>6 DEF SendAccessUnit, UnitRefused, UnitDropped, UnitQueued, AfterDrop, NeedsIdr, idr
  <2>4. /\ \A u \in Threads : calls'[u].at = "idle" => ~calls'[u].idr
        /\ \A u \in Threads : calls[u].idr => calls'[u].idr
    BY <1>1, <2>1, <2>3, Counting, AskingStands
  <2>5. CASE calls' = [calls EXCEPT !["encoder"] = idr]
    <3>1. calls'["encoder"].idr
      BY <1>1, <2>5, Counting
    <3> QED
      BY <2>4, <3>1, Counting DEF AskInv, KeyframeIsRequested
  <2>6. CASE UnitRefused(g, n, key)
    <3>1. synced' = synced /\ recovering' = recovering
      BY <2>6 DEF UnitRefused
    <3>2. CASE running /\ videoEnabled /\ g = generation
      <4>1. videoConfig = 0
        BY <2>6, <3>2 DEF UnitRefused, Refuses, Accepts
      <4> QED
        BY <2>1, <2>4, <4>1 DEF AskInv, KeyframeIsRequested, NeedsKeyframe
    <3>3. CASE g # generation
      BY <2>1, <2>2, <2>4, <3>1, <3>3 DEF AskInv, KeyframeIsRequested, NeedsKeyframe
    <3>4. CASE ~running \/ ~videoEnabled
      BY <2>1, <2>4, <3>4 DEF AskInv, KeyframeIsRequested, NeedsKeyframe
    <3> QED
      BY <3>2, <3>3, <3>4
  <2>7. CASE UnitDropped(g, n, key) /\ calls' = calls
    <3>1. CASE recovering
      <4>1. asked' = asked
        BY <2>1, <2>7 DEF UnitDropped, TypeOK
      <4>2. NeedsKeyframe' => NeedsKeyframe
        BY <2>1, <3>1 DEF NeedsKeyframe
      <4> QED
        BY <2>4, <4>1, <4>2 DEF AskInv, KeyframeIsRequested
    <3>2. CASE ~recovering
      <4>1. calls' = [calls EXCEPT !["encoder"] = idr]
        BY <2>7, <3>2 DEF UnitDropped, AfterDrop, NeedsIdr, idr
      <4> QED
        BY <2>5, <4>1
    <3> QED
      BY <3>1, <3>2
  <2>8. CASE UnitQueued(g, n, key)
    <3>1. /\ g = generation /\ recovering' = FALSE
          /\ synced' = IF key \/ synced = n - 1 THEN n ELSE synced
      BY <2>8 DEF UnitQueued, Refuses, Accepts
    <3>2. CASE synced' = n
      BY <2>2, <2>4, <2>1, <3>1, <3>2 DEF AskInv, KeyframeIsRequested, NeedsKeyframe
    <3>3. CASE ~key /\ synced # n - 1
      <4>1. asked' = asked /\ n # 1
        BY <2>1, <3>3 DEF TypeOK
      <4>2. encoded[generation] > 0 /\ synced # encoded[generation]
        BY <2>1, <3>1, <3>3, <4>1
      <4>3. NeedsKeyframe' => NeedsKeyframe
        BY <2>1, <4>2 DEF NeedsKeyframe
      <4> QED
        BY <2>4, <4>1, <4>3 DEF AskInv, KeyframeIsRequested
    <3> QED
      BY <3>1, <3>2, <3>3
  <2> QED
    BY <1>6, <2>3, <2>5, <2>6, <2>7, <2>8 DEF SendAccessUnit
<1>7. CASE ForceRecovery
  <2> DEFINE c == [at |-> "check", frame |-> Config(generation, videoConfig),
                   token |-> generation, idr |-> TRUE]
  <2>1. /\ calls["reader"].at = "idle"
        /\ calls' = [calls EXCEPT !["reader"] = c] \/ calls' = [calls EXCEPT !["reader"] = idr]
    BY <1>7 DEF ForceRecovery, Enqueuing, idr
  <2>2. c.at = "check" /\ c.idr = TRUE
    OBVIOUS
  <2> HIDE DEF c
  <2>3. \A u \in Threads : calls'[u].at = "idle" => ~calls'[u].idr
    BY <1>1, <2>1, <2>2, Counting, AskingStands
  <2>4. calls'["reader"].idr
    BY <1>1, <2>1, <2>2, Counting
  <2> QED
    BY <2>3, <2>4, Counting DEF AskInv, KeyframeIsRequested
<1>8. ASSUME NEW t \in Threads, SendControl(t)
      PROVE  AskInv'
  <2> DEFINE c == [at |-> "check", frame |-> Control, token |-> 0, idr |-> FALSE]
  <2>1. /\ UNCHANGED <<running, capture, encoded, history>>
        /\ calls[t].at = "idle" /\ calls' = [calls EXCEPT ![t] = c]
    BY <1>8 DEF SendControl, Enqueuing
  <2>2. c.at = "check"
    OBVIOUS
  <2> HIDE DEF c
  <2>3. /\ \A u \in Threads : calls'[u].at = "idle" => ~calls'[u].idr
        /\ \A u \in Threads : calls[u].idr => calls'[u].idr
    BY <2>1, <2>2, AskingStands
  <2> QED
    BY <2>1, <2>3 DEF AskInv, KeyframeIsRequested, NeedsKeyframe, capture, history
<1>9. ASSUME NEW t \in Threads, CheckControl(t) \/ EnqueueControl(t) \/ Release(t)
      PROVE  AskInv'
  <2>1. /\ UNCHANGED <<running, capture, encoded, history>> /\ calls[t].at # "idle"
        /\ \/ calls' = [calls EXCEPT ![t].at = "enqueue"]
           \/ calls' = [calls EXCEPT ![t].at = "release"]
           \/ calls' = Returns(t)
    BY <1>9 DEF CheckControl, EnqueueControl, Release, environment
  <2>2. /\ \A u \in Threads : calls'[u].at = "idle" => ~calls'[u].idr
        /\ \A u \in Threads : calls[u].idr => calls'[u].idr
    <3>1. CASE calls' = [calls EXCEPT ![t].at = "enqueue"]
      <4>1. \A u \in Threads : /\ calls'[u].at = IF u = t THEN "enqueue" ELSE calls[u].at
                               /\ calls'[u].idr = calls[u].idr
        BY <3>1, Counting DEF Call
      <4> QED
        BY <4>1 DEF AskInv
    <3>2. CASE calls' = [calls EXCEPT ![t].at = "release"]
      <4>1. \A u \in Threads : /\ calls'[u].at = IF u = t THEN "release" ELSE calls[u].at
                               /\ calls'[u].idr = calls[u].idr
        BY <3>2, Counting DEF Call
      <4> QED
        BY <4>1 DEF AskInv
    <3>3. CASE calls' = Returns(t)
      <4>1. ~Idle.idr
        BY DEF Idle
      <4>2. calls' = [calls EXCEPT ![t] = IF calls[t].idr THEN idr ELSE Idle]
        BY <3>3, Counting DEF Returns, idr
      <4> HIDE DEF Idle
      <4>3. \A u \in Threads : calls'[u] = IF u = t THEN IF calls[t].idr THEN idr ELSE Idle
                                                    ELSE calls[u]
        BY <4>2, Counting
      <4> QED
        BY <1>1, <4>1, <4>3 DEF AskInv
    <3> QED
      BY <2>1, <3>1, <3>2, <3>3
  <2> QED
    BY <2>1, <2>2 DEF AskInv, KeyframeIsRequested, NeedsKeyframe, capture, history
<1>10. ASSUME NEW t \in Threads, NeedIdr(t)
       PROVE  AskInv'
  <2>1. asked' = TRUE /\ calls' = [calls EXCEPT ![t] = Idle] /\ ~Idle.idr
    BY <1>10 DEF NeedIdr, Idle
  <2>2. \A u \in Threads : calls'[u] = IF u = t THEN Idle ELSE calls[u]
    BY <2>1, Counting
  <2> QED
    BY <2>1, <2>2 DEF AskInv, KeyframeIsRequested
<1>11. CASE WriterStep \/ WriteFails \/ Close \/ UNCHANGED vars
  <2>1. /\ UNCHANGED <<capture, encoded, calls, synced, asked>>
        /\ (running' => running)
    BY <1>11 DEF WriterStep, Acquire, Take, Write, WriterEnds, WriteFails, Close, environment,
       history, vars
  <2> QED
    BY <2>1 DEF AskInv, KeyframeIsRequested, NeedsKeyframe, capture
<1> QED
  BY <1>2, <1>3, <1>4, <1>5, <1>6, <1>7, <1>8, <1>9, <1>10, <1>11, NextSteps DEF OtherStep, CallStep

-----------------------------------------------------------------------------
(* Gaps. *)

LEMMA UnitNumbers ==
    ASSUME TypeOK
    PROVE  /\ videoQueue \in Seq(Frame) /\ Len(videoQueue) \in Nat /\ generation \in Nat
           /\ writer.hand \in Frame
           /\ Before.gen \in Nat /\ Before.n \in Nat /\ Newest.gen \in Nat /\ Newest.n \in Nat
           /\ encoded \in [Captures -> -1..MaxUnits]
<1>1. ASSUME NEW f \in Frame
      PROVE  f.gen \in Nat /\ f.n \in Nat
  <2>1. f.gen \in 0..MaxCaptures /\ f.n \in 0..MaxUnits
    BY DEF Frame
  <2> QED
    BY <2>1, Constants
<1>2. /\ videoQueue \in Seq(Frame) /\ generation \in 0..MaxCaptures /\ writer.hand \in Frame
      /\ encoded \in [Captures -> -1..MaxUnits]
      /\ lastWritten.gen \in 0..MaxCaptures /\ lastWritten.n \in 0..MaxUnits
  BY DEF TypeOK
<1>3. generation \in Nat /\ lastWritten.gen \in Nat /\ lastWritten.n \in Nat
  BY <1>2, Constants
<1>4. Before.gen \in Nat /\ Before.n \in Nat
  BY <1>1, <1>2, <1>3 DEF Before
<1>5. videoQueue # <<>> => videoQueue[Len(videoQueue)] \in Frame
  BY <1>2
<1>6. Newest.gen \in Nat /\ Newest.n \in Nat
  BY <1>1, <1>4, <1>5 DEF Newest
<1> QED
  BY <1>2, <1>3, <1>4, <1>6

\* Nothing is sent and nothing queued.
LEMMA GapsStand ==
    ASSUME TypeOK, GapInv, TailOK',
           UNCHANGED <<videoQueue, generation, writer, lastWritten>>
    PROVE  GapInv'
<1>1. Before' = Before
  BY DEF Before
<1> QED
  BY <1>1 DEF GapInv

\* The queue is cleared, in a recovery or at the end of the capture.
LEMMA ClearedGaps ==
    ASSUME TypeOK, GapInv, UNCHANGED <<writer, lastWritten>>, videoQueue' = <<>>,
           generation' \in Nat, generation <= generation',
           ~videoEnabled' \/ recovering' \/ generation < generation'
    PROVE  GapInv'
<1>1. Before' = Before /\ Before.gen \in Nat /\ generation \in Nat /\ Before.gen <= generation
  BY UnitNumbers DEF Before, GapInv
<1>2. Newest' = Before'
  BY DEF Newest
<1>3. Before'.gen <= generation' /\ (generation < generation' => Newest'.gen # generation')
  BY <1>1, <1>2
<1>4. TailOK'
  BY <1>3 DEF TailOK
<1>5. DOMAIN (videoQueue') = {} /\ \A i \in 2..Len(videoQueue') : FALSE
  BY EmptyQueue
<1> QED
  BY <1>3, <1>4, <1>5 DEF GapInv

LEMMA UnitsKeepGaps ==
    ASSUME TypeOK, GapInv, [Next]_vars,
           NEW g \in Captures, NEW n \in 1..MaxUnits, NEW key \in BOOLEAN, SendAccessUnit(g, n, key)
    PROVE  GapInv'
<1>1. /\ n = encoded[g] + 1 /\ encoded' = [encoded EXCEPT ![g] = n]
      /\ UNCHANGED <<running, generation, videoEnabled, videoConfig, writer, lastWritten>>
  BY DEF SendAccessUnit, UnitRefused, UnitDropped, UnitQueued, Delivers
<1>2. /\ encoded'[g] = n /\ encoded[g] = n - 1
      /\ (g # generation => encoded'[generation] = encoded[generation])
  <2>1. encoded[g] \in -1..MaxUnits /\ encoded \in [Captures -> -1..MaxUnits]
    BY DEF TypeOK
  <2> QED
    BY <1>1, <2>1
<1>3. Before' = Before
  BY <1>1 DEF Before
<1>4. CASE UnitRefused(g, n, key)
  <2>1. videoQueue' = videoQueue /\ recovering' = recovering
    BY <1>4 DEF UnitRefused, queues
  <2>2. Newest' = Newest
    BY <1>3, <2>1 DEF Newest
  <2>3. TailOK'
    <3>1. CASE g = generation /\ running /\ videoEnabled
      <4>1. videoConfig = 0
        BY <1>4, <3>1 DEF UnitRefused, Refuses, Accepts
      <4> QED
        BY <1>1, <2>1, <2>2, <3>1, <4>1 DEF GapInv, TailOK
    <3>2. CASE g # generation
      BY <1>1, <1>2, <2>1, <2>2, <3>2 DEF GapInv, TailOK
    <3>3. CASE ~running \/ ~videoEnabled
      BY <1>1, <3>3 DEF TailOK
    <3> QED
      BY <3>1, <3>2, <3>3
  <2> QED
    BY <1>1, <2>1, <2>3, GapsStand
<1>5. CASE UnitDropped(g, n, key)
  <2>1. recovering' = TRUE
    BY <1>5 DEF UnitDropped, StartRecovery
  <2>2. TailOK'
    BY <2>1 DEF TailOK
  <2>3. CASE videoQueue' = videoQueue
    BY <1>1, <2>2, <2>3, GapsStand
  <2>4. CASE videoQueue' = <<>>
    BY <1>1, <2>1, <2>4, UnitNumbers, ClearedGaps
  <2> QED
    BY <1>5, <2>3, <2>4 DEF UnitDropped, StartRecovery
<1>6. CASE UnitQueued(g, n, key)
  <2> DEFINE kept == IF Overflows THEN <<>> ELSE videoQueue
             unit == QueuedUnit(g, n, key)
  <2>1. /\ videoQueue' = Append(kept, unit) /\ recovering' = FALSE
        /\ g = generation /\ running /\ videoEnabled /\ videoConfig # 0
        /\ key \/ (~recovering /\ ~Overflows)
    BY <1>6 DEF UnitQueued, Refuses, Accepts
  <2>2. /\ unit.gen = g /\ unit.n = n /\ unit.key = key
        /\ unit.disc = (key /\ (recovering \/ Overflows))
    BY DEF QueuedUnit, Unit
  <2>3. kept \in Seq(Frame) /\ (kept = <<>> \/ kept = videoQueue)
    BY UnitNumbers, EmptyQueue
  <2>4. ~Overflows => kept = videoQueue
    OBVIOUS
  <2> HIDE DEF kept, unit
  <2>5. /\ Len(kept) \in Nat /\ Len(videoQueue') = Len(kept) + 1
        /\ DOMAIN (videoQueue') = 1..(Len(kept) + 1)
        /\ videoQueue'[Len(kept) + 1] = unit
        /\ \A i \in 1..Len(kept) : videoQueue'[i] = kept[i]
        /\ DOMAIN kept = 1..Len(kept) /\ (kept # <<>> => Len(kept) > 0)
        /\ (kept = <<>> => Len(kept) = 0) /\ videoQueue' # <<>>
    BY <2>1, <2>3
  \* The unit follows whatever the last one before it is.
  <2>6. ASSUME NEW u, u = Newest \/ Overflows
        PROVE  Follows(u, unit)
    <3>1. CASE recovering \/ Overflows
      BY <2>1, <2>2, <3>1 DEF Follows
    <3>2. CASE ~recovering /\ ~Overflows
      <4>1. Newest.gen = generation => Newest.n = n - 1
        BY <1>2, <2>1, <3>2 DEF GapInv, TailOK
      <4>2. Newest.gen = generation => n = Newest.n + 1
        BY <4>1, UnitNumbers
      <4> QED
        BY <2>1, <2>2, <2>6, <3>2, <4>2 DEF Follows, Continues
    <3> QED
      BY <3>1, <3>2
  <2>7. \A i \in DOMAIN (videoQueue') : videoQueue'[i].gen <= generation'
    <3>1. \A i \in 1..Len(kept) : kept[i].gen <= generation
      BY <2>3, <2>5 DEF GapInv
    <3>2. unit.gen <= generation
      BY <2>1, <2>2, UnitNumbers
    <3>3. \A i \in 1..(Len(kept) + 1) : i \in 1..Len(kept) \/ i = Len(kept) + 1
      BY <2>5
    <3> QED
      BY <1>1, <2>5, <3>1, <3>2, <3>3
  <2>8. ASSUME NEW i \in 2..Len(videoQueue')
        PROVE  Follows(videoQueue'[i - 1], videoQueue'[i])
    <3>1. i - 1 \in 1..Len(kept) /\ (i \in 1..Len(kept) \/ i = Len(kept) + 1)
      BY <2>5
    <3>2. kept = videoQueue /\ kept # <<>>
      BY <2>3, <2>5, <3>1
    <3>3. CASE i \in 1..Len(kept)
      <4>1. Follows(kept[i - 1], kept[i])
        BY <2>5, <3>2, <3>3 DEF GapInv
      <4> QED
        BY <2>5, <3>1, <3>3, <4>1
    <3>4. CASE i = Len(kept) + 1
      <4>1. i - 1 = Len(kept)
        BY <2>5, <3>4
      <4>2. kept[i - 1] = Newest
        BY <3>2, <4>1 DEF Newest
      <4> QED
        BY <2>5, <2>6, <3>1, <3>4, <4>2
    <3> QED
      BY <3>1, <3>3, <3>4
  <2>9. Follows(Before', videoQueue'[1])
    <3>1. CASE kept = <<>>
      <4>1. videoQueue'[1] = unit
        BY <2>5, <3>1
      <4>2. Before = Newest \/ Overflows
        BY <2>4, <3>1 DEF Newest
      <4> QED
        BY <1>3, <2>6, <4>1, <4>2
    <3>2. CASE kept # <<>>
      <4>1. kept = videoQueue /\ videoQueue'[1] = videoQueue[1] /\ videoQueue # <<>>
        BY <2>3, <2>5, <3>2
      <4> QED
        BY <1>3, <4>1 DEF GapInv
    <3> QED
      BY <3>1, <3>2
  <2>10. TailOK'
    <3>1. Newest' = unit
      BY <2>5 DEF Newest
    <3> QED
      BY <1>1, <1>2, <2>1, <2>2, <3>1 DEF TailOK
  <2> QED
    BY <1>1, <1>3, <2>7, <2>8, <2>9, <2>10 DEF GapInv
<1> QED
  BY <1>4, <1>5, <1>6 DEF SendAccessUnit

\* The writer takes a unit from the queue's front, and writes it.
LEMMA WriterKeepsGaps ==
    ASSUME TypeOK, QueueInv, GapInv, [Next]_vars, WriterStep \/ WriteFails
    PROVE  GapInv'
<1>1. /\ UNCHANGED <<generation, videoEnabled, recovering, videoConfig, encoded>>
      /\ (running' => running)
  BY DEF WriterStep, WriteFails, Acquire, Take, Write, WriterEnds, capture, environment
<1>2. CASE Acquire \/ WriteFails \/ WriterEnds
  <2>1. /\ UNCHANGED <<videoQueue, lastWritten>> /\ writer'.hand = writer.hand
        /\ (writer'.at \in {"acquire", "take"} => writer.at = "acquire")
    BY <1>2 DEF Acquire, WriteFails, WriterEnds, queues, history, TypeOK
  <2>2. Before' = Before /\ Newest' = Newest
    BY <2>1 DEF Before, Newest
  <2> QED
    BY <1>1, <2>1, <2>2 DEF GapInv, TailOK
<1>3. CASE Take
  <2>1. lastWritten' = lastWritten /\ writer.hand.kind # "unit" /\ Before = lastWritten
    BY <1>3 DEF Take, history, GapInv, Before
  <2>2. CASE controlQueue # <<>>
    <3>1. videoQueue' = videoQueue /\ writer' = [at |-> "write", hand |-> controlQueue[1]]
      BY <1>3, <2>2 DEF Take, TypeOK
    <3>2. writer'.hand.kind # "unit"
      <4>1. 1 \in DOMAIN controlQueue
        BY <2>2 DEF TypeOK
      <4> QED
        BY <3>1, <4>1 DEF QueueInv
    <3>3. Before' = Before
      BY <2>1, <3>2 DEF Before
    <3>4. Newest' = Newest
      BY <3>1, <3>3 DEF Newest
    <3> QED
      BY <1>1, <2>1, <3>1, <3>2, <3>3, <3>4 DEF GapInv, TailOK
  <2>3. CASE controlQueue = <<>> /\ videoQueue # <<>>
    <3> DEFINE q == videoQueue
    <3>1. /\ videoQueue' = Tail(q) /\ writer' = [at |-> "write", hand |-> q[1]]
      BY <1>3, <2>3, UnitNumbers DEF Take
    <3>2. q \in Seq(Frame) /\ q # <<>>
      BY <2>3, UnitNumbers
    <3>3. /\ 1 \in DOMAIN q /\ Len(q) \in Nat /\ Len(q) > 0 /\ Len(videoQueue') = Len(q) - 1
          /\ DOMAIN (videoQueue') = 1..(Len(q) - 1)
          /\ \A i \in 1..(Len(q) - 1) : videoQueue'[i] = q[i + 1] /\ i + 1 \in DOMAIN q
          /\ DOMAIN q = 1..Len(q)
          /\ (videoQueue' = <<>> <=> Len(q) = 1)
      <4> HIDE DEF q
      <4>1. /\ 1 \in DOMAIN q /\ Len(q) \in Nat /\ Len(q) > 0 /\ Len(videoQueue') = Len(q) - 1
            /\ videoQueue' \in Seq(Frame) /\ DOMAIN q = 1..Len(q)
        BY <3>1, <3>2
      <4>2. \A i \in 1..(Len(q) - 1) : videoQueue'[i] = q[i + 1] /\ i + 1 \in DOMAIN q
        BY <3>1, <3>2, <4>1
      <4>3. DOMAIN (videoQueue') = 1..(Len(q) - 1)
        BY <4>1
      <4>4. videoQueue' = <<>> <=> Len(q) = 1
        BY <4>1
      <4> QED
        BY <4>1, <4>2, <4>3, <4>4
    <3>4. q[1].kind = "unit" /\ q[1].gen <= generation
      BY <3>3 DEF QueueInv, GapInv
    <3>5. Before' = q[1]
      BY <3>1, <3>4 DEF Before
    <3>6. Newest' = Newest
      <4>1. CASE Len(q) = 1
        BY <3>2, <3>3, <3>5, <4>1 DEF Newest
      <4>2. CASE Len(q) > 1
        <5>1. videoQueue'[Len(q) - 1] = q[(Len(q) - 1) + 1] /\ (Len(q) - 1) + 1 = Len(q)
          BY <3>3, <4>2
        <5> QED
          BY <3>2, <3>3, <4>2, <5>1 DEF Newest
      <4> QED
        BY <3>3, <4>1, <4>2
    <3>7. Follows(lastWritten, q[1])
      BY <2>1, <3>2 DEF GapInv
    <3>8. \A i \in DOMAIN (videoQueue') : videoQueue'[i].gen <= generation
      BY <3>3 DEF GapInv
    <3>9. ASSUME NEW i \in 2..Len(videoQueue')
          PROVE  Follows(videoQueue'[i - 1], videoQueue'[i])
      <4>1. /\ i \in 1..(Len(q) - 1) /\ i - 1 \in 1..(Len(q) - 1) /\ (i - 1) + 1 = i
            /\ i + 1 \in 2..Len(q) /\ (i + 1) - 1 = i
        BY <3>3
      <4>2. Follows(q[(i + 1) - 1], q[i + 1])
        BY <4>1 DEF GapInv
      <4> QED
        BY <3>3, <4>1, <4>2
    <3>10. videoQueue' # <<>> => Follows(q[1], videoQueue'[1])
      <4>1. SUFFICES ASSUME videoQueue' # <<>> PROVE Follows(q[1], videoQueue'[1])
        OBVIOUS
      <4>2. Len(q) > 1
        BY <3>3, <4>1
      <4>3. /\ 2 \in 2..Len(q) /\ 2 - 1 = 1 /\ 1 + 1 = 2 /\ 1 \in 1..(Len(q) - 1)
        BY <3>3, <4>2
      <4>4. Follows(q[2 - 1], q[2])
        BY <4>3 DEF GapInv
      <4> QED
        BY <3>3, <4>3, <4>4
    <3>11. TailOK'
      BY <1>1, <3>6 DEF GapInv, TailOK
    <3> HIDE DEF q
    <3> QED
      BY <1>1, <2>1, <3>1, <3>4, <3>5, <3>7, <3>8, <3>9, <3>10, <3>11 DEF GapInv
  <2>4. CASE controlQueue = <<>> /\ videoQueue = <<>>
    <3>1. videoQueue' = videoQueue /\ writer'.hand = writer.hand
      BY <1>3, <2>4, Taken
    <3>2. Before' = Before /\ Newest' = Newest
      BY <2>1, <3>1 DEF Before, Newest
    <3> QED
      BY <1>1, <2>1, <3>1, <3>2 DEF GapInv, TailOK
  <2> QED
    BY <2>2, <2>3, <2>4
<1>4. CASE Write
  <2>1. /\ videoQueue' = videoQueue /\ writer'.hand.kind = "control"
        /\ lastWritten' = IF writer.hand.kind = "unit"
                          THEN [gen |-> writer.hand.gen, n |-> writer.hand.n] ELSE lastWritten
    BY <1>4, Frames DEF Write, queues, NoFrame
  <2>2. Before'.gen = Before.gen /\ Before'.n = Before.n
    BY <2>1 DEF Before
  <2>3. Newest'.gen = Newest.gen /\ Newest'.n = Newest.n
    BY <2>1, <2>2 DEF Newest
  <2>4. videoQueue # <<>> => Follows(Before', videoQueue[1])
    BY <2>2 DEF GapInv, Follows, Continues
  <2>5. TailOK'
    BY <1>1, <2>3 DEF GapInv, TailOK
  <2> QED
    BY <1>1, <2>1, <2>2, <2>4, <2>5 DEF GapInv
<1> QED
  BY <1>2, <1>3, <1>4 DEF WriterStep

LEMMA GapsKeep ==
    ASSUME TypeOK, QueueInv, GapInv, [Next]_vars
    PROVE  GapInv'
<1>1. CASE BeginCapture
  <2>1. /\ ClearVideo /\ generation' = generation + 1 /\ UNCHANGED <<writer, lastWritten>>
    BY <1>1 DEF BeginCapture
  <2>2. generation' \in Nat /\ generation < generation' /\ generation <= generation'
    BY <2>1, UnitNumbers
  <2> QED
    BY <2>1, <2>2, Cleared, ClearedGaps
<1>2. CASE StopVideo
  <2>1. ClearVideo /\ UNCHANGED <<writer, lastWritten, generation>> /\ videoEnabled' = FALSE
    BY <1>2 DEF StopVideo, history
  <2> QED
    BY <2>1, Cleared, UnitNumbers, ClearedGaps
<1>3. CASE CloseClears \/ ForceRecovery
  <2>1. /\ UNCHANGED <<writer, lastWritten, generation>> /\ videoQueue' = <<>>
        /\ ~videoEnabled' \/ recovering'
    BY <1>3 DEF CloseClears, ForceRecovery, history
  <2> QED
    BY <2>1, UnitNumbers, ClearedGaps
<1>4. ASSUME NEW r \in 1..MaxRequests, FenceReply(r)
      PROVE  GapInv'
  <2>1. UNCHANGED <<writer, lastWritten, running, encoded>>
    BY <1>4 DEF FenceReply, history
  <2>2. CASE AlreadyFenced(r)
    <3>1. UNCHANGED <<videoQueue, generation, videoEnabled, videoConfig, recovering>>
      BY <1>4, <2>2 DEF FenceReply, FenceOnce, capture
    <3>2. TailOK'
      BY <2>1, <3>1 DEF GapInv, TailOK, Newest, Before
    <3> QED
      BY <2>1, <3>1, <3>2, GapsStand
  <2>3. CASE ~AlreadyFenced(r)
    <3>1. ClearVideo /\ videoEnabled' = FALSE /\ generation' = generation
      BY <1>4, <2>3 DEF FenceReply, FenceOnce
    <3> QED
      BY <2>1, <3>1, Cleared, UnitNumbers, ClearedGaps
  <2> QED
    BY <2>2, <2>3
<1>5. ASSUME NEW g \in Captures, SetCodecConfig(g)
      PROVE  GapInv'
  <2>1. /\ UNCHANGED <<videoQueue, generation, writer, lastWritten, running, videoEnabled,
                       videoConfig, recovering>>
        /\ encoded[g] = -1 /\ encoded' = [encoded EXCEPT ![g] = 0]
    BY <1>5 DEF SetCodecConfig, queues, history
  <2>2. Newest' = Newest
    BY <2>1 DEF Newest, Before
  <2>3. Newest.n = encoded[generation] => encoded'[generation] = encoded[generation]
    <3>1. generation # g => encoded'[generation] = encoded[generation]
      BY <2>1
    <3>2. Newest.n # -1
      BY UnitNumbers
    <3> QED
      BY <2>1, <3>1, <3>2
  <2>4. TailOK'
    BY <2>1, <2>2, <2>3 DEF GapInv, TailOK
  <2> QED
    BY <2>1, <2>4, GapsStand
<1>6. ASSUME NEW g \in Captures, SendVideoConfig(g)
      PROVE  GapInv'
  <2>1. /\ UNCHANGED <<videoQueue, generation, writer, lastWritten, running, videoEnabled,
                       encoded, recovering>>
        /\ (videoConfig' = g \/ videoConfig' = videoConfig)
    BY <1>6 DEF SendVideoConfig, queues, history
  <2>2. Newest' = Newest
    BY <2>1 DEF Newest, Before
  <2>3. g # 0
    BY Constants DEF Captures
  <2>4. TailOK'
    BY <2>1, <2>2, <2>3 DEF GapInv, TailOK
  <2> QED
    BY <2>1, <2>4, GapsStand
<1>7. ASSUME NEW g \in Captures, NEW n \in 1..MaxUnits, NEW key \in BOOLEAN,
             SendAccessUnit(g, n, key)
      PROVE  GapInv'
  BY <1>7, UnitsKeepGaps
<1>8. ASSUME NEW t \in Threads, SendControl(t) \/ CallStep(t)
      PROVE  GapInv'
  <2>1. UNCHANGED <<videoQueue, writer, lastWritten, running, encoded, capture>>
    BY <1>8 DEF SendControl, CallStep, CheckControl, EnqueueControl, Release, NeedIdr, queues,
       history, environment
  <2>2. TailOK'
    BY <2>1 DEF GapInv, TailOK, Newest, Before, capture
  <2> QED
    BY <2>1, <2>2, GapsStand DEF capture
<1>9. CASE WriterStep \/ WriteFails
  BY <1>9, WriterKeepsGaps
<1>10. CASE Close \/ UNCHANGED vars
  <2>1. UNCHANGED <<videoQueue, writer, lastWritten, encoded, capture>> /\ (running' => running)
    BY <1>10 DEF Close, vars, queues, environment, history
  <2>2. TailOK'
    BY <2>1 DEF GapInv, TailOK, Newest, Before, capture
  <2> QED
    BY <2>1, <2>2, GapsStand DEF capture
<1> QED
  BY <1>1, <1>2, <1>3, <1>4, <1>5, <1>6, <1>7, <1>8, <1>9, <1>10, NextSteps DEF OtherStep

\* The same, read along the stream.
LEMMA GapsAlongTheStream ==
    ASSUME TypeOK, GapInv
    PROVE  GapsAreMarked
<1> DEFINE sent == Unit(lastWritten.gen, lastWritten.n, TRUE, 0, FALSE)
           hand == writer.hand
           q == videoQueue
<1>1. q \in Seq(Frame) /\ Len(q) \in Nat
  BY UnitNumbers
<1>2. SUFFICES ASSUME NEW i \in 2..Len(Stream)
               PROVE  Follows(Stream[i - 1], Stream[i])
  BY DEF GapsAreMarked, Follows
<1>3. \A u : Follows(lastWritten, u) => Follows(sent, u)
  BY DEF Follows, Continues, Unit
<1>4. \A j \in 2..Len(q) : Follows(q[j - 1], q[j])
  BY DEF GapInv
<1>5. CASE lastWritten.gen = 0 /\ hand.kind # "unit"
  <2>1. Stream = q
    <3>1. Stream = <<>> \o <<>> \o q
      BY <1>5 DEF Stream
    <3> QED
      BY <1>1, <3>1
  <2> QED
    BY <1>4, <2>1
<1>6. ASSUME NEW first, Stream = <<first>> \o q, q # <<>> => Follows(first, q[1])
      PROVE  Follows(Stream[i - 1], Stream[i])
  <2>1. /\ Len(Stream) = Len(q) + 1 /\ Stream[1] = first
        /\ \A j \in 2..Len(Stream) : Stream[j] = q[j - 1]
    BY <1>1, <1>6
  <2>2. CASE i = 2
    <3>1. Len(q) > 0 /\ i - 1 = 1 /\ q # <<>> /\ Stream[i] = q[1]
      BY <1>1, <2>1, <2>2
    <3> QED
      BY <1>6, <2>1, <3>1
  <2>3. CASE i # 2
    <3>1. i - 1 \in 2..Len(q) /\ i - 1 \in 2..Len(Stream)
      BY <1>1, <2>1, <2>3
    <3> QED
      BY <1>4, <2>1, <3>1
  <2> QED
    BY <2>2, <2>3
<1>7. CASE lastWritten.gen # 0 /\ hand.kind # "unit"
  <2>1. Stream = <<sent>> \o q
    <3>1. Stream = <<sent>> \o <<>> \o q
      BY <1>7 DEF Stream
    <3> HIDE DEF sent
    <3> QED
      BY <1>1, <3>1
  <2>2. q # <<>> => Follows(sent, q[1])
    BY <1>3, <1>7 DEF GapInv, Before
  <2> QED
    BY <1>6, <2>1, <2>2
<1>8. CASE lastWritten.gen = 0 /\ hand.kind = "unit"
  <2>1. Stream = <<hand>> \o q
    <3>1. Stream = <<>> \o <<hand>> \o q
      BY <1>8 DEF Stream
    <3> HIDE DEF hand
    <3> QED
      BY <1>1, <3>1
  <2>2. q # <<>> => Follows(hand, q[1])
    BY <1>8 DEF GapInv, Before
  <2> QED
    BY <1>6, <2>1, <2>2
<1>9. CASE lastWritten.gen # 0 /\ hand.kind = "unit"
  <2>1. Stream = <<sent>> \o <<hand>> \o q
    BY <1>9 DEF Stream
  <2>2. /\ Follows(sent, hand) /\ (q # <<>> => Follows(hand, q[1]))
    BY <1>3, <1>9 DEF GapInv, Before
  <2> HIDE DEF sent, hand, q
  <2>3. /\ Len(Stream) = Len(q) + 2 /\ Stream[1] = sent /\ Stream[2] = hand
        /\ \A j \in 3..Len(Stream) : Stream[j] = q[j - 2]
        /\ (Len(q) > 0 => q # <<>>)
    BY <1>1, <2>1
  <2>4. CASE i = 2
    <3>1. i - 1 = 1
      BY <2>4
    <3> QED
      BY <2>2, <2>3, <2>4, <3>1
  <2>5. CASE i = 3
    <3>1. Len(q) > 0 /\ i - 1 = 2 /\ i - 2 = 1 /\ i \in 3..Len(Stream)
      BY <1>1, <2>3, <2>5
    <3> QED
      BY <2>2, <2>3, <3>1
  <2>6. CASE i # 2 /\ i # 3
    <3>1. /\ i - 2 \in 2..Len(q) /\ i - 1 \in 3..Len(Stream) /\ i \in 3..Len(Stream)
          /\ (i - 1) - 2 = (i - 2) - 1
      BY <1>1, <2>3, <2>6
    <3> QED
      BY <1>4, <2>3, <3>1 DEF q
  <2> QED
    BY <2>4, <2>5, <2>6
<1> QED
  BY <1>5, <1>7, <1>8, <1>9

-----------------------------------------------------------------------------
(* The theorems. *)

LEMMA Beginning ==
    ASSUME Init
    PROVE  OutInv
<1>1. TypeOK
  <2>1. /\ 0 \in 0..MaxCaptures /\ 0 \in 0..MaxUnits /\ 0 \in 0..MaxRequests /\ 0 \in 0..MaxControls
        /\ -1 \in -1..MaxUnits /\ 0 <= VideoCapacity /\ 0 <= MaxControlFrames
    BY Constants
  <2>2. calls \in [Threads -> Call] /\ NoFrame \in Frame
    BY Frames DEF Init, NoFrame
  <2> QED
    BY <2>1, <2>2, EmptyQueue DEF Init, TypeOK
<1>2. CaptureInv
  BY DEF Init, CaptureInv
<1>3. QueueInv
  BY EmptyQueue DEF Init, QueueInv
<1>4. CallInv
  BY DEF Init, CallInv, CallOK, Idle, NoFrame, Control
<1>5. WriterInv
  BY DEF Init, WriterInv, NoVideoAfterItsFence, NoFrame, Control
<1>6. CloseInv
  BY DEF Init, CloseInv
<1>7. NoStrandedFrame
  <2>1. \A t \in Threads : calls[t].at # "release"
    BY DEF Init, Idle
  <2>2. Releasing = {}
    BY <2>1 DEF Releasing
  <2>3. Cardinality(Releasing) = 0
    BY <2>2, FS_EmptySet
  <2>4. Queued = 0 /\ wake = 0 /\ writer.at = "acquire"
    BY EmptyQueue DEF Init, Queued
  <2> QED
    BY <2>3, <2>4 DEF NoStrandedFrame, Queued, Releasing
<1>8. AskInv
  BY DEF Init, AskInv, Idle, KeyframeIsRequested, NeedsKeyframe
<1>9. GapInv
  <2>1. /\ writer.hand.kind = "control" /\ lastWritten.gen = 0 /\ lastWritten.n = 0
        /\ generation = 0 /\ videoEnabled = FALSE /\ videoQueue = <<>>
    BY DEF Init, NoFrame, Control
  <2>2. Before.gen = 0
    BY <2>1 DEF Before
  <2> QED
    BY <2>1, <2>2, EmptyQueue DEF GapInv, TailOK
<1> QED
  BY <1>1, <1>2, <1>3, <1>4, <1>5, <1>6, <1>7, <1>8, <1>9 DEF OutInv

LEMMA Inductive == Spec => []OutInv
<1>1. Init => OutInv
  BY Beginning
<1>2. OutInv /\ [Next]_vars => OutInv'
  BY TypesKeep, FencesGrow, QueuesKeep, CallsKeep, WriterKeeps, CloseKeeps, PermitsKeep,
     KeyframesKeep, GapsKeep DEF OutInv
<1> QED
  BY <1>1, <1>2, PTL DEF Spec

\* The types of the writer's state; with them, that neither queue ever exceeds
\* its bound, however many producers are about to enqueue (sendAccessUnit,
\* enqueueControl).
THEOREM TypeCorrectness == Spec => []TypeOK
<1>1. OutInv => TypeOK
  BY DEF OutInv
<1> QED
  BY <1>1, Inductive, PTL

\* A quality fence separates the two captures on the wire: once the reply that
\* fenced a capture is written, no configuration and no access unit of it is
\* (fenceOnce, and the token tested again under the lock).
THEOREM FenceSeparates == Spec => []NoVideoAfterItsFence
<1>1. OutInv => NoVideoAfterItsFence
  BY DEF OutInv, WriterInv
<1> QED
  BY <1>1, Inductive, PTL

\* Every frame that is queued or being written carries its own capture's mode
\* and SPS/PPS, recoveries included (clearVideo, forceRecovery).
THEOREM Metadata == Spec => []OwnMetadata
<1>1. OutInv => OwnMetadata
  <2>1. SUFFICES ASSUME OutInv, NEW f \in InFlight
                 PROVE  /\ f.kind = "config" => f.meta = f.gen
                        /\ f.kind = "unit" => f.meta \in {0, f.gen}
    BY DEF OwnMetadata
  <2>2. CASE f = writer.hand
    BY <2>1, <2>2 DEF OutInv, WriterInv
  <2>3. CASE \E i \in DOMAIN controlQueue : f = controlQueue[i]
    BY <2>1, <2>3 DEF OutInv, QueueInv, QueuedOK
  <2>4. CASE \E i \in DOMAIN videoQueue : f = videoQueue[i]
    BY <2>1, <2>4 DEF OutInv, QueueInv, QueuedOK
  <2> QED
    BY <2>1, <2>2, <2>3, <2>4 DEF InFlight
<1> QED
  BY <1>1, Inductive, PTL

\* While the output runs, each queued frame has its permit, or a thread that is
\* about to release one, or the writer about to look (wake.release() after the
\* lock is given up).
THEOREM Permits == Spec => []NoStrandedFrame
<1>1. OutInv => NoStrandedFrame
  BY DEF OutInv
<1> QED
  BY <1>1, Inductive, PTL

\* Whenever the peer cannot decode the current capture, the encoder has been
\* asked for a keyframe or a thread is on its way to onNeedIdr()
\* (sendVideoConfig, sendAccessUnit, forceRecovery).
THEOREM Keyframes == Spec => []KeyframeIsRequested
<1>1. OutInv => KeyframeIsRequested
  BY DEF OutInv, AskInv
<1> QED
  BY <1>1, Inductive, PTL

\* What the peer has got, gets and will get of a capture has no unmarked gap: a
\* unit that does not continue the one before it is a keyframe that announces a
\* discontinuity (sendAccessUnit, startRecovery, clearVideo).
THEOREM Gaps == Spec => []GapsAreMarked
<1>1. OutInv => GapsAreMarked
  BY GapsAlongTheStream DEF OutInv
<1> QED
  BY <1>1, Inductive, PTL

\* After `running` is cleared at most the frame inside the writer is written, and
\* a closed output has nothing queued, whatever calls come later (close).
THEOREM Quiet == Spec => []QuietAfterClose
<1>1. OutInv => QuietAfterClose
  BY DEF OutInv, CloseInv, QuietAfterClose
<1> QED
  BY <1>1, Inductive, PTL
=============================================================================
