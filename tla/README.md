# TLA+ models of Mobile Webcam Bridge

Mobile Webcam Bridge turns an Android phone into the webcam of a PC. The phone
(Kotlin, `android/`) captures and encodes H.264; the PC (Rust, `host-rs/`)
connects over USB (Android Open Accessory) or TLS, proves its identity, is
approved by the phone's user, receives the stream and feeds a virtual camera.

This directory holds TLA+ modules translated from that source, the TLC
configurations that check them on small instances, and TLAPS proofs. Paths such
as `PhoneAuthorization.kt` are under
`src/android/app/src/main/java/dev/nekomario/amb/`, paths such as `quality.rs`
under `src/host-rs/src/`. `PROJECT.json` maps every definition to its lines and
lists components, runs, mutants, findings, hazards and theorems.

    tlc -workers 2 -config PhoneAuth.cfg MCPhoneAuthorization
    tlapm PhoneAuthorizationProofs.tla

1. [The system](#1-the-system)  2. [Modules](#2-modules)
3. [Runs, bounds, fairness](#3-runs-bounds-and-fairness)  4. [Findings](#4-findings)
5. [Proofs](#5-proofs)  6. [Known deviations](#6-known-deviations)
7. [Limits](#7-what-the-models-leave-out)  8. [Plan](#8-plan)

## 1. The system

### 1.1 Phone

| Component | State | Operations, and who calls them | Hard behaviour | What makes it correct |
|---|---|---|---|---|
| Authorization owner (`PhoneAuthorization.kt`, `ClientAuthorization.kt`) | one session slot: phase, absolute deadline, candidate; revocation marks; cooldown; latches | transport: open, begin, hello, proof, disconnect; timer: tick; UI: approve, reject, revoke, renew | the monitor is released for a durable write; taps arrive late; the clock may be set | a grant has a live consent, a record on disk and a live session; every wait ends |
| Client list (`ClientRepository.kt`, `ClientStore.kt`, `StorageGeneration.kt`) | disk record, snapshot, `healthy`, reset epoch | save, revoke, renew, clear | a write fails or the process dies between disk and snapshot | disk never lists more than the user allowed |
| Approval UI (`ClientApprovalUi.kt`) | open dialogs, tap in progress | taps | dialogs stack and list an older state | a tap acts on what it was shown for |
| Media session (`AuthorizedMediaSession.kt`) | reader, owner's session, outbound | startMedia, readMedia, closeMedia | reader, timer and UI close concurrently | no media without a grant |
| Outbound writer (`FramedOutbound.kt`) | two bounded queues, a semaphore, capture generation, recovery state | UI: begin/stop; camera: config; encoder: units, SPS/PPS; reader: fences, pongs, IDR; writer thread | two critical sections per operation, permits released outside the lock | nothing of a fenced capture follows the fence; gaps are marked; no wake-up is lost |
| Quality machine (`QualitySwitch.kt`, `PhoneQualityController.kt`, camera ownership in `MainActivity.kt`) | phase, request id, epoch, reply, timer; `cameraStartRequested`, the bridge | prepare, commit, start, stop, camera callbacks, deadline, Activity lifecycle | callbacks are posted and may come late; the user acts in the middle of a switch | only a standing start starts a camera; one reply per request |
| Connection owner (`MainActivity.kt`, `ReconnectPolicy.kt`) | current session, reconnect flags | USB attach/detach, retry, LAN session up/down | a drop, a stop and a refusal race the resumption | a capture resumes only after an unwanted drop |
| USB session, LAN server (`AccessorySession.kt`, `ReaderHandover.kt`, `LanServer.kt`) | reader thread; active slot, handshake slots | start, read, closeAndAwait; accept, handshake, close | an accessory read cannot be interrupted; handshakes run in parallel | one reader per endpoint, one session per server |
| Capture producer (`CaptureCancellation.kt`, `CameraBridgeController.kt`, `CameraEncoderSession.kt`, `H264Encoder.kt`) | camera, encoder, closed flag | start, callbacks, close | close races camera callbacks; stale cancellation | the camera is closed once authorization ends |
| Dispatcher, codecs, modes, service, identity (`SessionControl.kt`, `Wire.kt`, `CaptureModes.kt`, `SessionService.kt`, `SecureLanIdentity.kt`, ...) | rate windows; none | parse, select, notify | | |

### 1.2 PC

| Component | State | Operations | Hard behaviour | What makes it correct |
|---|---|---|---|---|
| Window (`gui.rs`) | transport, selected device, retry timer and count, "wait for the cable", pending move to Wi-Fi, pairing received | a frame: resolve, dial, poll, devices; the buttons | errors, timers and device lists arrive between two parts of a frame; each dial may fail before or after a process exists | retries are bounded; Disconnect holds; the newest rotation wins |
| Session supervisor (`session.rs`, `control.rs`) | child process, reader and writer threads, one-place slots, deadlines, auxiliary `pkexec` process | start, stop, transform, poll, setup, drop | the worker may hang, die, or speak after a stop | one receiver at a time, dead before its session is over; every stop ends |
| Quality client (`quality/client.rs`) and worker's switch (`quality.rs`, `video.rs`) | pending and applied mode; phase, request id, epoch, shown mode, timer | apply, poll; take a request, receive a frame, output, stop | stale frames and events cross the request; deadlines race the answers | Applied stands for a new picture of the requested mode |
| Way to the phone (`client_auth.rs`, `usb.rs`, `secure.rs`, `transport.rs`, first half of `video.rs`) | deadlines, the one PENDING, a partial frame | dial, align, challenge, answer, hello, second attempt | an accessory's endpoint has no session boundary: an older session's frames come first | an outcome belongs to this worker's challenge; the way ends |
| USB probe (`usb_probe.rs`), headless session (`headless.rs`) | counts; events seen | ping, pong, re-authorize; read a line, exit | seams between the phone's sessions; a deadline looked at between lines | counts and exit codes are true |
| Key and settings files (`identity/store.rs`, `settings.rs`) | a directory | load, create, replace, save | a crash between two file operations, two processes, power loss | no acknowledged key is lost; no file is cut short |
| Settings text (`settings.rs`), wish and edition (`quality/preference.rs`, `quality/edition.rs`) | none | encode, decode, merge, clamp, rank | escapes, foreign lines, order of the phone's list | what is saved is what is loaded |
| Preview (`preview.rs`, `preview/posio.rs`) | sequence number and pixels in a shared file | publish, latest | torn reads across processes, workers that restart at zero | a picture is whole or absent |
| Picture geometry (`video/transform.rs`, `video/pixels.rs`) | none | fit, rotate, flip, convert, sample | odd sizes, chroma pairs | no pixel outside, no luma parted from its chroma |
| Wire codecs (`wire.rs`, `transport/framing.rs`) | none | encode, decode, validate | lengths are checked in three places | the three agree |
| Decoder, outputs, process entry (`video/decoder.rs`, `output/`, `cli.rs`, `main.rs`, `platform.rs`) | FFmpeg contexts, devices | | drivers | |

### 1.3 How they interact

    window --methods--> Session --slot--> worker ==PREPARE/COMMIT==> reader --post--> UI: quality machine
       ^  poll            ^  pipe of events  ^                                         |  fences
       '------------------'------------------'  <==STAGED/PAUSED/CONFIG/UNIT== writer <-- FramedOutbound <-- camera, encoder
                          phone reader --proof, hello--> authorization owner <--taps-- user
                                            timer ------------'  '--grant, end--> capture producer
    worker --preview record--> window        window, worker, command line --key and settings files--> disk

The reader, the 250 ms timer and the UI thread enter the phone's authorization
owner. The grant opens the media path; its end closes the transport and cancels
the capture on a thread of its own. Quality requests come from the PC; the phone
answers with a fence in the outbound queue, so that an answer also separates old
video from new. On the PC one window owns one `Session`, which owns at most one
worker; the worker owns the transport and dies with its parent.

## 2. Modules

| Module | Models | Composed by |
|---|---|---|
| `PhoneAuthorization` | owner, client list, taps, session slot | `MCPhoneAuthorization` |
| `PhoneAuthorizationProofs` | its theorems | |
| `Queues` | `removeAll` on a queue, as a recursive function | `FramedOutbound`, `PhoneQuality`, `PhoneConnection` |
| `QueueProofs` | what is left of a queue, and the induction it needs | the three proof modules of the above |
| `FramedOutbound` | outbound writer with its four kinds of caller | |
| `FramedOutboundProofs` | its theorems | |
| `PhoneConnection` | connection owner, accessory and Wi-Fi sessions, Wi-Fi server, reader handover, capture teardown | `Parts` |
| `PhoneConnectionProofs` | its theorems | |
| `QualityTypes` | the frames and events of a quality switch | both below |
| `PhoneQuality` | machine, interpreter, camera owner, Activity lifecycle | `QualitySwitching` |
| `HostQuality` | worker's switch and receive loop, desktop's client | `QualitySwitching` |
| `QualityRequest` | abstract: one wish for a quality at a time, answered at most once, shown when confirmed | refined by `QualitySwitching` |
| `QualitySwitching` | both ends over the transport; properties | |
| `QualitySwitchingProofs` | theorems about both ends together | |
| `SessionLifecycle` | abstract: one receiver at a time, dead before its session is over | refined by `HostApp` |
| `HostSession` | `Session`: processes, threads, slots, poll | `HostApp` |
| `HostApp` | window, retries, buttons, cable, inventory thread, the worker's events | `MCHostApp` |
| `HostAppProofs` | theorems about `HostApp` and `HostSession` | |
| `HostLink` | dial or align, exchange, hello, second attempt, probe; the phone as environment | `Parts` |
| `HostFiles` | key, quarantine and settings files under crashes | `Parts` |
| `HostFilesProofs` | its theorem | |
| `PreviewRecord` | the preview's shared record | `Parts` |
| `Headless` | a session without a window | `Parts` |
| `HostPartsProofs` | theorems about `HostLink`, `PreviewRecord` and `Headless` | |
| `SettingsText`, `QualityPreference`, `Picture`, `WireCodec` | algorithms, as operators with a reference definition each | `Parts` |
| `Parts` | the parts that share no state in the model, side by side | |

**PhoneAuthorization.** One action is one critical section of the owner's
monitor or one step of a durable write. A tap that writes is three or four
steps (`ui.step`): the decision, the write reaching the disk, the publication of
the snapshot, the rest of the tap under the monitor; the other threads run
between them, a write may fail or never end, and the process may die anywhere
and restart from `disk`. A PC is its client id (the id is the hash of the key);
a signature is genuine or not, a record is its approval time. Monotonic
deadlines are the ticks left; the wall clock is a separate variable that may be
set to anything. `consent` and `quiet` are history variables: the PCs a tap
allowed and no tap revoked, and the time since a prompt ended unanswered.

**FramedOutbound.** `calls[t]` is where the UI, reader, camera or encoder thread
stands between two critical sections of an operation (`enqueueControl` tests
`running` outside the lock, releases the semaphore after it and calls
`onNeedIdr` later). A unit is its capture, its number and whether it is a key
frame; SPS/PPS and the resent VIDEO_CONFIG carry the capture they came from.
`barrier`, `synced`, `asked`, `lastWritten` and `late` are history.

**PhoneConnection.** One record `act` is the phone's process; an action is what
one thread does between two points where another can see it. `posts` are the
messages of the main looper, `jobs` the queue of the teardown thread
(`CaptureCancellation`), `sess[s].start` and `.at` say how far the thread that
begins or ends a session has got. Its methods (`StopCamera`, `MediaClosed`,
`CloseSession`, `CloseServer`) are functions from one process to the next. The
owner of the grants is reduced to a gate per session, of which one may be open:
waiting, granted, denied, closed; `PhoneAuthorization` models what decides. An
end by that owner is one step, since its monitor is held; an end by a reader, a
writer or a server lets others in between the compare-and-set, the closing of
the gate, the freeing of the slot and the messages. A cancellation is queued in
the step of the compare-and-set. A client that connects is a session from the
accept on; what TLS makes of it, before or after its server was closed, is a step
of its own (`Authenticates`). Messages and cancellations that would find
nothing to do are not queued, and a camera device that opens after its capture
was closed is left out. `wish` is the history `ResumesWhatWasStarted` needs: what
was last decided about the capture that runs, is asked for or is remembered.

**PhoneQuality / HostQuality / QualitySwitching.** Each end is a record. The
phone's machine and its effects are one action per event of the machine, as the
UI thread executes them; camera callbacks and commands are posted, so they come
late. The worker's receive loop is one action per frame; the desktop handles one
event of the pipe per action. The transport is reliable and ordered (TCP, or
USB bulk with framing), control overtakes video at the sender as in
`FramedOutbound`, and either end may vanish unnoticed. A capture carries its
generation (`gen`), which is not on the wire: it lets `AppliedIsReal` tell a new
picture from an old one. `invited` says that a start by the user stands,
`intruded` that a capture began without the machine (see finding 4). Modes are
model values that differ in dimensions, which is how the PC tells them apart;
there is no clock, an armed deadline may expire at any time.

`QualityRequest` is what the desktop's user is promised: a wish that is queued,
worked on, answered and read. `Place` finds it among the three things that hold
it in the code: `slot` (`Pending.quality` and the pipe before it), the worker's
phase, and the answer in the pipe of events. A wish that the client waits for and
none of the three holds, or that the worker holds and the client does not wait
for, is "lost", which is no place of the abstract module.

The quality modules leave `FramedOutbound`'s overflow and recovery out and take
from it what they need: order, control before video, and that a fence removes
what was queued. `NoVideoAfterItsFence` there is the justification.

**HostSession / HostApp.** `HostSession` has the methods of `Session` as
functions from one record to the next, and the threads and processes under it as
actions: the writer thread with its one-place slot, the reader thread whose
channel and pipe are one queue, the worker process (alive, dying once killed,
dead), the `pkexec` helper. `HostApp` calls them from a frame of the window,
which is split where the worker or the cable can change what it reads: logic
(what became of the attempt, pairing, the move to Wi-Fi), the dial that is due,
poll one event at a time and its end, the list of the bus, the buttons. Timers
are none, armed or expired; an armed one may be found due in any later frame.
What a call to the operating system returns is a choice while the launch has
faults left. `history` records what the user asked for last and how often was
dialled since. `SessionLifecycle` is the abstract session; `Phase` and
`Receivers` are the refinement mapping.

**HostLink.** The worker's way from a dialled address or an aligned accessory
endpoint through challenge, answer, PENDING and outcome, the HOST_HELLO that
resets an accessory's session, the second attempt; `probing` turns on the USB
probe's PINGs. A frame is two transfers, so that a worker can find the middle of
an older session's frame; aligning may give up at any transfer, and a USB read
may fail at any moment. The phone is an environment that grants, refuses, ends
its session or stays silent; `PhoneAuthorization` models what it really does.

**HostFiles.** `disk` is the list of directory states a power loss can still
leave, the last one being what processes see; syncing the directory cuts the
list to that one. A file that was not synced is damaged by a power loss. Two
processes load, create, replace and save side by side.

**PreviewRecord.** The shared file, one `publish` and one `latest` in steps of a
header or half a picture; workers come and go, the file stays.

**Headless.** The loop of `run()` over the worker's two pipes, with the worker
as far as the loop can see it, and its exit code.

**SettingsText, QualityPreference, Picture, WireCodec.** Each gives the code's
algorithm as operators and a reference statement that must hold of every input:
decoding what was encoded, a mode that maximises, an inverse, a length. Sizes are
small constants (a byte has eight values, a nonce two bytes); the constants keep
their source names, and the relations between them that matter (a label shorter
than a payload, a multi-byte integer that carries) are kept. The codecs are
also asked what they refuse: headers of every type with an encoder, and of
video, at every length up to `MAX_PAYLOAD` and one past it, against the lengths
that encoders write (`MayAnnounce` names the two checks that are wider than
that); and lists, labels and addresses one past their limits or empty.

## 3. Runs, bounds and fairness

| Run | Distinct states | Shows |
|---|---|---|
| `phone_auth` | 0.3 M | No interleaving of frames, timer, taps, writes, clock changes and process death grants without consent, outruns the disk, overfills the list, breaks the frame order or resets the prompt's rate limit; unauthorized sessions and expired grants end although writes, taps and the peer may never move |
| `phone_auth_shadowed` | violation | Finding 1 |
| `phone_auth_stale_tap` | violation | Finding 2 |
| `outbound_fence` | 5.2 M | Two captures, fence, control and close(): no old video after PAUSED, no foreign metadata, no frame without a permit |
| `outbound_recovery` | 1.0 M | Overflow of one capture: marked gaps, a key frame on request, queues that drain |
| `outbound_gap` | violation | Finding 3 |
| `quality_safety` | 2.6 M | Applied is real, both ends agree on epoch and mode, the desktop and its worker implement `QualityRequest`, only a standing start starts the camera |
| `quality_liveness` | 88 k | Neither end stays in a switch for ever |
| `quality_interrupted` | violation | Finding 4 |
| `host_app` | 2.1 M | Retries are bounded, Disconnect holds, the newest rotation wins, every stop ends, and `Session` implements `SessionLifecycle` |
| `parts` | 2.5 M | One session and one reader at a time on the phone, a capture without a session is being torn down, and one resumes by itself only to continue what was started; the PC's way to the phone ends and yields only a fresh grant; counts and exit codes are true; files survive two processes and a power loss; a picture of one worker is shown whole; texts, wishes, pictures and messages survive their conversions |
| `phone_resume` | violation | Finding 5 |

**Bounds, and why they are enough.**

- `phone_auth`: two PCs compete for a list of one, so that a renewal, a full list
  and a late approval meet; two Session objects are enough for "ended, and
  replaced by another one" because a Session that nothing refers to is reused. A
  prompt (3 ticks) outlives its cooldown (2), so both ways the rate limit can be
  reset are reachable. The run has no symmetry since two of its properties are
  temporal; `phone_auth_shadowed`, an invariant, permutes PCs and sessions.
- `outbound_fence`: a video queue of one, two captures of one unit each and one
  request: the smallest instance in which a callback of capture 1 stands between
  two critical sections while a fence and then capture 2 come, and a reply is
  replayed. `outbound_recovery`: the shipped queue of two and four units, so
  that a key frame, its dependents, the overflow and the next key frame are all
  there. The control queue is two; its overflow ends the session.
- `quality_safety`: two modes, the saved wish and one further request, two
  presses of Start, one pause, permission granted or not. One unread event in the
  desktop's pipe. A larger pipe (2 events) and a second request beside the saved
  wish ran clean in separate one-time runs of 4.3 M and 7.1 M states.
  `quality_liveness` adds a peer that repeats a request.
- `host_app`: five launches (USB and Wi-Fi; a PC that is set up, one whose USB
  access is denied but which has the helper, one without its loopback device; one
  of them with a failing system call), one retry, two enumerations of the phone,
  two presses. Two presses make "ask, then disconnect" and "disconnect, then ask
  again" against everything that was under way. Three presses, and a limit of two
  retries, ran clean launch by launch.
- `parts`: on the phone two connections and two presses (buttons, the
  notification, a failure of the storage or the camera) in either mode: an old and
  a new session or server, a reader that outlives the wait for it, a start and
  then a stop, a change of mode or a retry, and a drop with its resumption. On
  the PC three sessions of the phone (the older one, the one the hello
  begins, one more at a seam of the probe), two PINGs; two processes, two files
  and two harms; four pictures of at most two workers; three lines of a headless
  session; texts of four characters, files of three lines; pictures up to 14 by 9.

Deadlock is not checked in the outbound and quality runs, `parts` and the PC runs: their bounds run
out, and both ends may stop for good.

**Fairness.** `TimerSpec` (authorization) assumes only the 250 ms timer and the
clock. `FramedOutbound!FairSpec` assumes that threads run and that the peer reads,
so that a write ends: without it the writer's blocking write may never return
and nothing is promised. `QualitySwitching!FairSpec` assumes that armed deadlines
are looked at: the phone's Handler callback (weak), the worker's deadline (strong,
because a loop that is blocked on a full event pipe is enabled only between two
reads) and the desktop's polling of events. `HostApp!FairSpec` assumes that the
window repaints (it asks for a repaint while a session runs), that a deadline
passes and that a killed process ends; a worker that is only told to stop is not
assumed to. `HostLink!LinkFairness` assumes that the worker's thread runs and its
deadlines pass; the phone may stay silent; `Parts!FairSpec` assumes nothing else. Cameras, users, cables and peers are
never fair.

## 4. Findings

Each is a violation run whose property quotes the repository.

1. **A revocation mark outlives the approval that supersedes it**
   (`PhoneAuthorization.kt:225`, comment at line 227). `approve` stores the
   record, then checks that its prompt is alive, and only then clears the mark.
   When the pending session ends during the write, the PC is stored but shadowed:
   every session of it is authorized and ended at once, it is not "unknown", so
   no prompt comes, and a renewal does not clear the mark.
2. **A stale tap can latch a storage failure** (`ClientApprovalUi.kt:85`).
   `stored` treats every exception as a broken store, also the refusals of a
   healthy repository: a renewal from a dialog that lists a PC revoked since, an
   approval overtaken by another one that filled the list.
3. **Dependents forwarded without their key frame** (`FramedOutbound.kt:124`,
   `protocol/wire-v0.md:72`). Units that the encoder delivers before the camera
   thread has sent VIDEO_CONFIG are dropped without entering recovery.
4. **An interruption starts a capture in the middle of a switch**
   (`MainActivity.kt:433`, `02-control.md:37`). `onResume` starts an Auto capture
   while the machine is Prepared; the commit then starts nothing.
5. **A capture resumes that was stopped or refused** (`MainActivity.kt:479`;
   comment at lines 107-108 and `docs/architecture.md:167-169`: a refusal, an
   explicit stop or a mode change ends the resumption). The Stop of the
   notification does not clear what is remembered, so that a session that dropped
   before the intent arrives resumes the stopped capture; and a PC that was
   refused but hangs up before the refusal has been sent counts as a drop.

## 5. Proofs

**`PhoneAuthorizationProofs`** proves, for every set of PCs and sessions, every
capacity and every timeout: `TypeCorrectness` (`TypeOK`), `Consent`
(`ConsentBehindEveryGrant`), `DurableGrants` (`GrantIsDurable`), `DiskConsent`
(`DiskHoldsConsent`), `Capacity` (`ListWithinCapacity`), `Exchange`
(`ExchangeFollowsPhase`, `FailClosed`), `LateTaps` and `RateLimit`: every safety
property of the passing run. Assumptions, declared with the constants: timeouts,
the capacity and the lifetime of a record are positive, the largest time is a
natural number, and `None` is not a PC, a session or a number. Nothing is assumed
of the number of PCs; that the stored lists are finite is itself part of the
invariant. The inductive invariant `IInv` adds to the properties what they
silently need:

- `SlotInv`: a waiting or granted session has a PC and an identity;
- `TapInv`: what a tap knows while its write runs. An approval's PC is in
  `consent`, and if its session is still in the slot then it is still its prompt;
  a revocation's PC is marked. Without it the write's end could grant anything;
- `LagInv`: how far the snapshot may be behind the disk: equal when no write is
  between the two, otherwise they differ in the tap's PC only, and an unhealthy
  repository means a latched owner or a tap about to latch it. `GrantIsDurable`
  is not inductive without it, since `approve` grants from the snapshot;
- `CooldownInv`: cooldown and quiet time together cover UNKNOWN_COOLDOWN;
- `CapacityInv`: the lists are finite, so that their cardinality is a number.

**`HostAppProofs`** proves, for any retry limit and any number of launches,
faults, plugs and presses: `TypeCorrectness` (`TypeOK`), `SessionImplements`
(`HostApp` implements `SessionLifecycle` under `Phase` and `Receivers`),
`DisconnectIsFinal` (`DisconnectHolds`), `NewestRotationWins`
(`NewestTransform`) and `BoundedRetries` (`RetriesAreBounded`). The only
assumptions are that the limit is positive, that a launch has fields of the right
kinds, and that `None` is no truth value, no phone and none of the words the
fields hold. The bounds on plugs and presses are not used. The
invariant `Inv` is the types and

- `OneProcess`: a helper excludes a worker, and a session that still has a helper
  shows Connecting or Stopping; an error is shown only as a failure;
- `NothingRevives`: behind an Error the worker has always written Stopped, so that
  of a session shown as failed the next event left is Stopped and none that would
  show it as running again. Without it `SessionLifecycle` has no "no way back";
- `StartComesFirst`: the writer thread takes the slot only after Start, which is
  why a rotation set before the Start was written is not lost.

`BoundedRetries` needs a count of what may still dial. `Ahead` adds it up from the
state: the attempt of a launch, what is left of the budget, a timer that is due
(`Due`), a phone that was seen to leave and is back (`Ready`) or whose return is
still to be read from a queued list (`Returning`), and, on Wi-Fi, a list that finds
`waiting` set; a move that is under way counts for the budget it will start. Then
`DialsAreCounted` (dials made and dials ahead together keep to the bound) is
inductive with `WaitsAreKnown`: a dial is paid for by one of these
(`DialCosts`), a failure that is turned into a timer takes one from the budget
(`RearmedSpends`), only a plug adds to it (`PlugAddsOne`), and a failure the window has
not seen yet stays a failure (`FailureStaysShown`, which rests on `NothingRevives`), so
that no timer is counted twice. The proof corrected the property: the
bound was first `3 + AutoRetryLimit + returns`, which the run's instance satisfies
and a larger one does not. With "Switch to Wi-Fi" pressed while a USB session ends, a
queued list in which the phone is back dials, the move dials and fails to start, the
timer armed for the cable is still armed and dials, one list more finds `waiting` set and
dials, and only then is the budget spent: four dials beside it.

There is a lemma per method of `Session` (it keeps the invariant and is a step of
the abstract session or none), which the window's actions share, and one per
action group. `DisconnectIsFinal` adds `QuietAfterQuit`: after a Disconnect the
window is suppressed, no timer is armed, no move is pending and the launch's own
attempt lies behind; so that no step of a frame has anything left to dial.

**`FramedOutboundProofs`** proves, for every number of captures, units and
requests and every size of the queues: `TypeCorrectness` (`TypeOK`),
`FenceSeparates` (`NoVideoAfterItsFence`), `Metadata` (`OwnMetadata`), `Permits`
(`NoStrandedFrame`), `Keyframes` (`KeyframeIsRequested`), `Gaps`
(`GapsAreMarked`) and `Quiet` (`QuietAfterClose`), from the one assumption
`ConstantsAssumption`. The invariant `OutInv` says of two critical sections of one
operation what the first leaves for the second: everything up to the newest
fence is old and an enabled capture is newer than every fence; a configuration
that is not yet queued carries the token that is tested again; the permits and
the threads about to release one cover the queued frames (counted by the
cardinality of those threads); a recovery that has not been asked for has a
thread about to ask (`AskInv`); from the frame last written through the one in
the writer's hand to the end of the queue each unit follows its predecessor or is
a marked key frame, and while units are accepted the newest is the one the
encoder delivered last (`GapInv`, `TailOK`). The filter that takes the
configurations out of the control queue, like every `removeAll` of the models, is
a recursive function; `QueueProofs` proves that what it leaves is the queue's
members in their order without the ones taken out, by an induction over the
naturals that is a lemma of its own (`Induction`).

**`QualitySwitchingProofs`** proves, for all modes, any number of requests,
presses, pauses, repeats and unread events: `TypeCorrectness` (`TypeOK`),
`PictureIsReal` (`AppliedIsReal`), `EpochAgreement` (`EpochsAgree`),
`CaptureMatches` (`MatchingCapture`), `ShownIsApplied` (`AppliedIsShown`),
`WishesAreKept` (`WishIsKept`: the refinement of `QualityRequest` under `Place`,
`Wish` and `Shown`) and `UserHasTheLastWord` (`StopWins`): every safety property
of `quality_safety`. Besides the assumptions declared with the
constants nothing is used. The invariant `IInv` has one part per end and per
queue between them:

- `PhoneOK`: a camera that runs, a start that stands and a prepared machine all
  have the user's start behind them (`Invited`, which is what `StopWins` needs);
  what waits to be sent is of the capture that runs; the reply that would be
  repeated is the one of the phase the machine is in;
- `LinkInv`: nobody is ahead of the worker's requests and the last one has one
  mode (`IdsOK`); where a reply, a commit, a barrier or a configuration may stand
  in the two queues for each pair of phases of the two machines (`SwitchOK`,
  `AnswerOK`, `CommitOK`), and which epoch capabilities announce (`CapsOK`).
  `EpochsAgree` speaks of frames under way, so that without an account of every
  frame that could still come before them it is not inductive;
- `OutputInv`: the barrier the worker knows of lies behind the capture that runs
  now, and after the switch its configuration is newer than that barrier;
- `RequestInv`: one request at a time is in the slot, with the worker, or
  answered in the pipe, and there is at most one answer.
  The refinement needs it: that the request taken from the slot is never dropped
  because the worker is busy, and that the answer that is read is the answer to
  the wish, both follow from it. `PlaceOK` says where it puts the wish;
- `ShownInv`: where the desktop's belief and the output differ, the event that
  corrects it is in the pipe, before any answer.

**`PhoneConnectionProofs`** proves, for any number of accessory attachments,
clients, servers and presses: `OneSessionIsUp` (`OneSessionAtATime`),
`CaptureIsTornDown` (`TeardownIsUnderWay`) and `ResumptionIsEarned`
(`ResumesWhatWasStarted`). The invariant is a predicate `Sound` of the whole
process, because the methods of the Activity and of its sessions are functions
from one process to the next and call each other: there is a lemma per method,
from a process in which one session need not have its place (`PlacedBut`, the
session a method is about to end or begin) to a sound one. Its parts:

- `HasPlace`: an accessory session with a descriptor is the Activity's, its reader
  belongs to it or is the one the handover asks; a socket that is past the second
  look of `completeHandshake` has the slot of the Activity's server. That is why
  two sessions cannot be up, whichever thread closes the server in between;
- `SessionOK` and `OwnerOK`: a session runs once, is cancelled only when it no
  longer runs; the Activity's session is of its mode, and a server that runs is
  its own;
- `CaptureOK`: the capture is of the Activity's session, and if that session ended
  since it started, its teardown is queued or in hand;
- `WishOK`: a capture that runs, is asked for, about to start or remembered was
  started by somebody.

**`HostPartsProofs`** is about three parts of the PC's program.

*The preview's record*: `WholePictures` (`WholeWithinAWorker`) for any
number of workers and pictures. The record has an odd number while a picture is
being replaced and an even number stands over a whole one (`RecordInv`), the
numbers of one worker only grow (`NumbersGrow`), and while the record has the
number a reader began with, what was copied is unchanged (`ReaderInv`).

*A session without a window*: `ExitCodes` (`ExitIsTrue`) for any set of qualities
and any number of lines. `HeadlessInv` says of the lines the command has not read
that each tells the truth (a mode was applied or pictures were counted) and that
what the worker has done is either known to the command or still among those
lines, so that the code it computes at the end of the pipe is right.

*The way to the phone*: `WorkerEndsTruly` (`EndsTruly`), that is `OutcomesAreFresh`
(`FreshGrant`) and `ProbeTotals` (`ProbeCounts`), for any number of PINGs, seams and
sessions of the phone and a stream of any length. The invariant `LinkInv` looks at the stream of transfers as
a whole, what the endpoint holds and then what the phone has not written
(`Stream`). `StreamInv`: what follows a challenge is of its session up to the next
challenge (`Follows`), challenges grow, and a grant the worker holds is of the
session it has answered. `AnswerInv`: each session is answered at most once, for its
challenge is no longer in front of the worker (`Unanswerable`), and a session that a
HOST_HELLO ends is never the one the worker has answered last: a `FreshGrant` alone
is not inductive, since an old outcome in the endpoint could be read after it.
`CountInv`: a PING that counts as sent has one outcome or is being waited for, and
the echoes counted, held and on their way are at most those the phone has sent;
the number of echoes in a sequence is the cardinality of the set of their positions.
The lemmas go from the positions of a sequence (`Appends`, `Tails`, `FirstTaken`)
to one transfer of the stream (`PieceWritten`, `ChallengeWritten`, `PieceRead`,
`HeaderKept`), to a frame or a session of the phone (`FrameSent`, `SessionRenewed`)
and to the actions. `NoneAssumption` says that the model value for "nothing" is
none of the messages and outcomes; the code has `Option` there.

**`HostFilesProofs`** proves `KeysAreKept` (`FilesSurvive`) for any number of
processes, names and harms: every directory state that a power loss can leave has
the acknowledged keys, in place or in quarantine, and names only files that were
synced (`DirectoryOK`). Each step of a create, a recovery or a save carries what
the next one relies on (`ActivityOK`), and no two processes have reserved
the same quarantine name (`DistinctNames`).

Each conjunct of an invariant has a lemma of its own with one step per action
that can disturb it; the theorems combine them by PTL.

Only model-checked: liveness (fairness and ENABLED are out of the prover's
reach); and the algorithms (`DataSurvive` among them), whose folds over sequences
would need induction over data.

## 6. Known deviations

Behaviours that a reader should know and that no run reports, because no document
contradicts them, the effect passes, or a model would only restate the line:

- `QualitySwitch.kt:97`: a busy rejection is not remembered, so that the same
  request repeated later pauses the camera (`quality-control-v0.md:61` speaks of
  repeats in general). The repository's own PC never repeats one.
- After the phone has reported a mode applied and before the PC has its picture, a
  user who stops and starts again begins an Auto capture, and the PC ends the
  session because the mode does not match; `MatchingCapture` excludes it by name.
  A user who stops and starts while a chosen mode is being shown changes the
  configuration during active output, which the PC also ends with.
- `CaptureCancellation.kt:33`: the teardown asks whether its session is still the
  Activity's and then detaches whatever capture is current. A stale cancellation
  may so close another session's capture, which fails safe.
- A capture that starts between the cancellation of its session and the end of its grant,
  while its bridge is being installed, is stopped by the main looper only.
- `CameraEncoderSession.kt:100`: `close()` may overtake the callback of a device
  that has just opened; the device then stays open and delivers no pictures.
- `LanServer.kt`: a client that fails the handshake, or a PC that stays silent
  until the deadline, is told in the words of a refusal and ends the resumption.
  A Retry that is handled between a server's "closed" and its "error" loses the
  refusal.
- `LanServer.kt:136-163`: when the handshake's deadline closes the socket of a
  handshake that has just succeeded, `LanSession.start` returns silently and the
  session keeps the only slot until the server is closed.
- A session that is closed between `onStarted` and `startMedia` leaves the
  owner's slot taken until the timer ends it, up to five seconds later.
- `gui.rs:189`: at a cold start over USB nothing is dialled by itself until a
  dial has failed or the user has pressed Connect; the comment above speaks of a phone that came
  back.
- `gui.rs:1117`: a Disconnect does not cancel a move to Wi-Fi that is under way;
  the session that begins afterwards has to be disconnected by itself.
- `gui.rs`: the list of the bus is taken every two seconds, so that a replug
  between two lists is not seen; and a wait for the cable that outlives a change
  of transport gives Wi-Fi dials outside the budget, which the bound of
  `RetriesAreBounded` has to allow for (section 5 has the case that uses all of it).
- `headless.rs:121`: `--seconds` is looked at between two lines of the worker: a
  silent worker holds the command. At its end the command writes Stop and kills
  at once. A USB session started headless names no device and fails.
- `headless.rs:11-12`: a worker that refuses to start is listed under exit code 2;
  what the worker refuses (a key it cannot read, its settings) ends with code 1,
  and 2 is left for settings or a process that this command could not get
  itself. `ExitIsTrue` says nothing of code 2.
- `video.rs`: an expired PENDING wait looks like the silence for which a hello
  helps, so that the second attempt follows sixty seconds of waiting.
- `usb_probe.rs` `run`: a CLIENT_CHALLENGE that arrives between PINGs is taken
  from the stream before the exchange that needs it begins. At a seam that
  exchange sends no hello: it waits for the next challenge, and the probe fails
  if the phone does not begin another session within its budget.
- `session.rs:761`: "Allow USB access" goes by the device that the worker was
  denied, which after a replug is no longer on the bus: the press then fails, and
  only the dial after it is of the device that is selected.
- `identity/store.rs`: a key can be used before its directory entry is synced (it
  is promised only after), a second recovery of the same key moves the good new
  one aside, where it stays readable, and a settings file that cannot be read
  gives the defaults (it is not written over).
- `settings.rs:376`: of two windows that save at the same moment, between compare
  and rename, the later one wins.
- `preview.rs:108` (comment at line 11): every worker counts from zero in the same
  file, so that a reader in the middle can be shown half of the old worker's
  picture and half of the new one's; `WholeWithinAWorker` shows that this is the
  only way.
- `preview.rs`: the copy may be one picture late; on Windows it is sampled from
  the bottom-up buffer.
- `output/linux.rs`: a frame that the device would block on is dropped and
  counted as submitted.

## 7. What the models leave out

- Cryptography, TLS and pairing: a proof is genuine or not.
- H.264 and the samples of pixels; FFmpeg. Sequence numbers, the 32-bit request
  ids and epochs are taken as unbounded, as no behaviour wraps them; the 32-bit
  expiry is kept, as `MAX_UNIX_SECONDS`.
- The deliberate reset (`ClientStore.clear`): it runs on the UI thread, like every
  write, and only after a storage failure has closed the owner, so that its epoch
  check never meets a write of the older owner under way.
- The one-second windows of `SessionControl` that cap pings, hellos and IDR
  requests, and delays (reconnect back-off, join timeouts): the models let the
  delayed thing happen at any time.
- Outputs (V4L2, PipeWire, Unity Capture) and libusb: a frame is taken or refused,
  a transfer arrives or not.
- DPAPI and the registry on Windows; the Windows forms of the file operations.
- Floating point: scaling uses exact fractions.
- The layout, texts and widgets of both front ends, the Android service and its
  notification, build, packaging, CI and the earlier C++ host. `PROJECT.json`
  gives the reason for each component.

## 8. Plan

Done: authorization, the outbound writer, the PC program's window and supervisor
(with a refinement), its files and its preview, the quality switch on both ends
(with a refinement), the phone's connection owner with its sessions, server and
teardown, the PC's way to the phone and the sessions without a window, each with
proofs; and the algorithms. Next, in order of what matters most:

1. **Abstract slot for `PhoneConnection`**: a slot that holds at most one live
   session and one capture, which the detailed module implements under `INSTANCE
   ... WITH`, on the invariant that is proved now.
2. **Composition of `HostLink` with `PhoneAuthorization`**: the exchange ends in
   the same outcome on both ends or in an error.
