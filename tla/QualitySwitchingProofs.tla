----------------------- MODULE QualitySwitchingProofs -----------------------
(***************************************************************************)
(* Theorems about QualitySwitching, for any modes, any number of requests, *)
(* presses, pauses and repetitions and any length of the event pipe: the   *)
(* two ends agree on epochs, the picture that is called applied is one of  *)
(* the requested mode from after the barrier, the desktop and its worker   *)
(* implement QualityRequest, what is shown is what the output shows, and   *)
(* the phone's user has the last word.                                     *)
(***************************************************************************)
EXTENDS QualitySwitching, QueueProofs

-----------------------------------------------------------------------------
(* Types. *)

CapsFrames   == [kind : {"caps"}, revision : Nat, ready : BOOLEAN, epoch : Nat]
PausedFrames == [kind : {"paused"}, id : Nat, epoch : Nat, gen : Nat]
ResultFrames == [kind : {"result"}, id : Nat, status : {"switching", "rejected", "applied", "staged"},
                 mode : AnyMode, gen : Nat]
ConfigFrames == [kind : {"config"}, mode : Modes]
UnitFrames   == [kind : {"unit"}, mode : AnyMode, gen : Nat]
Answers      == PausedFrames \union ResultFrames
ControlFrames == CapsFrames \union Answers \union ConfigFrames
Commands == [kind : {"prepare"}, id : Nat \ {0}, revision : Nat, mode : Modes]
            \union [kind : {"commit"}, id : Nat, epoch : Nat]
Events == [kind : {"caps", "progress", "failed", "stopped"}, mode : AnyMode, flag : BOOLEAN]
          \union [kind : {"applied", "stats"}, mode : Modes, flag : BOOLEAN]

PhoneRecords ==
    [phase : Phases, id : Nat, mode : AnyMode, epoch : Nat, armed : BOOLEAN,
     reply : {<<>>} \union Answers, prepared : AnyMode, startRequested : BOOLEAN,
     foreground : BOOLEAN, permission : BOOLEAN, asking : BOOLEAN, ready : BOOLEAN,
     revision : Nat, camera : {"off", "starting", "configured", "running"}, gen : Nat,
     captured : AnyMode, control : Seq(ControlFrames), video : Seq(UnitFrames), open : BOOLEAN,
     invited : BOOLEAN, intruded : BOOLEAN]
WorkerRecords ==
    [running : BOOLEAN, phase : WorkerPhases, id : Nat, epoch : Nat \union {-1},
     requested : AnyMode, armed : BOOLEAN, advertised : BOOLEAN, ready : BOOLEAN,
     revision : Nat, config : AnyMode, output : AnyMode, fence : Nat, seen : UnitFrames]
ClientRecords ==
    [state : {"running", "stopping", "down"}, ready : BOOLEAN, checked : BOOLEAN,
     pending : AnyMode, staged : BOOLEAN, applied : AnyMode, watched : BOOLEAN]
Spent == [requests : Nat, presses : Nat, pauses : Nat, repeats : Nat, wish : Modes]

Types ==
    /\ phone \in PhoneRecords /\ worker \in WorkerRecords /\ client \in ClientRecords
    /\ slot \in AnyMode /\ events \in Seq(Events) /\ toPhone \in Seq(Commands)
    /\ used \in Spent

-----------------------------------------------------------------------------
(* The phone by itself. *)

\* PAUSED, or STAGED: what the capture it names was fenced by.
IsBarrier(f) == f.kind = "paused" \/ (f.kind = "result" /\ f.status = "staged")
\* A barrier's capture lies behind, the one that runs is newer.
Past(p, gen) == gen <= p.gen /\ (p.camera # "off" => gen < p.gen)

\* A stop by the user leaves nothing that would start the camera.
Invited(p) == p.startRequested \/ p.camera # "off" \/ p.phase = "Prepared" => p.invited

\* What waits to be sent is of the capture that runs.
CaptureOK(p) ==
    /\ p.camera # "off" => p.captured \in Modes
    /\ p.video # <<>> => p.camera # "off" /\ p.video = <<Unit(p.captured, p.gen)>>
    /\ \A i \in DOMAIN p.control :
           /\ p.control[i].kind = "config" =>
                  p.camera \in {"configured", "running"} /\ p.control[i].mode = p.captured
           /\ IsBarrier(p.control[i]) => Past(p, p.control[i].gen)

\* The machine, its last reply, and the capture that was started for it.
MachineOK(p) ==
    /\ p.phase \in Busy => p.mode \in Modes /\ p.prepared = p.mode
    /\ (p.id > 0) <=> (p.reply # <<>>)
    /\ p.phase \in Busy => p.id > 0
    /\ p.reply # <<>> =>
           /\ p.reply.id = p.id
           /\ IsBarrier(p.reply) => Past(p, p.reply.gen)
           /\ p.reply.kind = "paused" => p.phase \in {"Prepared", "Starting"}
           /\ p.reply.kind = "result" /\ p.reply.status = "staged" => p.phase = "Staged"
    /\ p.phase = "Prepared" => p.reply.kind = "paused" /\ p.reply.epoch = p.epoch
    /\ p.phase = "Staged" => p.camera = "off"
    /\ p.open /\ ~p.intruded =>
           /\ p.phase = "Prepared" => p.camera = "off"
           /\ p.phase = "Starting" => p.camera # "off" /\ p.captured = p.mode

PhoneOK(p) == p \in PhoneRecords /\ Invited(p) /\ CaptureOK(p) /\ MachineOK(p)

-----------------------------------------------------------------------------
(* The two ends. *)

\* Nobody is ahead of the worker's requests, and the last one has one mode.
IdsOK ==
    /\ phone.id <= worker.id
    /\ phone.id = worker.id /\ phone.phase \in Busy => phone.mode = worker.requested
    /\ \A i \in DOMAIN phone.control :
           phone.control[i].kind \in {"paused", "result"} => phone.control[i].id <= worker.id
    /\ \A i \in DOMAIN toPhone :
           /\ toPhone[i].id <= worker.id
           /\ toPhone[i].kind = "prepare" /\ toPhone[i].id = worker.id =>
                  toPhone[i].mode = worker.requested
    /\ worker.id > 0 => worker.requested \in Modes

Live == phone.open /\ worker.running /\ ~phone.intruded
SameEpoch == worker.epoch \in {-1, phone.epoch}
IsCommit(c) == c.kind = "commit"
NoCommit == \A i \in DOMAIN toPhone : ~IsCommit(toPhone[i])

\* The phone works on the worker's request ...
Works(phases) ==
    phone.id = worker.id /\ phone.phase \in phases /\ phone.mode = worker.requested
\* ... or has failed, and its rejection reaches the PC before any other video.
IsRejection(f) == f.kind = "result" /\ f.status = "rejected" /\ f.id = worker.id
Refused ==
    /\ phone.id = worker.id /\ phone.phase = "Failed"
    /\ \E i \in DOMAIN phone.control :
           /\ IsRejection(phone.control[i])
           /\ \A j \in 1..i : phone.control[j].kind # "config"

Behind == {"Staged", "Starting", "Applied"}
\* Where the phone is when the worker waits for it.
SwitchOK ==
    /\ worker.phase = "Switching" =>
           \/ (Works({"Prepared"}) /\ worker.epoch = phone.epoch + 1)
           \/ (Works(Behind) /\ SameEpoch /\ NoCommit)
           \/ Refused
    /\ worker.phase = "AwaitingOutput" => (Works(Behind) /\ SameEpoch) \/ Refused
    /\ worker.phase = "Staged" => Works(Behind) \/ Refused
    /\ worker.phase \notin {"Switching", "AwaitingOutput"} => SameEpoch
\* The answer to a request that the worker is about to read.
AnswerOK ==
    worker.phase = "Preparing" =>
        /\ \A i \in DOMAIN phone.control :
               LET f == phone.control[i]
               IN  /\ f.kind = "paused" /\ f.id = worker.id =>
                          f.epoch = phone.epoch /\ (Works({"Prepared"}) \/ Refused)
                   /\ f.kind = "result" /\ f.status = "staged" /\ f.id = worker.id =>
                          Works(Behind) \/ Refused
        /\ phone.id = worker.id => phone.reply.kind # "paused" \/ phone.phase = "Prepared"
\* A commit is on its way only while the worker waits for its effect.
CommitOK ==
    \A i \in DOMAIN toPhone : IsCommit(toPhone[i]) =>
        /\ worker.phase = "Switching"
        /\ toPhone[i].id = worker.id /\ toPhone[i].epoch = worker.epoch
        /\ \A j \in DOMAIN toPhone : IsCommit(toPhone[j]) => i = j
\* Capabilities announce the epoch that is, except before the video of a switch.
CapsOK ==
    \A i \in DOMAIN phone.control : phone.control[i].kind = "caps" =>
        \/ phone.control[i].epoch = phone.epoch
        \/ /\ worker.phase = "Switching"
           /\ \A j \in 1..i : phone.control[j].kind # "config"

LinkInv == IdsOK /\ (Live => SwitchOK /\ AnswerOK /\ CommitOK /\ CapsOK)

-----------------------------------------------------------------------------
(* The PC. *)

Switched == {"AwaitingOutput", "Applied"}
\* The worker's output and the barrier it knows of.
OutputInv ==
    /\ Past(phone, worker.fence)
    /\ worker.output \in {NoMode, worker.config}
    /\ worker.running /\ AwaitingVideo => worker.config \in {NoMode, worker.requested}
    /\ worker.running /\ worker.phase \in Switched =>
           worker.config = worker.requested /\ worker.fence < phone.gen
    /\ worker.phase # "Idle" => worker.id > 0 \/ ~worker.running
    /\ ~worker.running => worker.phase = "Failed"
    /\ AppliedIsReal

Settles(e) == e.kind \in {"applied", "failed"}
\* A wish is in the slot, with the worker, or answered, and the worker has no other.
PendingIsWorkedOn ==
    client.state = "running" =>
        /\ client.pending # NoMode =>
               \/ slot = client.pending
               \/ Working /\ worker.requested = client.pending
               \/ \E i \in DOMAIN events : events[i].kind \in {"applied", "failed", "stopped"}
        /\ slot # NoMode \/ Working =>
               client.pending = IF slot # NoMode THEN slot ELSE worker.requested
\* One request at a time is in the slot, with the worker, or answered.
RequestInv ==
    client.state = "running" =>
        /\ slot # NoMode => slot = client.pending /\ ~Working
        /\ Working => client.pending = worker.requested
        /\ slot # NoMode \/ Working \/ client.pending = NoMode =>
               \A i \in DOMAIN events : ~Settles(events[i])
        /\ \A i, j \in DOMAIN events : Settles(events[i]) /\ Settles(events[j]) => i = j
        /\ \A i \in DOMAIN events : events[i].kind = "stopped" => ~worker.running
        /\ PendingIsWorkedOn

\* What the client believes was on the output, and is until it learns better.
Learns(i) == client.pending # NoMode /\ \A j \in 1..i : ~Settles(events[j])
ShownInv ==
    client.state = "running" =>
        /\ client.applied # NoMode => client.applied # client.pending
        /\ worker.running =>
              /\ client.applied \notin {NoMode, worker.output} =>
                     \E i \in DOMAIN events : events[i].kind = "progress" /\ Learns(i)
              /\ \A i \in DOMAIN events :
                     /\ events[i].kind = "stats" => events[i].mode = worker.output \/ Learns(i)
                     /\ events[i].kind = "applied" => events[i].mode = worker.output

IInv == Types /\ PhoneOK(phone) /\ LinkInv /\ OutputInv /\ RequestInv /\ ShownInv

-----------------------------------------------------------------------------
(* The control queue. *)

Configs == {VideoConfig(mode) : mode \in Modes}
Clear(c, i) == \A j \in 1..i : c[j].kind # "config"
\* d is what became of the queue c: a frame in it is new or was there, what lay
\* before every config still does, and no such frame but a config is lost.
Carries(c, d, new) ==
    /\ \A j \in DOMAIN d :
           d[j] \in new \/ \E i \in DOMAIN c : d[j] = c[i] /\ (Clear(c, i) => Clear(d, j))
    /\ \A i \in DOMAIN c :
           Clear(c, i) => \E j \in DOMAIN d : d[j] = c[i] /\ Clear(d, j)

LEMMA CarriesSame ==
    ASSUME NEW c \in Seq(ControlFrames), NEW new
    PROVE  Carries(c, c, new)
  BY DEF Carries

LEMMA CarriesAppend ==
    ASSUME NEW c \in Seq(ControlFrames), NEW f \in ControlFrames
    PROVE  /\ Append(c, f) \in Seq(ControlFrames) /\ Carries(c, Append(c, f), {f})
           /\ Len(Append(c, f)) = Len(c) + 1 /\ Append(c, f)[Len(c) + 1] = f
           /\ \A i \in DOMAIN c : i \in DOMAIN Append(c, f) /\ Append(c, f)[i] = c[i]
<1> DEFINE d == Append(c, f)
<1>1. /\ d \in Seq(ControlFrames) /\ Len(d) = Len(c) + 1 /\ d[Len(c) + 1] = f
      /\ Len(c) \in Nat /\ DOMAIN c = 1..Len(c) /\ DOMAIN d = 1..Len(d)
      /\ \A i \in 1..Len(c) : d[i] = c[i]
  OBVIOUS
<1> HIDE DEF d
<1>2. \A i \in 1..Len(c) : Clear(c, i) => Clear(d, i)
  BY <1>1 DEF Clear
<1>3. \A j \in 1..Len(d) : j \in 1..Len(c) \/ j = Len(c) + 1
  BY <1>1
<1>4. \A i \in 1..Len(c) : i \in 1..Len(d)
  BY <1>1
<1>5. Carries(c, d, {f})
  BY <1>1, <1>2, <1>3, <1>4 DEF Carries
<1> QED
  BY <1>1, <1>4, <1>5 DEF d

LEMMA CarriesWithout ==
    ASSUME NEW c \in Seq(ControlFrames)
    PROVE  /\ Without(c, Configs) \in Seq(ControlFrames) /\ Carries(c, Without(c, Configs), {})
           /\ \A j \in DOMAIN Without(c, Configs) : Without(c, Configs)[j].kind # "config"
<1> DEFINE d == Without(c, Configs)
<1>1. /\ d \in Seq(ControlFrames) /\ Len(d) \in Nat /\ Len(c) \in Nat
      /\ DOMAIN d = 1..Len(d) /\ DOMAIN c = 1..Len(c)
  <2>1. d \in Seq(ControlFrames)
    BY WithoutProperties
  <2> HIDE DEF d
  <2> QED
    BY <2>1
<1>2. PICK at \in [1..Len(d) -> 1..Len(c)] :
         /\ \A j \in 1..Len(d) : d[j] = c[at[j]] /\ c[at[j]] \notin Configs
         /\ \A i \in 1..Len(c) : c[i] \notin Configs => \E j \in 1..Len(d) : at[j] = i
  BY WithoutProperties
<1> HIDE DEF d
<1>3. \A f \in ControlFrames : f.kind = "config" => f \in Configs
  BY DEF ControlFrames, CapsFrames, Answers, PausedFrames, ResultFrames, ConfigFrames, Configs,
         VideoConfig
<1>4. \A j \in 1..Len(d) : d[j].kind # "config" /\ \E i \in 1..Len(c) : d[j] = c[i]
  BY <1>1, <1>2, <1>3
<1>5. \A j \in 1..Len(d) : Clear(d, j)
  BY <1>1, <1>4 DEF Clear
<1>6. ASSUME NEW i \in 1..Len(c), Clear(c, i)
      PROVE  \E j \in 1..Len(d) : d[j] = c[i]
  <2>1. c[i].kind # "config"
    BY <1>1, <1>6 DEF Clear
  <2>2. c[i] \notin Configs
    BY <2>1 DEF Configs, VideoConfig
  <2> QED
    BY <1>2, <2>2
<1>7. Carries(c, d, {})
  BY <1>1, <1>4, <1>5, <1>6 DEF Carries
<1> QED
  BY <1>1, <1>4, <1>7 DEF d

LEMMA CarriesTwice ==
    ASSUME NEW c, NEW d, NEW e, NEW some, NEW more, Carries(c, d, some), Carries(d, e, more)
    PROVE  Carries(c, e, some \union more)
  BY DEF Carries

LEMMA CarriesMore ==
    ASSUME NEW c, NEW d, NEW some, NEW more, Carries(c, d, some), some \subseteq more
    PROVE  Carries(c, d, more)
  BY DEF Carries

-----------------------------------------------------------------------------
(* What the user, the system and the deadline do on the phone. *)

\* Frames that answer no request for the first time.
Harmless(id, epoch) ==
    {f \in ControlFrames :
        \/ f.kind = "caps" /\ f.epoch = epoch
        \/ f.kind = "config"
        \/ f.kind = "result" /\ f.status # "staged" /\ f.id = id}
Rejects(f, id) == f.kind = "result" /\ f.status = "rejected" /\ f.id = id

LEMMA FrameKinds ==
    ASSUME NEW f \in ControlFrames
    PROVE  /\ f.kind \in {"caps", "paused", "result", "config"}
           /\ f.kind = "caps" => f \in CapsFrames
           /\ f.kind = "paused" => f \in PausedFrames
           /\ f.kind = "result" => f \in ResultFrames
           /\ f.kind = "config" => f \in ConfigFrames
  BY DEF ControlFrames, CapsFrames, Answers, PausedFrames, ResultFrames, ConfigFrames

\* A step in which no request is taken and no epoch begins.
UserStep(p, r) ==
    /\ r.id = p.id /\ r.epoch = p.epoch
    /\ r.open => p.open
    /\ p.intruded => r.intruded
    /\ p.gen <= r.gen /\ (r.camera # "off" => p.camera # "off" \/ p.gen < r.gen)
    /\ Carries(p.control, r.control, Harmless(p.id, p.epoch))
    /\ \/ r.phase = p.phase /\ r.mode = p.mode
       \/ /\ p.phase \in {"Staged", "Starting"} /\ r.phase \in {"Starting", "Applied"}
          /\ r.mode = p.mode
       \/ /\ p.phase \in Busy /\ r.phase = "Failed"
          /\ \E i \in DOMAIN r.control : Rejects(r.control[i], p.id) /\ Clear(r.control, i)
    /\ r.reply # <<>> /\ r.reply.kind = "paused" => r.reply = p.reply /\ r.phase = p.phase

LEMMA UserStepTwice ==
    ASSUME NEW p \in PhoneRecords, NEW q \in PhoneRecords, NEW r \in PhoneRecords,
           UserStep(p, q), UserStep(q, r)
    PROVE  UserStep(p, r)
<1> DEFINE new == Harmless(p.id, p.epoch)
<1>1. /\ p.gen \in Nat /\ q.gen \in Nat /\ r.gen \in Nat
      /\ q.id = p.id /\ q.epoch = p.epoch
  BY DEF PhoneRecords, UserStep
<1>2. Carries(p.control, q.control, new) /\ Carries(q.control, r.control, new)
  BY <1>1 DEF UserStep
<1> HIDE DEF new
<1>3. Carries(p.control, r.control, new)
  <2>1. new \union new = new
    OBVIOUS
  <2> QED
    BY <1>2, <2>1, CarriesTwice
<1>4. \/ r.phase = p.phase /\ r.mode = p.mode
      \/ /\ p.phase \in {"Staged", "Starting"} /\ r.phase \in {"Starting", "Applied"}
         /\ r.mode = p.mode
      \/ /\ p.phase \in Busy /\ r.phase = "Failed"
         /\ \E i \in DOMAIN r.control : Rejects(r.control[i], p.id) /\ Clear(r.control, i)
  <2>1. CASE /\ p.phase \in Busy /\ q.phase = "Failed"
             /\ \E i \in DOMAIN q.control : Rejects(q.control[i], p.id) /\ Clear(q.control, i)
    <3>1. \E i \in DOMAIN r.control : Rejects(r.control[i], p.id) /\ Clear(r.control, i)
      BY <1>2, <2>1 DEF Carries, Rejects
    <3>2. r.phase = "Failed"
      BY <2>1 DEF UserStep, Busy
    <3> QED
      BY <2>1, <3>1, <3>2
  <2>2. CASE ~(p.phase \in Busy /\ q.phase = "Failed")
    BY <1>1, <2>2 DEF UserStep, Busy
  <2> QED
    BY <2>1, <2>2, <1>1 DEF UserStep
<1>5. r.reply # <<>> /\ r.reply.kind = "paused" => r.reply = p.reply /\ r.phase = p.phase
  BY DEF UserStep
<1> QED
  BY <1>1, <1>3, <1>4, <1>5 DEF UserStep, new

LEMMA CloseBridgeIs ==
    ASSUME NEW p \in PhoneRecords
    PROVE  \E c \in Seq(ControlFrames) :
              /\ CloseBridge(p) = [p EXCEPT !.camera = "off", !.video = <<>>, !.control = c]
              /\ CloseBridge(p) \in PhoneRecords
              /\ Carries(p.control, c, {})
              /\ \A j \in DOMAIN c : c[j].kind # "config" /\ \E i \in DOMAIN p.control : c[j] = p.control[i]
<1> DEFINE c == Without(p.control, Configs)
<1>1. p.control \in Seq(ControlFrames)
  BY DEF PhoneRecords
<1>2. /\ c \in Seq(ControlFrames) /\ Carries(p.control, c, {})
      /\ \A j \in DOMAIN c : c[j].kind # "config"
  BY <1>1, CarriesWithout
<1>3. \A j \in DOMAIN c : \E i \in DOMAIN p.control : c[j] = p.control[i]
  BY <1>2 DEF Carries
<1>4. CloseBridge(p) = [p EXCEPT !.camera = "off", !.video = <<>>, !.control = c]
  BY DEF CloseBridge, Configs
<1> HIDE DEF c
<1>5. <<>> \in Seq(UnitFrames)
  OBVIOUS
<1>6. [p EXCEPT !.camera = "off", !.video = <<>>, !.control = c] \in PhoneRecords
  BY <1>2, <1>5 DEF PhoneRecords
<1>7. CloseBridge(p) \in PhoneRecords
  BY <1>4, <1>6
<1> QED
  BY <1>2, <1>3, <1>4, <1>7

LEMMA AnswersAreFrames ==
    ASSUME NEW f \in Answers
    PROVE  f # <<>> /\ f \in ControlFrames
<1>1. "kind" \in DOMAIN f
  BY DEF Answers, PausedFrames, ResultFrames
<1>2. DOMAIN <<>> = {}
  OBVIOUS
<1> QED
  BY <1>1, <1>2 DEF ControlFrames

\* What a method relies on that is called in the middle of another one.
Sound(p) ==
    /\ p \in PhoneRecords /\ CaptureOK(p)
    /\ (p.id > 0) <=> (p.reply # <<>>)
    /\ p.phase \in Busy => p.id > 0
    /\ p.reply # <<>> => p.reply.id = p.id /\ (IsBarrier(p.reply) => Past(p, p.reply.gen))

LEMMA SoundPhone ==
    ASSUME NEW p, PhoneOK(p)
    PROVE  Sound(p)
  BY DEF PhoneOK, MachineOK, Sound

LEMMA FailKeeps ==
    ASSUME NEW p, Sound(p), p.phase \in Busy
    PROVE  PhoneOK(Fail(p)) /\ UserStep(p, Fail(p)) /\ Fail(p).gen = p.gen
           /\ Fail(p).phase = "Failed" /\ ~Fail(p).startRequested /\ Fail(p).open = p.open
           /\ Fail(p).camera = "off"
<1> DEFINE f == Result(p.id, "rejected", NoMode, p.gen)
<1>1. p \in PhoneRecords
  BY DEF Sound
<1>2. PICK c \in Seq(ControlFrames) :
          /\ CloseBridge(p) = [p EXCEPT !.camera = "off", !.video = <<>>, !.control = c]
          /\ CloseBridge(p) \in PhoneRecords
          /\ Carries(p.control, c, {})
          /\ \A j \in DOMAIN c : c[j].kind # "config" /\ \E i \in DOMAIN p.control : c[j] = p.control[i]
  BY <1>1, CloseBridgeIs
<1>3. f \in ResultFrames /\ f \in Answers
  BY <1>1 DEF Result, ResultFrames, Answers, PhoneRecords, AnyMode
<1>4. f # <<>> /\ f \in ControlFrames
  BY <1>3, AnswersAreFrames
<1> DEFINE d == Append(c, f)
<1>5. Fail(p) = [p EXCEPT !.camera = "off", !.video = <<>>, !.control = d, !.phase = "Failed",
                          !.armed = FALSE, !.mode = NoMode, !.startRequested = FALSE,
                          !.invited = FALSE, !.reply = f]
  BY <1>1, <1>2 DEF Fail, Reply, Send, PhoneRecords
<1>6. /\ d \in Seq(ControlFrames) /\ Carries(c, d, {f}) /\ Len(d) = Len(c) + 1
      /\ d[Len(c) + 1] = f /\ \A i \in DOMAIN c : i \in DOMAIN d /\ d[i] = c[i]
  BY <1>4, CarriesAppend
<1>7. f.kind = "result" /\ f.status = "rejected" /\ f.id = p.id
  BY DEF Result
<1> HIDE DEF f, d
<1>8. Len(c) \in Nat /\ DOMAIN c = 1..Len(c) /\ DOMAIN d = 1..Len(d)
  BY <1>6
<1>9. \A j \in DOMAIN d : d[j].kind # "config" /\ (d[j] = f \/ \E i \in DOMAIN p.control : d[j] = p.control[i])
  <2>1. \A j \in 1..Len(d) : j \in 1..Len(c) \/ j = Len(c) + 1
    BY <1>6, <1>8
  <2> QED
    BY <1>2, <1>6, <1>7, <1>8, <2>1
<1>10. Carries(p.control, d, Harmless(p.id, p.epoch))
  <2>1. Carries(p.control, d, {} \union {f})
    BY <1>2, <1>6, CarriesTwice
  <2>2. {} \union {f} \subseteq Harmless(p.id, p.epoch)
    BY <1>4, <1>7 DEF Harmless
  <2> QED
    BY <2>1, <2>2, CarriesMore
<1>11. \E i \in DOMAIN d : Rejects(d[i], p.id) /\ Clear(d, i)
  <2>1. Len(c) + 1 \in DOMAIN d
    BY <1>6, <1>8
  <2>2. Clear(d, Len(c) + 1)
    BY <1>6, <1>8, <1>9 DEF Clear
  <2> QED
    BY <1>6, <1>7, <2>1, <2>2 DEF Rejects
<1> DEFINE r == Fail(p)
<1>12. r \in PhoneRecords
  <2>1. <<>> \in Seq(UnitFrames)
    OBVIOUS
  <2> QED
    BY <1>1, <1>3, <1>5, <1>6, <2>1 DEF PhoneRecords, AnyMode, Phases
<1>13. /\ r.camera = "off" /\ r.video = <<>> /\ r.control = d /\ r.phase = "Failed" /\ r.mode = NoMode
       /\ ~r.startRequested /\ r.reply = f /\ r.gen = p.gen /\ r.id = p.id /\ r.epoch = p.epoch
       /\ r.open = p.open /\ r.intruded = p.intruded /\ r.captured = p.captured
  BY <1>1, <1>5 DEF PhoneRecords
<1> HIDE DEF r
<1>14. \A i \in DOMAIN d : IsBarrier(d[i]) => Past(r, d[i].gen)
  BY <1>7, <1>9, <1>13 DEF Sound, CaptureOK, IsBarrier, Past
<1>15. PhoneOK(r)
  <2>1. p.id > 0 /\ p.gen \in Nat
    BY <1>1 DEF Sound, PhoneRecords
  <2>2. CaptureOK(r)
    BY <1>9, <1>13, <1>14 DEF CaptureOK
  <2>3. MachineOK(r)
    BY <1>4, <1>7, <1>13, <2>1 DEF MachineOK, Busy, IsBarrier
  <2>4. Invited(r)
    BY <1>13 DEF Invited
  <2> QED
    BY <1>12, <2>2, <2>3, <2>4 DEF PhoneOK
<1>16. UserStep(p, r)
  BY <1>1, <1>7, <1>10, <1>11, <1>13 DEF UserStep, PhoneRecords
<1> QED
  BY <1>13, <1>15, <1>16 DEF r

LEMMA CancelKeeps ==
    ASSUME NEW p, Sound(p), p.phase \in Busy \/ PhoneOK(p)
    PROVE  /\ PhoneOK(Cancel(p)) /\ UserStep(p, Cancel(p)) /\ Cancel(p).gen = p.gen
           /\ Cancel(p).phase \notin Busy /\ Cancel(p).open = p.open
           /\ p.camera = "off" => Cancel(p).camera = "off"
           /\ ~p.startRequested => ~Cancel(p).startRequested
<1> DEFINE q == IF p.phase \in Busy THEN Fail(p) ELSE p
<1>1. Cancel(p) = [q EXCEPT !.prepared = NoMode]
  BY DEF Cancel, UserStops
<1>2. p \in PhoneRecords
  BY DEF Sound
<1>3. /\ PhoneOK(q) /\ UserStep(p, q) /\ q.gen = p.gen /\ q.phase \notin Busy /\ q.open = p.open
      /\ p.camera = "off" => q.camera = "off"
      /\ ~p.startRequested => ~q.startRequested
  <2>1. CASE p.phase \in Busy
    BY <2>1, FailKeeps DEF Busy
  <2>2. CASE p.phase \notin Busy
    <3>1. UserStep(p, p)
      <4>1. Carries(p.control, p.control, Harmless(p.id, p.epoch))
        BY <1>2, CarriesSame DEF PhoneRecords
      <4> QED
        BY <1>2, <4>1 DEF UserStep, PhoneRecords
    <3> QED
      BY <2>2, <3>1
  <2> QED
    BY <2>1, <2>2
<1> HIDE DEF q
<1> DEFINE r == [q EXCEPT !.prepared = NoMode]
<1>4. q \in PhoneRecords
  BY <1>3 DEF PhoneOK
<1>5. r \in PhoneRecords
  BY <1>4 DEF PhoneRecords, AnyMode
<1>6. /\ r.phase = q.phase /\ r.id = q.id /\ r.mode = q.mode /\ r.epoch = q.epoch
      /\ r.reply = q.reply /\ r.startRequested = q.startRequested /\ r.camera = q.camera
      /\ r.gen = q.gen /\ r.captured = q.captured /\ r.control = q.control /\ r.video = q.video
      /\ r.open = q.open /\ r.invited = q.invited /\ r.intruded = q.intruded
  BY <1>4 DEF PhoneRecords
<1> HIDE DEF r
<1>7. PhoneOK(r)
  BY <1>3, <1>5, <1>6 DEF PhoneOK, Invited, CaptureOK, MachineOK, Past, Busy
<1>8. UserStep(p, r)
  BY <1>3, <1>6 DEF UserStep
<1> QED
  BY <1>1, <1>3, <1>6, <1>7, <1>8 DEF r

LEMMA StopCameraKeeps ==
    ASSUME NEW p, PhoneOK(p)
    PROVE  /\ PhoneOK(StopCamera(p)) /\ UserStep(p, StopCamera(p))
           /\ StopCamera(p).gen = p.gen /\ StopCamera(p).open = p.open
<1>1. p \in PhoneRecords
  BY DEF PhoneOK
<1>2. PICK a \in PhoneRecords : a = [p EXCEPT !.startRequested = FALSE, !.invited = FALSE]
  BY <1>1 DEF PhoneRecords
<1>3. PICK q \in PhoneRecords, c \in Seq(ControlFrames) :
          /\ q = CloseBridge(a)
          /\ q = [a EXCEPT !.camera = "off", !.video = <<>>, !.control = c]
          /\ Carries(a.control, c, {})
          /\ \A j \in DOMAIN c : c[j].kind # "config" /\ \E i \in DOMAIN a.control : c[j] = a.control[i]
  <2>1. PICK c \in Seq(ControlFrames) :
          /\ CloseBridge(a) = [a EXCEPT !.camera = "off", !.video = <<>>, !.control = c]
          /\ CloseBridge(a) \in PhoneRecords
          /\ Carries(a.control, c, {})
          /\ \A j \in DOMAIN c : c[j].kind # "config" /\ \E i \in DOMAIN a.control : c[j] = a.control[i]
    BY CloseBridgeIs, Zenon
  <2> QED
    BY <2>1, Zenon
<1>4. /\ q.phase = p.phase /\ q.id = p.id /\ q.mode = p.mode /\ q.epoch = p.epoch
      /\ q.reply = p.reply /\ ~q.startRequested /\ q.camera = "off" /\ q.prepared = p.prepared
      /\ q.gen = p.gen /\ q.captured = p.captured /\ q.control = c /\ q.video = <<>>
      /\ q.open = p.open /\ ~q.invited /\ q.intruded = p.intruded
  BY <1>1, <1>2, <1>3 DEF PhoneRecords
<1>5. StopCamera(p) = Cancel(q) /\ a.control = p.control
  BY <1>1, <1>2, <1>3 DEF StopCamera, PhoneRecords
<1>6. /\ p.gen \in Nat
      /\ CaptureOK(p) /\ MachineOK(p)
  BY <1>1 DEF PhoneOK, PhoneRecords
<1>7. CaptureOK(q)
  BY <1>3, <1>4, <1>5, <1>6 DEF CaptureOK, IsBarrier, Past
<1>8. Sound(q)
  BY <1>3, <1>4, <1>6, <1>7 DEF MachineOK, Sound, IsBarrier, Past
<1>9. q.phase \in Busy \/ PhoneOK(q)
  BY <1>3, <1>4, <1>6, <1>7 DEF PhoneOK, Invited, MachineOK, IsBarrier, Past, Busy
<1>10. UserStep(p, q)
  <2>1. Carries(p.control, c, Harmless(p.id, p.epoch))
    BY <1>3, <1>5, CarriesMore
  <2> QED
    BY <1>4, <1>6, <2>1 DEF UserStep
<1>11. /\ PhoneOK(Cancel(q)) /\ UserStep(q, Cancel(q)) /\ Cancel(q).gen = q.gen
       /\ Cancel(q).open = q.open
  BY <1>8, <1>9, CancelKeeps
<1>12. UserStep(p, Cancel(q))
  BY <1>1, <1>3, <1>10, <1>11, UserStepTwice DEF PhoneOK
<1> QED
  BY <1>4, <1>5, <1>11, <1>12

LEMMA RefreshKeeps ==
    ASSUME NEW p, PhoneOK(p), NEW ready \in BOOLEAN
    PROVE  /\ PhoneOK(Refresh(p, ready)) /\ UserStep(p, Refresh(p, ready))
           /\ \A x \in {"gen", "startRequested", "open", "invited", "permission", "foreground"} :
                  Refresh(p, ready)[x] = p[x]
<1>1. p \in PhoneRecords
  BY DEF PhoneOK
<1> DEFINE revision == IF ready = p.ready THEN p.revision ELSE p.revision + 1
           f == Caps(revision, ready, p.epoch)
           d == Append(p.control, f)
<1>2. revision \in Nat /\ f \in CapsFrames /\ f \in ControlFrames
  BY <1>1 DEF PhoneRecords, Caps, CapsFrames, ControlFrames
<1>3. Refresh(p, ready) = [p EXCEPT !.ready = ready, !.revision = revision, !.control = d]
  BY <1>1 DEF Refresh, Send, PhoneRecords
<1>4. f.kind = "caps" /\ f.epoch = p.epoch
  BY DEF Caps
<1> HIDE DEF revision, f
<1>5. /\ d \in Seq(ControlFrames) /\ Carries(p.control, d, {f})
      /\ p.control \in Seq(ControlFrames) /\ Len(d) = Len(p.control) + 1
      /\ d[Len(p.control) + 1] = f /\ \A i \in DOMAIN p.control : i \in DOMAIN d /\ d[i] = p.control[i]
  BY <1>1, <1>2, CarriesAppend DEF PhoneRecords
<1> HIDE DEF d
<1>6. \A j \in DOMAIN d : d[j] = f \/ \E i \in DOMAIN p.control : d[j] = p.control[i]
  BY <1>5 DEF Carries
<1> DEFINE r == Refresh(p, ready)
<1>7. r \in PhoneRecords
  BY <1>1, <1>2, <1>3, <1>5 DEF PhoneRecords
<1>8. /\ r.phase = p.phase /\ r.id = p.id /\ r.mode = p.mode /\ r.epoch = p.epoch
      /\ r.reply = p.reply /\ r.startRequested = p.startRequested /\ r.camera = p.camera
      /\ r.gen = p.gen /\ r.captured = p.captured /\ r.control = d /\ r.video = p.video
      /\ r.open = p.open /\ r.invited = p.invited /\ r.intruded = p.intruded
      /\ r.prepared = p.prepared /\ r.permission = p.permission /\ r.foreground = p.foreground
  BY <1>1, <1>3 DEF PhoneRecords
<1> HIDE DEF r
<1>9. PhoneOK(r)
  <2>1. CaptureOK(r)
    BY <1>4, <1>6, <1>8 DEF PhoneOK, CaptureOK, IsBarrier, Past
  <2> QED
    BY <1>7, <1>8, <2>1 DEF PhoneOK, Invited, MachineOK, Past
<1>10. UserStep(p, r)
  <2>1. {f} \subseteq Harmless(p.id, p.epoch)
    BY <1>2, <1>4 DEF Harmless
  <2>2. Carries(p.control, d, Harmless(p.id, p.epoch)) /\ p.gen \in Nat
    BY <1>1, <1>5, <2>1, CarriesMore DEF PhoneRecords
  <2> QED
    BY <1>8, <2>2 DEF UserStep
<1> QED
  BY <1>8, <1>9, <1>10 DEF r

LEMMA SameIsUserStep ==
    ASSUME NEW p \in PhoneRecords, NEW r,
           r.id = p.id, r.epoch = p.epoch, r.open => p.open, p.intruded => r.intruded,
           r.gen = p.gen, r.camera # "off" => p.camera # "off", r.control = p.control,
           r.phase = p.phase, r.mode = p.mode, r.reply = p.reply
    PROVE  UserStep(p, r)
<1>1. Carries(p.control, p.control, Harmless(p.id, p.epoch)) /\ p.gen \in Nat
  BY CarriesSame DEF PhoneRecords
<1> QED
  BY <1>1 DEF UserStep

LEMMA CaptureRequestedKeeps ==
    ASSUME NEW p, PhoneOK(p)
    PROVE  LET r == CaptureRequested(p)
           IN  /\ r \in PhoneRecords /\ CaptureOK(r) /\ UserStep(p, r) /\ r.phase # "Staged"
               /\ r.phase = IF p.phase = "Staged" THEN "Starting" ELSE p.phase
               /\ p.phase # "Staged" => r = p
               /\ r.reply # <<>> => r.reply = p.reply \/ (r.reply.id = r.id /\ ~IsBarrier(r.reply))
               /\ (r.id > 0) <=> (r.reply # <<>>)
               /\ p.phase = "Staged" => r.reply.kind = "result" /\ r.reply.status = "switching"
               /\ \A x \in {"gen", "startRequested", "open", "invited", "intruded", "camera", "video",
                            "captured", "mode", "prepared", "id"} : r[x] = p[x]
               /\ \A i \in DOMAIN r.control : r.control[i].kind = "config" =>
                      \E j \in DOMAIN p.control : p.control[j] = r.control[i]
               /\ \A i \in DOMAIN r.control : IsBarrier(r.control[i]) =>
                      \E j \in DOMAIN p.control : p.control[j] = r.control[i]
<1>1. p \in PhoneRecords /\ CaptureOK(p) /\ MachineOK(p)
  BY DEF PhoneOK
<1>2. CASE p.phase # "Staged"
  <2>1. CaptureRequested(p) = p
    BY <1>2 DEF CaptureRequested
  <2>2. UserStep(p, p)
    BY <1>1, SameIsUserStep
  <2>3. \A i \in DOMAIN p.control : \E j \in DOMAIN p.control : p.control[j] = p.control[i]
    OBVIOUS
  <2>4. (p.id > 0) <=> (p.reply # <<>>)
    BY <1>1 DEF MachineOK
  <2> QED
    BY <1>1, <1>2, <2>1, <2>2, <2>3, <2>4
<1>3. CASE p.phase = "Staged"
  <2> DEFINE f == Result(p.id, "switching", NoMode, p.gen)
             d == Append(p.control, f)
  <2>1. f \in Answers
    BY <1>1 DEF Result, ResultFrames, Answers, PhoneRecords, AnyMode
  <2>2. f # <<>> /\ f \in ControlFrames
    BY <2>1, AnswersAreFrames
  <2>3. f.kind = "result" /\ f.status = "switching" /\ f.id = p.id
    BY DEF Result
  <2>4. CaptureRequested(p) = [p EXCEPT !.phase = "Starting", !.armed = TRUE, !.control = d, !.reply = f]
    BY <1>1, <1>3 DEF CaptureRequested, Reply, Send, PhoneRecords, StartTimer
  <2> HIDE DEF f
  <2>5. /\ d \in Seq(ControlFrames) /\ Carries(p.control, d, {f})
        /\ p.control \in Seq(ControlFrames)
    BY <1>1, <2>2, CarriesAppend DEF PhoneRecords
  <2> HIDE DEF d
  <2>6. \A j \in DOMAIN d : d[j] = f \/ \E i \in DOMAIN p.control : d[j] = p.control[i]
    BY <2>5 DEF Carries
  <2> DEFINE r == CaptureRequested(p)
  <2>7. r \in PhoneRecords
    BY <1>1, <2>1, <2>4, <2>5 DEF PhoneRecords, Phases
  <2>8. /\ r.phase = "Starting" /\ r.id = p.id /\ r.mode = p.mode /\ r.epoch = p.epoch
        /\ r.reply = f /\ r.startRequested = p.startRequested /\ r.camera = p.camera
        /\ r.gen = p.gen /\ r.captured = p.captured /\ r.control = d /\ r.video = p.video
        /\ r.open = p.open /\ r.invited = p.invited /\ r.intruded = p.intruded
        /\ r.prepared = p.prepared
    BY <1>1, <2>4 DEF PhoneRecords
  <2> HIDE DEF r
  <2>9. CaptureOK(r)
    BY <1>1, <2>3, <2>6, <2>8 DEF CaptureOK, IsBarrier, Past
  <2>10. Carries(p.control, d, Harmless(p.id, p.epoch)) /\ p.gen \in Nat
    <3>1. {f} \subseteq Harmless(p.id, p.epoch)
      BY <2>2, <2>3 DEF Harmless
    <3> QED
      BY <1>1, <2>5, <3>1, CarriesMore DEF PhoneRecords
  <2>11. UserStep(p, r)
    BY <1>3, <2>3, <2>8, <2>10 DEF UserStep
  <2>12. ~IsBarrier(f) /\ p.id > 0 /\ f.kind # "config"
    BY <1>1, <1>3, <2>3 DEF IsBarrier, MachineOK, Busy
  <2> QED
    BY <1>3, <2>2, <2>3, <2>6, <2>7, <2>8, <2>9, <2>11, <2>12 DEF r
<1> QED
  BY <1>2, <1>3

\* A step of the phone alone: the machine stays sound, and a capture begins only
\* where a start by the user stands.
PhoneMoves(p, r) == PhoneOK(r) /\ UserStep(p, r) /\ (r.gen > p.gen => r.invited)

LEMMA PhoneMovesTwice ==
    ASSUME NEW p, NEW q, NEW r, PhoneOK(p), PhoneMoves(p, q), PhoneMoves(q, r), q.gen = p.gen
    PROVE  PhoneMoves(p, r)
<1>1. p \in PhoneRecords /\ q \in PhoneRecords /\ r \in PhoneRecords
  BY DEF PhoneMoves, PhoneOK
<1>2. UserStep(p, r)
  BY <1>1, UserStepTwice DEF PhoneMoves
<1> QED
  BY <1>2 DEF PhoneMoves

LEMMA StandsStill ==
    ASSUME NEW p, PhoneOK(p)
    PROVE  PhoneMoves(p, p)
<1>1. p \in PhoneRecords /\ p.gen \in Nat
  BY DEF PhoneOK, PhoneRecords
<1> QED
  BY <1>1, SameIsUserStep DEF PhoneMoves

LEMMA BarrierGen ==
    ASSUME NEW f \in ControlFrames, IsBarrier(f)
    PROVE  f.gen \in Nat
  BY FrameKinds DEF IsBarrier, PausedFrames, ResultFrames

LEMMA PastMore ==
    ASSUME NEW p, NEW r, NEW gen \in Nat, p.gen \in Nat, r.gen \in Nat, Past(p, gen), p.gen < r.gen
    PROVE  Past(r, gen)
  BY DEF Past

LEMMA StartKeeps ==
    ASSUME NEW p, PhoneOK(p)
    PROVE  PhoneMoves(p, Start(p))
<1> DEFINE mode == RequestedMode(p)
           q == CaptureRequested(p)
<1>1. p \in PhoneRecords /\ CaptureOK(p) /\ MachineOK(p) /\ Invited(p)
  BY DEF PhoneOK
<1>2. mode \in Modes /\ mode \in AnyMode /\ (p.phase = "Staged" => mode = p.mode)
  BY <1>1, ModesAssumption DEF RequestedMode, MachineOK, Busy, AnyMode
<1> HIDE DEF mode
<1>3. Start(p) = StartCamera(p, mode)
  BY DEF Start, mode
<1>4. CASE ~p.startRequested \/ p.camera # "off" \/ ~p.foreground
  BY <1>3, <1>4, StandsStill DEF StartCamera
<1>5. CASE p.startRequested /\ p.camera = "off" /\ p.foreground /\ ~p.permission
  <2> DEFINE r == [p EXCEPT !.asking = TRUE]
  <2>1. StartCamera(p, mode) = r
    BY <1>5 DEF StartCamera
  <2>2. r \in PhoneRecords
    BY <1>1 DEF PhoneRecords
  <2>3. /\ r.phase = p.phase /\ r.id = p.id /\ r.mode = p.mode /\ r.epoch = p.epoch
        /\ r.reply = p.reply /\ r.startRequested = p.startRequested /\ r.camera = p.camera
        /\ r.gen = p.gen /\ r.captured = p.captured /\ r.control = p.control /\ r.video = p.video
        /\ r.open = p.open /\ r.invited = p.invited /\ r.intruded = p.intruded
        /\ r.prepared = p.prepared
    BY <1>1 DEF PhoneRecords
  <2> HIDE DEF r
  <2>4. PhoneOK(r)
    BY <1>1, <2>2, <2>3 DEF PhoneOK, Invited, CaptureOK, MachineOK, Past
  <2>5. UserStep(p, r) /\ p.gen \in Nat
    BY <1>1, <2>3, SameIsUserStep DEF PhoneRecords
  <2> QED
    BY <1>3, <2>1, <2>3, <2>4, <2>5 DEF PhoneMoves
<1>6. CASE p.startRequested /\ p.camera = "off" /\ p.foreground /\ p.permission
  <2>1. /\ q \in PhoneRecords /\ CaptureOK(q) /\ UserStep(p, q)
        /\ q.phase = IF p.phase = "Staged" THEN "Starting" ELSE p.phase
        /\ p.phase # "Staged" => q = p
        /\ q.reply # <<>> => q.reply = p.reply \/ (q.reply.id = q.id /\ ~IsBarrier(q.reply))
        /\ (q.id > 0) <=> (q.reply # <<>>)
        /\ p.phase = "Staged" => q.reply.kind = "result" /\ q.reply.status = "switching"
        /\ q.gen = p.gen /\ q.startRequested = p.startRequested /\ q.open = p.open
        /\ q.invited = p.invited /\ q.intruded = p.intruded /\ q.camera = p.camera
        /\ q.video = p.video /\ q.mode = p.mode /\ q.prepared = p.prepared /\ q.id = p.id
    BY CaptureRequestedKeeps
  <2> HIDE DEF q
  <2> DEFINE gen == q.gen + 1
             intruded == q.intruded \/ p.phase = "Prepared"
             r == [q EXCEPT !.camera = "starting", !.captured = mode, !.gen = gen,
                            !.intruded = intruded]
  <2>2. StartCamera(p, mode) = r
    BY <1>6, <2>1 DEF StartCamera, q, PhoneRecords
  <2>3. r \in PhoneRecords
    <3>1. gen \in Nat /\ intruded \in BOOLEAN
      BY <2>1 DEF PhoneRecords
    <3> HIDE DEF gen, intruded
    <3> QED
      BY <1>2, <2>1, <3>1 DEF PhoneRecords
  <2>4. /\ r.phase = q.phase /\ r.id = q.id /\ r.mode = q.mode /\ r.epoch = q.epoch
        /\ r.reply = q.reply /\ r.startRequested = q.startRequested /\ r.camera = "starting"
        /\ r.gen = q.gen + 1 /\ r.captured = mode /\ r.control = q.control /\ r.video = q.video
        /\ r.open = q.open /\ r.invited = q.invited /\ r.prepared = q.prepared
        /\ (q.intruded => r.intruded) /\ (p.phase = "Prepared" => r.intruded)
    BY <2>1 DEF PhoneRecords
  <2> HIDE DEF r
  <2>5. r.gen \in Nat /\ q.gen \in Nat /\ p.gen \in Nat
    BY <1>1, <2>1, <2>3 DEF PhoneRecords
  <2>6. CaptureOK(r)
    <3>1. q.video = <<>> /\ q.control \in Seq(ControlFrames)
      BY <1>1, <1>6, <2>1 DEF CaptureOK, PhoneRecords
    <3>2. \A i \in DOMAIN q.control : q.control[i].kind # "config"
      BY <1>6, <2>1 DEF CaptureOK
    <3>3. ASSUME NEW i \in DOMAIN q.control, IsBarrier(q.control[i])
          PROVE  Past(r, q.control[i].gen)
      <4>1. Past(q, q.control[i].gen) /\ q.control[i] \in ControlFrames
        BY <2>1, <3>1, <3>3 DEF CaptureOK
      <4>2. q.control[i].gen \in Nat /\ q.gen < r.gen
        BY <2>4, <2>5, <3>3, <4>1, BarrierGen
      <4> QED
        BY <2>5, <4>1, <4>2, PastMore
    <3> QED
      BY <1>2, <2>4, <3>1, <3>2, <3>3 DEF CaptureOK
  <2>7. MachineOK(r)
    <3>1. IsBarrier(p.reply) /\ p.reply # <<>> => Past(r, p.reply.gen)
      <4>1. SUFFICES ASSUME IsBarrier(p.reply), p.reply # <<>>
                     PROVE  Past(r, p.reply.gen)
        OBVIOUS
      <4>2. Past(p, p.reply.gen) /\ p.reply \in Answers
        BY <1>1, <4>1 DEF MachineOK, PhoneRecords
      <4>3. p.reply.gen \in Nat /\ p.gen < r.gen
        BY <2>1, <2>4, <2>5, <4>1, <4>2, BarrierGen, AnswersAreFrames
      <4> QED
        BY <2>5, <4>2, <4>3, PastMore
    <3>2. CASE p.phase = "Staged"
      BY <1>1, <1>2, <1>6, <2>1, <2>4, <3>1, <3>2 DEF MachineOK, Busy, IsBarrier
    <3>3. CASE p.phase # "Staged"
      BY <1>1, <1>2, <1>6, <2>1, <2>4, <3>1, <3>3 DEF MachineOK
    <3> QED
      BY <3>2, <3>3
  <2>8. Invited(r) /\ r.invited
    BY <1>1, <1>6, <2>1, <2>4 DEF Invited
  <2>9. UserStep(p, r)
    BY <1>6, <2>1, <2>4, <2>5 DEF UserStep
  <2> QED
    BY <1>3, <2>2, <2>3, <2>6, <2>7, <2>8, <2>9 DEF PhoneMoves, PhoneOK
<1> QED
  BY <1>1, <1>4, <1>5, <1>6 DEF PhoneRecords

\* What no invariant of the machine speaks of may change at will.
LEMMA AsideKeeps ==
    ASSUME NEW p, PhoneOK(p), NEW r \in PhoneRecords,
           r.phase = p.phase, r.id = p.id, r.mode = p.mode, r.epoch = p.epoch, r.reply = p.reply,
           r.prepared = p.prepared, r.camera = p.camera, r.gen = p.gen, r.captured = p.captured,
           r.control = p.control, r.video = p.video, r.open = p.open, r.intruded = p.intruded,
           r.invited \/ (~r.startRequested /\ r.invited = p.invited)
               \/ (r.startRequested = p.startRequested /\ r.invited = p.invited)
    PROVE  PhoneMoves(p, r)
<1>1. p \in PhoneRecords /\ p.gen \in Nat
  BY DEF PhoneOK, PhoneRecords
<1>2. PhoneOK(r)
  BY DEF PhoneOK, Invited, CaptureOK, MachineOK, Past
<1>3. UserStep(p, r)
  BY <1>1, SameIsUserStep
<1> QED
  BY <1>1, <1>2, <1>3 DEF PhoneMoves

LEMMA PressStartKeeps ==
    ASSUME PhoneOK(phone), PressStart
    PROVE  PhoneMoves(phone, phone')
<1> DEFINE q == [phone EXCEPT !.startRequested = TRUE, !.invited = TRUE]
<1>1. phone \in PhoneRecords /\ phone' = Start(q)
  BY DEF PhoneOK, PressStart
<1>2. q \in PhoneRecords /\ q.invited
  BY <1>1 DEF PhoneRecords
<1>3. /\ q.phase = phone.phase /\ q.id = phone.id /\ q.mode = phone.mode /\ q.epoch = phone.epoch
      /\ q.reply = phone.reply /\ q.prepared = phone.prepared /\ q.camera = phone.camera
      /\ q.gen = phone.gen /\ q.captured = phone.captured /\ q.control = phone.control
      /\ q.video = phone.video /\ q.open = phone.open /\ q.intruded = phone.intruded
  BY <1>1 DEF PhoneRecords
<1> HIDE DEF q
<1>4. PhoneMoves(phone, q)
  BY <1>2, <1>3, AsideKeeps
<1>5. PhoneMoves(q, Start(q))
  BY <1>4, StartKeeps DEF PhoneMoves
<1> QED
  BY <1>1, <1>3, <1>4, <1>5, PhoneMovesTwice

LEMMA PressStopKeeps ==
    ASSUME PhoneOK(phone), PressStop
    PROVE  PhoneMoves(phone, phone')
<1>1. phone \in PhoneRecords /\ phone' = StopCamera(phone) /\ phone.gen \in Nat
  BY DEF PhoneOK, PressStop, PhoneRecords
<1> QED
  BY <1>1, StopCameraKeeps DEF PhoneMoves

LEMMA OnPauseKeeps ==
    ASSUME PhoneOK(phone), OnPause
    PROVE  PhoneMoves(phone, phone')
<1>1. phone \in PhoneRecords /\ phone' = [phone EXCEPT !.foreground = FALSE]
  BY DEF PhoneOK, OnPause
<1>2. phone' \in PhoneRecords
  BY <1>1 DEF PhoneRecords
<1>3. /\ phone'.phase = phone.phase /\ phone'.id = phone.id /\ phone'.mode = phone.mode
      /\ phone'.epoch = phone.epoch /\ phone'.reply = phone.reply /\ phone'.prepared = phone.prepared
      /\ phone'.camera = phone.camera /\ phone'.gen = phone.gen /\ phone'.captured = phone.captured
      /\ phone'.control = phone.control /\ phone'.video = phone.video /\ phone'.open = phone.open
      /\ phone'.intruded = phone.intruded /\ phone'.startRequested = phone.startRequested
      /\ phone'.invited = phone.invited
  BY <1>1 DEF PhoneRecords
<1> QED
  BY <1>2, <1>3, AsideKeeps

LEMMA OnResumeKeeps ==
    ASSUME PhoneOK(phone), NEW granted \in BOOLEAN, NEW ready \in BOOLEAN, OnResume(granted, ready)
    PROVE  PhoneMoves(phone, phone')
<1> DEFINE q == [phone EXCEPT !.foreground = TRUE, !.permission = granted]
           r == Refresh(q, ready)
<1>1. phone \in PhoneRecords /\ phone' = IF r.startRequested THEN Start(r) ELSE r
  BY DEF PhoneOK, OnResume
<1>2. q \in PhoneRecords
  BY <1>1 DEF PhoneRecords
<1>3. /\ q.phase = phone.phase /\ q.id = phone.id /\ q.mode = phone.mode /\ q.epoch = phone.epoch
      /\ q.reply = phone.reply /\ q.prepared = phone.prepared /\ q.camera = phone.camera
      /\ q.gen = phone.gen /\ q.captured = phone.captured /\ q.control = phone.control
      /\ q.video = phone.video /\ q.open = phone.open /\ q.intruded = phone.intruded
      /\ q.startRequested = phone.startRequested /\ q.invited = phone.invited
      /\ q.gen \in Nat
  BY <1>1, <1>2 DEF PhoneRecords
<1> HIDE DEF q
<1>4. PhoneMoves(phone, q)
  BY <1>2, <1>3, AsideKeeps
<1>5. PhoneOK(r) /\ UserStep(q, r) /\ r.gen = q.gen
  BY <1>4, RefreshKeeps DEF PhoneMoves
<1> HIDE DEF r
<1>6. PhoneMoves(phone, r)
  BY <1>3, <1>4, <1>5, PhoneMovesTwice DEF PhoneMoves
<1>7. PhoneMoves(r, Start(r)) /\ PhoneMoves(r, r)
  BY <1>5, StartKeeps, StandsStill
<1>8. PhoneMoves(phone, Start(r))
  BY <1>3, <1>5, <1>6, <1>7, PhoneMovesTwice
<1> QED
  BY <1>1, <1>6, <1>8

LEMMA OnRequestPermissionsResultKeeps ==
    ASSUME PhoneOK(phone), NEW granted \in BOOLEAN, OnRequestPermissionsResult(granted)
    PROVE  PhoneMoves(phone, phone')
<1> DEFINE q == [phone EXCEPT !.asking = FALSE, !.permission = granted]
           r == Refresh(q, granted)
<1>1. /\ phone \in PhoneRecords
      /\ phone' = IF ~r.startRequested THEN r ELSE IF granted THEN Start(r) ELSE StopCamera(r)
  BY DEF PhoneOK, OnRequestPermissionsResult
<1>2. q \in PhoneRecords
  BY <1>1 DEF PhoneRecords
<1>3. /\ q.phase = phone.phase /\ q.id = phone.id /\ q.mode = phone.mode /\ q.epoch = phone.epoch
      /\ q.reply = phone.reply /\ q.prepared = phone.prepared /\ q.camera = phone.camera
      /\ q.gen = phone.gen /\ q.captured = phone.captured /\ q.control = phone.control
      /\ q.video = phone.video /\ q.open = phone.open /\ q.intruded = phone.intruded
      /\ q.startRequested = phone.startRequested /\ q.invited = phone.invited
      /\ q.gen \in Nat
  BY <1>1, <1>2 DEF PhoneRecords
<1> HIDE DEF q
<1>4. PhoneMoves(phone, q)
  BY <1>2, <1>3, AsideKeeps
<1>5. PhoneOK(r) /\ UserStep(q, r) /\ r.gen = q.gen
  BY <1>4, RefreshKeeps DEF PhoneMoves
<1> HIDE DEF r
<1>6. PhoneMoves(phone, r)
  BY <1>3, <1>4, <1>5, PhoneMovesTwice DEF PhoneMoves
<1>7. PhoneMoves(r, Start(r)) /\ PhoneMoves(r, StopCamera(r))
  <2>1. PhoneOK(StopCamera(r)) /\ UserStep(r, StopCamera(r)) /\ StopCamera(r).gen = r.gen
    BY <1>5, StopCameraKeeps
  <2> QED
    BY <1>3, <1>5, <2>1, StartKeeps DEF PhoneMoves
<1>8. PhoneMoves(phone, Start(r)) /\ PhoneMoves(phone, StopCamera(r))
  BY <1>3, <1>5, <1>6, <1>7, PhoneMovesTwice
<1> QED
  BY <1>1, <1>6, <1>8

LEMMA CameraStartsKeeps ==
    ASSUME PhoneOK(phone), CameraStarts
    PROVE  PhoneMoves(phone, phone')
<1> DEFINE f == VideoConfig(phone.captured)
           c == phone.control
           d == Append(c, f)
<1>1. /\ phone \in PhoneRecords /\ phone.camera = "starting"
      /\ CaptureOK(phone) /\ MachineOK(phone) /\ Invited(phone)
  BY DEF PhoneOK, CameraStarts
<1>2. phone' = [phone EXCEPT !.camera = "configured", !.control = d]
  BY <1>1 DEF CameraStarts, Send, PhoneRecords
<1>3. f \in ConfigFrames /\ f \in ControlFrames /\ f.kind = "config" /\ f.mode = phone.captured
  BY <1>1 DEF CaptureOK, VideoConfig, ConfigFrames, ControlFrames
<1> HIDE DEF f
<1>4. /\ c \in Seq(ControlFrames) /\ d \in Seq(ControlFrames) /\ Carries(c, d, {f})
  BY <1>1, <1>3, CarriesAppend DEF PhoneRecords
<1> HIDE DEF d
<1>5. \A j \in DOMAIN d : d[j] = f \/ \E i \in DOMAIN c : d[j] = c[i]
  BY <1>4 DEF Carries
<1>6. phone' \in PhoneRecords
  BY <1>1, <1>2, <1>4 DEF PhoneRecords
<1>7. /\ phone'.phase = phone.phase /\ phone'.id = phone.id /\ phone'.mode = phone.mode
      /\ phone'.epoch = phone.epoch /\ phone'.reply = phone.reply /\ phone'.prepared = phone.prepared
      /\ phone'.camera = "configured" /\ phone'.gen = phone.gen /\ phone'.captured = phone.captured
      /\ phone'.control = d /\ phone'.video = phone.video /\ phone'.open = phone.open
      /\ phone'.intruded = phone.intruded /\ phone'.startRequested = phone.startRequested
      /\ phone'.invited = phone.invited /\ phone.gen \in Nat
  BY <1>1, <1>2 DEF PhoneRecords
<1>8. CaptureOK(phone')
  BY <1>1, <1>3, <1>5, <1>7 DEF CaptureOK, IsBarrier, Past
<1>9. PhoneOK(phone')
  BY <1>1, <1>6, <1>7, <1>8 DEF PhoneOK, Invited, MachineOK, Past
<1>10. Carries(c, d, Harmless(phone.id, phone.epoch))
  <2>1. {f} \subseteq Harmless(phone.id, phone.epoch)
    BY <1>3 DEF Harmless
  <2> QED
    BY <1>4, <2>1, CarriesMore
<1>11. UserStep(phone, phone')
  BY <1>1, <1>7, <1>10 DEF UserStep
<1> QED
  BY <1>7, <1>9, <1>11 DEF PhoneMoves

LEMMA CaptureStartedKeeps ==
    ASSUME PhoneOK(phone), CaptureStarted
    PROVE  PhoneMoves(phone, phone') /\ phone'.gen = phone.gen
<1> DEFINE q == [phone EXCEPT !.camera = "running"]
<1>1. /\ phone \in PhoneRecords /\ phone.camera = "configured"
      /\ CaptureOK(phone) /\ MachineOK(phone) /\ Invited(phone) /\ phone.phase # "Staged"
  BY DEF PhoneOK, MachineOK, CaptureStarted
<1>2. phone' = IF q.phase \notin {"Starting", "Staged"} THEN q
               ELSE IF q.captured # q.mode THEN Fail(q)
               ELSE Reply([q EXCEPT !.phase = "Applied", !.armed = FALSE],
                          Result(q.id, "applied", q.captured, q.gen))
  BY DEF CaptureStarted
<1>3. q \in PhoneRecords
  BY <1>1 DEF PhoneRecords
<1>4. /\ q.phase = phone.phase /\ q.id = phone.id /\ q.mode = phone.mode /\ q.epoch = phone.epoch
      /\ q.reply = phone.reply /\ q.prepared = phone.prepared /\ q.camera = "running"
      /\ q.gen = phone.gen /\ q.captured = phone.captured /\ q.control = phone.control
      /\ q.video = phone.video /\ q.open = phone.open /\ q.intruded = phone.intruded
      /\ q.startRequested = phone.startRequested /\ q.invited = phone.invited
      /\ phone.gen \in Nat
  BY <1>1 DEF PhoneRecords
<1> HIDE DEF q
<1>5. PhoneOK(q)
  BY <1>1, <1>3, <1>4 DEF PhoneOK, Invited, CaptureOK, MachineOK, Past
<1>6. PhoneMoves(phone, q)
  BY <1>1, <1>3, <1>4, <1>5, SameIsUserStep DEF PhoneMoves
<1>7. CASE q.phase \notin {"Starting", "Staged"}
  BY <1>2, <1>4, <1>6, <1>7
<1>8. CASE q.phase \in {"Starting", "Staged"} /\ q.captured # q.mode
  <2>1. PhoneOK(Fail(q)) /\ UserStep(q, Fail(q)) /\ Fail(q).gen = q.gen
    BY <1>5, <1>8, SoundPhone, FailKeeps DEF Busy
  <2>2. PhoneMoves(q, Fail(q))
    BY <1>4, <2>1 DEF PhoneMoves
  <2>3. PhoneMoves(phone, Fail(q))
    BY <1>4, <1>6, <2>2, PhoneMovesTwice
  <2> QED
    BY <1>2, <1>4, <1>8, <2>1, <2>3
<1>9. CASE q.phase = "Starting" /\ q.captured = q.mode
  <2> DEFINE f == Result(q.id, "applied", q.captured, q.gen)
             c == q.control
             d == Append(c, f)
  <2>1. f \in Answers
    BY <1>3 DEF Result, ResultFrames, Answers, PhoneRecords, AnyMode
  <2>2. f # <<>> /\ f \in ControlFrames
    BY <2>1, AnswersAreFrames
  <2>3. f.kind = "result" /\ f.status = "applied" /\ f.id = q.id
    BY DEF Result
  <2> DEFINE r == [q EXCEPT !.phase = "Applied", !.armed = FALSE, !.control = d, !.reply = f]
  <2>4. phone' = r
    BY <1>2, <1>3, <1>9 DEF Reply, Send, PhoneRecords
  <2> HIDE DEF f
  <2>5. c \in Seq(ControlFrames) /\ d \in Seq(ControlFrames) /\ Carries(c, d, {f})
    BY <1>3, <2>2, CarriesAppend DEF PhoneRecords
  <2> HIDE DEF d
  <2>6. \A j \in DOMAIN d : d[j] = f \/ \E i \in DOMAIN c : d[j] = c[i]
    BY <2>5 DEF Carries
  <2>7. r \in PhoneRecords
    BY <1>3, <2>1, <2>5 DEF PhoneRecords, Phases
  <2>8. /\ r.phase = "Applied" /\ r.id = q.id /\ r.mode = q.mode /\ r.epoch = q.epoch
        /\ r.reply = f /\ r.startRequested = q.startRequested /\ r.camera = q.camera
        /\ r.gen = q.gen /\ r.captured = q.captured /\ r.control = d /\ r.video = q.video
        /\ r.open = q.open /\ r.invited = q.invited /\ r.intruded = q.intruded
        /\ r.prepared = q.prepared
    BY <1>3 DEF PhoneRecords
  <2> HIDE DEF r
  <2>9. CaptureOK(q) /\ MachineOK(q) /\ Invited(q)
    BY <1>5 DEF PhoneOK
  <2>10. CaptureOK(r)
    BY <2>3, <2>6, <2>8, <2>9 DEF CaptureOK, IsBarrier, Past
  <2>11. PhoneOK(r)
    BY <1>9, <2>2, <2>3, <2>7, <2>8, <2>9, <2>10 DEF PhoneOK, MachineOK, Invited, Busy, IsBarrier
  <2>12. Carries(c, d, Harmless(q.id, q.epoch))
    <3>1. {f} \subseteq Harmless(q.id, q.epoch)
      BY <2>2, <2>3 DEF Harmless
    <3> QED
      BY <2>5, <3>1, CarriesMore
  <2>13. UserStep(q, r)
    BY <1>4, <1>9, <2>3, <2>8, <2>12 DEF UserStep
  <2>14. PhoneMoves(q, r)
    BY <1>4, <2>8, <2>11, <2>13 DEF PhoneMoves
  <2> QED
    BY <1>4, <1>6, <2>4, <2>8, <2>14, PhoneMovesTwice
<1> QED
  BY <1>1, <1>4, <1>7, <1>8, <1>9

LEMMA AccessUnitKeeps ==
    ASSUME PhoneOK(phone), AccessUnit
    PROVE  PhoneMoves(phone, phone')
<1> DEFINE f == Unit(phone.captured, phone.gen)
<1>1. /\ phone \in PhoneRecords /\ phone.camera \in {"configured", "running"}
      /\ phone' = [phone EXCEPT !.video = <<f>>] /\ PhoneOK(phone)
  BY DEF PhoneOK, AccessUnit
<1>2. f \in UnitFrames
  BY <1>1 DEF Unit, UnitFrames, PhoneRecords
<1>3. <<f>> \in Seq(UnitFrames)
  BY <1>2
<1>4. phone' \in PhoneRecords
  BY <1>1, <1>3 DEF PhoneRecords
<1>5. /\ phone'.phase = phone.phase /\ phone'.id = phone.id /\ phone'.mode = phone.mode
      /\ phone'.epoch = phone.epoch /\ phone'.reply = phone.reply /\ phone'.prepared = phone.prepared
      /\ phone'.camera = phone.camera /\ phone'.gen = phone.gen /\ phone'.captured = phone.captured
      /\ phone'.control = phone.control /\ phone'.open = phone.open /\ phone'.video = <<f>>
      /\ phone'.intruded = phone.intruded /\ phone'.startRequested = phone.startRequested
      /\ phone'.invited = phone.invited /\ phone.gen \in Nat
  BY <1>1 DEF PhoneRecords
<1>6. PhoneOK(phone')
  BY <1>1, <1>4, <1>5 DEF PhoneOK, Invited, CaptureOK, MachineOK, Past
<1>7. UserStep(phone, phone')
  BY <1>1, <1>5, SameIsUserStep
<1> QED
  BY <1>5, <1>6, <1>7 DEF PhoneMoves

LEMMA CameraFailsKeeps ==
    ASSUME PhoneOK(phone), CameraFails
    PROVE  PhoneMoves(phone, phone')
<1> DEFINE q == IF phone.phase \in Busy THEN Fail(phone) ELSE phone
<1>1. phone' = StopCamera(q) /\ phone.gen \in Nat
  BY DEF CameraFails, PhoneOK, PhoneRecords
<1>2. PhoneMoves(phone, q) /\ q.gen = phone.gen
  BY <1>1, SoundPhone, FailKeeps, StandsStill DEF PhoneMoves
<1> HIDE DEF q
<1>3. PhoneOK(StopCamera(q)) /\ UserStep(q, StopCamera(q)) /\ StopCamera(q).gen = q.gen
  BY <1>2, StopCameraKeeps DEF PhoneMoves
<1>4. PhoneMoves(q, StopCamera(q))
  BY <1>1, <1>2, <1>3 DEF PhoneMoves
<1> QED
  BY <1>1, <1>2, <1>4, PhoneMovesTwice

LEMMA PhoneDeadlineKeeps ==
    ASSUME PhoneOK(phone), PhoneDeadline
    PROVE  PhoneMoves(phone, phone')
<1>1. phone.phase \in Busy /\ phone' = Fail(phone) /\ phone.gen \in Nat
  BY DEF PhoneDeadline, PhoneOK, PhoneRecords, Busy
<1> QED
  BY <1>1, SoundPhone, FailKeeps DEF PhoneMoves

LEMMA PhoneClosesKeeps ==
    ASSUME PhoneOK(phone), PhoneCloses
    PROVE  PhoneMoves(phone, phone')
<1>1. /\ phone \in PhoneRecords /\ CaptureOK(phone) /\ MachineOK(phone) /\ Invited(phone)
      /\ phone' = [CloseBridge(phone) EXCEPT !.open = FALSE, !.startRequested = FALSE]
  BY DEF PhoneOK, PhoneCloses
<1>2. PICK c \in Seq(ControlFrames) :
          /\ CloseBridge(phone) = [phone EXCEPT !.camera = "off", !.video = <<>>, !.control = c]
          /\ CloseBridge(phone) \in PhoneRecords
          /\ Carries(phone.control, c, {})
          /\ \A j \in DOMAIN c :
                 c[j].kind # "config" /\ \E i \in DOMAIN phone.control : c[j] = phone.control[i]
  BY <1>1, CloseBridgeIs, Zenon
<1>3. phone' \in PhoneRecords
  BY <1>1, <1>2 DEF PhoneRecords
<1>4. /\ phone'.phase = phone.phase /\ phone'.id = phone.id /\ phone'.mode = phone.mode
      /\ phone'.epoch = phone.epoch /\ phone'.reply = phone.reply /\ phone'.prepared = phone.prepared
      /\ phone'.camera = "off" /\ phone'.gen = phone.gen /\ phone'.captured = phone.captured
      /\ phone'.control = c /\ ~phone'.open /\ phone'.video = <<>>
      /\ phone'.intruded = phone.intruded /\ ~phone'.startRequested
      /\ phone'.invited = phone.invited /\ phone.gen \in Nat
  BY <1>1, <1>2 DEF PhoneRecords
<1>5. CaptureOK(phone')
  BY <1>1, <1>2, <1>4 DEF CaptureOK, IsBarrier, Past
<1>6. PhoneOK(phone')
  BY <1>1, <1>3, <1>4, <1>5 DEF PhoneOK, Invited, MachineOK, Past
<1>7. UserStep(phone, phone')
  <2>1. Carries(phone.control, c, Harmless(phone.id, phone.epoch))
    BY <1>2, CarriesMore
  <2> QED
    BY <1>4, <2>1 DEF UserStep
<1> QED
  BY <1>4, <1>6, <1>7 DEF PhoneMoves

-----------------------------------------------------------------------------
(* The two ends, while the phone moves by itself. *)

\* A switch that the phone works on is worked on, or its rejection is on its way.
LEMMA WorksOn ==
    ASSUME Types, PhoneOK(phone), UserStep(phone, phone'), worker' = worker
    PROVE  /\ Works({"Prepared"}) => (Works({"Prepared"}) \/ Refused)'
           /\ Works(Behind) => (Works(Behind) \/ Refused)'
           /\ Refused => Refused'
<1>1. /\ phone'.id = phone.id
      /\ \/ phone'.phase = phone.phase /\ phone'.mode = phone.mode
         \/ /\ phone.phase \in {"Staged", "Starting"} /\ phone'.phase \in {"Starting", "Applied"}
            /\ phone'.mode = phone.mode
         \/ /\ phone.phase \in Busy /\ phone'.phase = "Failed"
            /\ \E i \in DOMAIN phone'.control :
                  Rejects(phone'.control[i], phone.id) /\ Clear(phone'.control, i)
  BY DEF UserStep
<1>2. ASSUME phone.id = worker.id, phone.phase \in Busy, phone'.phase = "Failed"
      PROVE  Refused'
  <2>1. PICK i \in DOMAIN phone'.control :
            Rejects(phone'.control[i], phone.id) /\ Clear(phone'.control, i)
    BY <1>1, <1>2 DEF Busy
  <2> QED
    BY <1>1, <1>2, <2>1 DEF Refused, Rejects, IsRejection, Clear
<1>3. Refused => Refused'
  <2>1. SUFFICES ASSUME Refused PROVE Refused'
    OBVIOUS
  <2>2. PICK i \in DOMAIN phone.control : IsRejection(phone.control[i]) /\ Clear(phone.control, i)
    BY <2>1 DEF Refused, Clear
  <2>3. PICK j \in DOMAIN phone'.control :
            phone'.control[j] = phone.control[i] /\ Clear(phone'.control, j)
    BY <2>2 DEF UserStep, Carries
  <2>4. phone'.phase = "Failed"
    BY <1>1, <2>1 DEF Refused, Busy
  <2> QED
    BY <1>1, <2>1, <2>2, <2>3, <2>4 DEF Refused, IsRejection, Clear
<1>4. Works({"Prepared"}) => (Works({"Prepared"}) \/ Refused)'
  BY <1>1, <1>2 DEF Works, Busy
<1>5. Works(Behind) => (Works(Behind) \/ Refused)'
  BY <1>1, <1>2 DEF Works, Behind, Busy
<1> QED
  BY <1>3, <1>4, <1>5

\* A step takes at most the first command.
CommandsGo == toPhone' = toPhone \/ (toPhone # <<>> /\ toPhone' = Tail(toPhone))

LEMMA CommandsGone ==
    ASSUME Types, CommandsGo, worker' = worker
    PROVE  /\ toPhone' \in Seq(Commands)
           /\ \A i \in DOMAIN toPhone' : \E k \in DOMAIN toPhone : toPhone'[i] = toPhone[k]
           /\ NoCommit => NoCommit'
           /\ CommitOK => CommitOK'
<1>1. toPhone \in Seq(Commands)
  BY DEF Types
<1>2. CASE toPhone' = toPhone
  BY <1>1, <1>2 DEF NoCommit, CommitOK
<1>3. CASE toPhone # <<>> /\ toPhone' = Tail(toPhone)
  <2>1. /\ toPhone' \in Seq(Commands) /\ Len(toPhone) \in Nat
        /\ DOMAIN toPhone' = 1..(Len(toPhone) - 1) /\ DOMAIN toPhone = 1..Len(toPhone)
        /\ \A i \in DOMAIN toPhone' : toPhone'[i] = toPhone[i + 1]
    BY <1>1, <1>3
  <2>2. \A i \in DOMAIN toPhone' : i + 1 \in DOMAIN toPhone
    BY <2>1
  <2>3. \A i, j \in DOMAIN toPhone' : i + 1 = j + 1 => i = j
    BY <2>1
  <2>4. NoCommit => NoCommit'
    BY <2>1, <2>2 DEF NoCommit
  <2>5. CommitOK => CommitOK'
    BY <2>1, <2>2, <2>3 DEF CommitOK
  <2> QED
    BY <2>1, <2>2, <2>4, <2>5
<1> QED
  BY <1>2, <1>3 DEF CommandsGo

LEMMA PhoneMovesKeeps ==
    ASSUME Types, PhoneOK(phone), LinkInv, OutputInv, PhoneMoves(phone, phone'), worker' = worker,
           CommandsGo
    PROVE  LinkInv' /\ OutputInv'
<1>1. /\ worker' = worker
      /\ UserStep(phone, phone') /\ PhoneOK(phone')
      /\ phone \in PhoneRecords /\ phone' \in PhoneRecords /\ worker \in WorkerRecords
  BY DEF PhoneMoves, PhoneOK, Types
<1>2. /\ phone.gen \in Nat /\ phone'.gen \in Nat /\ worker.fence \in Nat
      /\ phone.id \in Nat /\ worker.id \in Nat
      /\ phone.control \in Seq(ControlFrames) /\ phone'.control \in Seq(ControlFrames)
  BY <1>1 DEF PhoneRecords, WorkerRecords
<1>3. OutputInv'
  <2>1. Past(phone, worker.fence)' /\ (worker.fence < phone.gen => worker.fence < phone'.gen)
    BY <1>1, <1>2 DEF OutputInv, Past, UserStep
  <2> QED
    BY <1>1, <2>1 DEF OutputInv, AwaitingVideo, AppliedIsReal
<1>4. /\ phone'.id = phone.id /\ phone'.epoch = phone.epoch
      /\ \/ phone'.phase = phone.phase /\ phone'.mode = phone.mode
         \/ phone.phase \in Busy /\ phone'.phase \in Busy /\ phone'.mode = phone.mode
         \/ phone'.phase \notin Busy
      /\ phone'.reply # <<>> /\ phone'.reply.kind = "paused"
             => phone'.reply = phone.reply /\ phone'.phase = phone.phase
  BY <1>1 DEF UserStep, Busy
<1>5. ASSUME NEW j \in DOMAIN phone'.control
      PROVE  \/ phone'.control[j] \in Harmless(phone.id, phone.epoch)
             \/ \E i \in DOMAIN phone.control :
                   /\ phone'.control[j] = phone.control[i]
                   /\ Clear(phone.control, i) => Clear(phone'.control, j)
  BY <1>1 DEF UserStep, Carries
<1>6. ASSUME NEW j \in DOMAIN phone'.control
      PROVE  phone'.control[j].kind \in {"paused", "result"} => phone'.control[j].id <= worker.id
  BY <1>2, <1>5 DEF LinkInv, IdsOK, Harmless
<1>7. IdsOK'
  BY <1>1, <1>2, <1>4, <1>6, CommandsGone DEF LinkInv, IdsOK
<1>8. ASSUME Live' PROVE (SwitchOK /\ AnswerOK /\ CommitOK /\ CapsOK)'
  <2>1. Live /\ SwitchOK /\ AnswerOK /\ CommitOK /\ CapsOK
    BY <1>1, <1>8 DEF Live, UserStep, LinkInv
  <2>2. /\ Works({"Prepared"}) => (Works({"Prepared"}) \/ Refused)'
        /\ Works(Behind) => (Works(Behind) \/ Refused)'
        /\ Refused => Refused'
    BY <1>1, WorksOn
  <2>3. (SameEpoch <=> SameEpoch') /\ (NoCommit => NoCommit')
    BY <1>1, <1>4, CommandsGone DEF SameEpoch
  <2>4. SwitchOK'
    BY <1>1, <1>4, <2>1, <2>2, <2>3 DEF SwitchOK
  <2>5. AnswerOK'
    <3>1. SUFFICES ASSUME worker.phase = "Preparing"
                   PROVE  AnswerOK'
      BY <1>1 DEF AnswerOK
    <3>2. ASSUME NEW j \in DOMAIN phone'.control
          PROVE  LET f == phone'.control[j]
                 IN  /\ f.kind = "paused" /\ f.id = worker.id =>
                           f.epoch = phone.epoch /\ (Works({"Prepared"}) \/ Refused)
                     /\ f.kind = "result" /\ f.status = "staged" /\ f.id = worker.id =>
                           Works(Behind) \/ Refused
      BY <1>5, <2>1, <3>1 DEF AnswerOK, Harmless
    <3>3. phone'.id = worker.id => phone'.reply.kind # "paused" \/ phone'.phase = "Prepared"
      <4>1. SUFFICES ASSUME phone.id = worker.id, phone'.reply.kind = "paused"
                     PROVE  phone'.phase = "Prepared"
        BY <1>4
      <4>2. worker.id > 0
        BY <2>1, <3>1 DEF OutputInv, Live
      <4>3. phone'.reply # <<>>
        BY <1>1, <1>4, <4>1, <4>2 DEF PhoneOK, MachineOK
      <4> QED
        BY <1>4, <2>1, <3>1, <4>1, <4>3 DEF AnswerOK
    <3> QED
      BY <1>1, <1>4, <2>2, <3>2, <3>3 DEF AnswerOK
  <2>6. CommitOK'
    BY <1>1, <2>1, CommandsGone
  <2>7. CapsOK'
    <3>1. ASSUME NEW j \in DOMAIN phone'.control, phone'.control[j].kind = "caps"
          PROVE  phone'.control[j].epoch = phone.epoch \/ (worker.phase = "Switching" /\ Clear(phone'.control, j))
      BY <1>5, <2>1, <3>1 DEF CapsOK, Harmless, Clear
    <3> QED
      BY <1>1, <1>4, <3>1 DEF CapsOK, Clear
  <2> QED
    BY <2>4, <2>5, <2>6, <2>7
<1> QED
  BY <1>3, <1>7, <1>8 DEF LinkInv

-----------------------------------------------------------------------------
(* A command reaches the phone. *)

\* A frame that is sent beside everything else.
LEMMA SendKeeps ==
    ASSUME NEW p, PhoneOK(p), NEW f \in ControlFrames,
           f.kind # "config", IsBarrier(f) => Past(p, f.gen)
    PROVE  LET r == Send(p, f)
           IN  /\ PhoneOK(r) /\ r.control = Append(p.control, f)
               /\ Carries(p.control, r.control, {f})
               /\ \A x \in {"phase", "id", "mode", "epoch", "reply", "gen", "open", "intruded"} :
                      r[x] = p[x]
<1> DEFINE d == Append(p.control, f)
           r == [p EXCEPT !.control = d]
<1>1. p \in PhoneRecords /\ Send(p, f) = r
  BY DEF PhoneOK, Send
<1>2. /\ d \in Seq(ControlFrames) /\ Carries(p.control, d, {f})
  BY <1>1, CarriesAppend DEF PhoneRecords
<1> HIDE DEF d
<1>3. \A j \in DOMAIN d : d[j] = f \/ \E i \in DOMAIN p.control : d[j] = p.control[i]
  BY <1>2 DEF Carries
<1>4. r \in PhoneRecords
  BY <1>1, <1>2 DEF PhoneRecords
<1>5. /\ r.phase = p.phase /\ r.id = p.id /\ r.mode = p.mode /\ r.epoch = p.epoch
      /\ r.reply = p.reply /\ r.startRequested = p.startRequested /\ r.camera = p.camera
      /\ r.gen = p.gen /\ r.captured = p.captured /\ r.control = d /\ r.video = p.video
      /\ r.open = p.open /\ r.invited = p.invited /\ r.intruded = p.intruded
      /\ r.prepared = p.prepared
  BY <1>1 DEF PhoneRecords
<1> HIDE DEF r
<1>6. CaptureOK(r)
  BY <1>3, <1>5 DEF PhoneOK, CaptureOK, IsBarrier, Past
<1>7. PhoneOK(r)
  BY <1>4, <1>5, <1>6 DEF PhoneOK, Invited, MachineOK, Past
<1> QED
  BY <1>1, <1>2, <1>5, <1>7 DEF d

\* No request, no capture and no epoch begins: f is said again, or once.
LEMMA SaysAgain ==
    ASSUME Types, PhoneOK(phone), LinkInv, OutputInv, worker' = worker, CommandsGo,
           NEW f \in Answers, f.id <= worker.id, IsBarrier(f) => Past(phone, f.gen),
           phone' = Send(phone, f),
           \/ f.kind = "result" /\ f.status # "staged"
           \/ f = phone.reply /\ phone.id > 0
    PROVE  PhoneOK(phone') /\ LinkInv' /\ OutputInv' /\ phone'.gen = phone.gen
<1>1. f \in ControlFrames /\ f.kind \in {"paused", "result"}
  BY AnswersAreFrames DEF Answers, PausedFrames, ResultFrames
<1>2. /\ PhoneOK(phone') /\ phone'.control = Append(phone.control, f)
      /\ Carries(phone.control, phone'.control, {f})
      /\ phone'.phase = phone.phase /\ phone'.id = phone.id /\ phone'.mode = phone.mode
      /\ phone'.epoch = phone.epoch /\ phone'.reply = phone.reply /\ phone'.gen = phone.gen
      /\ phone'.open = phone.open /\ phone'.intruded = phone.intruded
  BY <1>1, SendKeeps
<1>3. ASSUME NEW j \in DOMAIN phone'.control
      PROVE  \/ phone'.control[j] = f
             \/ \E i \in DOMAIN phone.control :
                   /\ phone'.control[j] = phone.control[i]
                   /\ Clear(phone.control, i) => Clear(phone'.control, j)
  BY <1>2 DEF Carries
<1>4. OutputInv'
  <2>1. phone'.camera = phone.camera
    BY DEF Send, PhoneOK, PhoneRecords
  <2> QED
    BY <1>2, <2>1 DEF OutputInv, Past, AwaitingVideo, AppliedIsReal
<1>5. IdsOK'
  <2>1. \A i \in DOMAIN phone'.control :
            phone'.control[i].kind \in {"paused", "result"} => phone'.control[i].id <= worker.id
    BY <1>3 DEF LinkInv, IdsOK
  <2> QED
    BY <1>2, <2>1, CommandsGone DEF LinkInv, IdsOK
<1>6. ASSUME Live' PROVE (SwitchOK /\ AnswerOK /\ CommitOK /\ CapsOK)'
  <2>1. Live /\ SwitchOK /\ AnswerOK /\ CommitOK /\ CapsOK
    BY <1>2, <1>6 DEF Live, LinkInv
  <2>2. Refused => Refused'
    <3>1. SUFFICES ASSUME Refused PROVE Refused'
      OBVIOUS
    <3>2. PICK i \in DOMAIN phone.control : IsRejection(phone.control[i]) /\ Clear(phone.control, i)
      BY <3>1 DEF Refused, Clear
    <3>3. PICK j \in DOMAIN phone'.control :
              phone'.control[j] = phone.control[i] /\ Clear(phone'.control, j)
      BY <1>2, <3>2 DEF Carries
    <3> QED
      BY <1>2, <3>1, <3>2, <3>3 DEF Refused, IsRejection, Clear
  <2>3. /\ (Works({"Prepared"}) => Works({"Prepared"})') /\ (Works(Behind) => Works(Behind)')
        /\ (SameEpoch <=> SameEpoch') /\ (NoCommit => NoCommit')
    BY <1>2, CommandsGone DEF Works, SameEpoch
  <2>4. SwitchOK'
    BY <1>2, <2>1, <2>2, <2>3 DEF SwitchOK
  <2>5. AnswerOK'
    <3>1. SUFFICES ASSUME worker.phase = "Preparing"
                   PROVE  AnswerOK'
      BY DEF AnswerOK
    <3>2. ASSUME f.id = worker.id
          PROVE  /\ f.kind = "paused" => f.epoch = phone.epoch /\ Works({"Prepared"})
                 /\ f.kind = "result" /\ f.status = "staged" => Works(Behind)
      <4>1. SUFFICES ASSUME IsBarrier(f)
                     PROVE  /\ f.kind = "paused" => f.epoch = phone.epoch /\ Works({"Prepared"})
                            /\ f.kind = "result" /\ f.status = "staged" => Works(Behind)
        BY DEF IsBarrier
      <4>2. f = phone.reply /\ phone.id = worker.id /\ MachineOK(phone) /\ f # <<>>
        BY <1>1, <3>2, <4>1, AnswersAreFrames DEF PhoneOK, MachineOK, IsBarrier
      <4>3. f.kind = "paused" => phone.phase = "Prepared" /\ f.epoch = phone.epoch
        BY <2>1, <3>1, <4>2 DEF MachineOK, AnswerOK
      <4>4. f.kind = "result" /\ f.status = "staged" => phone.phase = "Staged"
        BY <4>2 DEF MachineOK
      <4> QED
        BY <4>2, <4>3, <4>4 DEF LinkInv, IdsOK, Works, Busy, Behind
    <3>3. ASSUME NEW j \in DOMAIN phone'.control
          PROVE  LET g == phone'.control[j]
                 IN  /\ g.kind = "paused" /\ g.id = worker.id =>
                           g.epoch = phone.epoch /\ (Works({"Prepared"}) \/ Refused)
                     /\ g.kind = "result" /\ g.status = "staged" /\ g.id = worker.id =>
                           Works(Behind) \/ Refused
      BY <1>3, <2>1, <3>1, <3>2 DEF AnswerOK
    <3> QED
      BY <1>2, <2>1, <2>2, <2>3, <3>1, <3>3 DEF AnswerOK
  <2>6. CommitOK'
    BY <2>1, CommandsGone
  <2>7. CapsOK'
    <3>1. ASSUME NEW j \in DOMAIN phone'.control, phone'.control[j].kind = "caps"
          PROVE  phone'.control[j].epoch = phone.epoch \/ (worker.phase = "Switching" /\ Clear(phone'.control, j))
      BY <1>1, <1>3, <2>1, <3>1 DEF CapsOK, Clear
    <3> QED
      BY <1>2, <3>1 DEF CapsOK, Clear
  <2> QED
    BY <2>4, <2>5, <2>6, <2>7
<1> QED
  BY <1>2, <1>4, <1>5, <1>6 DEF LinkInv

\* A request that the phone has not seen, answered with f: no earlier one is open.
LEMMA TakesRequest ==
    ASSUME Types, PhoneOK(phone), LinkInv, OutputInv, worker' = worker, CommandsGo,
           PhoneOK(phone'), NEW c \in Commands, NEW f \in Answers,
           c.kind = "prepare", c.id > phone.id, c.id <= worker.id,
           c.id = worker.id => c.mode = worker.requested,
           phone'.id = c.id, phone'.epoch = phone.epoch, phone'.gen = phone.gen,
           phone'.open => phone.open, phone.intruded => phone'.intruded,
           phone'.camera # "off" => phone.camera # "off",
           phone'.reply = f, f.id = c.id, Carries(phone.control, phone'.control, {f}),
           phone'.phase \in Busy => phone'.mode = c.mode,
           f.kind = "paused" => f.epoch = phone.epoch /\ phone'.phase = "Prepared",
           f.kind = "result" /\ f.status = "staged" => phone'.phase = "Staged"
    PROVE  LinkInv' /\ OutputInv'
<1>1. f \in ControlFrames /\ f.kind \in {"paused", "result"}
  BY AnswersAreFrames DEF Answers, PausedFrames, ResultFrames
<1>2. /\ phone.id \in Nat /\ worker.id \in Nat /\ c.id \in Nat
  BY DEF Types, PhoneRecords, WorkerRecords, Commands
<1>3. ASSUME NEW j \in DOMAIN phone'.control
      PROVE  phone'.control[j] = f \/ \E i \in DOMAIN phone.control : phone'.control[j] = phone.control[i]
  BY DEF Carries
<1>4. OutputInv'
  BY DEF OutputInv, Past, AwaitingVideo, AppliedIsReal
<1>5. IdsOK'
  <2>1. \A i \in DOMAIN phone'.control :
            phone'.control[i].kind \in {"paused", "result"} => phone'.control[i].id <= worker.id
    BY <1>3 DEF LinkInv, IdsOK
  <2> QED
    BY <2>1, CommandsGone DEF LinkInv, IdsOK
<1>6. ASSUME Live' PROVE (SwitchOK /\ AnswerOK /\ CommitOK /\ CapsOK)'
  <2>1. Live /\ SwitchOK /\ AnswerOK /\ CommitOK /\ CapsOK
    BY <1>6 DEF Live, LinkInv
  <2>2. phone.id # worker.id
    BY <1>2
  <2>3. ~Refused /\ (\A phases : ~Works(phases))
    BY <2>2 DEF Refused, Works
  <2>4. worker.phase \notin {"Switching", "AwaitingOutput", "Staged"} /\ SameEpoch
    BY <2>1, <2>3 DEF SwitchOK
  <2>5. SwitchOK'
    BY <2>4 DEF SwitchOK, SameEpoch
  <2>6. AnswerOK'
    <3>1. SUFFICES ASSUME worker.phase = "Preparing"
                   PROVE  AnswerOK'
      BY DEF AnswerOK
    <3>2. c.id = worker.id /\ phone'.phase \in Busy =>
              phone'.id = worker'.id /\ phone'.mode = worker'.requested
      OBVIOUS
    <3>3. ASSUME NEW j \in DOMAIN phone'.control
          PROVE  LET g == phone'.control[j]
                 IN  /\ g.kind = "paused" /\ g.id = worker.id =>
                           g.epoch = phone.epoch /\ (Works({"Prepared"}))'
                     /\ g.kind = "result" /\ g.status = "staged" /\ g.id = worker.id =>
                           Works(Behind)'
      <4>1. CASE phone'.control[j] = f
        BY <3>2, <4>1 DEF Works, Behind, Busy
      <4>2. CASE phone'.control[j] # f
        <5>1. PICK i \in DOMAIN phone.control : phone'.control[j] = phone.control[i]
          BY <1>3, <4>2
        <5> QED
          BY <2>1, <2>3, <3>1, <5>1 DEF AnswerOK
      <4> QED
        BY <4>1, <4>2
    <3>4. phone'.id = worker.id => phone'.reply.kind # "paused" \/ phone'.phase = "Prepared"
      OBVIOUS
    <3> QED
      BY <3>1, <3>3, <3>4 DEF AnswerOK
  <2>7. CommitOK'
    BY <2>1, CommandsGone
  <2>8. CapsOK'
    <3>1. ASSUME NEW j \in DOMAIN phone'.control, phone'.control[j].kind = "caps"
          PROVE  phone'.control[j].epoch = phone.epoch
      BY <1>1, <1>3, <2>1, <2>4, <3>1 DEF CapsOK
    <3> QED
      BY <3>1 DEF CapsOK
  <2> QED
    BY <2>5, <2>6, <2>7, <2>8
<1> QED
  BY <1>4, <1>5, <1>6 DEF LinkInv

LEMMA RejectPrepareKeeps ==
    ASSUME PhoneOK(phone), NEW c \in Commands, c.kind = "prepare", RejectPrepare(c)
    PROVE  LET f == Result(c.id, "rejected", NoMode, phone.gen)
           IN  /\ PhoneOK(phone') /\ f \in Answers /\ f.kind = "result" /\ f.status = "rejected"
               /\ f.id = c.id
               /\ phone'.id = c.id /\ phone'.epoch = phone.epoch /\ phone'.gen = phone.gen
               /\ phone'.open = phone.open /\ phone'.intruded = phone.intruded
               /\ phone'.camera = phone.camera /\ phone'.reply = f /\ phone'.phase \notin Busy
               /\ Carries(phone.control, phone'.control, {f})
<1> DEFINE f == Result(c.id, "rejected", NoMode, phone.gen)
           q == Send(phone, f)
           r == [q EXCEPT !.id = c.id, !.reply = f]
<1>1. phone \in PhoneRecords /\ c.id \in Nat /\ c.id > 0 /\ phone.phase \notin Busy
  BY DEF PhoneOK, Commands, RejectPrepare
<1>2. f \in Answers /\ f.kind = "result" /\ f.status = "rejected" /\ f.id = c.id
  BY <1>1 DEF Result, ResultFrames, Answers, AnyMode, PhoneRecords
<1>3. phone' = r
  BY <1>1 DEF RejectPrepare, Reply, Send, PhoneRecords
<1> HIDE DEF f
<1>4. f \in ControlFrames /\ f # <<>> /\ ~IsBarrier(f)
  BY <1>2, AnswersAreFrames DEF IsBarrier
<1>5. /\ PhoneOK(q) /\ Carries(phone.control, q.control, {f})
      /\ q.phase = phone.phase /\ q.epoch = phone.epoch
      /\ q.gen = phone.gen /\ q.open = phone.open /\ q.intruded = phone.intruded
  BY <1>2, <1>4, SendKeeps
<1>6. q.camera = phone.camera
  BY <1>1 DEF Send, PhoneRecords
<1> HIDE DEF q
<1>7. q \in PhoneRecords
  BY <1>5 DEF PhoneOK
<1>8. r \in PhoneRecords
  BY <1>1, <1>2, <1>7 DEF PhoneRecords
<1>9. /\ r.phase = q.phase /\ r.id = c.id /\ r.mode = q.mode /\ r.epoch = q.epoch
      /\ r.reply = f /\ r.startRequested = q.startRequested /\ r.camera = q.camera
      /\ r.gen = q.gen /\ r.captured = q.captured /\ r.control = q.control /\ r.video = q.video
      /\ r.open = q.open /\ r.invited = q.invited /\ r.intruded = q.intruded
      /\ r.prepared = q.prepared
  BY <1>7 DEF PhoneRecords
<1> HIDE DEF r
<1>10. PhoneOK(r)
  BY <1>1, <1>2, <1>4, <1>5, <1>8, <1>9 DEF PhoneOK, Invited, CaptureOK, MachineOK, Past, Busy
<1> QED
  BY <1>1, <1>2, <1>3, <1>5, <1>6, <1>9, <1>10 DEF f

LEMMA AcceptPrepareKeeps ==
    ASSUME PhoneOK(phone), NEW c \in Commands, c.kind = "prepare", AcceptPrepare(c)
    PROVE  \E f \in Answers :
               /\ PhoneOK(phone') /\ f.id = c.id
               /\ phone'.id = c.id /\ phone'.epoch = phone.epoch /\ phone'.gen = phone.gen
               /\ phone'.open = phone.open /\ phone'.intruded = phone.intruded
               /\ phone'.camera = "off" /\ phone'.reply = f
               /\ Carries(phone.control, phone'.control, {f})
               /\ phone'.mode = c.mode
               /\ f.kind = "paused" => f.epoch = phone.epoch /\ phone'.phase = "Prepared"
               /\ f.kind = "result" /\ f.status = "staged" => phone'.phase = "Staged"
<1>1. /\ phone \in PhoneRecords /\ c.id \in Nat /\ c.id > 0 /\ c.mode \in Modes
      /\ c.mode \in AnyMode /\ phone.gen \in Nat
      /\ CaptureOK(phone) /\ MachineOK(phone) /\ Invited(phone)
  BY DEF PhoneOK, Commands, PhoneRecords, AnyMode
<1>2. PICK p \in PhoneRecords :
          p = [phone EXCEPT !.id = c.id, !.mode = c.mode, !.prepared = c.mode]
  BY <1>1 DEF PhoneRecords
<1>3. CASE phone.camera # "off"
  <2>1. PICK d \in Seq(ControlFrames) :
            /\ CloseBridge(p) = [p EXCEPT !.camera = "off", !.video = <<>>, !.control = d]
            /\ CloseBridge(p) \in PhoneRecords
            /\ Carries(p.control, d, {})
            /\ \A j \in DOMAIN d : d[j].kind # "config" /\ \E i \in DOMAIN p.control : d[j] = p.control[i]
    BY CloseBridgeIs, Zenon
  <2> DEFINE f == Paused(c.id, phone.epoch, phone.gen)
             e == Append(d, f)
             r == [p EXCEPT !.camera = "off", !.video = <<>>, !.control = e, !.phase = "Prepared",
                            !.armed = TRUE, !.reply = f]
  <2>2. p.epoch = phone.epoch /\ p.gen = phone.gen /\ p.control = phone.control
    BY <1>1, <1>2 DEF PhoneRecords
  <2>3. phone' = r
    BY <1>2, <1>3, <2>1, <2>2 DEF AcceptPrepare, Reply, Send, PhoneRecords
  <2>4. f \in Answers /\ f.kind = "paused" /\ f.id = c.id /\ f.epoch = phone.epoch /\ f.gen = phone.gen
    BY <1>1 DEF Paused, PausedFrames, Answers, PhoneRecords
  <2> HIDE DEF f
  <2>5. f \in ControlFrames /\ f # <<>>
    BY <2>4, AnswersAreFrames
  <2>6. e \in Seq(ControlFrames) /\ Carries(d, e, {f})
    BY <2>5, CarriesAppend
  <2> HIDE DEF e
  <2>7. \A j \in DOMAIN e : e[j] = f \/ \E i \in DOMAIN d : e[j] = d[i]
    BY <2>6 DEF Carries
  <2>8. Carries(phone.control, e, {f})
    <3>1. Carries(phone.control, e, {} \union {f})
      BY <2>1, <2>2, <2>6, CarriesTwice
    <3> QED
      BY <3>1, CarriesMore
  <2>9. r \in PhoneRecords
    <3>1. <<>> \in Seq(UnitFrames)
      OBVIOUS
    <3> QED
      BY <2>4, <2>6, <3>1 DEF PhoneRecords, Phases
  <2>10. /\ r.phase = "Prepared" /\ r.id = c.id /\ r.mode = c.mode /\ r.prepared = c.mode
         /\ r.epoch = phone.epoch /\ r.reply = f /\ r.camera = "off" /\ r.gen = phone.gen
         /\ r.control = e /\ r.video = <<>> /\ r.open = phone.open /\ r.invited = phone.invited
         /\ r.intruded = phone.intruded
    BY <1>1, <1>2 DEF PhoneRecords
  <2> HIDE DEF r
  <2>11. CaptureOK(r)
    BY <1>1, <2>1, <2>2, <2>4, <2>7, <2>10 DEF CaptureOK, IsBarrier, Past
  <2>12. MachineOK(r) /\ Invited(r)
    BY <1>1, <1>3, <2>4, <2>5, <2>10 DEF MachineOK, Invited, Busy, IsBarrier, Past
  <2> QED
    BY <2>3, <2>4, <2>8, <2>9, <2>10, <2>11, <2>12 DEF PhoneOK
<1>4. CASE phone.camera = "off"
  <2> DEFINE f == Result(c.id, "staged", NoMode, phone.gen)
             d == phone.control
             e == Append(d, f)
             r == [p EXCEPT !.control = e, !.phase = "Staged", !.armed = FALSE, !.reply = f]
  <2>1. p.gen = phone.gen /\ p.control = phone.control
    BY <1>1, <1>2 DEF PhoneRecords
  <2>2. phone' = r
    BY <1>2, <1>4, <2>1 DEF AcceptPrepare, Reply, Send, PhoneRecords
  <2>3. f \in Answers /\ f.kind = "result" /\ f.status = "staged" /\ f.id = c.id /\ f.gen = phone.gen
    BY <1>1 DEF Result, ResultFrames, Answers, PhoneRecords, AnyMode
  <2> HIDE DEF f
  <2>4. f \in ControlFrames /\ f # <<>>
    BY <2>3, AnswersAreFrames
  <2>5. e \in Seq(ControlFrames) /\ Carries(d, e, {f})
    BY <1>1, <2>4, CarriesAppend DEF PhoneRecords
  <2> HIDE DEF e
  <2>6. \A j \in DOMAIN e : e[j] = f \/ \E i \in DOMAIN d : e[j] = d[i]
    BY <2>5 DEF Carries
  <2>7. r \in PhoneRecords
    BY <2>3, <2>5 DEF PhoneRecords, Phases
  <2>8. /\ r.phase = "Staged" /\ r.id = c.id /\ r.mode = c.mode /\ r.prepared = c.mode
        /\ r.epoch = phone.epoch /\ r.reply = f /\ r.camera = "off" /\ r.gen = phone.gen
        /\ r.control = e /\ r.video = phone.video /\ r.open = phone.open
        /\ r.invited = phone.invited /\ r.intruded = phone.intruded
        /\ r.startRequested = phone.startRequested
    BY <1>1, <1>2, <1>4 DEF PhoneRecords
  <2> HIDE DEF r
  <2>9. CaptureOK(r)
    BY <1>1, <1>4, <2>3, <2>6, <2>8 DEF CaptureOK, IsBarrier, Past
  <2>10. MachineOK(r) /\ Invited(r)
    BY <1>1, <1>4, <2>3, <2>4, <2>8 DEF MachineOK, Invited, Busy, IsBarrier, Past
  <2> QED
    BY <2>2, <2>3, <2>5, <2>7, <2>8, <2>9, <2>10 DEF PhoneOK
<1> QED
  BY <1>3, <1>4

\* The commit of the switch that the phone is prepared for begins its epoch, and,
\* unless a capture already runs behind the machine's back, the requested one.
LEMMA BeginsEpoch ==
    ASSUME Types, PhoneOK(phone), LinkInv, OutputInv, worker' = worker,
           NEW c \in Commands, c.kind = "commit",
           toPhone # <<>>, c = Head(toPhone), toPhone' = Tail(toPhone),
           phone.open, phone.phase = "Prepared", c.id = phone.id, c.epoch = phone.epoch + 1,
           phone.foreground, phone.permission, HandleCommit(c)
    PROVE  PhoneOK(phone') /\ LinkInv' /\ OutputInv' /\ phone'.invited
<1>1. /\ phone \in PhoneRecords /\ CaptureOK(phone) /\ MachineOK(phone) /\ Invited(phone)
      /\ phone.gen \in Nat /\ c.epoch \in Nat /\ phone.epoch \in Nat /\ phone.invited
      /\ worker.fence \in Nat
  BY DEF PhoneOK, PhoneRecords, Commands, Invited, Types, WorkerRecords
<1>2. PICK p \in PhoneRecords :
          /\ p = [phone EXCEPT !.phase = "Starting", !.epoch = c.epoch, !.startRequested = TRUE]
          /\ phone' = StartCamera(p, phone.prepared)
  <2> DEFINE p == [phone EXCEPT !.phase = "Starting", !.epoch = c.epoch, !.startRequested = TRUE]
  <2>1. p \in PhoneRecords
    BY <1>1 DEF PhoneRecords, Phases
  <2>2. phone' = StartCamera(p, phone.prepared)
    BY DEF HandleCommit
  <2> QED
    BY <2>1, <2>2
<1>3. /\ p.phase = "Starting" /\ p.id = phone.id /\ p.mode = phone.mode /\ p.prepared = phone.mode
      /\ p.epoch = c.epoch /\ p.reply = phone.reply /\ p.camera = phone.camera
      /\ p.gen = phone.gen /\ p.captured = phone.captured /\ p.control = phone.control
      /\ p.video = phone.video /\ p.open = phone.open /\ p.invited = phone.invited
      /\ p.intruded = phone.intruded /\ p.startRequested /\ p.foreground /\ p.permission
      /\ phone.prepared = phone.mode /\ phone.mode \in Modes
  BY <1>1, <1>2 DEF PhoneRecords, MachineOK, Busy
<1>4. CommandsGo
  BY DEF CommandsGo
<1>5. ASSUME PhoneOK(phone'), phone'.id = phone.id, phone'.phase = "Starting",
             phone'.mode = phone.mode, phone'.epoch = c.epoch, phone'.control = phone.control,
             phone'.open => phone.open, phone.intruded => phone'.intruded,
             phone'.gen \in Nat, phone.gen <= phone'.gen,
             phone'.camera # "off" => phone.camera # "off" \/ phone.gen < phone'.gen,
             phone'.reply = phone.reply
      PROVE  LinkInv' /\ OutputInv'
  <2>1. OutputInv'
    <3>1. Past(phone, worker.fence)' /\ (worker.fence < phone.gen => worker.fence < phone'.gen)
      BY <1>1, <1>5 DEF OutputInv, Past
    <3> QED
      BY <3>1 DEF OutputInv, AwaitingVideo, AppliedIsReal
  <2>2. IdsOK'
    BY <1>4, <1>5, CommandsGone DEF LinkInv, IdsOK, Busy
  <2>3. ASSUME Live' PROVE (SwitchOK /\ AnswerOK /\ CommitOK /\ CapsOK)'
    <3>1. Live /\ SwitchOK /\ AnswerOK /\ CommitOK /\ CapsOK /\ phone.camera = "off"
      BY <1>1, <1>5, <2>3 DEF Live, LinkInv, MachineOK
    <3>2. /\ toPhone \in Seq(Commands) /\ Len(toPhone) \in Nat /\ Len(toPhone) > 0
          /\ DOMAIN toPhone = 1..Len(toPhone) /\ toPhone[1] = c
          /\ DOMAIN toPhone' = 1..(Len(toPhone) - 1)
          /\ \A i \in DOMAIN toPhone' : toPhone'[i] = toPhone[i + 1]
      BY DEF Types
    <3>3. worker.phase = "Switching" /\ c.id = worker.id /\ c.epoch = worker.epoch
      BY <3>1, <3>2 DEF CommitOK, IsCommit
    <3>4. NoCommit'
      <4>1. SUFFICES ASSUME NEW i \in DOMAIN toPhone', IsCommit(toPhone'[i]) PROVE FALSE
        BY DEF NoCommit
      <4>2. i + 1 \in DOMAIN toPhone /\ 1 \in DOMAIN toPhone /\ i + 1 # 1
            /\ IsCommit(toPhone[i + 1]) /\ IsCommit(toPhone[1])
        BY <3>2, <4>1 DEF IsCommit
      <4> QED
        BY <3>1, <4>2 DEF CommitOK
    <3>5. Works(Behind)' /\ SameEpoch'
      BY <1>1, <1>5, <3>3 DEF Works, Behind, SameEpoch, LinkInv, IdsOK, Busy
    <3>6. SwitchOK' /\ AnswerOK' /\ CommitOK'
      BY <3>1, <3>3, <3>4, <3>5, <1>4, CommandsGone DEF SwitchOK, AnswerOK
    <3>7. CapsOK'
      <4>1. \A j \in DOMAIN phone.control : phone.control[j].kind # "config"
        BY <1>1, <3>1 DEF CaptureOK
      <4>2. \A i \in DOMAIN phone.control : 1..i \subseteq DOMAIN phone.control
        BY <1>1 DEF PhoneRecords
      <4> QED
        BY <1>5, <3>3, <4>1, <4>2 DEF CapsOK
    <3> QED
      BY <3>6, <3>7
  <2> QED
    BY <2>1, <2>2, <2>3 DEF LinkInv
<1>6. CASE phone.camera # "off"
  <2>1. phone' = p
    BY <1>2, <1>3, <1>6 DEF StartCamera
  <2>2. PhoneOK(p)
    BY <1>1, <1>3, <1>6 DEF PhoneOK, Invited, CaptureOK, MachineOK, Past, Busy
  <2>3. /\ PhoneOK(phone') /\ phone'.id = phone.id /\ phone'.phase = "Starting"
        /\ phone'.mode = phone.mode /\ phone'.epoch = c.epoch
        /\ phone'.control = phone.control /\ phone'.gen = phone.gen /\ phone'.reply = phone.reply
        /\ phone'.camera = phone.camera /\ phone'.invited
    BY <1>1, <1>3, <2>1, <2>2
  <2>4. (phone'.open => phone.open) /\ (phone.intruded => phone'.intruded)
    BY <1>3, <2>1
  <2> QED
    BY <1>1, <1>5, <2>3, <2>4
<1>7. CASE phone.camera = "off"
  <2> DEFINE gen == phone.gen + 1
             intruded == p.intruded \/ p.phase = "Prepared"
             r == [p EXCEPT !.camera = "starting", !.captured = phone.mode, !.gen = gen,
                            !.intruded = intruded]
  <2>1. phone' = r
    BY <1>2, <1>3, <1>7 DEF StartCamera, CaptureRequested, PhoneRecords
  <2>2. gen \in Nat /\ gen > phone.gen /\ intruded \in BOOLEAN /\ (intruded <=> p.intruded)
    BY <1>1, <1>3 DEF PhoneRecords
  <2> HIDE DEF gen, intruded
  <2>3. r \in PhoneRecords
    BY <1>3, <2>2 DEF PhoneRecords, AnyMode
  <2>4. /\ r.phase = "Starting" /\ r.id = phone.id /\ r.mode = phone.mode /\ r.prepared = phone.mode
        /\ r.epoch = c.epoch /\ r.reply = phone.reply /\ r.camera = "starting"
        /\ r.gen = gen /\ r.captured = phone.mode /\ r.control = phone.control
        /\ r.video = phone.video /\ r.open = phone.open /\ r.invited
        /\ r.intruded = intruded
    BY <1>1, <1>3 DEF PhoneRecords
  <2>5. r.intruded = phone.intruded
    BY <1>1, <1>3, <2>2, <2>4 DEF PhoneRecords
  <2> HIDE DEF r
  <2>6. CaptureOK(r)
    <3>1. phone.video = <<>> /\ phone.control \in Seq(ControlFrames)
      BY <1>1, <1>7 DEF CaptureOK, PhoneRecords
    <3>2. \A i \in DOMAIN phone.control : phone.control[i].kind # "config"
      BY <1>1, <1>7 DEF CaptureOK
    <3>3. ASSUME NEW i \in DOMAIN phone.control, IsBarrier(phone.control[i])
          PROVE  Past(r, phone.control[i].gen)
      <4>1. Past(phone, phone.control[i].gen) /\ phone.control[i] \in ControlFrames
        BY <1>1, <3>1, <3>3 DEF CaptureOK
      <4>2. phone.control[i].gen \in Nat
        BY <3>3, <4>1, BarrierGen
      <4> QED
        BY <1>1, <2>2, <2>4, <4>1, <4>2, PastMore
    <3> QED
      BY <1>3, <2>4, <3>1, <3>2, <3>3 DEF CaptureOK
  <2>7. MachineOK(r)
    <3>1. phone.reply # <<>> /\ phone.reply.kind = "paused" /\ phone.reply \in Answers
          /\ phone.reply.id = phone.id /\ phone.id > 0 /\ Past(phone, phone.reply.gen)
      BY <1>1 DEF MachineOK, Busy, PhoneRecords, IsBarrier
    <3>2. Past(r, phone.reply.gen)
      <4>1. phone.reply.gen \in Nat
        BY <3>1, BarrierGen, AnswersAreFrames DEF IsBarrier
      <4> QED
        BY <1>1, <2>2, <2>4, <3>1, <4>1, PastMore
    <3> QED
      BY <1>3, <2>4, <3>1, <3>2 DEF MachineOK, Busy
  <2>8. PhoneOK(r)
    BY <2>3, <2>4, <2>6, <2>7 DEF PhoneOK, Invited
  <2> QED
    BY <1>1, <1>5, <2>1, <2>2, <2>4, <2>5, <2>8
<1> QED
  BY <1>6, <1>7

\* A command is handled, or dropped by a phone whose session is over.
LEMMA DeliverCommandKeeps ==
    ASSUME Types, PhoneOK(phone), LinkInv, OutputInv, DeliverCommand
    PROVE  /\ PhoneOK(phone') /\ LinkInv' /\ OutputInv' /\ toPhone' \in Seq(Commands)
           /\ phone'.gen > phone.gen => phone'.invited
           /\ UNCHANGED <<worker, client, slot, events, used>>
<1> DEFINE c == Head(toPhone)
<1>1. /\ toPhone # <<>> /\ HandleCommand(c) /\ toPhone' = Tail(toPhone)
      /\ UNCHANGED <<worker, client, slot, events, used>>
  BY DEF DeliverCommand, Free
<1>2. /\ c \in Commands /\ 1 \in DOMAIN toPhone /\ c = toPhone[1]
  BY <1>1 DEF Types
<1> HIDE DEF c
<1>3. CommandsGo /\ worker' = worker
  BY <1>1 DEF CommandsGo
<1>4. toPhone' \in Seq(Commands)
  BY <1>3, CommandsGone
<1>5. /\ phone \in PhoneRecords /\ phone.gen \in Nat /\ phone.id \in Nat /\ c.id \in Nat
      /\ worker.id \in Nat
      /\ c.id <= worker.id /\ (c.kind = "prepare" /\ c.id = worker.id => c.mode = worker.requested)
      /\ c.kind \in {"prepare", "commit"} /\ (c.kind = "prepare" => c.id > 0)
  BY <1>2 DEF PhoneOK, PhoneRecords, Commands, LinkInv, IdsOK, Types, WorkerRecords
<1>6. ASSUME PhoneMoves(phone, phone')
      PROVE  PhoneOK(phone') /\ LinkInv' /\ OutputInv' /\ (phone'.gen > phone.gen => phone'.invited)
  BY <1>3, <1>6, PhoneMovesKeeps DEF PhoneMoves
<1>7. CASE phone' = phone
  BY <1>6, <1>7, <1>1, <1>4, StandsStill
<1>8. CASE phone.open /\ c.kind = "prepare"
  <2>1. HandlePrepare(c)
    BY <1>1, <1>8 DEF HandleCommand
  <2>2. CASE ReplayPrepare(c)
    <3>1. /\ phone' = Send(phone, phone.reply) /\ phone.reply \in Answers /\ phone.id > 0
          /\ phone.reply.id <= worker.id
          /\ IsBarrier(phone.reply) => Past(phone, phone.reply.gen)
      BY <1>5, <1>8, <2>2 DEF ReplayPrepare, PhoneOK, MachineOK, PhoneRecords
    <3>2. PhoneOK(phone') /\ LinkInv' /\ OutputInv' /\ phone'.gen = phone.gen
      BY <1>3, <3>1, SaysAgain
    <3> QED
      BY <1>1, <1>4, <1>5, <3>2
  <2>3. CASE OldPrepare(c)
    BY <1>7, <2>3 DEF OldPrepare
  <2>4. CASE BusyPrepare(c)
    <3> DEFINE f == Result(c.id, "rejected", NoMode, phone.gen)
    <3>1. phone' = Send(phone, f)
      BY <2>4 DEF BusyPrepare
    <3>2. f \in Answers /\ f.kind = "result" /\ f.status = "rejected" /\ f.id = c.id
      BY <1>5 DEF Result, ResultFrames, Answers, AnyMode
    <3> HIDE DEF f
    <3>3. PhoneOK(phone') /\ LinkInv' /\ OutputInv' /\ phone'.gen = phone.gen
      BY <1>3, <1>5, <3>1, <3>2, SaysAgain DEF IsBarrier
    <3> QED
      BY <1>1, <1>4, <1>5, <3>3
  <2>5. CASE RejectPrepare(c)
    <3> DEFINE f == Result(c.id, "rejected", NoMode, phone.gen)
    <3>1. /\ PhoneOK(phone') /\ f \in Answers /\ f.kind = "result" /\ f.status = "rejected"
          /\ f.id = c.id
          /\ phone'.id = c.id /\ phone'.epoch = phone.epoch /\ phone'.gen = phone.gen
          /\ phone'.open = phone.open /\ phone'.intruded = phone.intruded
          /\ phone'.camera = phone.camera /\ phone'.reply = f /\ phone'.phase \notin Busy
          /\ Carries(phone.control, phone'.control, {f})
      BY <1>2, <1>8, <2>5, RejectPrepareKeeps
    <3> HIDE DEF f
    <3>2. LinkInv' /\ OutputInv'
      BY <1>2, <1>3, <1>5, <1>8, <2>5, <3>1, TakesRequest DEF RejectPrepare
    <3> QED
      BY <1>1, <1>4, <1>5, <3>1, <3>2
  <2>6. CASE AcceptPrepare(c)
    <3>1. PICK f \in Answers :
               /\ PhoneOK(phone') /\ f.id = c.id
               /\ phone'.id = c.id /\ phone'.epoch = phone.epoch /\ phone'.gen = phone.gen
               /\ phone'.open = phone.open /\ phone'.intruded = phone.intruded
               /\ phone'.camera = "off" /\ phone'.reply = f
               /\ Carries(phone.control, phone'.control, {f})
               /\ phone'.mode = c.mode
               /\ f.kind = "paused" => f.epoch = phone.epoch /\ phone'.phase = "Prepared"
               /\ f.kind = "result" /\ f.status = "staged" => phone'.phase = "Staged"
      BY <1>2, <1>8, <2>6, AcceptPrepareKeeps
    <3>2. LinkInv' /\ OutputInv'
      BY <1>2, <1>3, <1>5, <1>8, <2>6, <3>1, TakesRequest DEF AcceptPrepare
    <3> QED
      BY <1>1, <1>4, <1>5, <3>1, <3>2
  <2> QED
    BY <2>1, <2>2, <2>3, <2>4, <2>5, <2>6 DEF HandlePrepare
<1>9. CASE phone.open /\ c.kind # "prepare"
  <2>1. HandleCommit(c)
    BY <1>1, <1>9 DEF HandleCommand
  <2>2. CASE ~phone.foreground \/ ~phone.permission
    <3>1. phone' = Cancel(phone)
      BY <2>1, <2>2 DEF HandleCommit
    <3>2. PhoneMoves(phone, phone')
      BY <1>5, <3>1, SoundPhone, CancelKeeps DEF PhoneMoves
    <3> QED
      BY <1>1, <1>4, <1>6, <3>2
  <2>3. CASE /\ phone.foreground /\ phone.permission
             /\ phone.phase = "Prepared" /\ c.id = phone.id /\ c.epoch = phone.epoch + 1
    <3>1. PhoneOK(phone') /\ LinkInv' /\ OutputInv' /\ phone'.invited
      BY <1>1, <1>2, <1>3, <1>5, <1>9, <2>1, <2>3, BeginsEpoch DEF c
    <3> QED
      BY <1>1, <1>4, <3>1
  <2>4. CASE /\ phone.foreground /\ phone.permission
             /\ ~(phone.phase = "Prepared" /\ c.id = phone.id /\ c.epoch = phone.epoch + 1)
    BY <1>7, <2>1, <2>4 DEF HandleCommit
  <2> QED
    BY <1>5, <2>2, <2>3, <2>4 DEF PhoneRecords
<1>10. CASE ~phone.open
  BY <1>1, <1>7, <1>10 DEF HandleCommand
<1> QED
  BY <1>5, <1>8, <1>9, <1>10 DEF PhoneRecords

-----------------------------------------------------------------------------
(* What the worker tells the parent. *)

\* A running worker tells es.  It ends a switch with one event that settles it, or
\* with itself; what it opens as output, releases or confirms is told with it.
Says(es) ==
    /\ worker.running /\ es \in Seq(Events) /\ events' = events \o es
    /\ Working' => Working /\ worker'.requested = worker.requested /\ worker'.running
    /\ \/ /\ Working => Working'
          /\ \A k \in DOMAIN es : ~Settles(es[k])
       \/ /\ Working /\ ~Working'
          /\ \E k \in DOMAIN es : Settles(es[k])
          /\ \A k, l \in DOMAIN es : Settles(es[k]) /\ Settles(es[l]) => k = l
       \/ /\ \E k \in DOMAIN es : es[k].kind = "stopped"
          /\ \A k \in DOMAIN es : ~Settles(es[k])
    /\ \A k \in DOMAIN es : es[k].kind = "stopped" => ~worker'.running /\ ~Working'
    /\ worker'.running =>
          /\ \/ worker.output \in {NoMode, worker'.output}
             \/ Working /\ Working' /\ es # <<>> /\ es[1].kind = "progress"
          /\ \A k \in DOMAIN es :
                 es[k].kind \in {"applied", "stats"} => es[k].mode = worker'.output

LEMMA EventKinds ==
    ASSUME NEW e \in Events
    PROVE  /\ e.kind \in {"caps", "progress", "applied", "failed", "stats", "stopped"}
           /\ e.mode \in AnyMode /\ e.flag \in BOOLEAN
           /\ e.kind \in {"applied", "stats"} => e.mode \in Modes /\ e.mode # NoMode
  BY ModesAssumption DEF Events, AnyMode

LEMMA WorksOnRequest ==
    ASSUME Types, IdsOK, OutputInv, Working
    PROVE  worker.running /\ worker.id > 0 /\ worker.requested \in Modes
           /\ worker.requested # NoMode
  BY ModesAssumption DEF Types, WorkerRecords, IdsOK, OutputInv, Working, WorkerBusy

LEMMA SaysKeeps ==
    ASSUME Types, IdsOK, OutputInv, RequestInv, ShownInv, NEW es, Says(es),
           client' = client, slot' = slot
    PROVE  events' \in Seq(Events) /\ RequestInv' /\ ShownInv'
<1> DEFINE n == Len(events)
<1>1. /\ events \in Seq(Events) /\ es \in Seq(Events) /\ events' = events \o es
      /\ n \in Nat /\ Len(es) \in Nat /\ worker.running
  BY DEF Types, Says
<1>2. /\ events' \in Seq(Events)
      /\ DOMAIN events = 1..n /\ DOMAIN es = 1..Len(es) /\ DOMAIN events' = 1..(n + Len(es))
      /\ \A i \in 1..n : i \in DOMAIN events' /\ events'[i] = events[i]
      /\ \A k \in 1..Len(es) : n + k \in DOMAIN events' /\ events'[n + k] = es[k]
  BY <1>1
<1>3. ASSUME NEW i \in DOMAIN events'
      PROVE  \/ i \in DOMAIN events /\ events'[i] = events[i]
             \/ \E k \in DOMAIN es : i = n + k /\ events'[i] = es[k]
  <2>1. i \in 1..n \/ (i - n \in 1..Len(es) /\ i = n + (i - n))
    BY <1>1, <1>2
  <2> QED
    BY <1>2, <2>1
<1>4. \A i \in DOMAIN events : i \in DOMAIN events' /\ events'[i] = events[i]
  BY <1>2
<1>5. \A k \in DOMAIN es : n + k \in DOMAIN events' /\ events'[n + k] = es[k]
  BY <1>2
<1> SUFFICES ASSUME client.state = "running"
             PROVE  RequestInv' /\ ShownInv'
  BY <1>2 DEF RequestInv, ShownInv
<1>6. Working => worker.requested # NoMode /\ client.pending # NoMode
  BY WorksOnRequest DEF RequestInv
<1>7. slot # NoMode \/ client.pending = NoMode => ~Working /\ ~Working'
  BY <1>6 DEF RequestInv, Says
<1>8. slot # NoMode \/ Working' \/ client.pending = NoMode =>
          \A i \in DOMAIN events' : ~Settles(events'[i])
  <2>1. SUFFICES ASSUME slot # NoMode \/ Working' \/ client.pending = NoMode
                 PROVE  \A i \in DOMAIN events' : ~Settles(events'[i])
    OBVIOUS
  <2>2. \A i \in DOMAIN events : ~Settles(events[i])
    BY <2>1 DEF RequestInv, Says
  <2>3. \A k \in DOMAIN es : ~Settles(es[k])
    BY <1>7, <2>1 DEF Says
  <2> QED
    BY <1>3, <2>2, <2>3
<1>9. \A i, j \in DOMAIN events' : Settles(events'[i]) /\ Settles(events'[j]) => i = j
  <2>1. SUFFICES ASSUME NEW i \in DOMAIN events', NEW j \in DOMAIN events',
                        Settles(events'[i]), Settles(events'[j])
                 PROVE  i = j
    OBVIOUS
  <2>2. CASE Working
    <3>1. \A l \in DOMAIN events : ~Settles(events[l])
      BY <2>2 DEF RequestInv
    <3> QED
      BY <1>3, <2>1, <3>1 DEF Says
  <2>3. CASE ~Working
    <3>1. \A k \in DOMAIN es : ~Settles(es[k])
      BY <2>3 DEF Says
    <3> QED
      BY <1>3, <2>1, <3>1 DEF RequestInv
  <2> QED
    BY <2>2, <2>3
<1>10. \A i \in DOMAIN events' : events'[i].kind = "stopped" => ~worker'.running
  BY <1>1, <1>3 DEF RequestInv, Says
<1>11. client.pending # NoMode =>
           \/ slot = client.pending
           \/ Working' /\ worker'.requested = client.pending
           \/ \E i \in DOMAIN events' : events'[i].kind \in {"applied", "failed", "stopped"}
  <2>1. SUFFICES ASSUME client.pending # NoMode, slot # client.pending
                 PROVE  \/ Working' /\ worker'.requested = client.pending
                        \/ \E i \in DOMAIN events' : events'[i].kind \in {"applied", "failed", "stopped"}
    OBVIOUS
  <2>2. CASE Working /\ worker.requested = client.pending
    <3>1. CASE Working'
      BY <2>2, <3>1 DEF Says
    <3>2. CASE ~Working'
      <4>1. PICK k \in DOMAIN es : es[k].kind \in {"applied", "failed", "stopped"}
        BY <2>2, <3>2 DEF Says, Settles
      <4> QED
        BY <1>5, <4>1
    <3> QED
      BY <3>1, <3>2
  <2>3. CASE \E i \in DOMAIN events : events[i].kind \in {"applied", "failed", "stopped"}
    BY <1>4, <2>3
  <2> QED
    BY <2>1, <2>2, <2>3 DEF RequestInv, PendingIsWorkedOn, Working, WorkerBusy
<1>12. RequestInv'
  <2>1. Working' => client.pending = worker'.requested
    BY DEF Says, RequestInv
  <2>2. slot # NoMode => slot = client.pending /\ ~Working'
    BY <1>7 DEF RequestInv
  <2>3. PendingIsWorkedOn'
    BY <1>11, <2>1, <2>2 DEF PendingIsWorkedOn, Working, WorkerBusy
  <2> QED
    BY <1>8, <1>9, <1>10, <2>1, <2>2, <2>3 DEF RequestInv
<1>13. \A i \in DOMAIN events : Learns(i) => Learns(i)'
  <2>1. SUFFICES ASSUME NEW i \in DOMAIN events, Learns(i) PROVE Learns(i)'
    OBVIOUS
  <2>2. \A j \in 1..i : j \in DOMAIN events
    BY <1>1, <1>2, <2>1
  <2>3. \A j \in 1..i : events'[j] = events[j]
    BY <1>4, <2>2
  <2> QED
    BY <2>1, <2>3 DEF Learns
<1>14. ShownInv'
  <2>1. SUFFICES ASSUME worker'.running
                 PROVE  /\ client.applied \notin {NoMode, worker'.output} =>
                             \E i \in DOMAIN events' : events'[i].kind = "progress" /\ Learns(i)'
                        /\ \A i \in DOMAIN events' :
                             /\ events'[i].kind = "stats" => events'[i].mode = worker'.output \/ Learns(i)'
                             /\ events'[i].kind = "applied" => events'[i].mode = worker'.output
    BY DEF ShownInv
  <2>2. \A k \in DOMAIN es : es[k].kind \in {"applied", "stats"} => es[k].mode = worker'.output
    BY <2>1 DEF Says
  <2>3. \A i \in DOMAIN events : events[i].kind \in {"applied", "stats"} => events[i].mode # NoMode
    BY <1>1, <1>2, EventKinds
  <2>4. CASE worker.output \in {NoMode, worker'.output}
    <3>1. client.applied \notin {NoMode, worker'.output} =>
              \E i \in DOMAIN events' : events'[i].kind = "progress" /\ Learns(i)'
      BY <1>1, <1>4, <1>13, <2>4 DEF ShownInv
    <3>2. ASSUME NEW i \in DOMAIN events
          PROVE  /\ events[i].kind = "stats" => events[i].mode = worker'.output \/ Learns(i)'
                 /\ events[i].kind = "applied" => events[i].mode = worker'.output
      BY <1>1, <1>13, <2>3, <2>4 DEF ShownInv
    <3> QED
      BY <1>3, <2>2, <3>1, <3>2
  <2>5. CASE Working /\ Working' /\ es # <<>> /\ es[1].kind = "progress"
    <3>1. /\ \A i \in DOMAIN events' : ~Settles(events'[i])
          /\ 1 \in DOMAIN es
      BY <1>1, <1>8, <2>5
    <3>2. \A i \in DOMAIN events' : 1..i \subseteq DOMAIN events'
      BY <1>1, <1>2
    <3>3. \A i \in DOMAIN events' : Learns(i)' /\ events'[i].kind # "applied"
      BY <1>6, <2>5, <3>1, <3>2 DEF Learns, Settles
    <3>4. n + 1 \in DOMAIN events' /\ events'[n + 1].kind = "progress"
      BY <1>5, <2>5, <3>1
    <3> QED
      BY <3>3, <3>4
  <2> QED
    BY <2>1, <2>4, <2>5 DEF Says
<1> QED
  BY <1>12, <1>14

-----------------------------------------------------------------------------
(* A frame reaches the worker. *)

HeadTaken == phone.control # <<>> /\ phone' = [phone EXCEPT !.control = Tail(@)]
UnitTaken == phone.control = <<>> /\ phone.video # <<>> /\ phone' = [phone EXCEPT !.video = Tail(@)]

\* The machine and the camera do not notice.
SameMachine ==
    /\ phone'.phase = phone.phase /\ phone'.id = phone.id /\ phone'.mode = phone.mode
    /\ phone'.epoch = phone.epoch /\ phone'.reply = phone.reply /\ phone'.gen = phone.gen
    /\ phone'.camera = phone.camera /\ phone'.captured = phone.captured
    /\ phone'.open = phone.open /\ phone'.intruded = phone.intruded
    /\ phone'.startRequested = phone.startRequested /\ phone'.invited = phone.invited

LEMMA HeadIsTaken ==
    ASSUME PhoneOK(phone), HeadTaken
    PROVE  /\ PhoneOK(phone') /\ SameMachine
           /\ 1 \in DOMAIN phone.control /\ phone.control[1] = Head(phone.control)
           /\ Head(phone.control) \in ControlFrames
           /\ \A i \in DOMAIN phone.control : Clear(phone.control, i) => phone.control[1].kind # "config"
           /\ \A j \in DOMAIN phone'.control :
                  \E i \in DOMAIN phone.control :
                      /\ phone'.control[j] = phone.control[i] /\ i # 1
                      /\ Clear(phone.control, i) => Clear(phone'.control, j)
           /\ \A i \in DOMAIN phone.control :
                  i = 1 \/ \E j \in DOMAIN phone'.control :
                               /\ phone'.control[j] = phone.control[i]
                               /\ Clear(phone.control, i) => Clear(phone'.control, j)
<1> DEFINE c == phone.control
           d == Tail(c)
<1>1. phone \in PhoneRecords /\ c \in Seq(ControlFrames) /\ c # <<>>
      /\ phone' = [phone EXCEPT !.control = d]
  BY DEF PhoneOK, PhoneRecords, HeadTaken
<1>2. /\ d \in Seq(ControlFrames) /\ Len(c) \in Nat /\ Len(c) > 0
      /\ DOMAIN c = 1..Len(c) /\ DOMAIN d = 1..(Len(c) - 1)
      /\ \A j \in DOMAIN d : d[j] = c[j + 1]
      /\ c[1] = Head(c)
  BY <1>1
<1>3. 1 \in DOMAIN c /\ c[1] \in ControlFrames
  BY <1>1, <1>2
<1> HIDE DEF c, d
<1>4. phone' \in PhoneRecords /\ SameMachine /\ phone'.control = d /\ phone'.video = phone.video
      /\ phone'.prepared = phone.prepared
  BY <1>1, <1>2 DEF PhoneRecords, SameMachine
<1>5. ASSUME NEW j \in DOMAIN d
      PROVE  /\ j + 1 \in DOMAIN c /\ d[j] = c[j + 1] /\ j + 1 # 1
             /\ Clear(c, j + 1) => Clear(d, j)
  <2>1. j + 1 \in DOMAIN c /\ d[j] = c[j + 1] /\ j + 1 # 1 /\ j \in Nat
    BY <1>2
  <2>2. \A k \in 1..j : k \in DOMAIN d /\ k + 1 \in 1..(j + 1)
    BY <1>2
  <2> QED
    BY <1>2, <2>1, <2>2 DEF Clear
<1>6. ASSUME NEW i \in DOMAIN c, i # 1
      PROVE  i - 1 \in DOMAIN d /\ (i - 1) + 1 = i
  BY <1>2, <1>6
<1>7. \A i \in DOMAIN c : Clear(c, i) => c[1].kind # "config"
  BY <1>2 DEF Clear
<1>8. CaptureOK(phone')
  <2>1. \A j \in DOMAIN d : \E i \in DOMAIN c : d[j] = c[i]
    BY <1>5
  <2> QED
    BY <1>4, <2>1 DEF PhoneOK, CaptureOK, Past, SameMachine, c
<1>9. PhoneOK(phone')
  BY <1>4, <1>8 DEF PhoneOK, Invited, MachineOK, Past, SameMachine
<1>10. \A j \in DOMAIN d : \E i \in DOMAIN c : d[j] = c[i] /\ i # 1 /\ (Clear(c, i) => Clear(d, j))
  BY <1>5
<1>11. \A i \in DOMAIN c : i = 1 \/ \E j \in DOMAIN d : d[j] = c[i] /\ (Clear(c, i) => Clear(d, j))
  BY <1>5, <1>6
<1> QED
  BY <1>2, <1>3, <1>4, <1>7, <1>9, <1>10, <1>11 DEF c

LEMMA UnitIsTaken ==
    ASSUME PhoneOK(phone), UnitTaken
    PROVE  /\ PhoneOK(phone') /\ SameMachine /\ phone'.control = <<>>
           /\ Head(phone.video) = Unit(phone.captured, phone.gen)
           /\ Head(phone.video) \in UnitFrames /\ phone.camera # "off"
<1>1. /\ phone \in PhoneRecords /\ phone.video = <<Unit(phone.captured, phone.gen)>>
      /\ phone.video \in Seq(UnitFrames) /\ phone.camera # "off"
      /\ phone' = [phone EXCEPT !.video = Tail(@)]
  BY DEF PhoneOK, CaptureOK, PhoneRecords, UnitTaken
<1>2. Tail(phone.video) = <<>> /\ <<>> \in Seq(UnitFrames)
      /\ Head(phone.video) = Unit(phone.captured, phone.gen)
      /\ Head(phone.video) \in UnitFrames
  BY <1>1
<1>3. phone' = [phone EXCEPT !.video = <<>>]
  BY <1>1, <1>2 DEF PhoneRecords
<1>4. phone' \in PhoneRecords /\ SameMachine /\ phone'.control = <<>> /\ phone'.video = <<>>
      /\ phone'.prepared = phone.prepared
  BY <1>1, <1>2, <1>3 DEF PhoneRecords, SameMachine, UnitTaken
<1>5. PhoneOK(phone')
  BY <1>4 DEF PhoneOK, Invited, CaptureOK, MachineOK, Past, SameMachine
<1> QED
  BY <1>1, <1>2, <1>4, <1>5

\* The phone stays or a frame of it is taken.
PhoneKeeps == phone' = phone \/ HeadTaken \/ UnitTaken

LEMMA PhoneIsKept ==
    ASSUME PhoneOK(phone), PhoneKeeps
    PROVE  /\ PhoneOK(phone') /\ SameMachine
           /\ \A j \in DOMAIN phone'.control :
                  \E i \in DOMAIN phone.control : phone'.control[j] = phone.control[i]
<1>1. CASE phone' = phone
  BY <1>1 DEF SameMachine
<1>2. CASE HeadTaken
  BY <1>2, HeadIsTaken
<1>3. CASE UnitTaken
  <2>1. PhoneOK(phone') /\ SameMachine /\ phone'.control = <<>>
    BY <1>3, UnitIsTaken
  <2> QED
    BY <2>1
<1> QED
  BY <1>1, <1>2, <1>3 DEF PhoneKeeps

\* What a step of the worker keeps of its own and of the phone.
EndsKept == PhoneOK(phone') /\ LinkInv' /\ OutputInv' /\ worker' \in WorkerRecords

\* The worker ends, with an error or without one.
LEMMA WorkerEnds ==
    ASSUME Types, PhoneOK(phone), LinkInv, OutputInv, PhoneKeeps, worker' = Ended,
           toPhone' = toPhone
    PROVE  EndsKept /\ ~worker'.running /\ ~Working'
<1>1. /\ worker \in WorkerRecords
      /\ worker' = [worker EXCEPT !.running = FALSE, !.phase = "Failed", !.armed = FALSE]
  BY DEF Types, Ended
<1>2. /\ worker' \in WorkerRecords /\ ~worker'.running /\ worker'.phase = "Failed"
      /\ worker'.id = worker.id /\ worker'.requested = worker.requested
      /\ worker'.fence = worker.fence /\ worker'.output = worker.output
      /\ worker'.config = worker.config
  BY <1>1 DEF WorkerRecords, WorkerPhases
<1>3. /\ PhoneOK(phone') /\ SameMachine
      /\ \A j \in DOMAIN phone'.control :
             \E i \in DOMAIN phone.control : phone'.control[j] = phone.control[i]
  BY PhoneIsKept
<1>4. LinkInv'
  BY <1>2, <1>3 DEF LinkInv, IdsOK, Live, SameMachine, Busy
<1>5. OutputInv'
  BY <1>2, <1>3 DEF OutputInv, Past, SameMachine, AppliedIsReal
<1> QED
  BY <1>2, <1>3, <1>4, <1>5 DEF EndsKept, Working, WorkerBusy

LEMMA RefusedStays ==
    ASSUME PhoneOK(phone), HeadTaken \/ UnitTaken, worker'.id = worker.id, Refused,
           HeadTaken => ~IsRejection(phone.control[1])
    PROVE  Refused'
<1>1. PICK i \in DOMAIN phone.control : IsRejection(phone.control[i]) /\ Clear(phone.control, i)
  BY DEF Refused, Clear
<1>2. HeadTaken
  BY <1>1 DEF UnitTaken
<1>3. i # 1
  BY <1>1, <1>2
<1>4. PICK j \in DOMAIN phone'.control :
          phone'.control[j] = phone.control[i] /\ Clear(phone'.control, j)
  BY <1>1, <1>2, <1>3, HeadIsTaken
<1>5. phone'.id = phone.id /\ phone'.phase = phone.phase
  BY <1>2, HeadIsTaken DEF SameMachine
<1> QED
  BY <1>1, <1>4, <1>5 DEF Refused, IsRejection, Clear

\* Rejections are read by a worker that waits.
Waits == {"Preparing", "Switching", "AwaitingOutput", "Staged"}

\* A frame that does not move the switch.
LEMMA LinkStays ==
    ASSUME Types, PhoneOK(phone), LinkInv, HeadTaken \/ UnitTaken, toPhone' = toPhone,
           worker'.phase = worker.phase, worker'.id = worker.id,
           worker'.requested = worker.requested, worker'.running = worker.running,
           worker'.epoch = worker.epoch
               \/ (worker.phase \notin Waits /\ (Live => worker'.epoch = phone.epoch)),
           HeadTaken /\ IsRejection(phone.control[1]) => worker.phase \notin Waits
    PROVE  LinkInv'
<1>1. /\ PhoneOK(phone') /\ SameMachine
      /\ \A j \in DOMAIN phone'.control :
             \E i \in DOMAIN phone.control :
                 /\ phone'.control[j] = phone.control[i]
                 /\ Clear(phone.control, i) => Clear(phone'.control, j)
  <2>1. CASE HeadTaken
    BY <2>1, HeadIsTaken
  <2>2. CASE UnitTaken
    <3>1. PhoneOK(phone') /\ SameMachine /\ phone'.control = <<>>
      BY <2>2, UnitIsTaken
    <3> QED
      BY <3>1
  <2> QED
    BY <2>1, <2>2
<1>2. worker.phase \in Waits /\ Refused => Refused'
  BY RefusedStays
<1>3. IdsOK'
  BY <1>1 DEF LinkInv, IdsOK, SameMachine
<1>4. ASSUME Live' PROVE (SwitchOK /\ AnswerOK /\ CommitOK /\ CapsOK)'
  <2>1. Live /\ SwitchOK /\ AnswerOK /\ CommitOK /\ CapsOK
    BY <1>1, <1>4 DEF Live, SameMachine, LinkInv
  <2>2. /\ \A phases : Works(phases) <=> Works(phases)'
        /\ NoCommit <=> NoCommit'
        /\ SameEpoch => SameEpoch'
        /\ worker.phase \in Waits => (worker'.epoch = worker.epoch)
    BY <1>1, <2>1 DEF Works, SameMachine, NoCommit, SameEpoch
  <2>3. SwitchOK'
    BY <1>1, <1>2, <2>1, <2>2 DEF SwitchOK, SameMachine, Waits
  <2>4. AnswerOK'
    BY <1>1, <1>2, <2>1, <2>2 DEF AnswerOK, SameMachine, Waits
  <2>5. CommitOK'
    BY <2>1, <2>2 DEF CommitOK, Waits
  <2>6. CapsOK'
    BY <1>1, <2>1 DEF CapsOK, Clear, SameMachine
  <2> QED
    BY <2>3, <2>4, <2>5, <2>6
<1> QED
  BY <1>3, <1>4 DEF LinkInv

\* The worker and its commands stay as they are.
LEMMA WorkerStays ==
    ASSUME Types, PhoneOK(phone), LinkInv, OutputInv, HeadTaken \/ UnitTaken, toPhone' = toPhone,
           worker' = worker,
           HeadTaken /\ IsRejection(phone.control[1]) => worker.phase \notin Waits
    PROVE  EndsKept /\ Working' = Working
<1>1. PhoneOK(phone') /\ SameMachine
  BY PhoneIsKept DEF PhoneKeeps
<1>2. LinkInv'
  BY LinkStays
<1>3. OutputInv'
  BY <1>1 DEF OutputInv, Past, SameMachine, AppliedIsReal, AwaitingVideo
<1> QED
  BY <1>1, <1>2, <1>3 DEF EndsKept, Types, Working, WorkerBusy

LEMMA OneEvent ==
    ASSUME NEW e \in Events
    PROVE  /\ <<e>> \in Seq(Events) /\ <<e>> # <<>> /\ <<e>>[1] = e
           /\ \A k \in DOMAIN <<e>> : k = 1
           /\ 1 \in DOMAIN <<e>>
  OBVIOUS

LEMMA TwoEvents ==
    ASSUME NEW d \in Events, NEW e \in Events
    PROVE  /\ <<d, e>> \in Seq(Events) /\ <<d, e>> # <<>> /\ <<d, e>>[1] = d /\ <<d, e>>[2] = e
           /\ \A k \in DOMAIN <<d, e>> : k = 1 \/ k = 2
           /\ 1 \in DOMAIN <<d, e>> /\ 2 \in DOMAIN <<d, e>>
           /\ <<d>> \o <<e>> = <<d, e>>
<1> DEFINE s == <<d>> \o <<e>>
           t == <<d, e>>
<1>1. t \in Seq(Events) /\ Len(t) = 2 /\ t[1] = d /\ t[2] = e /\ DOMAIN t = 1..2 /\ t # <<>>
  OBVIOUS
<1>2. <<d>> \in Seq(Events) /\ <<e>> \in Seq(Events) /\ Len(<<d>>) = 1 /\ Len(<<e>>) = 1
      /\ <<d>>[1] = d /\ <<e>>[1] = e
  OBVIOUS
<1>3. s \in Seq(Events) /\ Len(s) = 2 /\ s[1] = d /\ s[2] = e
  BY <1>2
<1> HIDE DEF s, t
<1>4. s = t
  BY <1>1, <1>3
<1> QED
  BY <1>1, <1>4 DEF s, t

LEMMA NoEvent ==
    /\ <<>> \in Seq(Events) /\ DOMAIN <<>> = {}
    /\ \A es \in Seq(Events) : es \o <<>> = es /\ <<>> \o es = es
  OBVIOUS

LEMMA EventsAre ==
    /\ \A flag \in BOOLEAN :
           /\ Capabilities(flag) \in Events /\ Capabilities(flag).kind = "caps"
           /\ Progress(flag) \in Events /\ Progress(flag).kind = "progress"
           /\ Failed(flag) \in Events /\ Failed(flag).kind = "failed" /\ Failed(flag).flag = flag
    /\ Stopped \in Events /\ Stopped.kind = "stopped"
    /\ \A mode \in Modes :
           /\ Applied(mode) \in Events /\ Applied(mode).kind = "applied" /\ Applied(mode).mode = mode
           /\ Stats(mode) \in Events /\ Stats(mode).kind = "stats" /\ Stats(mode).mode = mode
  BY DEF Capabilities, Progress, Failed, Stopped, Applied, Stats, Event, Events, AnyMode

\* A switch that went on goes on, and the output stays.
Continues ==
    /\ Working' <=> Working
    /\ worker'.requested = worker.requested /\ worker'.running = worker.running
    /\ worker'.output = worker.output

LEMMA SaysNothing ==
    ASSUME Types, worker.running, events' = events, Continues
    PROVE  Says(<<>>)
<1>1. events' = events \o <<>>
  BY NoEvent DEF Types
<1> QED
  BY <1>1, NoEvent DEF Says, Continues

\* ... while something is told that settles nothing.
LEMMA SaysAside ==
    ASSUME Types, worker.running, NEW e \in Events, e.kind \in {"caps", "progress"},
           Tell(<<e>>), Continues
    PROVE  Says(<<e>>)
  BY OneEvent DEF Says, Continues, Tell, Settles

LEMMA FailsSays ==
    ASSUME Types, worker.running, Working, ~Working', ~worker'.running, Fails
    PROVE  Says(<<Failed(TRUE), Stopped>>)
<1> DEFINE d == Failed(TRUE)
           e == Stopped
<1>1. d \in Events /\ e \in Events /\ d.kind = "failed" /\ e.kind = "stopped"
  BY EventsAre
<1>2. events' = events \o <<d, e>>
  BY DEF Fails, Tell
<1> HIDE DEF d, e
<1>3. Says(<<d, e>>)
  BY <1>1, <1>2, TwoEvents DEF Says, Settles
<1> QED
  BY <1>3 DEF d, e

LEMMA ErrsSays ==
    ASSUME Types, worker.running, ~Working', ~worker'.running, Errs
    PROVE  Says(<<Stopped>>)
<1> DEFINE e == Stopped
<1>1. e \in Events /\ e.kind = "stopped"
  BY EventsAre
<1>2. events' = events \o <<e>>
  BY DEF Errs, Tell
<1> HIDE DEF e
<1>3. Says(<<e>>)
  BY <1>1, <1>2, OneEvent DEF Says, Settles
<1> QED
  BY <1>3 DEF e

\* All that a step of the worker keeps.
Received ==
    EndsKept /\ toPhone' \in Seq(Commands) /\ client' = client /\ slot' = slot /\ \E es : Says(es)

LEMMA ReceiveCapsKeeps ==
    ASSUME Types, PhoneOK(phone), LinkInv, OutputInv, HeadTaken, worker.running,
           NEW m, m = Head(phone.control), m.kind = "caps", ReceiveCaps(m)
    PROVE  Received
<1> DEFINE epoch == IF worker.phase \in {"Idle", "Applied", "Failed"} THEN m.epoch ELSE worker.epoch
           w == [worker EXCEPT !.advertised = TRUE, !.ready = m.ready, !.revision = m.revision,
                               !.epoch = epoch]
<1>1. /\ PhoneOK(phone') /\ SameMachine /\ m \in CapsFrames
      /\ 1 \in DOMAIN phone.control /\ phone.control[1] = m
  BY HeadIsTaken, FrameKinds
<1>2. /\ worker \in WorkerRecords /\ worker' = w /\ events' = events \o <<Capabilities(m.ready)>>
      /\ client' = client /\ slot' = slot /\ toPhone' = toPhone
  BY DEF Types, ReceiveCaps, Tell, WorkerRecords
<1>3. epoch \in Nat \union {-1}
  BY <1>1, <1>2 DEF CapsFrames, WorkerRecords
<1>4. /\ worker.phase \notin Waits \/ epoch = worker.epoch
      /\ worker.phase \in Waits \/ epoch = m.epoch
  BY <1>2 DEF Waits, WorkerRecords, WorkerPhases
<1> HIDE DEF epoch
<1>5. /\ worker' \in WorkerRecords /\ worker'.phase = worker.phase /\ worker'.id = worker.id
      /\ worker'.requested = worker.requested /\ worker'.running = worker.running
      /\ worker'.epoch = epoch /\ worker'.fence = worker.fence /\ worker'.seen = worker.seen
      /\ worker'.config = worker.config /\ worker'.output = worker.output
  BY <1>1, <1>2, <1>3 DEF WorkerRecords, CapsFrames
<1>6. ~IsRejection(phone.control[1])
  BY <1>1 DEF IsRejection
<1>7. LinkInv'
  <2>1. Live => m.epoch = phone.epoch \/ worker.phase \in Waits
    BY <1>1 DEF LinkInv, CapsOK, Waits
  <2>2. \/ worker'.epoch = worker.epoch
        \/ worker.phase \notin Waits /\ (Live => worker'.epoch = phone.epoch)
    BY <1>4, <1>5, <2>1
  <2> QED
    BY <1>2, <1>5, <1>6, <2>2, LinkStays
<1>8. OutputInv'
  BY <1>1, <1>5 DEF OutputInv, Past, SameMachine, AppliedIsReal, AwaitingVideo
<1>9. Says(<<Capabilities(m.ready)>>)
  <2>1. m.ready \in BOOLEAN
    BY <1>1 DEF CapsFrames
  <2>2. Capabilities(m.ready) \in Events /\ Capabilities(m.ready).kind = "caps"
    BY <2>1, EventsAre
  <2>3. Continues
    BY <1>5 DEF Continues, Working, WorkerBusy
  <2> QED
    BY <1>2, <2>2, <2>3, SaysAside DEF Tell
<1> QED
  BY <1>1, <1>2, <1>5, <1>7, <1>8, <1>9 DEF Received, EndsKept, Types

\* A reply that the worker does not wait for.
LEMMA ReceiveIgnored ==
    ASSUME Types, PhoneOK(phone), LinkInv, OutputInv, HeadTaken, worker.running,
           UNCHANGED <<worker, client, slot, events, toPhone>>,
           IsRejection(phone.control[1]) => worker.phase \notin Waits
    PROVE  Received
<1>1. EndsKept /\ Continues
  BY WorkerStays DEF Continues, Working, WorkerBusy
<1>2. Says(<<>>)
  BY <1>1, SaysNothing
<1> QED
  BY <1>1, <1>2 DEF Received, Types

LEMMA ReceiveStagedKeeps ==
    ASSUME Types, PhoneOK(phone), LinkInv, OutputInv, HeadTaken, worker.running,
           NEW m, m = Head(phone.control), m.kind = "result", m.status = "staged", ReceiveStaged(m)
    PROVE  Received
<1>1. /\ PhoneOK(phone') /\ SameMachine /\ m \in ResultFrames /\ m \in ControlFrames
      /\ 1 \in DOMAIN phone.control /\ phone.control[1] = m
      /\ ~IsRejection(m) /\ IsBarrier(m) /\ client' = client /\ slot' = slot /\ toPhone' = toPhone
  BY HeadIsTaken, FrameKinds DEF IsRejection, IsBarrier, ReceiveStaged
<1>2. CASE ~(m.id = worker.id /\ worker.phase = "Preparing")
  BY <1>1, <1>2, ReceiveIgnored DEF ReceiveStaged
<1>3. CASE m.id = worker.id /\ worker.phase = "Preparing"
  <2>1. /\ worker \in WorkerRecords
        /\ worker' = [worker EXCEPT !.config = NoMode, !.output = NoMode, !.phase = "Staged",
                                    !.armed = FALSE, !.fence = m.gen]
        /\ events' = events \o <<Progress(TRUE)>>
    BY <1>3 DEF Types, ReceiveStaged, Tell, Released, WorkerRecords
  <2>2. m.gen \in Nat
    BY <1>1, BarrierGen
  <2>3. /\ worker' \in WorkerRecords /\ worker'.phase = "Staged" /\ worker'.id = worker.id
        /\ worker'.requested = worker.requested /\ worker'.running = worker.running
        /\ worker'.epoch = worker.epoch /\ worker'.fence = m.gen
        /\ worker'.config = NoMode /\ worker'.output = NoMode
    BY <2>1, <2>2 DEF WorkerRecords, WorkerPhases, AnyMode
  <2>4. Past(phone, m.gen)
    BY <1>1 DEF PhoneOK, CaptureOK
  <2>5. OutputInv'
    BY <1>1, <1>3, <2>3, <2>4 DEF OutputInv, Past, SameMachine, AppliedIsReal, AwaitingVideo, Switched
  <2>6. LinkInv'
    <3>1. \A j \in DOMAIN phone'.control :
              \E i \in DOMAIN phone.control : phone'.control[j] = phone.control[i]
      BY HeadIsTaken
    <3>2. IdsOK'
      BY <1>1, <2>3, <3>1 DEF LinkInv, IdsOK, SameMachine
    <3>3. ASSUME Live' PROVE (SwitchOK /\ AnswerOK /\ CommitOK /\ CapsOK)'
      <4>1. Live /\ SwitchOK /\ AnswerOK /\ CommitOK /\ CapsOK
        BY <1>1, <2>3, <3>3 DEF Live, SameMachine, LinkInv
      <4>2. Works(Behind) \/ Refused
        BY <1>1, <1>3, <4>1 DEF AnswerOK
      <4>3. Works(Behind)' \/ Refused'
        <5>1. Works(Behind) => Works(Behind)'
          BY <1>1, <2>3 DEF Works, SameMachine
        <5>2. Refused => Refused'
          BY <1>1, <2>3, RefusedStays
        <5> QED
          BY <4>2, <5>1, <5>2
      <4>4. SwitchOK'
        BY <1>1, <1>3, <2>3, <4>1, <4>3 DEF SwitchOK, SameEpoch, SameMachine
      <4>5. AnswerOK' /\ CommitOK'
        BY <1>1, <1>3, <2>3, <4>1 DEF AnswerOK, CommitOK
      <4>6. CapsOK'
        BY <1>1, <1>3, <3>1, <4>1 DEF CapsOK, SameMachine
      <4> QED
        BY <4>4, <4>5, <4>6
    <3> QED
      BY <3>2, <3>3 DEF LinkInv
  <2>7. Says(<<Progress(TRUE)>>)
    <3>1. Progress(TRUE) \in Events /\ Progress(TRUE).kind = "progress"
      BY EventsAre
    <3>2. Working /\ Working'
      BY <1>3, <2>3 DEF Working, WorkerBusy
    <3> QED
      BY <2>1, <2>3, <3>1, <3>2, OneEvent DEF Says, Settles
  <2> QED
    BY <1>1, <2>3, <2>5, <2>6, <2>7 DEF Received, EndsKept, Types
<1> QED
  BY <1>2, <1>3

\* The phone has started what was staged.
LEMMA StagedMovesOn ==
    ASSUME Types, PhoneOK(phone), LinkInv, OutputInv, HeadTaken, worker.running,
           ~IsRejection(phone.control[1]), worker.phase = "Staged",
           worker' = [worker EXCEPT !.phase = "Switching", !.armed = TRUE],
           Tell(<<Progress(FALSE)>>), UNCHANGED <<client, slot, toPhone>>
    PROVE  Received
<1>1. /\ PhoneOK(phone') /\ SameMachine
      /\ \A j \in DOMAIN phone'.control :
             \E i \in DOMAIN phone.control : phone'.control[j] = phone.control[i]
  BY HeadIsTaken
<1>2. /\ worker \in WorkerRecords /\ worker'.phase = "Switching" /\ worker'.id = worker.id
      /\ worker'.requested = worker.requested /\ worker'.running = worker.running
      /\ worker'.epoch = worker.epoch /\ worker'.fence = worker.fence
      /\ worker'.config = worker.config /\ worker'.output = worker.output
      /\ worker' \in WorkerRecords
  BY DEF Types, WorkerRecords, WorkerPhases
<1>3. OutputInv'
  BY <1>1, <1>2 DEF OutputInv, Past, SameMachine, AppliedIsReal, AwaitingVideo, Switched
<1>4. IdsOK'
  BY <1>1, <1>2 DEF LinkInv, IdsOK, SameMachine
<1>5. ASSUME Live' PROVE (SwitchOK /\ AnswerOK /\ CommitOK /\ CapsOK)'
  <2>1. Live /\ SwitchOK /\ AnswerOK /\ CommitOK /\ CapsOK
    BY <1>1, <1>2, <1>5 DEF Live, SameMachine, LinkInv
  <2>2. (Works(Behind) \/ Refused) /\ SameEpoch /\ NoCommit
    BY <2>1 DEF SwitchOK, CommitOK, NoCommit
  <2>3. /\ Works(Behind) => Works(Behind)'
        /\ SameEpoch' /\ NoCommit'
    BY <1>1, <1>2, <2>2 DEF Works, SameMachine, SameEpoch, NoCommit
  <2>4. Refused => Refused'
    BY <1>2, RefusedStays
  <2>5. SwitchOK' /\ AnswerOK' /\ CommitOK'
    BY <1>2, <2>2, <2>3, <2>4 DEF SwitchOK, AnswerOK, CommitOK, NoCommit
  <2>6. CapsOK'
    BY <1>1, <2>1 DEF CapsOK, SameMachine
  <2> QED
    BY <2>5, <2>6
<1>6. Says(<<Progress(FALSE)>>)
  <2>1. Progress(FALSE) \in Events /\ Progress(FALSE).kind = "progress"
    BY EventsAre
  <2>2. Continues
    BY <1>2 DEF Continues, Working, WorkerBusy
  <2> QED
    BY <2>1, <2>2, SaysAside
<1> QED
  BY <1>1, <1>2, <1>3, <1>4, <1>5, <1>6 DEF Received, EndsKept, Types, LinkInv

LEMMA ReceiveSwitchingKeeps ==
    ASSUME Types, PhoneOK(phone), LinkInv, OutputInv, HeadTaken, worker.running,
           NEW m, m = Head(phone.control), m.kind = "result", m.status = "switching",
           ReceiveSwitching(m)
    PROVE  Received
<1>1. ~IsRejection(phone.control[1])
  BY HeadIsTaken DEF IsRejection
<1>2. CASE ~(m.id = worker.id /\ worker.phase = "Staged")
  BY <1>1, <1>2, ReceiveIgnored DEF ReceiveSwitching
<1>3. CASE m.id = worker.id /\ worker.phase = "Staged"
  BY <1>1, <1>3, StagedMovesOn DEF ReceiveSwitching, OutputTimer
<1> QED
  BY <1>2, <1>3

\* An error that ends a switch, and the session.
LEMMA FailsKeeps ==
    ASSUME Types, PhoneOK(phone), LinkInv, OutputInv, PhoneKeeps, worker.running,
           Working, Fails, UNCHANGED <<client, slot, toPhone>>
    PROVE  Received
<1>1. EndsKept /\ ~worker'.running /\ ~Working'
  BY WorkerEnds DEF Fails
<1>2. Says(<<Failed(TRUE), Stopped>>)
  BY <1>1, FailsSays
<1> QED
  BY <1>1, <1>2 DEF Received, Types

LEMMA ErrsKeeps ==
    ASSUME Types, PhoneOK(phone), LinkInv, OutputInv, PhoneKeeps, worker.running,
           Errs, UNCHANGED <<client, slot, toPhone>>
    PROVE  Received
<1>1. EndsKept /\ ~worker'.running /\ ~Working'
  BY WorkerEnds DEF Errs
<1>2. Says(<<Stopped>>)
  BY <1>1, ErrsSays
<1> QED
  BY <1>1, <1>2 DEF Received, Types

LEMMA ReceiveAppliedKeeps ==
    ASSUME Types, PhoneOK(phone), LinkInv, OutputInv, HeadTaken, worker.running,
           NEW m, m = Head(phone.control), m.kind = "result", m.status = "applied",
           ReceiveApplied(m)
    PROVE  Received
<1>1. ~IsRejection(phone.control[1]) /\ PhoneKeeps /\ UNCHANGED <<client, slot, toPhone>>
  BY HeadIsTaken DEF IsRejection, PhoneKeeps, ReceiveApplied
<1>2. CASE m.id # worker.id \/ ~AwaitingVideo
  BY <1>1, <1>2, ReceiveIgnored DEF ReceiveApplied
<1>3. CASE m.id = worker.id /\ AwaitingVideo /\ m.mode # worker.requested
  <2>1. Fails /\ Working
    BY <1>3 DEF ReceiveApplied, AwaitingVideo, Working, WorkerBusy
  <2> QED
    BY <1>1, <2>1, FailsKeeps
<1>4. CASE m.id = worker.id /\ worker.phase = "Staged" /\ m.mode = worker.requested
  BY <1>1, <1>4, StagedMovesOn DEF ReceiveApplied, AwaitingVideo
<1>5. CASE m.id = worker.id /\ AwaitingVideo /\ worker.phase # "Staged" /\ m.mode = worker.requested
  BY <1>1, <1>5, ReceiveIgnored DEF ReceiveApplied
<1> QED
  BY <1>2, <1>3, <1>4, <1>5 DEF AwaitingVideo

LEMMA ReceiveRejectedKeeps ==
    ASSUME Types, PhoneOK(phone), LinkInv, OutputInv, HeadTaken, worker.running,
           NEW m, m = Head(phone.control), m.kind = "result", m.status = "rejected",
           ReceiveRejected(m)
    PROVE  Received
<1>1. /\ PhoneKeeps /\ UNCHANGED <<client, slot, toPhone>>
      /\ PhoneOK(phone') /\ SameMachine /\ phone.control[1] = m
      /\ \A j \in DOMAIN phone'.control :
             \E i \in DOMAIN phone.control : phone'.control[j] = phone.control[i]
  BY HeadIsTaken DEF PhoneKeeps, ReceiveRejected
<1>2. CASE m.id # worker.id \/ ~(WorkerBusy \/ worker.phase = "Staged")
  <2>1. IsRejection(phone.control[1]) => worker.phase \notin Waits
    BY <1>1, <1>2 DEF IsRejection, Waits, WorkerBusy
  <2> QED
    BY <1>2, <2>1, ReceiveIgnored DEF ReceiveRejected
<1>3. CASE m.id = worker.id /\ worker.phase \in {"Switching", "AwaitingOutput"}
  <2>1. Fails /\ Working
    BY <1>3 DEF ReceiveRejected, Working, WorkerBusy
  <2> QED
    BY <1>1, <2>1, FailsKeeps
<1>4. CASE m.id = worker.id /\ worker.phase \in {"Preparing", "Staged"}
  <2> DEFINE more == IF worker.phase = "Staged" THEN <<Progress(FALSE)>> ELSE <<>>
             es == <<Failed(FALSE)>> \o more
  <2>1. worker' = [worker EXCEPT !.phase = "Failed", !.armed = FALSE] /\ events' = events \o es
    BY <1>4 DEF ReceiveRejected, AfterRejection, WorkerBusy, Tell
  <2>2. /\ worker \in WorkerRecords /\ worker'.phase = "Failed" /\ worker'.id = worker.id
        /\ worker'.requested = worker.requested /\ worker'.running = worker.running
        /\ worker'.epoch = worker.epoch /\ worker'.fence = worker.fence
        /\ worker'.config = worker.config /\ worker'.output = worker.output
        /\ worker' \in WorkerRecords
    BY <2>1 DEF Types, WorkerRecords, WorkerPhases
  <2>3. OutputInv'
    BY <1>1, <1>4, <2>2 DEF OutputInv, Past, SameMachine, AppliedIsReal, AwaitingVideo, Switched
  <2>4. IdsOK'
    BY <1>1, <2>2 DEF LinkInv, IdsOK, SameMachine
  <2>5. ASSUME Live' PROVE (SwitchOK /\ AnswerOK /\ CommitOK /\ CapsOK)'
    <3>1. Live /\ SwitchOK /\ AnswerOK /\ CommitOK /\ CapsOK
      BY <1>1, <2>2, <2>5 DEF Live, SameMachine, LinkInv
    <3>2. SwitchOK' /\ AnswerOK' /\ CommitOK'
      BY <1>1, <1>4, <2>2, <3>1 DEF SwitchOK, AnswerOK, CommitOK, SameEpoch, SameMachine
    <3>3. CapsOK'
      BY <1>1, <1>4, <3>1 DEF CapsOK, SameMachine
    <3> QED
      BY <3>2, <3>3
  <2>6. /\ es \in Seq(Events) /\ \E k \in DOMAIN es : Settles(es[k])
        /\ \A k \in DOMAIN es : es[k].kind = "failed" <=> k = 1
        /\ \A k \in DOMAIN es : es[k].kind \in {"failed", "progress"}
    <3> DEFINE d == Failed(FALSE)
               e == Progress(FALSE)
    <3>1. d \in Events /\ e \in Events /\ d.kind = "failed" /\ e.kind = "progress"
      BY EventsAre
    <3>2. es = IF worker.phase = "Staged" THEN <<d>> \o <<e>> ELSE <<d>> \o <<>>
      OBVIOUS
    <3> HIDE DEF d, e, es
    <3>3. es = IF worker.phase = "Staged" THEN <<d, e>> ELSE <<d>>
      <4>1. <<d>> \o <<e>> = <<d, e>>
        BY <3>1, TwoEvents
      <4>2. <<d>> \in Seq(Events)
        BY <3>1, OneEvent
      <4>3. <<d>> \o <<>> = <<d>>
        BY <4>2, NoEvent
      <4> QED
        BY <3>2, <4>1, <4>3
    <3>4. CASE worker.phase = "Staged"
      BY <3>1, <3>3, <3>4, TwoEvents DEF Settles
    <3>5. CASE worker.phase # "Staged"
      BY <3>1, <3>3, <3>5, OneEvent DEF Settles
    <3> QED
      BY <3>4, <3>5
  <2> HIDE DEF es
  <2>7. Says(es)
    <3>1. Working /\ ~Working'
      BY <1>4, <2>2 DEF Working, WorkerBusy
    <3>2. \A k, l \in DOMAIN es : Settles(es[k]) /\ Settles(es[l]) => k = l
      BY <2>6 DEF Settles
    <3> QED
      BY <2>1, <2>2, <2>6, <3>1, <3>2 DEF Says
  <2> QED
    BY <1>1, <2>2, <2>3, <2>4, <2>5, <2>7 DEF Received, EndsKept, Types, LinkInv
<1> QED
  BY <1>2, <1>3, <1>4 DEF WorkerBusy

LEMMA ReceivePausedKeeps ==
    ASSUME Types, PhoneOK(phone), LinkInv, OutputInv, HeadTaken, worker.running,
           NEW m, m = Head(phone.control), m.kind = "paused", ReceivePaused(m)
    PROVE  Received
<1>1. /\ PhoneOK(phone') /\ SameMachine /\ m \in PausedFrames /\ m \in ControlFrames
      /\ 1 \in DOMAIN phone.control /\ phone.control[1] = m
      /\ ~IsRejection(m) /\ IsBarrier(m) /\ client' = client /\ slot' = slot
      /\ \A j \in DOMAIN phone'.control :
             \E i \in DOMAIN phone.control : phone'.control[j] = phone.control[i]
  BY HeadIsTaken, FrameKinds DEF IsRejection, IsBarrier, ReceivePaused
<1>2. CASE ~BarrierMatches(m)
  BY <1>1, <1>2, ReceiveIgnored DEF ReceivePaused
<1>3. CASE BarrierMatches(m)
  <2> DEFINE epoch == m.epoch + 1
             c == CommitQuality(m.id, epoch)
  <2>1. /\ worker \in WorkerRecords /\ m.id = worker.id /\ worker.phase = "Preparing"
        /\ worker.epoch \in {-1, m.epoch}
        /\ worker' = [worker EXCEPT !.config = NoMode, !.output = NoMode, !.phase = "Switching",
                                    !.fence = m.gen, !.epoch = epoch]
        /\ events' = events \o <<Progress(FALSE)>>
        /\ toPhone' = Append(toPhone, c)
    BY <1>3 DEF Types, ReceivePaused, Tell, Released, WorkerRecords, NextEpoch, BarrierMatches
  <2>2. m.gen \in Nat /\ m.epoch \in Nat /\ epoch \in Nat
    BY <1>1 DEF PausedFrames
  <2>3. /\ worker' \in WorkerRecords /\ worker'.phase = "Switching" /\ worker'.id = worker.id
        /\ worker'.requested = worker.requested /\ worker'.running = worker.running
        /\ worker'.epoch = epoch /\ worker'.fence = m.gen
        /\ worker'.config = NoMode /\ worker'.output = NoMode
    BY <2>1, <2>2 DEF WorkerRecords, WorkerPhases, AnyMode
  <2>4. Past(phone, m.gen)
    BY <1>1 DEF PhoneOK, CaptureOK
  <2>5. OutputInv'
    BY <1>1, <2>1, <2>3, <2>4 DEF OutputInv, Past, SameMachine, AppliedIsReal, AwaitingVideo, Switched
  <2>6. /\ c \in Commands /\ c.kind = "commit" /\ c.id = worker.id /\ c.epoch = epoch
    BY <2>1, <2>2 DEF CommitQuality, Commands, WorkerRecords
  <2> HIDE DEF c
  <2>7. /\ toPhone \in Seq(Commands) /\ toPhone' \in Seq(Commands) /\ Len(toPhone) \in Nat
        /\ DOMAIN toPhone = 1..Len(toPhone) /\ DOMAIN toPhone' = 1..(Len(toPhone) + 1)
        /\ \A i \in DOMAIN toPhone : toPhone'[i] = toPhone[i]
        /\ toPhone'[Len(toPhone) + 1] = c
    BY <2>1, <2>6 DEF Types
  <2>8. \A i \in DOMAIN toPhone' : (i \in DOMAIN toPhone /\ toPhone'[i] = toPhone[i])
                                   \/ (i = Len(toPhone) + 1 /\ toPhone'[i] = c)
    BY <2>7
  <2>9. IdsOK'
    <3>1. worker.id \in Nat
      BY <2>1 DEF WorkerRecords
    <3> QED
      BY <1>1, <2>3, <2>6, <2>8, <3>1 DEF LinkInv, IdsOK, SameMachine
  <2>10. ASSUME Live' PROVE (SwitchOK /\ AnswerOK /\ CommitOK /\ CapsOK)'
    <3>1. Live /\ SwitchOK /\ AnswerOK /\ CommitOK /\ CapsOK
      BY <1>1, <2>3, <2>10 DEF Live, SameMachine, LinkInv
    <3>2. m.epoch = phone.epoch /\ (Works({"Prepared"}) \/ Refused)
      BY <1>1, <2>1, <3>1 DEF AnswerOK
    <3>3. (Works({"Prepared"}) \/ Refused)'
      <4>1. Works({"Prepared"}) => Works({"Prepared"})'
        BY <1>1, <2>3 DEF Works, SameMachine
      <4>2. Refused => Refused'
        BY <1>1, <2>3, RefusedStays
      <4> QED
        BY <3>2, <4>1, <4>2
    <3>4. SwitchOK'
      BY <1>1, <2>3, <3>2, <3>3 DEF SwitchOK, SameMachine
    <3>5. CommitOK'
      <4>1. \A i \in DOMAIN toPhone : ~IsCommit(toPhone[i])
        BY <2>1, <3>1 DEF CommitOK
      <4>2. \A i \in DOMAIN toPhone' : IsCommit(toPhone'[i]) => i = Len(toPhone) + 1 /\ toPhone'[i] = c
        BY <2>8, <4>1
      <4> QED
        BY <2>3, <2>6, <4>2 DEF CommitOK
    <3>6. AnswerOK' /\ CapsOK'
      <4>1. \A j \in DOMAIN phone'.control : phone'.control[j].kind = "caps" =>
                phone'.control[j].epoch = phone.epoch
        BY <1>1, <2>1, <3>1 DEF CapsOK
      <4> QED
        BY <1>1, <2>3, <4>1 DEF AnswerOK, CapsOK, SameMachine
    <3> QED
      BY <3>4, <3>5, <3>6
  <2>11. Says(<<Progress(FALSE)>>)
    <3>1. Progress(FALSE) \in Events /\ Progress(FALSE).kind = "progress"
      BY EventsAre
    <3>2. Working /\ Working'
      BY <2>1, <2>3 DEF Working, WorkerBusy
    <3> QED
      BY <2>1, <2>3, <3>1, <3>2, OneEvent DEF Says, Settles
  <2> QED
    BY <1>1, <2>3, <2>5, <2>7, <2>9, <2>10, <2>11 DEF Received, EndsKept, LinkInv
<1> QED
  BY <1>2, <1>3

LEMMA ReceiveConfigKeeps ==
    ASSUME Types, PhoneOK(phone), LinkInv, OutputInv, HeadTaken, worker.running,
           NEW m, m = Head(phone.control), m.kind = "config", ReceiveConfig(m)
    PROVE  Received
<1>1. /\ PhoneOK(phone') /\ SameMachine /\ m \in ConfigFrames /\ m \in ControlFrames
      /\ 1 \in DOMAIN phone.control /\ phone.control[1] = m /\ PhoneKeeps
      /\ ~IsRejection(m) /\ UNCHANGED <<client, slot, toPhone>>
      /\ \A j \in DOMAIN phone'.control :
             \E i \in DOMAIN phone.control : phone'.control[j] = phone.control[i]
      /\ \A i \in DOMAIN phone.control : ~Clear(phone.control, i)
  BY HeadIsTaken, FrameKinds DEF IsRejection, ReceiveConfig, PhoneKeeps
<1>2. ~Refused
  BY <1>1 DEF Refused, Clear
<1>3. CASE AwaitingVideo /\ m.mode # worker.requested
  <2>1. Fails /\ Working
    BY <1>3 DEF ReceiveConfig, AwaitingVideo, Working, WorkerBusy
  <2> QED
    BY <1>1, <2>1, FailsKeeps
<1>4. CASE AwaitingVideo /\ m.mode = worker.requested
  <2> DEFINE armed == worker.armed \/ worker.phase = "Staged"
             es == IF worker.phase = "Staged" THEN <<Progress(FALSE)>> ELSE <<>>
  <2>1. /\ worker \in WorkerRecords
        /\ worker' = [worker EXCEPT !.phase = "AwaitingOutput", !.config = m.mode, !.armed = armed]
        /\ events' = events \o es
    BY <1>4 DEF Types, ReceiveConfig, Tell, WorkerRecords
  <2>2. armed \in BOOLEAN /\ m.mode \in Modes /\ m.mode \in AnyMode
    BY <1>1, <2>1 DEF WorkerRecords, ConfigFrames, AnyMode
  <2> HIDE DEF armed, es
  <2>3. /\ worker' \in WorkerRecords /\ worker'.phase = "AwaitingOutput" /\ worker'.id = worker.id
        /\ worker'.requested = worker.requested /\ worker'.running = worker.running
        /\ worker'.epoch = worker.epoch /\ worker'.fence = worker.fence
        /\ worker'.config = m.mode /\ worker'.output = worker.output
    BY <2>1, <2>2 DEF WorkerRecords, WorkerPhases
  <2>4. phone.camera \in {"configured", "running"}
    BY <1>1 DEF PhoneOK, CaptureOK
  <2>5. OutputInv'
    BY <1>1, <1>4, <2>3, <2>4 DEF OutputInv, Past, SameMachine, AppliedIsReal, AwaitingVideo, Switched
  <2>6. IdsOK'
    BY <1>1, <2>3 DEF LinkInv, IdsOK, SameMachine
  <2>7. ASSUME Live' PROVE (SwitchOK /\ AnswerOK /\ CommitOK /\ CapsOK)'
    <3>1. Live /\ SwitchOK /\ AnswerOK /\ CommitOK /\ CapsOK
      BY <1>1, <2>3, <2>7 DEF Live, SameMachine, LinkInv
    <3>2. phone.phase # "Prepared"
      BY <2>4, <3>1 DEF PhoneOK, MachineOK, Live
    <3>3. Works(Behind) /\ SameEpoch /\ NoCommit
      BY <1>2, <1>4, <3>1, <3>2 DEF SwitchOK, CommitOK, NoCommit, AwaitingVideo, Works
    <3>4. SwitchOK' /\ AnswerOK' /\ CommitOK'
      BY <1>1, <2>3, <3>3 DEF SwitchOK, AnswerOK, CommitOK, Works, SameEpoch, NoCommit, SameMachine
    <3>5. CapsOK'
      <4>1. \A i \in DOMAIN phone.control : phone.control[i].kind = "caps" =>
                phone.control[i].epoch = phone.epoch
        BY <1>1, <3>1 DEF CapsOK, Clear
      <4> QED
        BY <1>1, <4>1 DEF CapsOK, SameMachine
    <3> QED
      BY <3>4, <3>5
  <2>8. \E s : Says(s)
    <3>1. Continues
      BY <1>4, <2>3 DEF Continues, Working, WorkerBusy, AwaitingVideo
    <3>2. CASE worker.phase = "Staged"
      <4>1. Progress(FALSE) \in Events /\ Progress(FALSE).kind = "progress"
        BY EventsAre
      <4>2. Tell(<<Progress(FALSE)>>)
        BY <2>1, <3>2 DEF Tell, es
      <4> QED
        BY <3>1, <4>1, <4>2, SaysAside
    <3>3. CASE worker.phase # "Staged"
      <4>1. events' = events
        BY <2>1, <3>3, NoEvent DEF es, Types
      <4> QED
        BY <3>1, <4>1, SaysNothing
    <3> QED
      BY <3>2, <3>3
  <2> QED
    BY <1>1, <2>3, <2>5, <2>6, <2>7, <2>8 DEF Received, EndsKept, LinkInv, Types
<1>5. CASE ~AwaitingVideo /\ worker.config \notin {NoMode, m.mode}
  BY <1>1, <1>5, ErrsKeeps DEF ReceiveConfig
<1>6. CASE ~AwaitingVideo /\ worker.config \in {NoMode, m.mode}
  <2>1. /\ worker \in WorkerRecords /\ worker' = [worker EXCEPT !.config = m.mode]
        /\ events' = events /\ m.mode \in AnyMode
    BY <1>1, <1>6 DEF Types, ReceiveConfig, ConfigFrames, AnyMode
  <2>2. /\ worker' \in WorkerRecords /\ worker'.phase = worker.phase /\ worker'.id = worker.id
        /\ worker'.requested = worker.requested /\ worker'.running = worker.running
        /\ worker'.epoch = worker.epoch /\ worker'.fence = worker.fence
        /\ worker'.seen = worker.seen
        /\ worker'.config = m.mode /\ worker'.output = worker.output
    BY <2>1 DEF WorkerRecords
  <2>3. LinkInv'
    BY <1>1, <2>2, LinkStays
  <2>4. worker.phase \in Switched => worker.config = m.mode
    BY <1>6, ModesAssumption DEF OutputInv, LinkInv, IdsOK, AwaitingVideo, Switched
  <2>5. OutputInv'
    BY <1>1, <1>6, <2>2, <2>4 DEF OutputInv, Past, SameMachine, AppliedIsReal, AwaitingVideo
  <2>6. Says(<<>>)
    <3>1. Continues
      BY <2>2 DEF Continues, Working, WorkerBusy
    <3> QED
      BY <2>1, <3>1, SaysNothing
  <2> QED
    BY <1>1, <2>2, <2>3, <2>5, <2>6 DEF Received, EndsKept, Types
<1> QED
  BY <1>3, <1>4, <1>5, <1>6

LEMMA ReceiveUnitKeeps ==
    ASSUME Types, PhoneOK(phone), LinkInv, OutputInv, UnitTaken, worker.running,
           NEW m, m = Head(phone.video), NEW active \in BOOLEAN, NEW report \in BOOLEAN,
           ReceiveUnit(m, active, report)
    PROVE  Received
<1>1. /\ PhoneOK(phone') /\ SameMachine /\ phone'.control = <<>> /\ phone.camera # "off"
      /\ m = Unit(phone.captured, phone.gen) /\ m \in UnitFrames /\ PhoneKeeps
      /\ UNCHANGED <<client, slot, toPhone>> /\ phone.control = <<>>
  BY UnitIsTaken DEF PhoneKeeps, ReceiveUnit, UnitTaken
<1>2. ~HeadTaken /\ ~Refused
  BY <1>1 DEF HeadTaken, Refused
<1>3. CASE worker.config = NoMode
  <2>1. EndsKept /\ Continues /\ events' = events
    BY <1>2, <1>3, WorkerStays DEF ReceiveUnit, Continues, Working, WorkerBusy
  <2>2. Says(<<>>)
    BY <2>1, SaysNothing
  <2> QED
    BY <1>1, <2>1, <2>2 DEF Received, Types
<1>4. CASE worker.config # NoMode /\ m.mode # worker.config
  BY <1>1, <1>4, ErrsKeeps DEF ReceiveUnit
<1>5. CASE worker.config # NoMode /\ m.mode = worker.config
  <2> DEFINE confirms == active /\ worker.phase = "AwaitingOutput"
             phase == IF confirms THEN "Applied" ELSE worker.phase
             armed == IF confirms THEN FALSE ELSE worker.armed
             seen == IF active THEN m ELSE worker.seen
             some == IF confirms THEN <<Applied(worker.requested)>> ELSE <<>>
             more == IF active /\ report THEN <<Stats(worker.config)>> ELSE <<>>
             es == some \o more
             w == [worker EXCEPT !.output = worker.config, !.phase = phase, !.armed = armed, !.seen = seen]
  <2>1. worker \in WorkerRecords /\ events' = events \o es
    BY <1>5 DEF Types, ReceiveUnit, Tell, OutputConfirms
  <2>2. worker' = w
    BY <1>5, <2>1 DEF ReceiveUnit, OutputConfirms, WorkerRecords
  <2>3. /\ phase \in WorkerPhases /\ armed \in BOOLEAN /\ seen \in UnitFrames
        /\ worker.config \in AnyMode /\ worker.config \in Modes
    BY <1>1, <1>5, <2>1 DEF WorkerRecords, WorkerPhases, AnyMode
  <2>4. /\ phase = worker.phase \/ (phase = "Applied" /\ worker.phase = "AwaitingOutput")
        /\ confirms <=> phase # worker.phase
        /\ seen = m \/ (seen = worker.seen /\ phase = worker.phase)
    OBVIOUS
  <2>5. /\ es \in Seq(Events) /\ (\A k \in DOMAIN es : es[k].kind \in {"applied", "stats"})
        /\ \A k \in DOMAIN es : es[k].kind = "applied" => confirms /\ k = 1 /\ es[k].mode = worker.requested
        /\ \A k \in DOMAIN es : es[k].kind = "stats" => es[k].mode = worker.config
        /\ confirms => \E k \in DOMAIN es : es[k].kind = "applied"
    <3> DEFINE d == Applied(worker.requested)
               e == Stats(worker.config)
    <3>1. confirms => d \in Events /\ d.kind = "applied" /\ d.mode = worker.requested
      <4>1. confirms => worker.requested \in Modes
        BY WorksOnRequest DEF LinkInv, Working, WorkerBusy
      <4> QED
        BY <4>1, EventsAre
    <3>2. e \in Events /\ e.kind = "stats" /\ e.mode = worker.config
      BY <2>3, EventsAre
    <3>3. /\ some = IF confirms THEN <<d>> ELSE <<>>
          /\ more = IF active /\ report THEN <<e>> ELSE <<>>
      OBVIOUS
    <3> HIDE DEF d, e, some, more, confirms
    <3>4. CASE confirms /\ active /\ report
      <4>1. es = <<d, e>>
        BY <3>1, <3>2, <3>3, <3>4, TwoEvents
      <4> HIDE DEF es
      <4> QED
        BY <3>1, <3>2, <3>4, <4>1, TwoEvents
    <3>5. CASE confirms /\ ~(active /\ report)
      <4>1. <<d>> \in Seq(Events) /\ <<d>> \o <<>> = <<d>>
        BY <3>1, <3>5, OneEvent, NoEvent
      <4>2. es = <<d>>
        BY <3>3, <3>5, <4>1
      <4> HIDE DEF es
      <4> QED
        BY <3>1, <3>5, <4>2, OneEvent
    <3>6. CASE ~confirms /\ active /\ report
      <4>1. <<e>> \in Seq(Events) /\ <<>> \o <<e>> = <<e>>
        BY <3>2, OneEvent, NoEvent
      <4>2. es = <<e>>
        BY <3>3, <3>6, <4>1
      <4> HIDE DEF es
      <4> QED
        BY <3>2, <3>6, <4>2, OneEvent
    <3>7. CASE ~confirms /\ ~(active /\ report)
      <4>1. es = <<>>
        BY <3>3, <3>7, NoEvent
      <4> HIDE DEF es
      <4> QED
        BY <3>7, <4>1, NoEvent
    <3> QED
      BY <3>4, <3>5, <3>6, <3>7
  <2> HIDE DEF phase, armed, seen, es, confirms
  <2>6. /\ worker' \in WorkerRecords /\ worker'.phase = phase /\ worker'.id = worker.id
        /\ worker'.requested = worker.requested /\ worker'.running = worker.running
        /\ worker'.epoch = worker.epoch /\ worker'.fence = worker.fence
        /\ worker'.seen = seen /\ worker'.config = worker.config
        /\ worker'.output = worker.config
    BY <2>1, <2>2, <2>3 DEF WorkerRecords
  <2>7. LinkInv'
    <3>1. CASE phase = worker.phase
      BY <1>1, <1>2, <2>6, <3>1, LinkStays
    <3>2. CASE phase = "Applied" /\ worker.phase = "AwaitingOutput"
      <4>1. IdsOK'
        BY <1>1, <2>6 DEF LinkInv, IdsOK, SameMachine
      <4>2. ASSUME Live' PROVE (SwitchOK /\ AnswerOK /\ CommitOK /\ CapsOK)'
        <5>1. Live /\ SwitchOK /\ CommitOK
          BY <1>1, <2>6, <4>2 DEF Live, SameMachine, LinkInv
        <5>2. SameEpoch' /\ SwitchOK' /\ AnswerOK'
          BY <1>1, <1>2, <2>6, <3>2, <5>1 DEF SwitchOK, AnswerOK, SameEpoch, SameMachine
        <5>3. CommitOK' /\ CapsOK'
          BY <1>1, <2>6, <3>2, <5>1 DEF CommitOK, CapsOK
        <5> QED
          BY <5>2, <5>3
      <4> QED
        BY <4>1, <4>2 DEF LinkInv
    <3> QED
      BY <2>4, <3>1, <3>2
  <2>8. OutputInv'
    <3>1. worker.phase \in Switched => worker.config = worker.requested /\ worker.fence < phone.gen
      BY DEF OutputInv
    <3>2. m.mode = worker.config /\ m.gen = phone.gen
      BY <1>1, <1>5 DEF Unit
    <3>3. AppliedIsReal'
      BY <2>4, <2>6, <3>1, <3>2 DEF OutputInv, AppliedIsReal, Switched
    <3> QED
      BY <1>1, <2>4, <2>6, <3>1, <3>3 DEF OutputInv, Past, SameMachine, AwaitingVideo, Switched
  <2>9. Says(es)
    <3>1. /\ confirms => Working /\ ~Working'
          /\ ~confirms => (Working' <=> Working)
      BY <2>4, <2>6 DEF Working, WorkerBusy, confirms
    <3>2. \A k \in DOMAIN es : Settles(es[k]) <=> es[k].kind = "applied"
      BY <2>5 DEF Settles
    <3>3. worker.output \in {NoMode, worker'.output}
      BY <2>6 DEF OutputInv
    <3>4. \A k \in DOMAIN es : es[k].mode = worker'.output
      <4>1. confirms => worker.requested = worker.config
        BY DEF OutputInv, Switched, confirms
      <4> QED
        BY <2>5, <2>6, <4>1
    <3>5. \A k, l \in DOMAIN es : Settles(es[k]) /\ Settles(es[l]) => k = l
      BY <2>5, <3>2
    <3>6. \A k \in DOMAIN es : es[k].kind # "stopped"
      BY <2>5
    <3>7. CASE confirms
      BY <2>1, <2>5, <2>6, <3>1, <3>2, <3>3, <3>4, <3>5, <3>6, <3>7 DEF Says
    <3>8. CASE ~confirms
      BY <2>1, <2>5, <2>6, <3>1, <3>2, <3>3, <3>4, <3>6, <3>8 DEF Says
    <3> QED
      BY <3>7, <3>8
  <2> QED
    BY <1>1, <2>6, <2>7, <2>8, <2>9 DEF Received, EndsKept, Types
<1> QED
  BY <1>3, <1>4, <1>5

LEMMA DeliverFrameKeeps ==
    ASSUME Types, PhoneOK(phone), LinkInv, OutputInv, DeliverFrame
    PROVE  Received /\ used' = used /\ phone'.gen = phone.gen
<1>1. CASE phone.control # <<>> /\ Receive(Head(phone.control))
           /\ phone' = [phone EXCEPT !.control = Tail(@)] /\ Free
  <2> PICK m : m = Head(phone.control)
    OBVIOUS
  <2>1. HeadTaken /\ worker.running /\ used' = used
    BY <1>1 DEF HeadTaken, Receive, Runs, Free
  <2>2. m \in ControlFrames /\ SameMachine
    BY <2>1, HeadIsTaken
  <2>3. m.kind # "unit"
    BY <2>2, FrameKinds
  <2>4. Received
    <3>1. CASE m.kind = "caps" /\ ReceiveCaps(m)
      BY <2>1, <3>1, ReceiveCapsKeeps
    <3>2. CASE m.kind = "result" /\ m.status = "staged" /\ ReceiveStaged(m)
      BY <2>1, <3>2, ReceiveStagedKeeps
    <3>3. CASE m.kind = "result" /\ m.status = "switching" /\ ReceiveSwitching(m)
      BY <2>1, <3>3, ReceiveSwitchingKeeps
    <3>4. CASE m.kind = "result" /\ m.status = "rejected" /\ ReceiveRejected(m)
      BY <2>1, <3>4, ReceiveRejectedKeeps
    <3>5. CASE m.kind = "result" /\ m.status = "applied" /\ ReceiveApplied(m)
      BY <2>1, <3>5, ReceiveAppliedKeeps
    <3>6. CASE m.kind = "paused" /\ ReceivePaused(m)
      BY <2>1, <3>6, ReceivePausedKeeps
    <3>7. CASE m.kind = "config" /\ ReceiveConfig(m)
      BY <2>1, <3>7, ReceiveConfigKeeps
    <3> QED
      BY <1>1, <2>3, <3>1, <3>2, <3>3, <3>4, <3>5, <3>6, <3>7 DEF Receive
  <2> QED
    BY <2>1, <2>2, <2>4 DEF SameMachine
<1>2. CASE phone.control = <<>> /\ phone.video # <<>> /\ Receive(Head(phone.video))
           /\ phone' = [phone EXCEPT !.video = Tail(@)] /\ Free
  <2> PICK m : m = Head(phone.video)
    OBVIOUS
  <2>1. UnitTaken /\ worker.running /\ used' = used
    BY <1>2 DEF UnitTaken, Receive, Runs, Free
  <2>2. m.kind = "unit" /\ SameMachine
    BY <2>1, UnitIsTaken DEF Unit
  <2>3. PICK active \in BOOLEAN, report \in BOOLEAN : ReceiveUnit(m, active, report)
    BY <1>2, <2>2 DEF Receive
  <2>4. Received
    BY <2>1, <2>3, ReceiveUnitKeeps
  <2> QED
    BY <2>1, <2>2, <2>4 DEF SameMachine
<1> QED
  BY <1>1, <1>2 DEF DeliverFrame

-----------------------------------------------------------------------------
(* What the worker and the parent do by themselves. *)

LEMMA WorkerDeadlineKeeps ==
    ASSUME Types, PhoneOK(phone), LinkInv, OutputInv, WorkerDeadline, phone' = phone
    PROVE  Received
  BY FailsKeeps DEF WorkerDeadline, Runs, PhoneKeeps, Working

LEMMA WorkerFailsKeeps ==
    ASSUME Types, PhoneOK(phone), LinkInv, OutputInv, WorkerFails, phone' = phone
    PROVE  Received
  BY ErrsKeeps DEF WorkerFails, PhoneKeeps

LEMMA WorkerStopsKeeps ==
    ASSUME Types, PhoneOK(phone), LinkInv, OutputInv, WorkerStops, phone' = phone
    PROVE  Received
<1> DEFINE d == Failed(FALSE)
           e == Stopped
           some == IF Working THEN <<d>> ELSE <<>>
           es == some \o <<e>>
<1>1. /\ worker.running /\ worker' = Ended /\ events' = events \o es
      /\ UNCHANGED <<client, slot, toPhone>>
  BY DEF WorkerStops, Runs, Tell, Working
<1>2. EndsKept /\ ~worker'.running /\ ~Working'
  BY <1>1, WorkerEnds DEF PhoneKeeps
<1>3. d \in Events /\ e \in Events /\ d.kind = "failed" /\ e.kind = "stopped"
  BY EventsAre
<1> HIDE DEF d, e, some
<1>4. CASE Working
  <2>1. es = <<d, e>>
    BY <1>3, <1>4, TwoEvents DEF some
  <2> HIDE DEF es
  <2>2. Says(es)
    BY <1>1, <1>2, <1>3, <1>4, <2>1, TwoEvents DEF Says, Settles
  <2> QED
    BY <1>1, <1>2, <2>2 DEF Received, Types
<1>5. CASE ~Working
  <2>1. <<e>> \in Seq(Events) /\ <<>> \o <<e>> = <<e>>
    BY <1>3, OneEvent, NoEvent
  <2>2. es = <<e>>
    BY <1>5, <2>1 DEF some
  <2> HIDE DEF es
  <2>3. Says(es)
    BY <1>1, <1>2, <1>3, <1>5, <2>2, OneEvent DEF Says, Settles
  <2> QED
    BY <1>1, <1>2, <2>3 DEF Received, Types
<1> QED
  BY <1>4, <1>5

\* What remains to be kept beside Received.
Believed == client' \in ClientRecords /\ slot' \in AnyMode /\ events' \in Seq(Events)
            /\ RequestInv' /\ ShownInv'

LEMMA ReceivedIsBelieved ==
    ASSUME Types, LinkInv, OutputInv, RequestInv, ShownInv, Received
    PROVE  Believed
<1>1. PICK es : Says(es)
  BY DEF Received
<1> QED
  BY <1>1, SaysKeeps DEF Received, Believed, Types, LinkInv

LEMMA TakeRequestKeeps ==
    ASSUME Types, PhoneOK(phone), LinkInv, OutputInv, RequestInv, ShownInv, TakeRequest,
           phone' = phone
    PROVE  EndsKept /\ toPhone' \in Seq(Commands) /\ Believed
<1>1. /\ worker.running /\ slot # NoMode /\ slot' = NoMode /\ client' = client
      /\ slot \in AnyMode /\ slot \in Modes /\ NoMode \in AnyMode
      /\ worker \in WorkerRecords /\ client \in ClientRecords /\ worker.id \in Nat
      /\ toPhone \in Seq(Commands) /\ events \in Seq(Events)
  BY DEF TakeRequest, Runs, Types, WorkerRecords, AnyMode
<1>2. client.state = "running" =>
          /\ slot = client.pending /\ client.pending # NoMode /\ ~Working
          /\ \A i \in DOMAIN events : ~Settles(events[i])
  BY <1>1 DEF RequestInv
<1>3. CASE RequestRefused
  <2> DEFINE e == Failed(FALSE)
  <2>1. worker' = worker /\ toPhone' = toPhone /\ events' = events \o <<e>>
    BY <1>3 DEF TakeRequest, Tell
  <2>2. e \in Events /\ e.kind = "failed"
    BY EventsAre
  <2> HIDE DEF e
  <2>3. EndsKept
    BY <1>1, <2>1 DEF EndsKept, LinkInv, IdsOK, Live, SwitchOK, AnswerOK, CommitOK, CapsOK, OutputInv,
                      Works, Refused, SameEpoch, NoCommit, IsRejection, AppliedIsReal, AwaitingVideo
  <2>4. /\ events' \in Seq(Events) /\ Len(events) \in Nat
        /\ DOMAIN events = 1..Len(events) /\ DOMAIN events' = 1..(Len(events) + 1)
        /\ \A i \in DOMAIN events : events'[i] = events[i]
        /\ events'[Len(events) + 1] = e
    BY <1>1, <2>1, <2>2
  <2>5. /\ \A i \in DOMAIN events' :
               \/ i \in DOMAIN events /\ events'[i] = events[i] /\ i # Len(events) + 1
               \/ i = Len(events) + 1 /\ events'[i] = e
        /\ Len(events) + 1 \in DOMAIN events'
        /\ \A i \in DOMAIN events : i \in DOMAIN events' /\ 1..i \subseteq DOMAIN events
    BY <2>4
  <2>6. (Working' <=> Working) /\ worker'.output = worker.output
    BY <2>1 DEF Working, WorkerBusy
  <2>7. RequestInv'
    <3>1. SUFFICES ASSUME client.state = "running" PROVE RequestInv'
      BY <1>1 DEF RequestInv
    <3>2. \A i \in DOMAIN events' : Settles(events'[i]) => i = Len(events) + 1
      BY <1>2, <2>5, <3>1
    <3>3. \A i \in DOMAIN events' : events'[i].kind = "stopped" => ~worker'.running
      BY <2>1, <2>2, <2>5, <3>1 DEF RequestInv
    <3>4. PendingIsWorkedOn'
      BY <1>1, <1>2, <2>2, <2>5, <2>6, <3>1, <2>4 DEF PendingIsWorkedOn, Working, WorkerBusy
    <3> QED
      BY <1>1, <1>2, <2>6, <3>1, <3>2, <3>3, <3>4 DEF RequestInv
  <2>8. ShownInv'
    <3>1. SUFFICES ASSUME client.state = "running" PROVE ShownInv'
      BY <1>1 DEF ShownInv
    <3>2. \A i \in DOMAIN events : Learns(i)'
      <4>1. SUFFICES ASSUME NEW i \in DOMAIN events PROVE Learns(i)'
        OBVIOUS
      <4>2. \A j \in 1..i : ~Settles(events'[j])
        BY <1>2, <2>4, <2>5, <3>1
      <4> QED
        BY <1>1, <1>2, <3>1, <4>2 DEF Learns
    <3>3. \A i \in DOMAIN events' :
              /\ events'[i].kind = "stats" => events'[i].mode = worker'.output \/ Learns(i)'
              /\ events'[i].kind = "applied" /\ worker.running =>
                    events'[i].mode = worker'.output
      BY <2>2, <2>5, <2>6, <3>1, <3>2 DEF ShownInv
    <3>4. worker.running /\ client.applied \notin {NoMode, worker'.output} =>
              \E i \in DOMAIN events' : events'[i].kind = "progress" /\ Learns(i)'
      BY <2>4, <2>5, <2>6, <3>1, <3>2 DEF ShownInv
    <3> QED
      BY <1>1, <2>1, <3>1, <3>3, <3>4 DEF ShownInv
  <2> QED
    BY <1>1, <2>1, <2>3, <2>4, <2>7, <2>8 DEF Believed
<1>4. CASE ~RequestRefused /\ worker.phase \in {"Idle", "Applied", "Failed"}
  <2> DEFINE id == worker.id + 1
             c == PrepareQuality(id, worker.revision, slot)
  <2>1. /\ worker' = [worker EXCEPT !.phase = "Preparing", !.id = id, !.requested = slot,
                                    !.armed = TRUE]
        /\ toPhone' = Append(toPhone, c) /\ events' = events
    BY <1>1, <1>4 DEF TakeRequest, WorkerRecords
  <2>a. id \in Nat /\ id > 0 /\ worker.id < id
    BY <1>1
  <2>2. /\ worker' \in WorkerRecords /\ worker'.phase = "Preparing" /\ worker'.id = id
        /\ worker'.requested = slot /\ worker'.running = worker.running
        /\ worker'.epoch = worker.epoch /\ worker'.fence = worker.fence
        /\ worker'.config = worker.config /\ worker'.output = worker.output
        /\ id \in Nat /\ id > 0 /\ worker.id < id
    <3> HIDE DEF id, c
    <3> QED
      BY <1>1, <2>1, <2>a DEF WorkerRecords, WorkerPhases
  <2>3. c \in Commands /\ c.kind = "prepare" /\ c.id = id /\ c.mode = slot
    BY <1>1, <2>2 DEF PrepareQuality, Commands, WorkerRecords
  <2> HIDE DEF c, id
  <2>4. /\ toPhone' \in Seq(Commands) /\ Len(toPhone) \in Nat
        /\ DOMAIN toPhone = 1..Len(toPhone) /\ DOMAIN toPhone' = 1..(Len(toPhone) + 1)
        /\ \A i \in DOMAIN toPhone : toPhone'[i] = toPhone[i]
        /\ toPhone'[Len(toPhone) + 1] = c
    BY <1>1, <2>1, <2>3
  <2>5. \A i \in DOMAIN toPhone' : (i \in DOMAIN toPhone /\ toPhone'[i] = toPhone[i])
                                   \/ (i = Len(toPhone) + 1 /\ toPhone'[i] = c)
    BY <2>4
  <2>6. /\ phone.id \in Nat /\ phone.id < id
        /\ \A i \in DOMAIN phone.control :
               phone.control[i].kind \in {"paused", "result"} => phone.control[i].id \in Nat /\ phone.control[i].id < id
        /\ \A i \in DOMAIN toPhone : toPhone[i].id < id
    <3>1. phone.id \in Nat /\ \A i \in DOMAIN phone.control : phone.control[i] \in ControlFrames
      BY DEF PhoneOK, PhoneRecords
    <3>2. \A f \in ControlFrames : f.kind \in {"paused", "result"} => f.id \in Nat
      BY DEF ControlFrames, CapsFrames, Answers, PausedFrames, ResultFrames, ConfigFrames
    <3>3. \A k \in Commands : k.id \in Nat
      BY DEF Commands
    <3>4. \A i \in DOMAIN toPhone : toPhone[i] \in Commands
      BY <1>1
    <3> QED
      BY <1>1, <2>2, <3>1, <3>2, <3>3, <3>4 DEF LinkInv, IdsOK
  <2>7. IdsOK'
    <3>1. \A i \in DOMAIN toPhone' :
              /\ toPhone'[i].id <= id
              /\ toPhone'[i].kind = "prepare" /\ toPhone'[i].id = id => toPhone'[i].mode = slot
      <4>1. \A i \in DOMAIN toPhone : toPhone[i].id <= id /\ toPhone[i].id # id
        BY <2>6, <1>1, <2>2 DEF Commands
      <4>2. c.id <= id
        BY <2>2, <2>3
      <4> QED
        BY <2>3, <2>5, <4>1, <4>2
    <3>2. \A i \in DOMAIN phone.control :
               phone.control[i].kind \in {"paused", "result"} => phone.control[i].id <= id
      BY <2>2, <2>6
    <3>3. phone.id <= id /\ phone.id # id
      BY <2>2, <2>6
    <3> QED
      BY <1>1, <2>2, <3>1, <3>2, <3>3 DEF IdsOK
  <2>8. ASSUME Live' PROVE (SwitchOK /\ AnswerOK /\ CommitOK /\ CapsOK)'
    <3>1. Live /\ SwitchOK /\ CommitOK /\ CapsOK
      BY <2>2, <2>8 DEF Live, LinkInv
    <3>2. SwitchOK'
      BY <1>4, <2>2, <3>1 DEF SwitchOK, SameEpoch
    <3>3. AnswerOK'
      <4>1. phone.id # id /\ \A i \in DOMAIN phone.control :
                phone.control[i].kind \in {"paused", "result"} => phone.control[i].id # id
        BY <2>2, <2>6
      <4> QED
        BY <2>2, <4>1 DEF AnswerOK
    <3>4. CommitOK'
      BY <1>4, <2>3, <2>5, <3>1 DEF CommitOK, IsCommit
    <3>5. CapsOK'
      BY <1>4, <3>1 DEF CapsOK
    <3> QED
      BY <3>2, <3>3, <3>4, <3>5
  <2>9. OutputInv'
    BY <1>1, <2>2 DEF OutputInv, AppliedIsReal, AwaitingVideo, Switched
  <2>10. RequestInv'
    <3>1. SUFFICES ASSUME client.state = "running" PROVE RequestInv'
      BY <1>1 DEF RequestInv
    <3>2. PendingIsWorkedOn'
      BY <1>1, <1>2, <2>2, <3>1 DEF PendingIsWorkedOn, Working, WorkerBusy
    <3> QED
      BY <1>1, <1>2, <2>1, <2>2, <3>1, <3>2 DEF RequestInv, Working, WorkerBusy
  <2>11. ShownInv'
    BY <1>1, <2>1, <2>2 DEF ShownInv, Learns
  <2> QED
    BY <1>1, <2>1, <2>2, <2>4, <2>7, <2>8, <2>9, <2>10, <2>11 DEF EndsKept, Believed, LinkInv
<1>5. CASE ~RequestRefused /\ worker.phase \notin {"Idle", "Applied", "Failed"}
  <2>1. worker' = worker /\ toPhone' = toPhone /\ events' = events
    BY <1>5 DEF TakeRequest
  <2>2. Working /\ client.state # "running"
    BY <1>1, <1>2, <1>5 DEF Working, WorkerBusy, WorkerRecords, WorkerPhases
  <2>3. EndsKept
    BY <1>1, <2>1 DEF EndsKept, LinkInv, IdsOK, Live, SwitchOK, AnswerOK, CommitOK, CapsOK, OutputInv,
                      Works, Refused, SameEpoch, NoCommit, IsRejection, AppliedIsReal, AwaitingVideo
  <2> QED
    BY <1>1, <2>1, <2>2, <2>3 DEF Believed, RequestInv, ShownInv
<1> QED
  BY <1>3, <1>4, <1>5

-----------------------------------------------------------------------------
(* The parent reads an event. *)

HeadRead == events # <<>> /\ events' = Tail(events)

LEMMA HeadIsRead ==
    ASSUME Types, HeadRead
    PROVE  /\ events' \in Seq(Events) /\ 1 \in DOMAIN events /\ Head(events) = events[1]
           /\ events[1] \in Events
           /\ \A j \in DOMAIN events' :
                  \E i \in DOMAIN events :
                      /\ events'[j] = events[i]
                      /\ Learns(i) => ~Settles(events[1])
                      /\ Learns(i) /\ client'.pending = client.pending => Learns(j)'
                      /\ Settles(events[1]) /\ Settles(events[i]) => i # 1
           /\ \A i \in DOMAIN events :
                  i = 1 \/ \E j \in DOMAIN events' :
                               /\ events'[j] = events[i]
                               /\ Learns(i) /\ client'.pending = client.pending => Learns(j)'
           /\ (\A i, j \in DOMAIN events : Settles(events[i]) /\ Settles(events[j]) => i = j) =>
                  /\ \A i, j \in DOMAIN events' : Settles(events'[i]) /\ Settles(events'[j]) => i = j
                  /\ Settles(events[1]) => \A j \in DOMAIN events' : ~Settles(events'[j])
<1>1. /\ events \in Seq(Events) /\ Len(events) \in Nat /\ Len(events) > 0
      /\ events' = Tail(events)
      /\ DOMAIN events = 1..Len(events) /\ DOMAIN events' = 1..(Len(events) - 1)
      /\ events' \in Seq(Events) /\ Head(events) = events[1]
      /\ \A j \in DOMAIN events' : events'[j] = events[j + 1]
  BY DEF Types, HeadRead
<1>2. 1 \in DOMAIN events /\ events[1] \in Events
  BY <1>1
<1>3. \A j \in DOMAIN events' : j + 1 \in DOMAIN events /\ j + 1 # 1 /\ j \in Nat
  BY <1>1
<1>4. ASSUME NEW j \in DOMAIN events', Learns(j + 1)
      PROVE  ~Settles(events[1]) /\ (client'.pending = client.pending => Learns(j)')
  <2>1. 1 \in 1..(j + 1) /\ \A k \in 1..j : k \in DOMAIN events' /\ k + 1 \in 1..(j + 1)
    BY <1>1, <1>3
  <2> QED
    BY <1>1, <1>4, <2>1 DEF Learns
<1>5. \A i \in DOMAIN events : i = 1 \/ (i - 1 \in DOMAIN events' /\ (i - 1) + 1 = i)
  BY <1>1
<1>6. \A i, j \in DOMAIN events' : i + 1 = j + 1 => i = j
  BY <1>1
<1>7. \A j \in DOMAIN events' : events'[j] = events[j + 1]
  BY <1>1
<1>8. \A i \in DOMAIN events :
                  i = 1 \/ \E j \in DOMAIN events' :
                               /\ events'[j] = events[i]
                               /\ Learns(i) /\ client'.pending = client.pending => Learns(j)'
  <2>1. SUFFICES ASSUME NEW i \in DOMAIN events, i # 1
                 PROVE  \E j \in DOMAIN events' :
                               /\ events'[j] = events[i]
                               /\ Learns(i) /\ client'.pending = client.pending => Learns(j)'
    OBVIOUS
  <2>2. PICK j \in DOMAIN events' : j + 1 = i
    BY <1>5, <2>1
  <2> QED
    BY <1>4, <1>7, <2>2
<1>9. \A j \in DOMAIN events' :
                  \E i \in DOMAIN events :
                      /\ events'[j] = events[i]
                      /\ Learns(i) => ~Settles(events[1])
                      /\ Learns(i) /\ client'.pending = client.pending => Learns(j)'
                      /\ Settles(events[1]) /\ Settles(events[i]) => i # 1
  BY <1>3, <1>4, <1>7
<1>10. ASSUME \A i, j \in DOMAIN events : Settles(events[i]) /\ Settles(events[j]) => i = j
       PROVE  /\ \A i, j \in DOMAIN events' : Settles(events'[i]) /\ Settles(events'[j]) => i = j
              /\ Settles(events[1]) => \A j \in DOMAIN events' : ~Settles(events'[j])
  BY <1>2, <1>3, <1>6, <1>7, <1>10
<1> QED
  BY <1>1, <1>2, <1>8, <1>9, <1>10

\* An event that settles nothing; `applied` is kept, or is no longer believed.
LEMMA ReadsAside ==
    ASSUME Types, OutputInv, RequestInv, ShownInv, HeadRead, client.state = "running",
           ~Settles(events[1]), events[1].kind # "stopped",
           worker' = worker, slot' = slot, client'.pending = client.pending,
           client'.state = client.state,
           \/ client'.applied = NoMode
           \/ client'.applied = client.applied
                  /\ (events[1].kind # "progress" \/ client.pending = NoMode)
    PROVE  RequestInv' /\ ShownInv'
<1>1. (Working' <=> Working) /\ (WorkerBusy' <=> WorkerBusy)
  BY DEF Working, WorkerBusy
<1>2. \A j \in DOMAIN events' :
          \E i \in DOMAIN events : events'[j] = events[i] /\ (Learns(i) => Learns(j)')
  BY HeadIsRead
<1>3. \A i \in DOMAIN events :
          i = 1 \/ \E j \in DOMAIN events' : events'[j] = events[i] /\ (Learns(i) => Learns(j)')
  BY HeadIsRead
<1>4. \A i, j \in DOMAIN events' : Settles(events'[i]) /\ Settles(events'[j]) => i = j
  BY HeadIsRead DEF RequestInv
<1>5. PendingIsWorkedOn'
  <2>1. (\E i \in DOMAIN events : events[i].kind \in {"applied", "failed", "stopped"}) =>
            \E i \in DOMAIN events' : events'[i].kind \in {"applied", "failed", "stopped"}
    BY <1>3 DEF Settles
  <2> QED
    BY <1>1, <2>1 DEF RequestInv, PendingIsWorkedOn
<1>6. RequestInv'
  BY <1>1, <1>2, <1>4, <1>5 DEF RequestInv
<1>7. ASSUME worker.running, client'.applied \notin {NoMode, worker.output}
      PROVE  \E j \in DOMAIN events' : events'[j].kind = "progress" /\ Learns(j)'
  <2>1. PICK i \in DOMAIN events : events[i].kind = "progress" /\ Learns(i)
    BY <1>7 DEF ShownInv
  <2>2. i # 1
    BY <1>7, <2>1 DEF Learns
  <2> QED
    BY <1>3, <2>1, <2>2
<1>8. ShownInv'
  BY <1>2, <1>7 DEF ShownInv
<1> QED
  BY <1>6, <1>8

\* The answer: nothing is pending any more.
LEMMA ReadsAnswer ==
    ASSUME Types, OutputInv, RequestInv, ShownInv, HeadRead, client.state = "running",
           Settles(events[1]), worker' = worker, slot' = slot, client'.pending = NoMode,
           client'.state = client.state,
           client'.applied = IF events[1].kind = "applied" THEN events[1].mode ELSE client.applied
    PROVE  RequestInv' /\ ShownInv'
<1>1. /\ \A j \in DOMAIN events' : \E i \in DOMAIN events : events'[j] = events[i] /\ ~Learns(i)
      /\ \A j \in DOMAIN events' : ~Settles(events'[j])
      /\ 1 \in DOMAIN events
  BY HeadIsRead DEF RequestInv
<1>2. slot = NoMode /\ ~Working
  BY <1>1 DEF RequestInv
<1>3. RequestInv'
  BY <1>1, <1>2 DEF RequestInv, PendingIsWorkedOn, Working, WorkerBusy
<1>4. \A i \in DOMAIN events : ~Learns(i)
  <2>1. \A i \in DOMAIN events : 1 \in 1..i
    BY DEF Types
  <2> QED
    BY <2>1 DEF Learns
<1>5. worker.running => client'.applied \in {NoMode, worker.output}
  BY <1>1, <1>4 DEF ShownInv
<1>6. ShownInv'
  BY <1>1, <1>4, <1>5 DEF ShownInv, Settles
<1> QED
  BY <1>3, <1>6

\* While nothing is pending, what the worker counts is what its output shows.
LEMMA ReadsStats ==
    ASSUME Types, OutputInv, RequestInv, ShownInv, HeadRead, client.state = "running",
           events[1].kind = "stats", client.pending = NoMode,
           worker' = worker, slot' = slot, client'.pending = NoMode,
           client'.state = client.state, client'.applied = events[1].mode
    PROVE  RequestInv' /\ ShownInv'
<1>1. (Working' <=> Working) /\ (WorkerBusy' <=> WorkerBusy)
  BY DEF Working, WorkerBusy
<1>2. /\ \A j \in DOMAIN events' : \E i \in DOMAIN events : events'[j] = events[i]
      /\ 1 \in DOMAIN events /\ events[1] \in Events
  BY HeadIsRead
<1>3. RequestInv'
  BY <1>1, <1>2 DEF RequestInv, PendingIsWorkedOn
<1>4. \A i : ~Learns(i)
  BY DEF Learns
<1>5. ShownInv'
  BY <1>2, <1>4, EventKinds DEF ShownInv
<1> QED
  BY <1>3, <1>5

\* A wish becomes the pending request.
LEMMA BeginKeeps ==
    ASSUME Types, IdsOK, OutputInv, RequestInv, ShownInv, client.state = "running",
           \A j \in DOMAIN events' : \E i \in DOMAIN events : events'[j] = events[i],
           client.pending = NoMode, NEW mode \in Modes, client.applied # mode,
           worker' = worker, slot' = mode, client'.pending = mode,
           client'.state = client.state, client'.applied = client.applied
    PROVE  RequestInv' /\ ShownInv'
<1>1. ~Working /\ mode # NoMode
  BY WorksOnRequest, ModesAssumption DEF RequestInv
<1>2. \A i \in DOMAIN events : ~Settles(events[i])
  BY DEF RequestInv
<1>3. RequestInv'
  BY <1>1, <1>2 DEF RequestInv, PendingIsWorkedOn, Working, WorkerBusy
<1>4. \A i : ~Learns(i)
  BY DEF Learns
<1>5. ShownInv'
  BY <1>2, <1>4 DEF ShownInv
<1> QED
  BY <1>3, <1>5

LEMMA PCStandsStill ==
    ASSUME Types, PhoneOK(phone), LinkInv, OutputInv, worker' = worker, phone' = phone,
           toPhone' = toPhone
    PROVE  EndsKept /\ toPhone' \in Seq(Commands)
  BY DEF EndsKept, Types, LinkInv, IdsOK, Live, SwitchOK, AnswerOK, CommitOK, CapsOK, OutputInv,
         Works, Refused, SameEpoch, NoCommit, IsRejection, AppliedIsReal, AwaitingVideo

LEMMA FinishKeeps ==
    ASSUME Types, PhoneOK(phone), LinkInv, OutputInv, Finish, phone' = phone, toPhone' = toPhone
    PROVE  EndsKept /\ toPhone' \in Seq(Commands) /\ Believed
<1>1. EndsKept
  BY WorkerEnds DEF Finish, PhoneKeeps
<1>2. client \in ClientRecords /\ toPhone \in Seq(Commands)
  BY DEF Types
<1>3. client' \in ClientRecords /\ client'.state = "down"
  BY <1>2 DEF Finish, ClientRecords, AnyMode
<1>4. slot' \in AnyMode /\ events' \in Seq(Events)
  BY NoEvent DEF Finish, AnyMode
<1> QED
  BY <1>1, <1>2, <1>3, <1>4 DEF Believed, RequestInv, ShownInv

LEMMA OnCapabilitiesKeeps ==
    ASSUME Types, IdsOK, OutputInv, RequestInv, ShownInv, HeadRead, client.state = "running",
           events[1].kind = "caps", worker' = worker, NEW wish \in Modes,
           OnCapabilities(events[1], wish)
    PROVE  client' \in ClientRecords /\ slot' \in AnyMode /\ RequestInv' /\ ShownInv'
<1>1. /\ client \in ClientRecords /\ slot \in AnyMode /\ wish \in AnyMode
      /\ events[1].flag \in BOOLEAN /\ ~Settles(events[1])
  BY HeadIsRead DEF Types, AnyMode, Events, Settles
<1> DEFINE flag == events[1].flag
           c == [client EXCEPT !.ready = flag]
           d == [c EXCEPT !.checked = TRUE]
<1>2. /\ c \in ClientRecords /\ c.pending = client.pending /\ c.applied = client.applied
      /\ c.state = client.state
      /\ d \in ClientRecords /\ d.pending = client.pending /\ d.applied = client.applied
      /\ d.state = client.state
  <2> HIDE DEF flag
  <2>1. flag \in BOOLEAN
    BY <1>1 DEF flag
  <2> QED
    BY <1>1, <2>1 DEF ClientRecords
<1>3. \/ client' = c /\ slot' = slot
      \/ client' = d /\ slot' = slot
      \/ /\ d.pending = NoMode /\ d.applied # wish /\ slot' = wish
         /\ client' = [d EXCEPT !.pending = wish, !.staged = FALSE, !.watched = TRUE]
  BY DEF OnCapabilities, Begin
<1> HIDE DEF c, d
<1>4. CASE client' \in {c, d} /\ slot' = slot
  BY <1>1, <1>2, <1>4, ReadsAside
<1>5. CASE /\ d.pending = NoMode /\ d.applied # wish /\ slot' = wish
           /\ client' = [d EXCEPT !.pending = wish, !.staged = FALSE, !.watched = TRUE]
  <2>1. /\ client' \in ClientRecords /\ client'.pending = wish /\ client'.state = client.state
        /\ client'.applied = client.applied
    BY <1>1, <1>2, <1>5 DEF ClientRecords
  <2>2. \A j \in DOMAIN events' : \E i \in DOMAIN events : events'[j] = events[i]
    BY HeadIsRead
  <2> QED
    BY <1>1, <1>2, <1>5, <2>1, <2>2, BeginKeeps
<1> QED
  BY <1>3, <1>4, <1>5

LEMMA OnProgressKeeps ==
    ASSUME Types, OutputInv, RequestInv, ShownInv, HeadRead, client.state = "running",
           events[1].kind = "progress", worker' = worker, OnProgress(events[1])
    PROVE  client' \in ClientRecords /\ slot' \in AnyMode /\ RequestInv' /\ ShownInv'
<1>1. /\ client \in ClientRecords /\ slot \in AnyMode /\ slot' = slot
      /\ events[1].flag \in BOOLEAN /\ ~Settles(events[1]) /\ NoMode \in AnyMode
  BY HeadIsRead DEF Types, AnyMode, Events, Settles, OnProgress
<1> DEFINE flag == events[1].flag
           kept == client.watched /\ ~flag
           watched == Watch(flag)
<1>2. CASE client.pending = NoMode
  <2>1. client' = [client EXCEPT !.watched = kept] /\ kept \in BOOLEAN
    BY <1>1, <1>2 DEF OnProgress, ClientRecords
  <2> HIDE DEF kept
  <2>2. /\ client' \in ClientRecords /\ client'.pending = client.pending
        /\ client'.state = client.state /\ client'.applied = client.applied
    BY <1>1, <2>1 DEF ClientRecords
  <2> QED
    BY <1>1, <1>2, <2>2, ReadsAside
<1>3. CASE client.pending # NoMode
  <2>1. /\ client' = [client EXCEPT !.staged = flag, !.applied = NoMode, !.watched = watched]
        /\ watched \in BOOLEAN /\ flag \in BOOLEAN
    BY <1>1, <1>3 DEF OnProgress, ClientRecords, Watch
  <2> HIDE DEF watched, flag
  <2>2. /\ client' \in ClientRecords /\ client'.pending = client.pending
        /\ client'.state = client.state /\ client'.applied = NoMode
    BY <1>1, <2>1 DEF ClientRecords
  <2> QED
    BY <1>1, <2>2, ReadsAside
<1> QED
  BY <1>2, <1>3

LEMMA OnAnswerKeeps ==
    ASSUME Types, OutputInv, RequestInv, ShownInv, HeadRead, client.state = "running",
           Settles(events[1]), worker' = worker, slot' = slot,
           client' = IF events[1].kind = "applied"
                     THEN [Cleared EXCEPT !.applied = events[1].mode] ELSE Cleared
    PROVE  client' \in ClientRecords /\ slot' \in AnyMode /\ RequestInv' /\ ShownInv'
<1>1. /\ client \in ClientRecords /\ slot \in AnyMode /\ events[1].mode \in AnyMode
      /\ NoMode \in AnyMode
  BY HeadIsRead DEF Types, AnyMode, Events
<1>2. /\ Cleared \in ClientRecords /\ Cleared.pending = NoMode /\ Cleared.state = client.state
      /\ Cleared.applied = client.applied
  BY <1>1 DEF Cleared, ClientRecords
<1>3. /\ client' \in ClientRecords /\ client'.pending = NoMode /\ client'.state = client.state
      /\ client'.applied = IF events[1].kind = "applied" THEN events[1].mode ELSE client.applied
  BY <1>1, <1>2 DEF ClientRecords
<1> QED
  BY <1>1, <1>3, ReadsAnswer

LEMMA OnStatsKeeps ==
    ASSUME Types, OutputInv, RequestInv, ShownInv, HeadRead, client.state = "running",
           events[1].kind = "stats", worker' = worker, OnStats(events[1])
    PROVE  client' \in ClientRecords /\ slot' \in AnyMode /\ RequestInv' /\ ShownInv'
<1>1. /\ client \in ClientRecords /\ slot \in AnyMode /\ events[1].mode \in AnyMode
      /\ slot' = slot /\ ~Settles(events[1])
  BY HeadIsRead DEF Types, AnyMode, Events, OnStats, Settles
<1>2. CASE client.pending = NoMode
  <2>1. /\ client' \in ClientRecords /\ client'.pending = NoMode
        /\ client'.state = client.state /\ client'.applied = events[1].mode
    BY <1>1, <1>2 DEF OnStats, BelievesStats, ClientRecords
  <2> QED
    BY <1>1, <1>2, <2>1, ReadsStats
<1>3. CASE client.pending # NoMode
  <2>1. client' = client
    BY <1>3 DEF OnStats, BelievesStats
  <2> QED
    BY <1>1, <2>1, ReadsAside
<1> QED
  BY <1>2, <1>3

LEMMA HandleEventKeeps ==
    ASSUME Types, PhoneOK(phone), LinkInv, OutputInv, RequestInv, ShownInv, phone' = phone,
           NEW wish \in Modes, HandleEvent(wish)
    PROVE  EndsKept /\ toPhone' \in Seq(Commands) /\ Believed
<1>1. toPhone' = toPhone /\ events # <<>> /\ IdsOK
  BY DEF HandleEvent, LinkInv
<1>2. CASE Finish
  BY <1>1, <1>2, FinishKeeps
<1>3. ASSUME HeadRead, UNCHANGED worker,
             IF client.state = "stopping" THEN UNCHANGED <<client, slot>>
             ELSE /\ client.state = "running"
                  /\ events[1].kind # "stopped"
                  /\ \/ events[1].kind = "caps" /\ OnCapabilities(events[1], wish)
                     \/ events[1].kind = "progress" /\ OnProgress(events[1])
                     \/ events[1].kind = "applied" /\ client' = [Cleared EXCEPT !.applied = events[1].mode]
                        /\ UNCHANGED slot
                     \/ events[1].kind = "failed" /\ client' = Cleared /\ UNCHANGED slot
                     \/ events[1].kind = "stats" /\ OnStats(events[1])
      PROVE  EndsKept /\ toPhone' \in Seq(Commands) /\ Believed
  <2>1. EndsKept /\ toPhone' \in Seq(Commands) /\ events' \in Seq(Events)
    BY <1>1, <1>3, PCStandsStill, HeadIsRead
  <2>2. CASE client.state = "stopping"
    BY <1>3, <2>1, <2>2 DEF Believed, Types, RequestInv, ShownInv
  <2>3. CASE client.state = "running"
    <3>1. client' \in ClientRecords /\ slot' \in AnyMode /\ RequestInv' /\ ShownInv'
      <4>1. CASE events[1].kind = "caps" /\ OnCapabilities(events[1], wish)
        BY <1>1, <1>3, <2>3, <4>1, OnCapabilitiesKeeps
      <4>2. CASE events[1].kind = "progress" /\ OnProgress(events[1])
        BY <1>3, <2>3, <4>2, OnProgressKeeps
      <4>3. CASE events[1].kind = "applied" /\ client' = [Cleared EXCEPT !.applied = events[1].mode]
                 /\ slot' = slot
        BY <1>3, <2>3, <4>3, OnAnswerKeeps DEF Settles
      <4>4. CASE events[1].kind = "failed" /\ client' = Cleared /\ slot' = slot
        BY <1>3, <2>3, <4>4, OnAnswerKeeps DEF Settles
      <4>5. CASE events[1].kind = "stats" /\ OnStats(events[1])
        BY <1>3, <2>3, <4>5, OnStatsKeeps
      <4> QED
        BY <1>3, <2>3, <4>1, <4>2, <4>3, <4>4, <4>5
    <3> QED
      BY <2>1, <3>1 DEF Believed
  <2> QED
    BY <1>3, <2>2, <2>3
<1>4. events' = Tail(events) => HeadRead /\ Head(events) = events[1]
  <2>1. events \in Seq(Events)
    BY DEF Types
  <2> QED
    BY <1>1, <2>1 DEF HeadRead
<1>5. client.state \in {"running", "stopping"}
  BY DEF HandleEvent, Types, ClientRecords
<1> QED
  BY <1>2, <1>3, <1>4, <1>5 DEF HandleEvent

LEMMA BelievesTheSame ==
    ASSUME Types, RequestInv, ShownInv, UNCHANGED <<worker, client, slot, events>>
    PROVE  Believed
  BY DEF Believed, Types, RequestInv, ShownInv, PendingIsWorkedOn, Working, WorkerBusy, Learns

LEMMA StopKeeps ==
    ASSUME Types, PhoneOK(phone), LinkInv, OutputInv, Stop, phone' = phone
    PROVE  EndsKept /\ toPhone' \in Seq(Commands) /\ Believed
<1>1. client \in ClientRecords /\ slot' \in AnyMode /\ events' \in Seq(Events)
  BY DEF Types, Stop
<1>2. client' \in ClientRecords /\ client'.state = "stopping"
  BY <1>1 DEF Stop, Cleared, ClientRecords, AnyMode
<1>3. EndsKept /\ toPhone' \in Seq(Commands)
  BY PCStandsStill DEF Stop
<1> QED
  BY <1>1, <1>2, <1>3 DEF Believed, RequestInv, ShownInv

LEMMA ApplyKeeps ==
    ASSUME Types, PhoneOK(phone), LinkInv, OutputInv, RequestInv, ShownInv, phone' = phone,
           NEW mode \in Modes, Apply(mode)
    PROVE  EndsKept /\ toPhone' \in Seq(Commands) /\ Believed
<1> DEFINE c == [client EXCEPT !.checked = TRUE]
<1>1. /\ client.state = "running" /\ client.pending = NoMode /\ Begin(c, mode)
      /\ UNCHANGED <<worker, events, toPhone>> /\ IdsOK
  BY DEF Apply, LinkInv
<1>2. /\ client \in ClientRecords /\ slot \in AnyMode /\ events \in Seq(Events) /\ mode \in AnyMode
  BY DEF Types, AnyMode
<1>3. /\ c \in ClientRecords /\ c.pending = client.pending /\ c.applied = client.applied
      /\ c.state = client.state
  BY <1>2 DEF ClientRecords
<1> HIDE DEF c
<1>4. EndsKept /\ toPhone' \in Seq(Commands)
  BY <1>1, PCStandsStill
<1>5. CASE client' = c /\ slot' = slot
  <2>1. RequestInv'
    BY <1>1, <1>3, <1>5 DEF RequestInv, PendingIsWorkedOn, Working, WorkerBusy
  <2>2. ShownInv'
    BY <1>1, <1>3, <1>5 DEF ShownInv, Learns
  <2> QED
    BY <1>1, <1>2, <1>3, <1>4, <1>5, <2>1, <2>2 DEF Believed
<1>6. CASE /\ c.applied # mode /\ slot' = mode
           /\ client' = [c EXCEPT !.pending = mode, !.staged = FALSE, !.watched = TRUE]
  <2>1. /\ client' \in ClientRecords /\ client'.pending = mode /\ client'.state = client.state
        /\ client'.applied = client.applied
    BY <1>2, <1>3, <1>6 DEF ClientRecords
  <2>2. RequestInv' /\ ShownInv'
    BY <1>1, <1>3, <1>6, <2>1, BeginKeeps
  <2> QED
    BY <1>1, <1>2, <1>4, <1>6, <2>1, <2>2 DEF Believed
<1> QED
  BY <1>1, <1>5, <1>6 DEF Begin

LEMMA RepeatPrepareKeeps ==
    ASSUME Types, PhoneOK(phone), LinkInv, OutputInv, RequestInv, ShownInv, RepeatPrepare
    PROVE  EndsKept /\ toPhone' \in Seq(Commands) /\ Believed /\ phone' = phone
<1>1. PICK id \in 1..worker.id : toPhone' = <<PrepareQuality(id, worker.revision, worker.requested)>>
  BY DEF RepeatPrepare
<1>2. /\ UNCHANGED <<phone, worker, client, slot, events>> /\ worker.id > 0
      /\ worker.id \in Nat /\ worker.revision \in Nat /\ worker.requested \in Modes
      /\ id \in Nat \ {0} /\ id <= worker.id
  BY <1>1 DEF RepeatPrepare, Types, WorkerRecords, LinkInv, IdsOK
<1> DEFINE c == PrepareQuality(id, worker.revision, worker.requested)
<1>3. /\ c \in Commands /\ c.kind = "prepare" /\ c.id <= worker.id /\ c.mode = worker.requested
      /\ ~IsCommit(c)
  BY <1>2 DEF PrepareQuality, Commands, IsCommit
<1> HIDE DEF c
<1>4. /\ toPhone' = <<c>> /\ toPhone' \in Seq(Commands)
      /\ \A i \in DOMAIN toPhone' : toPhone'[i] = c
  BY <1>1, <1>3 DEF c
<1>5. IdsOK'
  BY <1>2, <1>3, <1>4 DEF LinkInv, IdsOK
<1>6. NoCommit' /\ CommitOK'
  BY <1>3, <1>4 DEF NoCommit, CommitOK
<1>7. ASSUME Live' PROVE (SwitchOK /\ AnswerOK /\ CapsOK)'
  <2>1. Live /\ SwitchOK /\ AnswerOK /\ CapsOK
    BY <1>2, <1>7 DEF Live, LinkInv
  <2> QED
    BY <1>2, <1>6, <2>1 DEF SwitchOK, AnswerOK, CapsOK, Works, SameEpoch, Refused, IsRejection
<1>8. OutputInv'
  BY <1>2 DEF OutputInv, AppliedIsReal, AwaitingVideo
<1>9. EndsKept
  BY <1>2, <1>5, <1>6, <1>7, <1>8 DEF EndsKept, LinkInv, Types
<1> QED
  BY <1>2, <1>4, <1>9, BelievesTheSame

LEMMA PhoneStepKeeps ==
    ASSUME Types, PhoneOK(phone), LinkInv, OutputInv, RequestInv, ShownInv,
           PhoneMoves(phone, phone'), UNCHANGED Host
    PROVE  /\ EndsKept /\ toPhone' \in Seq(Commands) /\ Believed
           /\ phone'.gen > phone.gen => phone'.invited
<1>1. UNCHANGED <<worker, client, slot, events, toPhone>> /\ CommandsGo
  BY DEF Host, CommandsGo
<1>2. LinkInv' /\ OutputInv'
  BY <1>1, PhoneMovesKeeps
<1> QED
  BY <1>1, <1>2, BelievesTheSame DEF EndsKept, PhoneMoves, Types

LEMMA SpendKeeps ==
    ASSUME Types, NEW what \in {"requests", "presses", "pauses", "repeats"}, NEW max,
           Free \/ Spend(what, max)
    PROVE  used' \in Spent
<1>1. used \in Spent
  BY DEF Types
<1>2. CASE Spend(what, max)
  BY <1>1, <1>2 DEF Spend, Spent
<1> QED
  BY <1>1, <1>2 DEF Free

LEMMA InitKeeps == Init => IInv
<1> SUFFICES ASSUME Init PROVE IInv
  OBVIOUS
<1>1. PICK permission \in Granted :
        phone = Refresh(
            [phase |-> "Idle", id |-> 0, mode |-> NoMode, epoch |-> 0, armed |-> FALSE,
             reply |-> <<>>, prepared |-> NoMode, startRequested |-> FALSE,
             foreground |-> TRUE, permission |-> permission, asking |-> FALSE,
             ready |-> permission, revision |-> 1, camera |-> "off", gen |-> 0,
             captured |-> NoMode, control |-> <<>>, video |-> <<>>, open |-> TRUE,
             invited |-> FALSE, intruded |-> FALSE], permission)
  BY DEF Init, PhoneInit
<1> DEFINE p == [phase |-> "Idle", id |-> 0, mode |-> NoMode, epoch |-> 0, armed |-> FALSE,
             reply |-> <<>>, prepared |-> NoMode, startRequested |-> FALSE,
             foreground |-> TRUE, permission |-> permission, asking |-> FALSE,
             ready |-> permission, revision |-> 1, camera |-> "off", gen |-> 0,
             captured |-> NoMode, control |-> <<>>, video |-> <<>>, open |-> TRUE,
             invited |-> FALSE, intruded |-> FALSE]
<1>2. permission \in BOOLEAN
  BY GrantedAssumption
<1>3. p \in PhoneRecords
  BY <1>2 DEF PhoneRecords, Phases, AnyMode
<1>4. PhoneOK(p)
  BY <1>3 DEF PhoneOK, Invited, CaptureOK, MachineOK, Busy
<1> DEFINE f == Caps(1, permission, 0)
<1>5. phone = [[p EXCEPT !.ready = permission, !.revision = 1] EXCEPT !.control = Append(<<>>, f)]
  <2>1. p.ready = permission /\ p.revision = 1 /\ p.epoch = 0 /\ p.control = <<>>
    OBVIOUS
  <2>2. phone = Refresh(p, permission)
    BY <1>1
  <2> HIDE DEF p
  <2> QED
    BY <1>3, <2>1, <2>2 DEF Refresh, Send, PhoneRecords
<1>6. PhoneOK(phone)
  BY <1>1, <1>2, <1>4, RefreshKeeps
<1>7. f.kind = "caps" /\ f.epoch = 0
  BY DEF Caps
<1> HIDE DEF f
<1>8. /\ phone.id = 0 /\ phone.phase = "Idle" /\ phone.epoch = 0 /\ phone.gen = 0
      /\ phone.camera = "off" /\ phone.control = <<f>> /\ phone.reply = <<>>
  <2>1. Append(<<>>, f) = <<f>>
    OBVIOUS
  <2> QED
    BY <1>5, <2>1
<1> HIDE DEF p
<1>9. /\ worker \in WorkerRecords /\ client \in ClientRecords
      /\ slot \in AnyMode /\ events \in Seq(Events) /\ toPhone \in Seq(Commands)
  <2>1. slot \in AnyMode /\ events \in Seq(Events) /\ toPhone \in Seq(Commands)
    BY DEF Init, HostInit, AnyMode
  <2>2. worker \in WorkerRecords
    <3>1. Unit(NoMode, 0) \in UnitFrames
      BY DEF Unit, UnitFrames, AnyMode
    <3> QED
      BY <3>1 DEF Init, HostInit, WorkerRecords, WorkerPhases, AnyMode
  <2>3. client \in ClientRecords
    BY DEF Init, HostInit, ClientRecords, AnyMode
  <2> QED
    BY <2>1, <2>2, <2>3
<1>10. used \in Spent
  BY DEF Init, Spent
<1>11. /\ worker.running /\ worker.phase = "Idle" /\ worker.id = 0 /\ worker.epoch = -1
       /\ worker.requested = NoMode /\ worker.config = NoMode /\ worker.output = NoMode
       /\ worker.fence = 0 /\ client.pending = NoMode /\ client.applied = NoMode
       /\ slot = NoMode /\ events = <<>> /\ toPhone = <<>> /\ client.state = "running"
  BY DEF Init, HostInit
<1>12. IdsOK
  BY <1>7, <1>8, <1>11 DEF IdsOK, Busy
<1>13. SwitchOK /\ AnswerOK /\ CommitOK
  BY <1>11 DEF SwitchOK, AnswerOK, CommitOK, SameEpoch
<1>14. CapsOK
  BY <1>7, <1>8 DEF CapsOK
<1>15. OutputInv
  BY <1>8, <1>11 DEF OutputInv, Past, AwaitingVideo, Switched, AppliedIsReal
<1>16. RequestInv /\ ShownInv
  BY <1>11 DEF RequestInv, ShownInv, PendingIsWorkedOn, Working, WorkerBusy
<1> QED
  BY <1>6, <1>9, <1>10, <1>12, <1>13, <1>14, <1>15, <1>16 DEF IInv, Types, LinkInv, PhoneOK

LEMMA StutterKeeps == IInv /\ UNCHANGED vars => IInv' /\ phone'.gen = phone.gen
<1> SUFFICES ASSUME IInv, UNCHANGED vars PROVE IInv' /\ phone'.gen = phone.gen
  OBVIOUS
<1>1. UNCHANGED <<phone, worker, client, slot, events, toPhone, used>>
  BY DEF vars, Host
<1>2. EndsKept /\ Believed
  BY <1>1, PCStandsStill, BelievesTheSame DEF IInv
<1> QED
  BY <1>1, <1>2 DEF IInv, EndsKept, Believed, Types, PhoneOK

LEMMA PhoneKeepsInv ==
    ASSUME IInv, PhoneStep \/ PressStart \/ OnPause, UNCHANGED Host, used' \in Spent
    PROVE  IInv' /\ (phone'.gen > phone.gen => phone'.invited)
<1>1. PhoneOK(phone)
  BY DEF IInv
<1>2. PhoneMoves(phone, phone')
  <2>1. CASE CameraStarts
    BY <1>1, <2>1, CameraStartsKeeps
  <2>2. CASE CaptureStarted
    BY <1>1, <2>2, CaptureStartedKeeps
  <2>3. CASE AccessUnit
    BY <1>1, <2>3, AccessUnitKeeps
  <2>4. CASE CameraFails
    BY <1>1, <2>4, CameraFailsKeeps
  <2>5. CASE PhoneDeadline
    BY <1>1, <2>5, PhoneDeadlineKeeps
  <2>6. CASE PhoneCloses
    BY <1>1, <2>6, PhoneClosesKeeps
  <2>7. CASE PressStop
    BY <1>1, <2>7, PressStopKeeps
  <2>8. ASSUME NEW granted \in BOOLEAN, NEW ready \in BOOLEAN, OnResume(granted, ready)
        PROVE  PhoneMoves(phone, phone')
    BY <1>1, <2>8, OnResumeKeeps
  <2>9. ASSUME NEW granted \in BOOLEAN, OnRequestPermissionsResult(granted)
        PROVE  PhoneMoves(phone, phone')
    BY <1>1, <2>9, OnRequestPermissionsResultKeeps
  <2>10. CASE PressStart
    BY <1>1, <2>10, PressStartKeeps
  <2>11. CASE OnPause
    BY <1>1, <2>11, OnPauseKeeps
  <2> QED
    BY <2>1, <2>2, <2>3, <2>4, <2>5, <2>6, <2>7, <2>8, <2>9, <2>10, <2>11 DEF PhoneStep
<1>3. EndsKept /\ toPhone' \in Seq(Commands) /\ Believed /\ (phone'.gen > phone.gen => phone'.invited)
  BY <1>2, PhoneStepKeeps DEF IInv
<1> QED
  BY <1>3 DEF IInv, EndsKept, Believed, Types, PhoneOK

LEMMA HostKeepsInv ==
    ASSUME IInv, HostStep \/ \E mode \in Modes : Apply(mode), UNCHANGED phone, used' \in Spent
    PROVE  IInv'
<1>1. /\ Types /\ PhoneOK(phone) /\ LinkInv /\ OutputInv /\ RequestInv /\ ShownInv
      /\ phone' = phone
  BY DEF IInv
<1>2. EndsKept /\ toPhone' \in Seq(Commands) /\ Believed
  <2>1. CASE TakeRequest
    BY <1>1, <2>1, TakeRequestKeeps
  <2>2. ASSUME WorkerDeadline \/ WorkerFails \/ WorkerStops
        PROVE  EndsKept /\ toPhone' \in Seq(Commands) /\ Believed
    <3>1. Received
      BY <1>1, <2>2, WorkerDeadlineKeeps, WorkerFailsKeeps, WorkerStopsKeeps
    <3> QED
      BY <1>1, <3>1, ReceivedIsBelieved DEF Received
  <2>3. CASE HandleEvent(used.wish)
    <3>1. used.wish \in Modes
      BY <1>1 DEF Types, Spent
    <3> QED
      BY <1>1, <2>3, <3>1, HandleEventKeeps
  <2>4. CASE Watchdog
    BY <1>1, <2>4, FinishKeeps DEF Watchdog
  <2>5. CASE Stop
    BY <1>1, <2>5, StopKeeps
  <2>6. CASE StopDeadline
    BY <1>1, <2>6, FinishKeeps DEF StopDeadline
  <2>7. ASSUME NEW mode \in Modes, Apply(mode)
        PROVE  EndsKept /\ toPhone' \in Seq(Commands) /\ Believed
    BY <1>1, <2>7, ApplyKeeps
  <2> QED
    BY <2>1, <2>2, <2>3, <2>4, <2>5, <2>6, <2>7 DEF HostStep
<1> QED
  BY <1>2 DEF IInv, EndsKept, Believed, Types, PhoneOK

LEMMA NextKeeps == IInv /\ [Next]_vars => IInv' /\ (phone'.gen > phone.gen => phone'.invited)
<1> SUFFICES ASSUME IInv, [Next]_vars
             PROVE  IInv' /\ (phone'.gen > phone.gen => phone'.invited)
  OBVIOUS
<1>1. /\ Types /\ PhoneOK(phone) /\ LinkInv /\ OutputInv /\ RequestInv /\ ShownInv
      /\ phone.gen \in Nat /\ used \in Spent
  BY DEF IInv, PhoneOK, PhoneRecords, Types
<1>2. CASE DeliverCommand
  <2>1. /\ PhoneOK(phone') /\ LinkInv' /\ OutputInv' /\ toPhone' \in Seq(Commands)
        /\ phone'.gen > phone.gen => phone'.invited
        /\ UNCHANGED <<worker, client, slot, events, used>>
    BY <1>1, <1>2, DeliverCommandKeeps
  <2> QED
    BY <1>1, <2>1, BelievesTheSame DEF IInv, Believed, Types, PhoneOK
<1>3. CASE DeliverFrame
  <2>1. Received /\ used' = used /\ phone'.gen = phone.gen
    BY <1>1, <1>3, DeliverFrameKeeps
  <2>2. Believed
    BY <1>1, <2>1, ReceivedIsBelieved
  <2> QED
    BY <1>1, <2>1, <2>2 DEF IInv, Received, EndsKept, Believed, Types, PhoneOK
<1>4. CASE RepeatPrepare
  <2>1. EndsKept /\ toPhone' \in Seq(Commands) /\ Believed /\ phone' = phone
    BY <1>1, <1>4, RepeatPrepareKeeps
  <2>2. used' \in Spent
    BY <1>1, <1>4, SpendKeeps DEF RepeatPrepare
  <2> QED
    BY <1>1, <2>1, <2>2 DEF IInv, EndsKept, Believed, Types, PhoneOK
<1>5. CASE PhoneStep /\ UNCHANGED Host /\ Free
  BY <1>1, <1>5, PhoneKeepsInv DEF Free
<1>6. CASE PressStart /\ Spend("presses", MaxPresses) /\ UNCHANGED Host
  <2>1. used' \in Spent
    BY <1>1, <1>6, SpendKeeps
  <2> QED
    BY <1>6, <2>1, PhoneKeepsInv
<1>7. CASE OnPause /\ Spend("pauses", MaxPauses) /\ UNCHANGED Host
  <2>1. used' \in Spent
    BY <1>1, <1>7, SpendKeeps
  <2> QED
    BY <1>7, <2>1, PhoneKeepsInv
<1>8. CASE HostStep /\ UNCHANGED phone /\ Free
  <2>1. IInv'
    BY <1>1, <1>8, HostKeepsInv DEF Free
  <2> QED
    BY <1>1, <1>8, <2>1
<1>9. ASSUME NEW mode \in Modes, Apply(mode), Spend("requests", MaxRequests), UNCHANGED phone
      PROVE  IInv' /\ (phone'.gen > phone.gen => phone'.invited)
  <2>1. used' \in Spent
    BY <1>1, <1>9, SpendKeeps
  <2>2. IInv'
    BY <1>9, <2>1, HostKeepsInv
  <2> QED
    BY <1>1, <1>9, <2>2
<1>10. CASE UNCHANGED vars
  BY <1>1, <1>10, StutterKeeps
<1> QED
  BY <1>2, <1>3, <1>4, <1>5, <1>6, <1>7, <1>8, <1>9, <1>10 DEF Next

-----------------------------------------------------------------------------
(* The wish of the desktop's user: a step is one of QualityRequest, or none. *)

Promised == Wishes!Next \/ UNCHANGED <<Place, Wish, Shown>>

\* Where the wish is, and what is known of the pipe there.
Unanswered == \A i \in DOMAIN events : ~Settles(events[i])
PlaceOK ==
    /\ client.state # "running" => Place = "over" /\ Wish = NoMode /\ Shown = NoMode
    /\ client.state = "running" =>
           /\ Wish = client.pending /\ Shown = client.applied
           /\ client.pending = NoMode =>
                  Place = "none" /\ slot = NoMode /\ ~Working /\ Unanswered
           /\ client.pending # NoMode =>
                  \/ Place = "queued" /\ slot = client.pending /\ ~Working /\ Unanswered
                  \/ Place = "working" /\ slot = NoMode /\ Working /\ Unanswered
                  \/ /\ slot = NoMode /\ ~Working
                     /\ Place = IF Answered({"applied"}) THEN "applied" ELSE "refused"

LEMMA PlaceFollows == IInv => PlaceOK
<1> SUFFICES ASSUME IInv PROVE PlaceOK
  OBVIOUS
<1>1. Types /\ IdsOK /\ OutputInv /\ RequestInv
  BY DEF IInv, LinkInv
<1>2. CASE client.state # "running"
  BY <1>2 DEF PlaceOK, Place, Wish, Shown
<1>3. CASE client.state = "running"
  <2>1. Wish = client.pending /\ Shown = client.applied
    BY <1>3 DEF Wish, Shown
  <2>2. Working => worker.requested # NoMode /\ client.pending = worker.requested /\ slot = NoMode
    BY <1>1, <1>3, WorksOnRequest DEF RequestInv
  <2>3. slot # NoMode => slot = client.pending /\ ~Working
    BY <1>1, <1>3 DEF RequestInv
  <2>4. slot # NoMode \/ Working \/ client.pending = NoMode => Unanswered
    BY <1>1, <1>3 DEF RequestInv, Unanswered
  <2>5. CASE slot # NoMode
    BY <1>3, <2>1, <2>3, <2>4, <2>5 DEF PlaceOK, Place, Held
  <2>6. CASE slot = NoMode /\ Working
    <3>1. Place = "working"
      BY <1>3, <2>1, <2>2, <2>6 DEF Place, Held
    <3> QED
      BY <1>3, <2>1, <2>2, <2>4, <2>6, <3>1 DEF PlaceOK
  <2>7. CASE slot = NoMode /\ ~Working
    <3>1. Held = NoMode
      BY <2>7 DEF Held
    <3>2. CASE client.pending = NoMode
      BY <1>3, <2>1, <2>4, <2>7, <3>1, <3>2 DEF PlaceOK, Place
    <3>3. CASE client.pending # NoMode
      <4>1. \E i \in DOMAIN events : events[i].kind \in {"applied", "failed", "stopped"}
        BY <1>1, <1>3, <2>7, <3>3 DEF RequestInv, PendingIsWorkedOn
      <4>2. ~Answered({"applied"}) => Answered({"failed", "stopped"})
        BY <4>1 DEF Answered
      <4>3. Place = IF Answered({"applied"}) THEN "applied" ELSE "refused"
        BY <1>3, <2>1, <3>1, <3>3, <4>2 DEF Place
      <4> QED
        BY <1>3, <2>1, <2>7, <3>3, <4>3 DEF PlaceOK
    <3> QED
      BY <3>2, <3>3
  <2> QED
    BY <2>5, <2>6, <2>7
<1> QED
  BY <1>2, <1>3

\* What is not seen by the two ends of the PC is no step.
LEMMA AsidePromise ==
    ASSUME UNCHANGED <<worker, client, slot, events>>
    PROVE  Promised
  BY DEF Promised, Place, Held, Wish, Shown, Working, WorkerBusy, Answered

\* A session that ends, or has.
LEMMA EndPromise ==
    ASSUME PlaceOK, PlaceOK', client'.state # "running"
    PROVE  Promised
<1>1. Place' = "over" /\ Wish' = NoMode /\ Shown' = NoMode
  BY DEF PlaceOK
<1>2. CASE client.state # "running"
  BY <1>1, <1>2 DEF PlaceOK, Promised
<1>3. CASE client.state = "running"
  <2>1. Place # "over"
    BY <1>3 DEF PlaceOK
  <2> QED
    BY <1>1, <2>1 DEF Promised, Wishes!Next, Wishes!End
<1> QED
  BY <1>2, <1>3

\* What is told is added to the pipe.
LEMMA SaysAnswers ==
    ASSUME Types, NEW es, Says(es), NEW kinds
    PROVE  Answered(kinds)' <=> Answered(kinds) \/ \E k \in DOMAIN es : es[k].kind \in kinds
<1>1. /\ events \in Seq(Events) /\ es \in Seq(Events) /\ events' = events \o es
      /\ Len(events) \in Nat /\ Len(es) \in Nat
  BY DEF Types, Says
<1>2. /\ \A i \in DOMAIN events : i \in DOMAIN events' /\ events'[i] = events[i]
      /\ \A k \in DOMAIN es :
             Len(events) + k \in DOMAIN events' /\ events'[Len(events) + k] = es[k]
      /\ \A i \in DOMAIN events' :
             \/ i \in DOMAIN events /\ events'[i] = events[i]
             \/ i - Len(events) \in DOMAIN es /\ events'[i] = es[i - Len(events)]
  BY <1>1
<1> QED
  BY <1>2 DEF Answered

\* The worker confirms, refuses or ends what it works on, and nothing else.
LEMMA ReceivedPromise ==
    ASSUME Types, RequestInv, PlaceOK, PlaceOK', Received
    PROVE  Promised
<1>1. PICK es : Says(es)
  BY DEF Received
<1>2. client' = client /\ slot' = slot
  BY DEF Received
<1>3. CASE client.state # "running"
  BY <1>2, <1>3, EndPromise
<1>4. CASE client.state = "running"
  <2>1. Wish' = Wish /\ Shown' = Shown /\ Wish = client.pending
    BY <1>2, <1>4 DEF PlaceOK
  <2>2. CASE client.pending = NoMode \/ slot # NoMode
    <3>1. Place' = Place
      BY <1>2, <1>4, <2>2 DEF PlaceOK
    <3> QED
      BY <2>1, <3>1 DEF Promised
  <2>3. CASE client.pending # NoMode /\ slot = NoMode /\ Working
    <3>1. Place = "working" /\ (Working' => Place' = "working")
          /\ (~Working' => Place' \in {"applied", "refused"})
      BY <1>2, <1>4, <2>3 DEF PlaceOK
    <3> QED
      BY <2>1, <3>1 DEF Promised, Wishes!Next, Wishes!Confirm, Wishes!Refuse
  <2>4. CASE client.pending # NoMode /\ slot = NoMode /\ ~Working
    <3>1. ~Working'
      BY <1>1, <2>4 DEF Says
    <3>2. \A k \in DOMAIN es : ~Settles(es[k])
      BY <1>1, <2>4 DEF Says
    <3>3. Answered({"applied"})' <=> Answered({"applied"})
      <4>1. ~\E k \in DOMAIN es : es[k].kind \in {"applied"}
        BY <3>2 DEF Settles
      <4> QED
        BY <1>1, <4>1, SaysAnswers
    <3>4. Place' = Place
      BY <1>2, <1>4, <2>4, <3>1, <3>3 DEF PlaceOK
    <3> QED
      BY <2>1, <3>4 DEF Promised
  <2> QED
    BY <2>2, <2>3, <2>4
<1> QED
  BY <1>3, <1>4

\* What is taken from the slot is worked on, or refused at once.
LEMMA TakePromise ==
    ASSUME Types, RequestInv, PlaceOK, PlaceOK', TakeRequest
    PROVE  Promised
<1>1. /\ slot # NoMode /\ slot' = NoMode /\ client' = client
      /\ worker \in WorkerRecords /\ events \in Seq(Events)
  BY DEF TakeRequest, Types
<1>2. CASE client.state # "running"
  BY <1>1, <1>2, EndPromise
<1>3. CASE client.state = "running"
  <2>1. /\ Wish' = Wish /\ Shown' = Shown /\ client.pending # NoMode
        /\ Place = "queued" /\ ~Working /\ Unanswered
    BY <1>1, <1>3 DEF PlaceOK
  <2>2. Place' \in {"working", "applied", "refused"}
    BY <1>1, <1>3, <2>1 DEF PlaceOK
  <2>3. Place' # "applied"
    <3>1. CASE Working'
      BY <1>1, <1>3, <2>1, <3>1 DEF PlaceOK
    <3>2. CASE ~Working'
      <4>1. PICK e \in Events : e = Failed(FALSE) /\ e.kind = "failed"
        BY EventsAre
      <4>2. events' = events \/ events' = events \o <<e>>
        BY <4>1 DEF TakeRequest, Tell
      <4>3. ~Answered({"applied"})
        BY <2>1 DEF Unanswered, Settles, Answered
      <4>4. ~Answered({"applied"})'
        <5>1. CASE events' = events \o <<e>>
          <6>1. \A i \in DOMAIN events' :
                    (i \in DOMAIN events /\ events'[i] = events[i]) \/ events'[i] = e
            BY <1>1, <5>1
          <6> QED
            BY <4>1, <4>3, <6>1 DEF Answered
        <5>2. CASE events' = events
          BY <4>3, <5>2 DEF Answered
        <5> QED
          BY <4>2, <5>1, <5>2
      <4> QED
        BY <1>1, <1>3, <2>1, <3>2, <4>4 DEF PlaceOK
    <3> QED
      BY <3>1, <3>2
  <2> QED
    BY <2>1, <2>2, <2>3 DEF Promised, Wishes!Next, Wishes!Take, Wishes!Refuse
<1> QED
  BY <1>2, <1>3

\* A wish is asked for.
LEMMA BeginPromise ==
    ASSUME Types, PlaceOK, PlaceOK', client.state = "running", client'.state = "running",
           client.pending = NoMode, NEW mode \in Modes, client.applied # mode,
           worker' = worker, slot' = mode, client'.pending = mode,
           client'.applied = client.applied
    PROVE  Promised
<1>1. mode # NoMode
  BY ModesAssumption
<1>2. Place = "none" /\ Wish = NoMode /\ Shown = client.applied
  BY DEF PlaceOK
<1>3. Place' = "queued" /\ Wish' = mode /\ Shown' = Shown
  BY <1>1, <1>2 DEF PlaceOK
<1> QED
  BY <1>2, <1>3 DEF Promised, Wishes!Next, Wishes!Ask

\* The wish stays where it is while something else is read; what is shown may be
\* hidden while a wish stands, and counted while none does.
LEMMA ReadsAsidePromise ==
    ASSUME Types, PlaceOK, PlaceOK', HeadRead, client.state = "running",
           client'.state = "running", events[1].kind # "applied",
           worker' = worker, slot' = slot, client'.pending = client.pending,
           \/ client'.applied = client.applied
           \/ client.pending # NoMode /\ client'.applied = NoMode
           \/ client.pending = NoMode /\ client'.applied \in Modes
    PROVE  Promised
<1>1. Working' <=> Working
  BY DEF Working, WorkerBusy
<1>2. Answered({"applied"})' <=> Answered({"applied"})
  <2>1. /\ \A j \in DOMAIN events' : \E i \in DOMAIN events : events'[j] = events[i]
        /\ \A i \in DOMAIN events : i = 1 \/ \E j \in DOMAIN events' : events'[j] = events[i]
    BY HeadIsRead
  <2> QED
    BY <2>1 DEF Answered
<1>3. Wish = client.pending /\ Shown = client.applied /\ Wish' = Wish /\ Shown' = client'.applied
  BY DEF PlaceOK
<1>4. CASE client.pending = NoMode
  <2>1. Place = "none" /\ Place' = "none"
    BY <1>4 DEF PlaceOK
  <2> QED
    BY <1>3, <1>4, <2>1 DEF Promised, Wishes!Next, Wishes!Count
<1>5. CASE client.pending # NoMode
  <2>1. Place' = Place
    <3>1. CASE slot # NoMode
      BY <1>5, <3>1 DEF PlaceOK
    <3>2. CASE slot = NoMode /\ Working
      BY <1>1, <1>5, <3>2 DEF PlaceOK
    <3>3. CASE slot = NoMode /\ ~Working
      BY <1>1, <1>2, <1>5, <3>3 DEF PlaceOK
    <3> QED
      BY <3>1, <3>2, <3>3
  <2> QED
    BY <1>3, <1>5, <2>1 DEF Promised, Wishes!Next, Wishes!Hide
<1> QED
  BY <1>4, <1>5

\* The answer is read: what it confirms is shown.
LEMMA ReadsAnswerPromise ==
    ASSUME Types, RequestInv, PlaceOK, PlaceOK', HeadRead, client.state = "running",
           client'.state = "running", Settles(events[1]),
           events[1].kind = "applied" => events[1].mode = client.pending,
           client'.pending = NoMode,
           client'.applied = IF events[1].kind = "applied" THEN events[1].mode ELSE client.applied
    PROVE  Promised
<1>1. 1 \in DOMAIN events
  BY HeadIsRead
<1>2. client.pending # NoMode /\ ~Unanswered
  BY <1>1 DEF PlaceOK, Unanswered
<1>3. Place = IF Answered({"applied"}) THEN "applied" ELSE "refused"
  BY <1>2 DEF PlaceOK
<1>4. Answered({"applied"}) <=> events[1].kind = "applied"
  BY <1>1 DEF RequestInv, Answered, Settles
<1>5. /\ Wish = client.pending /\ Shown = client.applied
      /\ Place' = "none" /\ Wish' = NoMode /\ Shown' = client'.applied
  BY DEF PlaceOK
<1>6. Place = (IF events[1].kind = "applied" THEN "applied" ELSE "refused")
  BY <1>3, <1>4
<1>7. Wishes!Read
  <2>1. CASE events[1].kind = "applied"
    BY <1>5, <1>6, <2>1 DEF Wishes!Read
  <2>2. CASE events[1].kind # "applied"
    BY <1>5, <1>6, <2>2 DEF Wishes!Read
  <2> QED
    BY <2>1, <2>2
<1> QED
  BY <1>7 DEF Promised, Wishes!Next

LEMMA OnCapabilitiesPromise ==
    ASSUME Types, PlaceOK, PlaceOK', HeadRead, client.state = "running",
           events[1].kind = "caps", worker' = worker, NEW wish \in Modes,
           OnCapabilities(events[1], wish)
    PROVE  Promised
<1> DEFINE flag == events[1].flag
           c == [client EXCEPT !.ready = flag]
           d == [c EXCEPT !.checked = TRUE]
<1>1. client \in ClientRecords
  BY DEF Types
<1>2. /\ c.pending = client.pending /\ c.applied = client.applied /\ c.state = client.state
      /\ d.pending = client.pending /\ d.applied = client.applied /\ d.state = client.state
      /\ DOMAIN d = DOMAIN client
  BY <1>1 DEF ClientRecords
<1>3. \/ client' = c /\ slot' = slot
      \/ client' = d /\ slot' = slot
      \/ /\ d.pending = NoMode /\ d.applied # wish /\ slot' = wish
         /\ client' = [d EXCEPT !.pending = wish, !.staged = FALSE, !.watched = TRUE]
  BY DEF OnCapabilities, Begin
<1> HIDE DEF c, d
<1>4. CASE client' \in {c, d} /\ slot' = slot
  BY <1>2, <1>4, ReadsAsidePromise
<1>5. CASE /\ d.pending = NoMode /\ d.applied # wish /\ slot' = wish
           /\ client' = [d EXCEPT !.pending = wish, !.staged = FALSE, !.watched = TRUE]
  <2>1. /\ client'.pending = wish /\ client'.state = client.state
        /\ client'.applied = client.applied
    BY <1>1, <1>2, <1>5 DEF ClientRecords
  <2> QED
    BY <1>2, <1>5, <2>1, BeginPromise
<1> QED
  BY <1>3, <1>4, <1>5

LEMMA HandleEventPromise ==
    ASSUME Types, RequestInv, PlaceOK, PlaceOK', NEW wish \in Modes, HandleEvent(wish)
    PROVE  Promised
<1>1. events # <<>> /\ client \in ClientRecords /\ events \in Seq(Events)
  BY DEF HandleEvent, Types
<1>2. CASE Finish
  <2>1. client'.state = "down"
    BY <1>1, <1>2 DEF Finish, ClientRecords
  <2> QED
    BY <2>1, EndPromise
<1>3. ASSUME HeadRead, UNCHANGED worker,
             IF client.state = "stopping" THEN UNCHANGED <<client, slot>>
             ELSE /\ client.state = "running"
                  /\ events[1].kind = "applied" => events[1].mode = client.pending
                  /\ \/ events[1].kind = "caps" /\ OnCapabilities(events[1], wish)
                     \/ events[1].kind = "progress" /\ OnProgress(events[1])
                     \/ events[1].kind = "applied" /\ client' = [Cleared EXCEPT !.applied = events[1].mode]
                        /\ UNCHANGED slot
                     \/ events[1].kind = "failed" /\ client' = Cleared /\ UNCHANGED slot
                     \/ events[1].kind = "stats" /\ OnStats(events[1])
      PROVE  Promised
  <2>1. CASE client.state = "stopping"
    BY <1>3, <2>1, EndPromise
  <2>2. CASE client.state = "running"
    <3>1. CASE events[1].kind = "caps" /\ OnCapabilities(events[1], wish)
      BY <1>3, <2>2, <3>1, OnCapabilitiesPromise
    <3>2. CASE events[1].kind = "progress" /\ OnProgress(events[1])
      <4>1. /\ slot' = slot /\ client'.state = client.state /\ client'.pending = client.pending
            /\ \/ client'.applied = client.applied
               \/ client.pending # NoMode /\ client'.applied = NoMode
        BY <1>1, <3>2 DEF OnProgress, ClientRecords
      <4> QED
        BY <1>3, <2>2, <3>2, <4>1, ReadsAsidePromise
    <3>3. CASE events[1].kind \in {"applied", "failed"} /\ slot' = slot
               /\ client' = IF events[1].kind = "applied"
                            THEN [Cleared EXCEPT !.applied = events[1].mode] ELSE Cleared
      <4>1. /\ client'.state = client.state /\ client'.pending = NoMode
            /\ client'.applied = IF events[1].kind = "applied" THEN events[1].mode
                                 ELSE client.applied
        BY <1>1, <3>3 DEF Cleared, ClientRecords
      <4> QED
        BY <1>3, <2>2, <3>3, <4>1, ReadsAnswerPromise DEF Settles
    <3>4. CASE events[1].kind = "stats" /\ OnStats(events[1])
      <4>1. events[1] \in Events
        BY <1>3, HeadIsRead
      <4>2. events[1].mode \in Modes
        BY <3>4, <4>1, EventKinds
      <4>3. /\ slot' = slot /\ client'.state = client.state /\ client'.pending = client.pending
            /\ \/ client'.applied = client.applied
               \/ client.pending = NoMode /\ client'.applied \in Modes
        BY <1>1, <3>4, <4>2 DEF OnStats, BelievesStats, ClientRecords
      <4> QED
        BY <1>3, <2>2, <3>4, <4>3, ReadsAsidePromise
    <3> QED
      BY <1>3, <2>2, <3>1, <3>2, <3>3, <3>4
  <2> QED
    BY <1>3, <2>1, <2>2
<1>4. events' = Tail(events) => HeadRead /\ Head(events) = events[1]
  BY <1>1 DEF HeadRead
<1>5. client.state \in {"running", "stopping"}
  BY <1>1 DEF HandleEvent, ClientRecords
<1> QED
  BY <1>2, <1>3, <1>4, <1>5 DEF HandleEvent

LEMMA ApplyPromise ==
    ASSUME Types, PlaceOK, PlaceOK', NEW mode \in Modes, Apply(mode)
    PROVE  Promised
<1> DEFINE c == [client EXCEPT !.checked = TRUE]
<1>1. /\ client.state = "running" /\ client.pending = NoMode /\ Begin(c, mode)
      /\ UNCHANGED <<worker, events>>
  BY DEF Apply
<1>2. client \in ClientRecords
  BY DEF Types
<1>3. /\ c.pending = client.pending /\ c.applied = client.applied /\ c.state = client.state
      /\ c \in ClientRecords
  BY <1>2 DEF ClientRecords
<1> HIDE DEF c
<1>4. CASE client' = c /\ slot' = slot
  <2>1. Wish' = Wish /\ Shown' = Shown /\ Place' = Place
    BY <1>1, <1>3, <1>4 DEF PlaceOK
  <2> QED
    BY <2>1 DEF Promised
<1>5. CASE /\ c.applied # mode /\ slot' = mode
           /\ client' = [c EXCEPT !.pending = mode, !.staged = FALSE, !.watched = TRUE]
  <2>1. client'.pending = mode /\ client'.state = client.state /\ client'.applied = client.applied
    BY <1>3, <1>5 DEF ClientRecords
  <2> QED
    BY <1>1, <1>3, <1>5, <2>1, BeginPromise
<1> QED
  BY <1>1, <1>4, <1>5 DEF Begin

LEMMA HostPromise ==
    ASSUME IInv, PlaceOK, PlaceOK', HostStep \/ \E mode \in Modes : Apply(mode), UNCHANGED phone
    PROVE  Promised
<1>1. /\ Types /\ PhoneOK(phone) /\ LinkInv /\ OutputInv /\ RequestInv /\ phone' = phone
      /\ client \in ClientRecords
  BY DEF IInv, Types
<1>2. CASE TakeRequest
  BY <1>1, <1>2, TakePromise
<1>3. CASE WorkerDeadline \/ WorkerFails \/ WorkerStops
  <2>1. Received
    BY <1>1, <1>3, WorkerDeadlineKeeps, WorkerFailsKeeps, WorkerStopsKeeps
  <2> QED
    BY <1>1, <2>1, ReceivedPromise
<1>4. CASE HandleEvent(used.wish)
  <2>1. used.wish \in Modes
    BY <1>1 DEF Types, Spent
  <2> QED
    BY <1>1, <1>4, <2>1, HandleEventPromise
<1>5. CASE Watchdog \/ Stop \/ StopDeadline
  <2>1. client'.state # "running"
    BY <1>1, <1>5 DEF Watchdog, Stop, StopDeadline, Finish, Cleared, ClientRecords
  <2> QED
    BY <2>1, EndPromise
<1>6. ASSUME NEW mode \in Modes, Apply(mode)
      PROVE  Promised
  BY <1>1, <1>6, ApplyPromise
<1> QED
  BY <1>2, <1>3, <1>4, <1>5, <1>6 DEF HostStep

LEMMA NextPromise == IInv /\ PlaceOK /\ PlaceOK' /\ [Next]_vars => Promised
<1> SUFFICES ASSUME IInv, PlaceOK, PlaceOK', [Next]_vars
             PROVE  Promised
  OBVIOUS
<1>1. Types /\ PhoneOK(phone) /\ LinkInv /\ OutputInv /\ RequestInv
  BY DEF IInv
<1>2. CASE DeliverCommand
  BY <1>2, AsidePromise DEF DeliverCommand
<1>3. CASE DeliverFrame
  BY <1>1, <1>3, DeliverFrameKeeps, ReceivedPromise
<1>4. CASE RepeatPrepare
  BY <1>4, AsidePromise DEF RepeatPrepare
<1>5. CASE (PhoneStep \/ PressStart \/ OnPause) /\ UNCHANGED Host
  BY <1>5, AsidePromise DEF Host
<1>6. CASE (HostStep \/ \E mode \in Modes : Apply(mode)) /\ UNCHANGED phone
  BY <1>6, HostPromise
<1>7. CASE UNCHANGED vars
  BY <1>7, AsidePromise DEF vars, Host
<1> QED
  BY <1>2, <1>3, <1>4, <1>5, <1>6, <1>7 DEF Next

-----------------------------------------------------------------------------
(* What follows from the invariant. *)

LEMMA TypesFollow == IInv => TypeOK
<1> SUFFICES ASSUME IInv PROVE TypeOK
  OBVIOUS
<1>1. /\ phone \in PhoneRecords /\ worker \in WorkerRecords /\ client \in ClientRecords
      /\ slot \in AnyMode
  BY DEF IInv, Types
<1>2. /\ (phone.id > 0) <=> (phone.reply # <<>>)
      /\ phone.phase \in Busy => phone.mode \in Modes /\ phone.prepared = phone.mode
  BY DEF IInv, PhoneOK, MachineOK
<1> QED
  BY <1>1, <1>2 DEF TypeOK, PhoneRecords, WorkerRecords, ClientRecords

LEMMA EpochsFollow == IInv => EpochsAgree
<1> SUFFICES ASSUME IInv, Live PROVE EpochsAgree
  BY DEF EpochsAgree, Live
<1>1. SwitchOK /\ AnswerOK /\ CommitOK
  BY DEF IInv, LinkInv
<1>2. ASSUME NEW i \in DOMAIN phone.control, phone.control[i].kind = "paused",
             phone.control[i].id = worker.id, worker.phase = "Preparing"
      PROVE  worker.epoch \in {-1, phone.control[i].epoch}
  BY <1>1, <1>2 DEF SwitchOK, AnswerOK, SameEpoch
<1>3. ASSUME NEW i \in DOMAIN toPhone, toPhone[i].kind = "commit", phone.phase = "Prepared"
      PROVE  toPhone[i].epoch = phone.epoch + 1
  BY <1>1, <1>3 DEF SwitchOK, CommitOK, IsCommit, Works, Refused, Behind
<1> QED
  BY <1>2, <1>3 DEF EpochsAgree

LEMMA CaptureFollows == IInv => MatchingCapture
<1> SUFFICES ASSUME IInv, Live, AwaitingVideo,
                    phone.phase = "Applied" => phone.captured = phone.mode,
                    phone.control # <<>>, Head(phone.control).kind = "config"
             PROVE  Head(phone.control).mode = worker.requested
  BY DEF MatchingCapture, Live
<1>1. SwitchOK /\ CaptureOK(phone) /\ MachineOK(phone) /\ phone.control \in Seq(ControlFrames)
  BY DEF IInv, LinkInv, PhoneOK, PhoneRecords
<1>2. /\ 1 \in DOMAIN phone.control /\ Head(phone.control) = phone.control[1]
      /\ \A i \in DOMAIN phone.control : 1 \in 1..i
  BY <1>1
<1>3. phone.camera \in {"configured", "running"} /\ Head(phone.control).mode = phone.captured
  BY <1>1, <1>2 DEF CaptureOK
<1>4. ~Refused
  BY <1>2 DEF Refused
<1>5. phone.phase \notin {"Prepared", "Staged"}
  BY <1>1, <1>3 DEF MachineOK, Live
<1>6. Works({"Starting", "Applied"})
  BY <1>1, <1>4, <1>5 DEF SwitchOK, AwaitingVideo, Works, Behind
<1> QED
  BY <1>1, <1>3, <1>6 DEF MachineOK, Works, Live

LEMMA PicturesFollow == IInv => AppliedIsReal /\ AppliedIsShown
  BY DEF IInv, OutputInv, ShownInv, AppliedIsShown

THEOREM Invariance == Spec => []IInv
<1>1. Init => IInv
  BY InitKeeps
<1>2. IInv /\ [Next]_vars => IInv'
  BY NextKeeps
<1> QED
  BY <1>1, <1>2, PTL DEF Spec

\* Every variable of the two machines, of the two interpreters and of the queues
\* between them keeps its type, and a phone that has taken a request has a reply
\* to repeat (QualitySwitch.Machine.lastReply).
THEOREM TypeCorrectness == Spec => []TypeOK
  BY Invariance, TypesFollow, PTL

\* quality::Switch::video_frame ends a switch with the first picture of the
\* requested mode that comes after the barrier, and not with an earlier one,
\* whatever the phone's user, its camera and its deadline do meanwhile.
THEOREM PictureIsReal == Spec => []AppliedIsReal
  BY Invariance, PicturesFollow, PTL

\* The check of the epoch in quality::Switch::paused and in Machine.commit never
\* refuses the answer to the request that is worked on, nor its commit.
THEOREM EpochAgreement == Spec => []EpochsAgree
  BY Invariance, EpochsFollow, PTL

\* The first VIDEO_CONFIG after a barrier is of the requested mode, so
\* quality::Switch::video_config does not end the session.
THEOREM CaptureMatches == Spec => []MatchingCapture
  BY Invariance, CaptureFollows, PTL

\* Session::applied_quality is the mode of the open output once every event has
\* been read, and is never the mode that is still asked for.
THEOREM ShownIsApplied == Spec => []AppliedIsShown
  BY Invariance, PicturesFollow, PTL

\* MainActivity.startCamera is never reached by a commit, a return to the app or a
\* permission when the phone's user has stopped the capture or it has failed.
THEOREM UserHasTheLastWord == Spec => StopWins
<1>1. IInv /\ [Next]_vars => [phone'.gen > phone.gen => phone'.invited]_vars
  BY NextKeeps
<1> QED
  BY <1>1, Invariance, PTL DEF Spec, StopWins

\* quality::Client with its slot and quality::Switch implement QualityRequest under
\* Place, Wish and Shown: a wish the desktop has taken is passed to the worker
\* once, answered at most once and never forgotten while the session lasts, and
\* Session::applied_quality becomes the wish only by its confirmation.
THEOREM WishesAreKept == Spec => WishIsKept
<1>1. Init => Wishes!Init
  <2>1. ASSUME Init PROVE Wishes!Init
    <3>1. /\ client.state = "running" /\ client.pending = NoMode /\ client.applied = NoMode
          /\ slot = NoMode /\ worker.phase = "Idle"
      BY <2>1 DEF Init, HostInit
    <3> QED
      BY <3>1 DEF Wishes!Init, Place, Held, Wish, Shown, Working, WorkerBusy
  <2> QED
    BY <2>1
<1>2. IInv /\ IInv' /\ [Next]_vars => [Wishes!Next]_<<Place, Wish, Shown>>
  <2>1. IInv' => PlaceOK'
    BY PlaceFollows, PTL
  <2> QED
    BY <2>1, PlaceFollows, NextPromise DEF Promised
<1> QED
  BY <1>1, <1>2, Invariance, PTL DEF Spec, WishIsKept, Wishes!Spec
=============================================================================
