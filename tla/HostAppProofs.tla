---------------------------- MODULE HostAppProofs ----------------------------
(***************************************************************************)
(* Theorems about HostApp, for every number of faults, plugs and clicks:   *)
(* its variables keep their types, the Session it drives implements        *)
(* SessionLifecycle, Disconnect holds, the newest rotation wins, and the   *)
(* retries that no press asked for are bounded.                            *)
(*                                                                         *)
(* A lemma per part of the invariant; in each a step per action, or per    *)
(* method of Session, which several actions call.                          *)
(***************************************************************************)
EXTENDS HostApp, TLAPS

-----------------------------------------------------------------------------
(* The invariant. *)

(* Behind an Error a worker has always written Stopped.                    *)
EndsWithStopped(list) ==
    \A i \in 1..Len(list) :
        list[i].kind = "Error" => i < Len(list) /\ list[i + 1].kind = "Stopped"

(* A Session has one process, and an error only while it shows a failure.  *)
OneProcess ==
    /\ session.auxiliary # None =>
           /\ worker.proc = None /\ session.error = None
           /\ session.state \in {"Stopping", "Connecting"}
           /\ session.restart # None => session.state = "Connecting"
    /\ session.auxiliary = None => session.restart = None
    /\ session.error # None => session.state = "Failed"

(* What is still to be read from a worker that has failed is its Stopped:  *)
(* no event brings the session back.                                       *)
NothingRevives ==
    /\ ~session.listening => pipe = <<>>
    /\ EndsWithStopped(pipe)
    /\ /\ worker.proc # None /\ session.state \in {"Failed", "Idle"}
       /\ session.listening /\ ~session.finished
       => pipe # <<>> /\ pipe[1].kind = "Stopped"

(* The first thing a worker is told is what it starts with.                *)
StartComesFirst ==
    worker.proc = "alive" /\ session.writer = "loop" => worker.phase # "boot"

(* A Disconnect leaves nothing that could dial.                            *)
QuietAfterQuit ==
    /\ history.quit => /\ app.suppressed /\ app.timer = "none"
                       /\ ~app.moving /\ app.attempted
    /\ app.pc \in {"poll", "devices", "ui"} => app.attempted

SessionInv ==
    /\ SessionTypeOK /\ WorkerTypeOK /\ pipe \in Seq(Events)
    /\ OneProcess /\ NothingRevives /\ StartComesFirst

(* A step of the abstract session, or none.                                *)
LifecycleStep == Lifecycle!Next \/ UNCHANGED <<Phase, Receivers>>

-----------------------------------------------------------------------------
(* Lists of events. *)

LEMMA TailOfEvents ==
    ASSUME NEW list \in Seq(Events), list # <<>>, EndsWithStopped(list)
    PROVE  /\ Tail(list) \in Seq(Events)
           /\ EndsWithStopped(Tail(list))
           /\ list[1] = Head(list) /\ Head(list) \in Events
           /\ list[1].kind = "Error" => Tail(list) # <<>> /\ Tail(list)[1].kind = "Stopped"
<1>1. Len(Tail(list)) = Len(list) - 1 /\ Tail(list) \in Seq(Events)
  OBVIOUS
<1>2. \A i \in 1..Len(Tail(list)) : Tail(list)[i] = list[i + 1]
  OBVIOUS
<1>3. Len(list) \in Nat \ {0} /\ list[1] = Head(list) /\ Head(list) \in Events
  OBVIOUS
<1>4. EndsWithStopped(Tail(list))
  BY <1>1, <1>2, <1>3 DEF EndsWithStopped
<1>5. ASSUME list[1].kind = "Error"
      PROVE  Tail(list) # <<>> /\ Tail(list)[1].kind = "Stopped"
  <2>1. 1 < Len(list) /\ list[2].kind = "Stopped"
    BY <1>3, <1>5 DEF EndsWithStopped
  <2>2. Len(Tail(list)) # 0 /\ 1 \in 1..Len(Tail(list))
    BY <1>1, <1>3, <2>1
  <2>3. Tail(list)[1] = list[1 + 1] /\ 1 + 1 = 2
    BY <1>2, <2>2
  <2>4. Tail(list) # <<>>
    BY <1>1, <2>2
  <2> QED
    BY <2>1, <2>3, <2>4
<1> QED
  BY <1>1, <1>3, <1>4, <1>5

LEMMA LongerList ==
    ASSUME NEW list \in Seq(Events), EndsWithStopped(list),
           NEW more \in Seq(Events), EndsWithStopped(more)
    PROVE  /\ list \o more \in Seq(Events)
           /\ EndsWithStopped(list \o more)
           /\ list # <<>> => list \o more # <<>> /\ (list \o more)[1] = list[1]
<1> DEFINE all == list \o more
<1>1. all \in Seq(Events) /\ Len(all) = Len(list) + Len(more)
  OBVIOUS
<1>2. \A i \in 1..Len(list) : all[i] = list[i]
  OBVIOUS
<1>3. \A i \in 1..Len(more) : all[Len(list) + i] = more[i]
  OBVIOUS
<1>4. ASSUME NEW i \in 1..Len(all), all[i].kind = "Error"
      PROVE  i < Len(all) /\ all[i + 1].kind = "Stopped"
  <2>1. CASE i \in 1..Len(list)
    <3>1. i < Len(list) /\ list[i + 1].kind = "Stopped"
      BY <1>2, <1>4, <2>1 DEF EndsWithStopped
    <3> QED
      BY <1>1, <1>2, <2>1, <3>1
  <2>2. CASE i \notin 1..Len(list)
    <3>1. PICK k \in 1..Len(more) : i = Len(list) + k
      <4>1. i - Len(list) \in 1..Len(more)
        BY <1>1, <2>2
      <4> QED
        BY <4>1
    <3>2. k < Len(more) /\ more[k + 1].kind = "Stopped"
      BY <1>3, <1>4, <3>1 DEF EndsWithStopped
    <3>3. k + 1 \in 1..Len(more) /\ i + 1 = Len(list) + (k + 1)
      BY <3>1, <3>2
    <3> QED
      BY <1>1, <1>3, <3>2, <3>3
  <2> QED
    BY <2>1, <2>2
<1>5. ASSUME list # <<>> PROVE all # <<>> /\ all[1] = list[1]
  <2>1. Len(list) \in Nat \ {0}
    BY <1>5
  <2> QED
    BY <1>1, <1>2, <2>1
<1> QED
  BY <1>1, <1>4, <1>5 DEF EndsWithStopped

-----------------------------------------------------------------------------
(* The methods of Session: each keeps its invariant, and is a step of the  *)
(* abstract session or none.                                               *)

LEMMA SessionBegins == Init => SessionInv /\ Lifecycle!Init
<1> SUFFICES ASSUME Init PROVE SessionInv /\ Lifecycle!Init
  OBVIOUS
<1> USE NoneAssumption
<1>1. session = NewSession /\ worker = NoWorker /\ pipe = <<>>
  BY DEF Init
<1>2. SessionTypeOK
  BY <1>1 DEF SessionTypeOK, NewSession, States, AnyPhone, Procs
<1>3. WorkerTypeOK /\ pipe \in Seq(Events)
  BY <1>1 DEF WorkerTypeOK, NoWorker, Procs
<1>4. OneProcess /\ StartComesFirst
  BY <1>1 DEF OneProcess, StartComesFirst, NewSession, NoWorker
<1>5. NothingRevives
  BY <1>1 DEF NothingRevives, EndsWithStopped, NewSession, NoWorker
<1>6. Lifecycle!Init
  BY <1>1 DEF Lifecycle!Init, Phase, Receivers, Running, running, NewSession, NoWorker
<1> QED
  BY <1>2, <1>3, <1>4, <1>5, <1>6 DEF SessionInv

(* A new worker, of a Session that has no process.                         *)
LEMMA WorkerStarts ==
    ASSUME SessionInv, ~running, NEW j \in Jobs, NEW ok \in BOOLEAN,
           StartWorker(j, ok)
    PROVE  SessionInv' /\ LifecycleStep
<1> USE NoneAssumption DEF SessionInv
<1>1. worker.proc = None /\ session.auxiliary = None /\ session.restart = None
  BY DEF Running, running, OneProcess
<1>2. CASE ok
  <2>1. /\ session' = Started(session) /\ worker' = Spawned(j) /\ pipe' = <<>>
    BY <1>2 DEF StartWorker
  <2>2. SessionTypeOK'
    BY <2>1 DEF SessionTypeOK, Started, States, AnyPhone, Procs
  <2>3. WorkerTypeOK'
    BY <2>1 DEF WorkerTypeOK, Spawned, NoWorker, Procs, Living
  <2>4. OneProcess' /\ StartComesFirst'
    BY <1>1, <2>1 DEF OneProcess, StartComesFirst, Started, Spawned, NoWorker, SessionTypeOK
  <2>5. NothingRevives'
    BY <2>1 DEF NothingRevives, EndsWithStopped, Started, SessionTypeOK
  <2>6. Lifecycle!Begin
    BY <1>1, <2>1 DEF Lifecycle!Begin, Phase, Receivers, Running, running, Started, Spawned,
                      NoWorker, SessionTypeOK
  <2> QED
    BY <2>1, <2>2, <2>3, <2>4, <2>5, <2>6 DEF LifecycleStep, Lifecycle!Next
<1>3. CASE ~ok
  <2>1. session' = NotSpawned(session) /\ UNCHANGED <<worker, pipe>>
    BY <1>3 DEF StartWorker, Refuse
  <2>2. SessionTypeOK'
    BY <2>1 DEF SessionTypeOK, NotSpawned, Failed, States, Errors, AnyPhone
  <2>3. WorkerTypeOK' /\ pipe' \in Seq(Events)
    BY <2>1 DEF WorkerTypeOK
  <2>4. OneProcess' /\ StartComesFirst'
    BY <1>1, <2>1 DEF OneProcess, StartComesFirst, NotSpawned, Failed, SessionTypeOK
  <2>5. NothingRevives'
    BY <1>1, <2>1 DEF NothingRevives, EndsWithStopped, NotSpawned, Failed, SessionTypeOK
  <2>6. UNCHANGED <<Phase, Receivers>>
    BY <1>1, <2>1 DEF Phase, Receivers, Running, running, NotSpawned, Failed, SessionTypeOK
  <2> QED
    BY <2>2, <2>3, <2>4, <2>5, <2>6 DEF LifecycleStep
<1> QED
  BY <1>2, <1>3

(* A call that is refused changes nothing but the message.                 *)
LEMMA Refused ==
    ASSUME SessionInv, ~running, NEW error \in Errors, Refuse(Failed(session, error))
    PROVE  SessionInv' /\ LifecycleStep
<1> USE NoneAssumption DEF SessionInv
<1>1. worker.proc = None /\ session.auxiliary = None /\ session.restart = None
  BY DEF Running, running, OneProcess
<1>2. session' = Failed(session, error) /\ UNCHANGED <<worker, pipe>>
  BY DEF Refuse
<1>3. SessionTypeOK'
  BY <1>2 DEF SessionTypeOK, Failed, States
<1>4. WorkerTypeOK' /\ pipe' \in Seq(Events)
  BY <1>2 DEF WorkerTypeOK
<1>5. OneProcess' /\ StartComesFirst'
  BY <1>1, <1>2 DEF OneProcess, StartComesFirst, Failed, SessionTypeOK
<1>6. NothingRevives'
  BY <1>1, <1>2 DEF NothingRevives, EndsWithStopped, Failed, SessionTypeOK
<1>7. UNCHANGED <<Phase, Receivers>>
  BY <1>1, <1>2 DEF Phase, Receivers, Running, running, Failed, SessionTypeOK
<1> QED
  BY <1>3, <1>4, <1>5, <1>6, <1>7 DEF LifecycleStep

LEMMA HelperStarts ==
    ASSUME SessionInv, ~running, NEW j \in Jobs, NEW switched \in BOOLEAN,
           NEW ok \in BOOLEAN, RunAuxiliary(j, switched, ok)
    PROVE  SessionInv' /\ LifecycleStep
<1> USE NoneAssumption DEF SessionInv
<1>1. worker.proc = None /\ session.auxiliary = None /\ session.restart = None
  BY DEF Running, running, OneProcess
<1>2. CASE ok
  <2>1. /\ session' = Assisted(session, [job |-> j, switched |-> switched])
        /\ UNCHANGED <<worker, pipe>>
    BY <1>2 DEF RunAuxiliary, Refuse
  <2>2. SessionTypeOK'
    BY <2>1 DEF SessionTypeOK, Assisted, States, AnyPhone, Procs, Living
  <2>3. WorkerTypeOK' /\ pipe' \in Seq(Events)
    BY <2>1 DEF WorkerTypeOK
  <2>5. OneProcess' /\ StartComesFirst'
    BY <1>1, <2>1 DEF OneProcess, StartComesFirst, Assisted, SessionTypeOK
  <2>6. NothingRevives'
    BY <1>1, <2>1 DEF NothingRevives, EndsWithStopped, Assisted, SessionTypeOK
  <2>7. Lifecycle!Begin
    BY <1>1, <2>1 DEF Lifecycle!Begin, Phase, Receivers, Running, running, Assisted, SessionTypeOK
  <2> QED
    BY <2>2, <2>3, <2>5, <2>6, <2>7 DEF LifecycleStep, Lifecycle!Next
<1>3. CASE ~ok
  <2>1. Refuse(Failed(session, "transient"))
    BY <1>3 DEF RunAuxiliary
  <2> QED
    BY <2>1, Refused DEF Errors
<1> QED
  BY <1>2, <1>3

LEMMA SetupStarts ==
    ASSUME SessionInv, BusTypeOK, ~running, NEW j \in Jobs, NEW ok \in BOOLEAN, Setup(j, ok)
    PROVE  SessionInv' /\ LifecycleStep
<1> DEFINE outside == j.device # None /\ ~j.device.accessory
           switched == outside /\ bus.denied
<1>1. \/ Refuse(Failed(session, "replug"))
      \/ RunAuxiliary(j, switched, ok)
  BY DEF Setup
<1>2. switched \in BOOLEAN /\ "replug" \in Errors
  BY DEF Errors
<1> HIDE DEF switched
<1> QED
  BY <1>1, <1>2, Refused, HelperStarts

LEMMA Connects ==
    ASSUME SessionInv, BusTypeOK, ~running, NEW j \in Jobs, NEW ok \in BOOLEAN, Connect(j, ok)
    PROVE  SessionInv' /\ LifecycleStep
<1>1. \/ Refuse(Failed(session, "transient"))
      \/ Setup(j, ok)
      \/ StartWorker(j, ok)
  BY DEF Connect, Jobs
<1>2. "transient" \in Errors
  BY DEF Errors
<1> QED
  BY <1>1, <1>2, Refused, SetupStarts, WorkerStarts

LEMMA UsbAllowed ==
    ASSUME SessionInv, BusTypeOK, ~running, NEW j \in Jobs, NEW ok \in BOOLEAN, AllowUsb(j, ok)
    PROVE  SessionInv' /\ LifecycleStep
<1>1. Setup(j, ok) \/ RunAuxiliary(j, TRUE, ok)
  BY DEF AllowUsb
<1> QED
  BY <1>1, SetupStarts, HelperStarts

LEMMA JobIsTyped == ASSUME NEW a \in Windows PROVE JobOf(a) \in Jobs
BY DEF JobOf, Job, Jobs, AnyPhone, Windows

LEMMA DeniedIsTyped == ASSUME SessionTypeOK, NEW a \in Windows PROVE DeniedJob(a) \in Jobs
BY DEF DeniedJob, Job, Jobs, AnyPhone, Windows, SessionTypeOK

(* One event of the worker.                                                *)
LEMMA EventIsHandled ==
    ASSUME SessionInv, PollEvent
    PROVE  SessionInv' /\ LifecycleStep
<1> USE NoneAssumption DEF SessionInv
<1> DEFINE event == Head(pipe)
           s == Handled(session, event)
<1>1. /\ session.auxiliary = None /\ pipe # <<>>
      /\ session' = s /\ pipe' = Tail(pipe) /\ UNCHANGED worker
  BY DEF PollEvent
<1>2. /\ pipe' \in Seq(Events) /\ EndsWithStopped(pipe')
      /\ pipe[1] = event /\ event \in Events
      /\ event.kind = "Error" => pipe' # <<>> /\ pipe'[1].kind = "Stopped"
  BY <1>1, TailOfEvents DEF NothingRevives
<1> HIDE DEF event
<1>3. session \in [state : States, error : Errors \cup {None}, stop : BOOLEAN,
                 slot : BOOLEAN \cup {None}, deadline : {"none", "armed", "expired"},
                 listening : BOOLEAN, writer : {"start", "loop", "done"},
                 finished : BOOLEAN, permission : AnyPhone, pairing : BOOLEAN,
                 auxiliary : Procs,
                 restart : [job : Jobs, switched : BOOLEAN] \cup {None}]
  BY DEF SessionTypeOK
<1>4. CASE event.kind # "Stopped" /\ (session.state = "Stopping" \/ session.finished)
  <2>1. s = session
    BY <1>3, <1>4 DEF Handled
  <2>2. SessionTypeOK' /\ WorkerTypeOK'
    BY <1>1, <2>1 DEF SessionTypeOK, WorkerTypeOK
  <2>3. OneProcess' /\ StartComesFirst'
    BY <1>1, <2>1 DEF OneProcess, StartComesFirst
  <2>4. NothingRevives'
    BY <1>1, <1>2, <1>4, <2>1 DEF NothingRevives
  <2>5. UNCHANGED <<Phase, Receivers>>
    BY <1>1, <2>1 DEF Phase, Receivers, Running, running
  <2> QED
    BY <1>2, <2>2, <2>3, <2>4, <2>5 DEF LifecycleStep
<1>5. CASE event.kind = "Stopped"
  <2>1. s = [session EXCEPT !.finished = TRUE]
    BY <1>3, <1>5 DEF Handled
  <2>2. SessionTypeOK' /\ WorkerTypeOK'
    BY <1>1, <1>3, <2>1 DEF SessionTypeOK, WorkerTypeOK
  <2>3. OneProcess' /\ NothingRevives' /\ StartComesFirst'
    BY <1>1, <1>2, <1>3, <2>1 DEF OneProcess, NothingRevives, StartComesFirst
  <2>4. UNCHANGED <<Phase, Receivers>>
    BY <1>1, <1>3, <2>1 DEF Phase, Receivers, Running, running
  <2> QED
    BY <1>2, <2>2, <2>3, <2>4 DEF LifecycleStep
<1>6. CASE event.kind # "Stopped" /\ session.state # "Stopping" /\ ~session.finished
  <2>0. session.listening /\ worker.proc # None => session.state \notin {"Failed", "Idle"}
    BY <1>2, <1>6 DEF NothingRevives
  <2>00. session.listening
    BY <1>1 DEF NothingRevives
  <2>1. CASE event.kind \in {"Connecting", "Waiting", "Pending", "ActiveStats", "IdleStats"}
    <3>1. PICK state \in {"Connecting", "Waiting", "ApprovalPending", "Streaming"} :
              s = Shown(session, state)
      BY <1>6, <2>1 DEF Handled, Heeded
    <3>2. SessionTypeOK' /\ WorkerTypeOK'
      BY <1>1, <1>3, <3>1, ZenonT(80) DEF Shown, SessionTypeOK, WorkerTypeOK, States
    <3>3. OneProcess' /\ NothingRevives' /\ StartComesFirst'
      BY <1>1, <1>2, <1>3, <3>1 DEF Shown, OneProcess, NothingRevives, StartComesFirst
    <3>4. UNCHANGED <<Phase, Receivers>>
      BY <1>1, <1>3, <1>6, <2>0, <2>00, <3>1 DEF Shown, Phase, Receivers, Running, running, States
    <3> QED
      BY <1>2, <3>2, <3>3, <3>4 DEF LifecycleStep
  <2>2. CASE event.kind = "QualityFailed"
    <3>1. s = [Failed(session, "transient") EXCEPT !.finished = TRUE]
      BY <1>6, <2>2 DEF Handled, Heeded
    <3>2. SessionTypeOK' /\ WorkerTypeOK'
      BY <1>1, <1>3, <3>1 DEF SessionTypeOK, WorkerTypeOK, States, Failed, Errors
    <3>3. OneProcess' /\ NothingRevives' /\ StartComesFirst'
      BY <1>1, <1>2, <1>3, <3>1 DEF OneProcess, NothingRevives, StartComesFirst, Failed
    <3>4. Lifecycle!Stop \/ UNCHANGED <<Phase, Receivers>>
      BY <1>1, <1>3, <3>1 DEF Lifecycle!Stop, Phase, Receivers, Running, running, Failed
    <3> QED
      BY <1>2, <3>2, <3>3, <3>4 DEF LifecycleStep, Lifecycle!Next
  <2>3. CASE event.kind = "Error"
    <3>1. s = Failed(session, event.body) /\ event.body \in Errors
      BY <1>2, <1>6, <2>3 DEF Handled, Heeded, Events, Plain
    <3>2. SessionTypeOK' /\ WorkerTypeOK'
      BY <1>1, <1>3, <3>1 DEF SessionTypeOK, WorkerTypeOK, States, Failed
    <3>3. OneProcess' /\ NothingRevives' /\ StartComesFirst'
      BY <1>1, <1>2, <1>3, <2>3, <2>00, <3>1 DEF OneProcess, NothingRevives, StartComesFirst, Failed
    <3>4. Lifecycle!Stop \/ UNCHANGED <<Phase, Receivers>>
      BY <1>1, <1>3, <3>1 DEF Lifecycle!Stop, Phase, Receivers, Running, running, Failed
    <3> QED
      BY <1>2, <3>2, <3>3, <3>4 DEF LifecycleStep, Lifecycle!Next
  <2>4. CASE event.kind \in {"UsbPermission", "PairingInfo"}
    <3>1. \/ s = [session EXCEPT !.permission = event.body] /\ event.body \in AnyPhone
          \/ s = [session EXCEPT !.pairing = TRUE]
      BY <1>2, <1>6, <2>4 DEF Handled, Heeded, Events, Plain
    <3>2. SessionTypeOK' /\ WorkerTypeOK'
      BY <1>1, <1>3, <3>1, ZenonT(80) DEF SessionTypeOK, WorkerTypeOK
    <3>3. OneProcess' /\ NothingRevives' /\ StartComesFirst'
      BY <1>1, <1>2, <1>3, <2>0, <2>00, <3>1 DEF OneProcess, NothingRevives, StartComesFirst
    <3>4. UNCHANGED <<Phase, Receivers>>
      BY <1>1, <1>3, <3>1 DEF Phase, Receivers, Running, running
    <3> QED
      BY <1>2, <3>2, <3>3, <3>4 DEF LifecycleStep
  <2>5. event.kind \in Plain \cup {"Error", "UsbPermission"}
    BY <1>2 DEF Events
  <2> QED
    BY <1>6, <2>1, <2>2, <2>3, <2>4, <2>5 DEF Plain
<1> QED
  BY <1>4, <1>5, <1>6

(* The end of poll(): the child is left alone, killed or reaped.           *)
LEMMA PollIsDone ==
    ASSUME SessionInv, NEW silent \in BOOLEAN, NEW overdue \in BOOLEAN,
           NEW failing \in BOOLEAN, PollEnds(silent, overdue, failing)
    PROVE  SessionInv' /\ LifecycleStep
<1> USE NoneAssumption DEF SessionInv
<1> DEFINE d == PollDeadlines(session, silent, overdue)
           w == Waited(d, worker, failing)
           reaped == Reaped(worker, failing)
           late == session.deadline = "expired"
<1>1. /\ session.auxiliary = None /\ (failing => worker.proc \in Dead)
      /\ overdue => session.state \in {"Waiting", "Streaming"} /\ ~session.finished
      /\ session' = IF w.finished THEN Finished(w, reaped) ELSE w
      /\ worker' = IF w.finished /\ reaped THEN NoWorker
                   ELSE IF w.finished \/ late THEN Killed(worker) ELSE worker
      /\ pipe' = IF w.finished THEN <<>> ELSE pipe
  BY DEF PollEnds
<1> DEFINE Type == [state : States, error : Errors \cup {None}, stop : BOOLEAN,
                 slot : BOOLEAN \cup {None}, deadline : {"none", "armed", "expired"},
                 listening : BOOLEAN, writer : {"start", "loop", "done"},
                 finished : BOOLEAN, permission : AnyPhone, pairing : BOOLEAN,
                 auxiliary : Procs,
                 restart : [job : Jobs, switched : BOOLEAN] \cup {None}]
<1>2. session \in Type
  BY DEF SessionTypeOK
<1> DEFINE Same(s) == /\ s \in Type /\ s.auxiliary = session.auxiliary
                      /\ s.restart = session.restart
                      /\ s.listening = session.listening /\ s.writer = session.writer
                      /\ s.error # None => s.state = "Failed"
                      /\ s.state \in {"Failed", "Idle"} /\ ~s.finished
                         => session.state = s.state /\ ~session.finished
                      /\ session.state \in {"Stopping", "Failed", "Idle"}
                         => s.state \in {"Stopping", "Failed", "Idle"}
                      /\ session.state \notin {"Stopping", "Failed", "Idle"} /\ ~s.finished
                         => s.state \notin {"Stopping", "Failed", "Idle"}
                      /\ ~s.finished => ~late
<1>3. Same(d)
  <2>1. /\ d.state = IF overdue THEN "Failed"
                      ELSE IF silent /\ session.state = "Streaming" THEN "Waiting"
                      ELSE session.state
        /\ d.error = IF overdue THEN "transient" ELSE session.error
        /\ d.finished = (session.finished \/ overdue \/ late)
    BY <1>2 DEF PollDeadlines, Failed
  <2>2. /\ d.auxiliary = session.auxiliary /\ d.restart = session.restart
        /\ d.listening = session.listening /\ d.writer = session.writer
    BY <1>2 DEF PollDeadlines, Failed
  <2>3. d \in Type
    BY <1>2, ZenonT(80) DEF PollDeadlines, Failed, States, Errors
  <2> HIDE DEF d
  <2> QED
    BY <1>1, <1>2, <2>1, <2>2, <2>3 DEF OneProcess
<1> HIDE DEF d
<1>4. /\ Same(w)
      /\ ~w.finished => worker.proc \notin Dead
  <2>1. CASE w = d /\ ~failing /\ worker.proc \notin Dead
    BY <1>3, <2>1
  <2>2. CASE w = [d EXCEPT !.finished = TRUE]
    BY <1>3, <2>2
  <2>3. CASE w = [d EXCEPT !.state = "Failed", !.error = "transient", !.finished = TRUE]
    BY <1>3, <2>3 DEF States, Errors
  <2>4. \/ w = d /\ ~failing /\ worker.proc \notin Dead
        \/ w = [d EXCEPT !.finished = TRUE]
        \/ w = [d EXCEPT !.state = "Failed", !.error = "transient", !.finished = TRUE]
    BY <1>3 DEF Waited, Failed
  <2> QED
    BY <2>1, <2>2, <2>3, <2>4
<1> HIDE DEF w
<1>5. reaped \in BOOLEAN /\ (reaped <=> worker.proc = None \/ (worker.proc \in Dead /\ ~failing))
  BY DEF Reaped
<1> HIDE DEF reaped
<1>6. CASE ~w.finished
  <2>1. session' = w /\ UNCHANGED <<worker, pipe>>
    BY <1>1, <1>4, <1>6
  <2>2. SessionTypeOK' /\ WorkerTypeOK' /\ pipe' \in Seq(Events)
    BY <1>4, <2>1 DEF SessionTypeOK, WorkerTypeOK
  <2>3. OneProcess' /\ NothingRevives' /\ StartComesFirst'
    BY <1>1, <1>4, <1>6, <2>1 DEF OneProcess, NothingRevives, StartComesFirst
  <2>4. UNCHANGED <<Phase, Receivers>>
    BY <1>4, <1>6, <2>1 DEF Phase, Receivers, Running, running
  <2> QED
    BY <2>2, <2>3, <2>4 DEF LifecycleStep
<1>7. CASE w.finished
  <2>1. /\ session' = Finished(w, reaped) /\ pipe' = <<>>
        /\ worker' = IF reaped THEN NoWorker ELSE Killed(worker)
    BY <1>1, <1>7
  <2>2. SessionTypeOK'
    <3>1. w \in Type /\ reaped \in BOOLEAN
      BY <1>4, <1>5
    <3>2. session' \in Type
      BY <2>1, <3>1, ZenonT(80) DEF Finished, States
    <3> QED
      BY <3>2 DEF SessionTypeOK
  <2>3. WorkerTypeOK'
    BY <1>5, <2>1 DEF WorkerTypeOK, NoWorker, Killed, Corpse, Procs, Living
  <2>4. pipe' \in Seq(Events)
    BY <2>1
  <2>5. OneProcess'
    BY <1>1, <1>4, <1>5, <2>1 DEF OneProcess, Finished, States
  <2>6. NothingRevives'
    BY <1>4, <2>1 DEF NothingRevives, Finished, EndsWithStopped
  <2>7. StartComesFirst'
    BY <1>5, <2>1 DEF StartComesFirst, NoWorker, Killed, Corpse, WorkerTypeOK
  <2>8. CASE reaped
    <3>1. worker.proc # "alive"
      BY <1>5, <2>8 DEF Dead
    <3>2. Lifecycle!End \/ UNCHANGED <<Phase, Receivers>>
      BY <1>1, <1>4, <2>1, <2>8, <3>1 DEF Lifecycle!End, Phase, Receivers, Running, running,
                                     Finished, NoWorker
    <3> QED
      BY <2>2, <2>3, <2>4, <2>5, <2>6, <2>7, <3>2 DEF LifecycleStep, Lifecycle!Next
  <2>9. CASE ~reaped
    <3>1. worker' = IF worker.proc = "alive" THEN Corpse("dying") ELSE worker
      BY <2>1, <2>9 DEF Killed
    <3>2. worker.proc # None /\ worker'.proc # None /\ worker'.proc # "alive"
      BY <1>5, <2>9, <3>1 DEF Corpse, NoWorker
    <3>3. session'.state \in {"Failed", "Stopping"} /\ session'.auxiliary = None
      BY <1>1, <1>4, <2>1, <2>9 DEF Finished
    <3>4. /\ Phase' = "ending" /\ Phase \in {"active", "ending"}
          /\ Receivers' = 0 /\ Receivers = IF worker.proc = "alive" THEN 1 ELSE 0
      BY <1>1, <3>2, <3>3 DEF Phase, Receivers, Running, running
    <3>5. Lifecycle!Stop \/ Lifecycle!Dies \/ UNCHANGED <<Phase, Receivers>>
      BY <3>4 DEF Lifecycle!Stop, Lifecycle!Dies
    <3> QED
      BY <2>2, <2>3, <2>4, <2>5, <2>6, <2>7, <3>5 DEF LifecycleStep, Lifecycle!Next
  <2> QED
    BY <2>8, <2>9
<1> QED
  BY <1>6, <1>7

(* The auxiliary process failed, or was stopped.                           *)
LEMMA HelperFailed ==
    ASSUME SessionInv, NEW failing \in BOOLEAN, PollAuxiliaryFailed(failing)
    PROVE  SessionInv' /\ LifecycleStep
<1> USE NoneAssumption DEF SessionInv
<1> DEFINE error == IF failing THEN "transient" ELSE "hopeless"
<1>1. /\ session' = [Failed(session, error) EXCEPT !.auxiliary = None, !.restart = None]
      /\ UNCHANGED <<worker, pipe>>
      /\ session.auxiliary \in {"success", "failure"}
  BY DEF PollAuxiliaryFailed, Dead
<1>2. error \in Errors
  BY DEF Errors
<1> HIDE DEF error
<1>3. session.auxiliary # None /\ worker.proc = None
  BY <1>1 DEF OneProcess
<1>4. SessionTypeOK' /\ WorkerTypeOK' /\ pipe' \in Seq(Events)
  <2>1. SessionTypeOK'
    BY <1>1, <1>2 DEF SessionTypeOK, Failed, States, Procs
  <2> QED
    BY <1>1, <2>1 DEF WorkerTypeOK
<1>5. OneProcess' /\ NothingRevives' /\ StartComesFirst'
  BY <1>1, <1>3 DEF OneProcess, NothingRevives, StartComesFirst, Failed, SessionTypeOK
<1>6. Lifecycle!End
  BY <1>1, <1>3 DEF Lifecycle!End, Phase, Receivers, Running, running, Failed, SessionTypeOK
<1> QED
  BY <1>4, <1>5, <1>6 DEF LifecycleStep, Lifecycle!Next

(* The auxiliary process has done its part: the receiver takes its place,  *)
(* unless the phone is not where it should be.                             *)
LEMMA HelperEnded ==
    ASSUME SessionInv, NEW device \in AnyPhone, NEW spawned \in BOOLEAN,
           PollAuxiliaryEnded(device, spawned)
    PROVE  SessionInv' /\ LifecycleStep
<1> USE NoneAssumption DEF SessionInv
<1> DEFINE idle == [session EXCEPT !.auxiliary = None, !.restart = None,
                                   !.state = "Idle", !.error = None]
           job  == session.restart.job
           next == IF session.restart.switched THEN [job EXCEPT !.device = device] ELSE job
<1>1. session.auxiliary \in {"success", "failure"} /\ worker.proc = None
  BY DEF PollAuxiliaryEnded, OneProcess
<1>2. /\ idle.auxiliary = None /\ idle.restart = None /\ idle.state = "Idle"
      /\ idle.error = None /\ idle.listening = session.listening
  BY DEF SessionTypeOK
<1>3. idle \in [state : States, error : Errors \cup {None}, stop : BOOLEAN,
                 slot : BOOLEAN \cup {None}, deadline : {"none", "armed", "expired"},
                 listening : BOOLEAN, writer : {"start", "loop", "done"},
                 finished : BOOLEAN, permission : AnyPhone, pairing : BOOLEAN,
                 auxiliary : Procs,
                 restart : [job : Jobs, switched : BOOLEAN] \cup {None}]
  BY DEF SessionTypeOK, States, Procs
<1>4. \/ session' = idle /\ UNCHANGED <<worker, pipe>>
      \/ session' = Failed(idle, "replug") /\ UNCHANGED <<worker, pipe>>
      \/ session' = NotSpawned(idle) /\ UNCHANGED <<worker, pipe>>
      \/ /\ session.restart # None
         /\ session' = Started(idle) /\ worker' = Spawned(next) /\ pipe' = <<>>
  BY DEF PollAuxiliaryEnded
<1> HIDE DEF idle
<1>5. CASE \/ session' = idle /\ UNCHANGED <<worker, pipe>>
           \/ session' = Failed(idle, "replug") /\ UNCHANGED <<worker, pipe>>
           \/ session' = NotSpawned(idle) /\ UNCHANGED <<worker, pipe>>
  <2>1. SessionTypeOK' /\ WorkerTypeOK' /\ pipe' \in Seq(Events)
    BY <1>3, <1>5, ZenonT(80)
       DEF SessionTypeOK, WorkerTypeOK, Failed, NotSpawned, States, Errors, AnyPhone
  <2>2. OneProcess' /\ NothingRevives' /\ StartComesFirst'
    BY <1>1, <1>2, <1>3, <1>5, ZenonT(80)
       DEF OneProcess, NothingRevives, StartComesFirst, Failed, NotSpawned
  <2>3. worker'.proc = None /\ session'.auxiliary = None
    BY <1>1, <1>2, <1>3, <1>5 DEF Failed, NotSpawned
  <2>4. Lifecycle!End
    BY <1>1, <2>3 DEF Lifecycle!End, Phase, Receivers, Running, running
  <2> QED
    BY <2>1, <2>2, <2>4 DEF LifecycleStep, Lifecycle!Next
<1>6. CASE /\ session.restart # None
           /\ session' = Started(idle) /\ worker' = Spawned(next) /\ pipe' = <<>>
  <2>1. session.restart \in [job : Jobs, switched : BOOLEAN]
    BY <1>6 DEF SessionTypeOK
  <2>2. next \in Jobs
    BY <2>1 DEF Jobs
  <2> HIDE DEF next
  <2>3. SessionTypeOK'
    BY <1>3, <1>6, ZenonT(80) DEF SessionTypeOK, Started, States, AnyPhone
  <2>4. WorkerTypeOK'
    BY <1>6, <2>2 DEF WorkerTypeOK, Spawned, NoWorker, Procs, Living
  <2>5. pipe' \in Seq(Events)
    BY <1>6
  <2>6. OneProcess' /\ StartComesFirst'
    BY <1>2, <1>3, <1>6 DEF OneProcess, StartComesFirst, Started, Spawned, NoWorker
  <2>7. NothingRevives'
    BY <1>3, <1>6 DEF NothingRevives, EndsWithStopped, Started
  <2>8. session.state = "Connecting"
    BY <1>1, <1>6 DEF OneProcess
  <2>9. Lifecycle!HandOver \/ UNCHANGED <<Phase, Receivers>>
    BY <1>1, <1>2, <1>3, <1>6, <2>8 DEF Lifecycle!HandOver, Phase, Receivers, Running, running,
       Started, Spawned, NoWorker
  <2> QED
    BY <2>3, <2>4, <2>5, <2>6, <2>7, <2>9 DEF LifecycleStep, Lifecycle!Next
<1> QED
  BY <1>4, <1>5, <1>6

(* A step that leaves what the invariant and the window look at alone.     *)
LEMMA ThreadSteps ==
    ASSUME SessionInv, WriterStep \/ DeadlinePasses
    PROVE  SessionInv' /\ LifecycleStep
<1> USE NoneAssumption DEF SessionInv
<1>1. CASE DeadlinePasses
  <2>1. session' = [session EXCEPT !.deadline = "expired"] /\ UNCHANGED <<worker, pipe>>
    BY <1>1 DEF DeadlinePasses
  <2>2. SessionTypeOK' /\ WorkerTypeOK' /\ pipe' \in Seq(Events)
    BY <2>1 DEF SessionTypeOK, WorkerTypeOK
  <2>3. OneProcess' /\ NothingRevives' /\ StartComesFirst'
    BY <2>1 DEF OneProcess, NothingRevives, StartComesFirst, SessionTypeOK
  <2>4. UNCHANGED <<Phase, Receivers>>
    BY <2>1 DEF Phase, Receivers, Running, running, SessionTypeOK
  <2> QED
    BY <2>2, <2>3, <2>4 DEF LifecycleStep
<1>2. CASE WriterStep
  <2>1. /\ worker.proc = "alive" /\ worker.job \in Jobs /\ UNCHANGED pipe
        /\ \/ /\ session' = [session EXCEPT !.writer = "loop"]
              /\ worker' = [worker EXCEPT !.phase = "started", !.rotated = worker.job.rotated]
           \/ /\ session.writer = "loop" /\ session.slot # None
              /\ session' = [session EXCEPT !.slot = None]
              /\ worker' = [worker EXCEPT !.rotated = session.slot]
           \/ /\ session.writer = "loop"
              /\ session' = [session EXCEPT !.writer = "done"]
              /\ worker' = [worker EXCEPT !.told = TRUE]
    BY <1>2 DEF WriterStep, WorkerTypeOK
  <2>2. SessionTypeOK'
    BY <2>1 DEF SessionTypeOK
  <2>3. WorkerTypeOK' /\ pipe' \in Seq(Events)
    BY <2>1 DEF WorkerTypeOK, SessionTypeOK, Jobs
  <2>4. OneProcess' /\ NothingRevives' /\ StartComesFirst'
    BY <2>1, ZenonT(80) DEF OneProcess, NothingRevives, StartComesFirst, SessionTypeOK, WorkerTypeOK
  <2>5. UNCHANGED <<Phase, Receivers>>
    BY <2>1, ZenonT(80) DEF Phase, Receivers, Running, running, SessionTypeOK, WorkerTypeOK
  <2> QED
    BY <2>2, <2>3, <2>4, <2>5 DEF LifecycleStep
<1> QED
  BY <1>1, <1>2

LEMMA ProcessDies ==
    ASSUME SessionInv, ProcessEnds
    PROVE  SessionInv' /\ LifecycleStep
<1> USE NoneAssumption DEF SessionInv
<1>1. CASE /\ UNCHANGED <<session, pipe>>
           /\ \/ worker.proc = "dying" /\ worker' = Corpse("failure")
              \/ worker.proc = "alive" /\ worker' = Corpse("failure")
              \/ worker.proc = "alive" /\ worker' = Corpse("success")
  <2>1. SessionTypeOK' /\ pipe' \in Seq(Events)
    BY <1>1 DEF SessionTypeOK
  <2>2. WorkerTypeOK'
    BY <1>1 DEF WorkerTypeOK, Corpse, NoWorker, Procs, Dead
  <2>3. OneProcess' /\ NothingRevives' /\ StartComesFirst'
    BY <1>1 DEF OneProcess, NothingRevives, StartComesFirst, Corpse, NoWorker
  <2>4. Lifecycle!Dies \/ UNCHANGED <<Phase, Receivers>>
    BY <1>1 DEF OneProcess, Lifecycle!Dies, Phase, Receivers, Running, running, Corpse, NoWorker
  <2> QED
    BY <2>1, <2>2, <2>3, <2>4 DEF LifecycleStep, Lifecycle!Next
<1>2. CASE /\ session.auxiliary = "dying" /\ UNCHANGED <<worker, pipe>>
           /\ session' = [session EXCEPT !.auxiliary = "failure"]
  <2>1. SessionTypeOK' /\ WorkerTypeOK' /\ pipe' \in Seq(Events)
    BY <1>2 DEF SessionTypeOK, WorkerTypeOK, Procs, Dead
  <2>2. OneProcess' /\ NothingRevives' /\ StartComesFirst'
    BY <1>2 DEF OneProcess, NothingRevives, StartComesFirst, SessionTypeOK
  <2>3. UNCHANGED <<Phase, Receivers>>
    BY <1>2 DEF Phase, Receivers, Running, running, SessionTypeOK
  <2> QED
    BY <2>1, <2>2, <2>3 DEF LifecycleStep
<1> QED
  BY <1>1, <1>2 DEF ProcessEnds

(* What the worker, or the reader thread for it, adds to the pipe.         *)
LEMMA ListIsAdded ==
    ASSUME SessionInv, NEW list \in Seq(Events), EndsWithStopped(list), Says(list),
           UNCHANGED session, WorkerTypeOK', StartComesFirst', worker'.proc = worker.proc
    PROVE  SessionInv' /\ LifecycleStep
<1> USE DEF SessionInv
<1>1. CASE session.listening
  <2>1. pipe' = pipe \o list
    BY <1>1 DEF Says
  <2>2. /\ pipe' \in Seq(Events) /\ EndsWithStopped(pipe')
        /\ pipe # <<>> => pipe' # <<>> /\ pipe'[1] = pipe[1]
    BY <2>1, LongerList DEF NothingRevives
  <2>3. OneProcess' /\ NothingRevives'
    BY <1>1, <2>2 DEF OneProcess, NothingRevives
  <2>4. UNCHANGED <<Phase, Receivers>>
    BY DEF Phase, Receivers, Running, running
  <2> QED
    BY <2>2, <2>3, <2>4 DEF SessionTypeOK, LifecycleStep
<1>2. CASE ~session.listening
  <2>1. pipe' = pipe
    BY <1>2 DEF Says
  <2>2. OneProcess' /\ NothingRevives'
    BY <2>1 DEF OneProcess, NothingRevives
  <2>3. UNCHANGED <<Phase, Receivers>>
    BY DEF Phase, Receivers, Running, running
  <2> QED
    BY <2>1, <2>2, <2>3 DEF SessionTypeOK, LifecycleStep
<1> QED
  BY <1>1, <1>2

LEMMA ListsOfAWorker ==
    /\ <<>> \in Seq(Events) /\ EndsWithStopped(<<>>)
    /\ \A kind \in Plain :
           <<Event(kind)>> \in Seq(Events) /\ EndsWithStopped(<<Event(kind)>>)
    /\ \A error \in Errors :
           /\ <<Error(error), Event("Stopped")>> \in Seq(Events)
           /\ EndsWithStopped(<<Error(error), Event("Stopped")>>)
           /\ \A event \in Events : event.kind # "Error" =>
                 /\ <<event, Error(error), Event("Stopped")>> \in Seq(Events)
                 /\ EndsWithStopped(<<event, Error(error), Event("Stopped")>>)
<1>1. \A kind \in Plain : Event(kind) \in Events /\ Event(kind).kind = kind
  BY DEF Event, Events
<1>2. \A error \in Errors : Error(error) \in Events /\ Error(error).kind = "Error"
  BY DEF Error, Events
<1>3. "Stopped" \in Plain
  BY DEF Plain
<1>4. \A kind \in Plain : kind # "Error"
  BY DEF Plain
<1>5. <<>> \in Seq(Events) /\ EndsWithStopped(<<>>)
  BY DEF EndsWithStopped
<1>6. ASSUME NEW kind \in Plain
      PROVE  <<Event(kind)>> \in Seq(Events) /\ EndsWithStopped(<<Event(kind)>>)
  BY <1>1, <1>4 DEF EndsWithStopped
<1>7. ASSUME NEW error \in Errors
      PROVE  /\ <<Error(error), Event("Stopped")>> \in Seq(Events)
             /\ EndsWithStopped(<<Error(error), Event("Stopped")>>)
  <2>1. Error(error) \in Events /\ Event("Stopped") \in Events /\ Event("Stopped").kind = "Stopped"
    BY <1>1, <1>2, <1>3
  <2> HIDE DEF Error, Event
  <2>2. \A i \in 1..2 : i = 1 \/ i = 2
    OBVIOUS
  <2> QED
    BY <2>1, <2>2 DEF EndsWithStopped
<1>8. ASSUME NEW error \in Errors, NEW event \in Events, event.kind # "Error"
      PROVE  /\ <<event, Error(error), Event("Stopped")>> \in Seq(Events)
             /\ EndsWithStopped(<<event, Error(error), Event("Stopped")>>)
  <2>1. Error(error) \in Events /\ Event("Stopped") \in Events /\ Event("Stopped").kind = "Stopped"
    BY <1>1, <1>2, <1>3
  <2> HIDE DEF Error, Event
  <2>2. \A i \in 1..3 : i = 1 \/ i = 2 \/ i = 3
    OBVIOUS
  <2> QED
    BY <1>8, <2>1, <2>2 DEF EndsWithStopped
<1> QED
  BY <1>5, <1>6, <1>7, <1>8

LEMMA WorkerSpeaks ==
    ASSUME SessionInv, NEW list \in Seq(Events), EndsWithStopped(list),
           NEW phase \in {"connecting", "exchange", "approval", "stream", "failed", "ended"},
           Proceeds(phase, list)
    PROVE  SessionInv' /\ LifecycleStep
<1> USE DEF SessionInv
<1>1. worker' = [worker EXCEPT !.phase = phase] /\ Says(list) /\ UNCHANGED session
  BY DEF Proceeds
<1>2. WorkerTypeOK' /\ StartComesFirst' /\ worker'.proc = worker.proc
  BY <1>1 DEF WorkerTypeOK, StartComesFirst
<1> QED
  BY <1>1, <1>2, ListIsAdded

LEMMA ReaderEnds ==
    ASSUME SessionInv, OutputEnds
    PROVE  SessionInv' /\ LifecycleStep
<1>1. Says(<<Error("transient"), Event("Stopped")>>) /\ UNCHANGED <<session, worker>>
  BY DEF OutputEnds
<1>2. WorkerTypeOK' /\ StartComesFirst'
  BY <1>1 DEF SessionInv, WorkerTypeOK, StartComesFirst
<1>3. "transient" \in Errors
  BY DEF Errors
<1> QED
  BY <1>1, <1>2, <1>3, ListsOfAWorker, ListIsAdded

LEMMA HelperEnds ==
    ASSUME SessionInv, session.auxiliary = "alive", UNCHANGED <<worker, pipe>>,
           NEW how \in Dead, session' = [session EXCEPT !.auxiliary = how]
    PROVE  SessionInv' /\ LifecycleStep
<1> USE NoneAssumption DEF SessionInv
<1>1. SessionTypeOK' /\ WorkerTypeOK' /\ pipe' \in Seq(Events)
  BY DEF SessionTypeOK, WorkerTypeOK, Procs
<1>2. OneProcess' /\ NothingRevives' /\ StartComesFirst'
  BY DEF OneProcess, NothingRevives, StartComesFirst, SessionTypeOK, Dead
<1>3. Lifecycle!Dies
  BY DEF OneProcess, Lifecycle!Dies, Phase, Receivers, Running, running, SessionTypeOK, Dead
<1> QED
  BY <1>1, <1>2, <1>3 DEF LifecycleStep, Lifecycle!Next

LEMMA WindowIsGone ==
    ASSUME SessionInv, Dropped
    PROVE  SessionInv' /\ LifecycleStep
<1> USE NoneAssumption DEF SessionInv
<1>1. /\ session' = [session EXCEPT !.stop = TRUE, !.auxiliary = Kill(session.auxiliary)]
      /\ worker' = Killed(worker) /\ UNCHANGED pipe
  BY DEF Dropped
<1>2. SessionTypeOK'
  BY <1>1, ZenonT(80) DEF SessionTypeOK, Kill, Procs, Living
<1>3. WorkerTypeOK' /\ pipe' \in Seq(Events)
  BY <1>1 DEF WorkerTypeOK, Killed, Corpse, NoWorker, Procs, Living
<1>4. OneProcess' /\ NothingRevives' /\ StartComesFirst'
  BY <1>1 DEF OneProcess, NothingRevives, StartComesFirst, SessionTypeOK, WorkerTypeOK,
              Kill, Killed, Corpse, NoWorker
<1>5. Lifecycle!Dies \/ UNCHANGED <<Phase, Receivers>>
  BY <1>1 DEF OneProcess, Lifecycle!Dies, Phase, Receivers, Running, running, SessionTypeOK,
              Kill, Killed, Corpse, NoWorker
<1> QED
  BY <1>2, <1>3, <1>4, <1>5 DEF LifecycleStep, Lifecycle!Next

LEMMA SessionStops ==
    ASSUME SessionInv, session' = Stopped(session, worker), UNCHANGED <<worker, pipe>>
    PROVE  SessionInv' /\ LifecycleStep
<1> USE NoneAssumption DEF SessionInv
<1>1. SessionTypeOK'
  <2>1. Kill(session.auxiliary) \in Procs /\ "Stopping" \in States
    BY DEF SessionTypeOK, Kill, Procs, Living, States
  <2>2. \/ UNCHANGED session
        \/ session' = [session EXCEPT !.restart = None, !.auxiliary = Kill(session.auxiliary),
                                      !.state = "Stopping", !.error = None]
        \/ session' = [session EXCEPT !.stop = TRUE, !.deadline = "armed",
                                      !.state = "Stopping", !.error = None]
    BY DEF Stopped
  <2> QED
    BY <2>1, <2>2, ZenonT(80) DEF SessionTypeOK
<1>2. WorkerTypeOK' /\ pipe' \in Seq(Events)
  BY DEF WorkerTypeOK
<1>3. OneProcess' /\ NothingRevives' /\ StartComesFirst'
  BY DEF OneProcess, NothingRevives, StartComesFirst, SessionTypeOK, Stopped, Kill
<1>4. Lifecycle!Stop \/ Lifecycle!Dies \/ UNCHANGED <<Phase, Receivers>>
  BY DEF OneProcess, Lifecycle!Stop, Lifecycle!Dies, Phase, Receivers, Running, running,
         SessionTypeOK, Stopped, Kill
<1> QED
  BY <1>1, <1>2, <1>3, <1>4 DEF LifecycleStep, Lifecycle!Next

LEMMA SessionTurns ==
    ASSUME SessionInv, NEW rotated \in BOOLEAN,
           session' = Transformed(session, worker, rotated), UNCHANGED <<worker, pipe>>
    PROVE  SessionInv' /\ LifecycleStep
<1> USE NoneAssumption DEF SessionInv
<1>1. \/ UNCHANGED session
      \/ session.auxiliary = None /\ session' = [session EXCEPT !.slot = rotated]
      \/ /\ session.auxiliary # None /\ session.restart # None
         /\ session' = [session EXCEPT !.restart.job.rotated = rotated]
  BY DEF Transformed
<1>2. SessionTypeOK'
  BY <1>1 DEF SessionTypeOK, Jobs
<1>3. WorkerTypeOK' /\ pipe' \in Seq(Events)
  BY DEF WorkerTypeOK
<1>4. OneProcess' /\ NothingRevives' /\ StartComesFirst'
  BY <1>1 DEF OneProcess, NothingRevives, StartComesFirst, SessionTypeOK
<1>5. UNCHANGED <<Phase, Receivers>>
  BY <1>1 DEF Phase, Receivers, Running, running, SessionTypeOK
<1> QED
  BY <1>2, <1>3, <1>4, <1>5 DEF LifecycleStep

-----------------------------------------------------------------------------
(* The window: types. *)

Inv == SessionInv /\ AppTypeOK /\ BusTypeOK /\ InventoryTypeOK /\ HistoryTypeOK

LEMMA RearmedIsTyped ==
    ASSUME NEW a \in Windows, NEW error
    PROVE  Rearmed(a, error) \in Windows
<1> DEFINE quiet == [a EXCEPT !.waiting = FALSE, !.left = FALSE, !.timer = "none"]
<1>1. quiet \in Windows /\ quiet.retries \in Nat /\ AutoRetryLimit \in Nat
  BY HostAppAssumption DEF Windows
<1>2. [a EXCEPT !.waiting = TRUE, !.left = @ \/ Gone(a), !.timer = "armed"] \in Windows
  BY DEF Windows, Gone
<1>3. \/ Rearmed(a, error) = quiet
      \/ Rearmed(a, error) = [a EXCEPT !.waiting = TRUE, !.left = @ \/ Gone(a), !.timer = "armed"]
      \/ Rearmed(a, error) = [quiet EXCEPT !.retries = AutoRetryLimit + 1]
      \/ Rearmed(a, error) = [quiet EXCEPT !.retries = @ + 1, !.timer = "armed"]
  BY DEF Rearmed
<1> HIDE DEF quiet
<1>4. /\ [quiet EXCEPT !.retries = AutoRetryLimit + 1] \in Windows
      /\ [quiet EXCEPT !.retries = @ + 1, !.timer = "armed"] \in Windows
  <2>1. ASSUME NEW n \in Nat PROVE [quiet EXCEPT !.retries = n] \in Windows
    BY <1>1 DEF Windows
  <2>2. ASSUME NEW n \in Nat PROVE [quiet EXCEPT !.retries = n, !.timer = "armed"] \in Windows
    BY <1>1 DEF Windows
  <2>3. AutoRetryLimit + 1 \in Nat /\ quiet.retries + 1 \in Nat
    BY <1>1
  <2> QED
    BY <2>1, <2>2, <2>3
<1> QED
  BY <1>1, <1>2, <1>3, <1>4

LEMMA ResolvedIsTyped ==
    ASSUME NEW a \in Windows
    PROVE  Resolved(a) \in Windows
<1>1. [a EXCEPT !.pending = FALSE, !.retries = 0, !.timer = "none", !.recover = TRUE,
                !.waiting = FALSE, !.left = FALSE] \in Windows
  BY DEF Windows
<1>2. [a EXCEPT !.pending = FALSE, !.recover = TRUE, !.timer = "none"] \in Windows
  BY DEF Windows
<1>3. [a EXCEPT !.pending = FALSE, !.recover = FALSE] \in Windows
  BY DEF Windows
<1>4. Rearmed([a EXCEPT !.pending = FALSE, !.recover = FALSE], session.error) \in Windows
  BY <1>3, RearmedIsTyped
<1> QED
  BY <1>1, <1>2, <1>4 DEF Resolved

LEMMA BusIsCounted ==
    ASSUME BusTypeOK, NEW ok \in BOOLEAN, Counted(ok)
    PROVE  BusTypeOK'
<1>1. bus.faults \in Nat /\ (~(ok \/ ~Fault) => bus.faults - 1 \in Nat)
  BY DEF BusTypeOK, Fault
<1> QED
  BY <1>1 DEF BusTypeOK, Counted

LEMMA HeardIsTyped ==
    HistoryTypeOK => Heard \in [clicks : Nat, dials : Nat, returns : Nat, quit : BOOLEAN]
BY DEF HistoryTypeOK, Heard

LEMMA Dials ==
    ASSUME Inv, ~running, NEW a \in Windows, Dial(a), InventoryTypeOK'
    PROVE  Inv' /\ LifecycleStep
<1>1. PICK ok \in BOOLEAN :
          /\ Connect(JobOf(a), ok) /\ Counted(ok)
          /\ app' = [a EXCEPT !.waiting = IF a.transport = "usb" THEN FALSE ELSE @,
                              !.left = IF a.transport = "usb" THEN FALSE ELSE @,
                              !.pending = TRUE, !.timer = IF ok THEN "none" ELSE @]
          /\ history' = [Heard EXCEPT !.dials = @ + 1]
  BY DEF Dial
<1>2. SessionInv' /\ LifecycleStep
  BY <1>1, JobIsTyped, Connects DEF Inv
<1>3. AppTypeOK'
  BY <1>1, ZenonT(80) DEF AppTypeOK, Windows
<1>4. BusTypeOK'
  BY <1>1, BusIsCounted DEF Inv
<1>5. HistoryTypeOK'
  BY <1>1, HeardIsTyped DEF Inv, HistoryTypeOK
<1> QED
  BY <1>2, <1>3, <1>4, <1>5 DEF Inv

LEMMA Stutters ==
    ASSUME SessionInv, UNCHANGED sessionVars
    PROVE  SessionInv' /\ LifecycleStep
<1>1. SessionTypeOK' /\ WorkerTypeOK' /\ OneProcess' /\ NothingRevives' /\ StartComesFirst'
  BY DEF SessionInv, sessionVars, SessionTypeOK, WorkerTypeOK, OneProcess, NothingRevives,
         StartComesFirst
<1> QED
  BY <1>1 DEF SessionInv, sessionVars, LifecycleStep, Phase, Receivers, Running, running

LEMMA DoesNotDial ==
    ASSUME Inv, NEW a \in Windows, NoDial(a), InventoryTypeOK'
    PROVE  Inv' /\ LifecycleStep
<1>1. SessionInv' /\ LifecycleStep
  BY Stutters DEF Inv, NoDial
<1>2. AppTypeOK' /\ HistoryTypeOK' /\ BusTypeOK'
  BY HeardIsTyped DEF NoDial, Inv, AppTypeOK, HistoryTypeOK, BusTypeOK
<1> QED
  BY <1>1, <1>2 DEF Inv

LEMMA AutoConnects ==
    ASSUME Inv, NEW a \in Windows, AutoConnect(a), InventoryTypeOK'
    PROVE  Inv' /\ LifecycleStep
<1> DEFINE left == a.left \/ Gone(a)
           waits == [a EXCEPT !.left = left, !.waiting = @ \/ Gone(a),
                              !.timer = IF a.suppressed THEN @ ELSE "armed"]
<1>1. \/ NoDial(a) \/ NoDial(waits)
      \/ ~running /\ Dial(a)
  BY DEF AutoConnect
<1>2. waits \in Windows
  <2>1. left \in BOOLEAN /\ (a.waiting \/ Gone(a)) \in BOOLEAN
    BY DEF Windows, Gone
  <2> HIDE DEF left, Gone
  <2> QED
    BY <2>1, ZenonT(80) DEF Windows
<1> HIDE DEF waits
<1>3. CASE NoDial(a) \/ NoDial(waits)
  BY <1>2, <1>3, DoesNotDial
<1>4. CASE ~running /\ Dial(a)
  BY <1>4, Dials
<1> QED
  BY <1>1, <1>3, <1>4

LEMMA ReconciledIsTyped ==
    ASSUME NEW a \in Windows, NEW list \in SUBSET Phones
    PROVE  Reconciled(a, list) \in Windows
<1>1. [a EXCEPT !.lost = a.selected # None] \in Windows
  BY DEF Windows
<1>2. ASSUME NEW device \in AnyPhone
      PROVE  [a EXCEPT !.selected = device, !.lost = FALSE] \in Windows
  BY DEF Windows
<1>3. list # {} => (CHOOSE device \in list : TRUE) \in AnyPhone
  BY DEF AnyPhone
<1> QED
  BY ONLY <1>1, <1>2, <1>3, Zenon DEF Reconciled

LEMMA WatchIsTyped ==
    ASSUME NEW a, NEW i \in [enabled : BOOLEAN, previous : Lists, sent : Lists],
           UsbWatched(a, i)
    PROVE  InventoryTypeOK'
BY DEF UsbWatched, InventoryTypeOK

-----------------------------------------------------------------------------
(* The actions of the window and of what is around it. *)

LEMMA FrameKeeps ==
    ASSUME Inv, Frame \/ PollsEvent
    PROVE  Inv' /\ LifecycleStep
<1> USE DEF Inv
<1>0. app \in Windows /\ Resolved(app) \in Windows
  BY ResolvedIsTyped DEF AppTypeOK
<1>1. CASE TakePairing
  <2>1. /\ session' = [session EXCEPT !.pairing = FALSE] /\ UNCHANGED <<worker, pipe>>
        /\ app' = [app EXCEPT !.pc = "logic", !.paired = TRUE, !.received = TRUE]
        /\ UNCHANGED <<bus, inventory, history>>
    BY <1>1 DEF TakePairing
  <2>2. SessionTypeOK' /\ WorkerTypeOK' /\ pipe' \in Seq(Events)
    BY <2>1 DEF SessionInv, SessionTypeOK, WorkerTypeOK
  <2>3. OneProcess' /\ NothingRevives' /\ StartComesFirst'
    BY <2>1 DEF SessionInv, OneProcess, NothingRevives, StartComesFirst, SessionTypeOK
  <2>4. UNCHANGED <<Phase, Receivers>>
    BY <2>1 DEF Phase, Receivers, Running, running, SessionInv, SessionTypeOK
  <2>5. AppTypeOK' /\ BusTypeOK' /\ InventoryTypeOK' /\ HistoryTypeOK'
    BY <1>0, <2>1, ZenonT(80) DEF AppTypeOK, Windows, BusTypeOK, InventoryTypeOK, HistoryTypeOK
  <2> QED
    BY <2>2, <2>3, <2>4, <2>5 DEF SessionInv, LifecycleStep
<1>2. CASE Move
  <2> DEFINE a == [Resolved(app) EXCEPT !.pc = "dial", !.moving = FALSE,
                        !.transport = "lan", !.retries = 0, !.suppressed = FALSE]
  <2>1. AutoConnect(a) /\ UNCHANGED inventory
    BY <1>2 DEF Move
  <2>2. a \in Windows
    BY <1>0 DEF Windows
  <2> QED
    BY <2>1, <2>2, AutoConnects DEF InventoryTypeOK
<1>3. CASE DialWhenDue
  <2>1. PICK a \in {IF app.pc = "dial" THEN app ELSE Resolved(app)} :
            /\ \/ AutoConnect([a EXCEPT !.pc = "poll", !.attempted = TRUE])
               \/ AutoConnect([a EXCEPT !.pc = "poll", !.timer = "none"])
               \/ NoDial([a EXCEPT !.pc = "poll"])
            /\ UNCHANGED inventory
    BY <1>3 DEF DialWhenDue
  <2>2. a \in Windows
    BY <1>0, <2>1
  <2>3. /\ [a EXCEPT !.pc = "poll", !.attempted = TRUE] \in Windows
        /\ [a EXCEPT !.pc = "poll", !.timer = "none"] \in Windows
        /\ [a EXCEPT !.pc = "poll"] \in Windows
    BY <2>2 DEF Windows
  <2> QED
    BY <2>1, <2>3, AutoConnects, DoesNotDial DEF InventoryTypeOK
<1>4. CASE PollsEvent
  BY <1>4, EventIsHandled DEF PollsEvent, appVars, AppTypeOK, BusTypeOK, InventoryTypeOK,
                              HistoryTypeOK
<1>5. CASE Poll
  <2>1. PICK failing \in BOOLEAN :
            /\ failing => Fault
            /\ bus' = IF failing THEN [bus EXCEPT !.faults = @ - 1] ELSE bus
            /\ \/ \E silent, overdue \in BOOLEAN : PollEnds(silent, overdue, failing)
               \/ PollAuxiliaryRunning
               \/ PollAuxiliaryFailed(failing)
               \/ \E spawned \in BOOLEAN :
                     PollAuxiliaryEnded(IF session.restart = None THEN None
                         ELSE SwitchedIdentity(session.restart.job.device), spawned)
            /\ app' = [app EXCEPT !.pc = "devices"] /\ UNCHANGED <<inventory, history>>
    BY <1>5 DEF Poll, Fault
  <2>2. BusTypeOK'
    <3>1. bus.faults \in Nat /\ (failing => bus.faults - 1 \in Nat)
      BY <2>1 DEF BusTypeOK, Fault
    <3> QED
      BY <2>1, <3>1 DEF BusTypeOK
  <2>3. AppTypeOK' /\ InventoryTypeOK' /\ HistoryTypeOK'
    BY <1>0, <2>1 DEF AppTypeOK, Windows, InventoryTypeOK, HistoryTypeOK
  <2>4. \A device : SwitchedIdentity(device) \in AnyPhone
    BY DEF SwitchedIdentity, BusTypeOK, AnyPhone
  <2>5. (IF session.restart = None THEN None
         ELSE SwitchedIdentity(session.restart.job.device)) \in AnyPhone
    BY <2>4 DEF AnyPhone
  <2>6. SessionInv' /\ LifecycleStep
    BY <2>1, <2>5, PollIsDone, HelperFailed, HelperEnded, Stutters DEF PollAuxiliaryRunning
  <2> QED
    BY <2>2, <2>3, <2>6
<1>6. CASE Devices
  <2>1. CASE inventory.sent = None
    <3>1. NoDial([app EXCEPT !.pc = "ui"]) /\ UsbWatched(app, inventory)
      BY <1>6, <2>1 DEF Devices
    <3>2. [app EXCEPT !.pc = "ui"] \in Windows
      BY <1>0 DEF Windows
    <3>3. InventoryTypeOK'
      BY <3>1 DEF UsbWatched, InventoryTypeOK
    <3> QED
      BY <3>1, <3>2, <3>3, DoesNotDial
  <2>2. CASE inventory.sent # None
    <3> DEFINE known == [Reconciled(app, inventory.sent) EXCEPT !.pc = "ui"]
    <3>1. /\ UsbWatched(known, [inventory EXCEPT !.sent = None])
          /\ AutoConnect(known) \/ NoDial(known)
      BY <1>6, <2>2 DEF Devices
    <3>2. inventory.sent \in SUBSET Phones
      BY <2>2 DEF InventoryTypeOK, Lists
    <3>3. Reconciled(app, inventory.sent) \in Windows
      BY <1>0, <3>2, ReconciledIsTyped
    <3>4. known \in Windows
      BY <3>3 DEF Windows
    <3>5. [inventory EXCEPT !.sent = None] \in [enabled : BOOLEAN, previous : Lists, sent : Lists]
      BY DEF InventoryTypeOK, Lists
    <3> HIDE DEF known
    <3>6. InventoryTypeOK'
      BY <3>1, <3>5, WatchIsTyped
    <3> QED
      BY <3>1, <3>4, <3>6, AutoConnects, DoesNotDial
  <2> QED
    BY <2>1, <2>2
<1> QED
  BY <1>1, <1>2, <1>3, <1>4, <1>5, <1>6 DEF Frame

LEMMA PressIsTyped ==
    ASSUME Inv, NEW a \in Windows, Pressed(a)
    PROVE  AppTypeOK' /\ InventoryTypeOK'
<1>1. app' = [a EXCEPT !.pc = "logic"] /\ UsbWatched(a, inventory)
  BY DEF Pressed
<1>2. AppTypeOK'
  BY <1>1 DEF AppTypeOK, Windows
<1>3. InventoryTypeOK'
  BY <1>1, WatchIsTyped DEF Inv, InventoryTypeOK
<1> QED
  BY <1>2, <1>3

LEMMA ClickIsTyped ==
    ASSUME HistoryTypeOK,
           \/ history' = AfterClick
           \/ \E quit \in BOOLEAN : history' = [AfterClick EXCEPT !.quit = quit]
    PROVE  HistoryTypeOK'
<1>1. history.clicks + 1 \in Nat
  BY DEF HistoryTypeOK
<1>2. AfterClick \in [clicks : Nat, dials : Nat, returns : Nat, quit : BOOLEAN]
  BY <1>1 DEF AfterClick, HistoryTypeOK
<1> HIDE DEF AfterClick
<1> QED
  BY <1>2 DEF HistoryTypeOK

(* A button that works on the session through one of its methods, or not.  *)
LEMMA Clicks ==
    ASSUME Inv, NEW a \in Windows, NEW s, Click(a, s), HistoryTypeOK',
           \/ s = session
           \/ s = Stopped(session, worker)
           \/ \E rotated \in BOOLEAN : s = Transformed(session, worker, rotated)
    PROVE  Inv' /\ LifecycleStep
<1>1. Pressed(a) /\ session' = s /\ UNCHANGED <<bus, worker, pipe>>
  BY DEF Click
<1>2. AppTypeOK' /\ InventoryTypeOK' /\ BusTypeOK'
  BY <1>1, PressIsTyped DEF Inv, BusTypeOK
<1>3. SessionInv' /\ LifecycleStep
  <2>1. CASE s = session
    BY <1>1, <2>1, Stutters DEF Inv, sessionVars
  <2>2. CASE s = Stopped(session, worker)
    BY <1>1, <2>2, SessionStops DEF Inv
  <2>3. ASSUME NEW rotated \in BOOLEAN, s = Transformed(session, worker, rotated)
        PROVE  SessionInv' /\ LifecycleStep
    BY <1>1, <2>3, SessionTurns DEF Inv
  <2> QED
    BY <2>1, <2>2, <2>3
<1> QED
  BY <1>2, <1>3 DEF Inv

(* The choices that leave a Session without a process, and its message.    *)
LEMMA SessionIsCleared ==
    ASSUME SessionInv, NEW s, session' = s, UNCHANGED <<worker, pipe>>,
           \/ /\ ~running
              /\ s = [session EXCEPT !.state = "Idle", !.error = None, !.permission = None]
           \/ /\ session.error # None
              /\ s = [session EXCEPT !.state = "Idle", !.error = None]
    PROVE  SessionInv' /\ LifecycleStep
<1> USE NoneAssumption DEF SessionInv
<1>1. session.auxiliary = None /\ session.restart = None
  BY DEF OneProcess, Running, running
<1>2. worker.proc # None => session.state = "Failed"
  BY DEF OneProcess, Running, running
<1>3. SessionTypeOK' /\ WorkerTypeOK' /\ pipe' \in Seq(Events)
  BY ZenonT(80) DEF SessionTypeOK, WorkerTypeOK, States, AnyPhone
<1>4. OneProcess' /\ NothingRevives' /\ StartComesFirst'
  BY <1>1, <1>2, ZenonT(80) DEF OneProcess, NothingRevives, StartComesFirst, SessionTypeOK
<1>5. UNCHANGED <<Phase, Receivers>>
  BY <1>1, <1>2 DEF Phase, Receivers, Running, running, SessionTypeOK
<1> QED
  BY <1>3, <1>4, <1>5 DEF LifecycleStep

LEMMA UserKeeps ==
    ASSUME Inv, User
    PROVE  Inv' /\ LifecycleStep
<1> USE DEF Inv
<1>0. app \in Windows
  BY DEF AppTypeOK
<1>1. CASE PressDisconnect
  <2> DEFINE a == [app EXCEPT !.timer = "none", !.suppressed = TRUE, !.recover = FALSE,
                              !.waiting = FALSE, !.left = FALSE, !.pending = FALSE]
  <2>1. /\ Click(a, Stopped(session, worker))
        /\ history' = [AfterClick EXCEPT !.quit = ~app.moving]
    BY <1>1 DEF PressDisconnect
  <2>2. a \in Windows /\ (~app.moving) \in BOOLEAN
    BY <1>0 DEF Windows
  <2> HIDE DEF a
  <2>3. HistoryTypeOK'
    BY <2>1, <2>2, ClickIsTyped
  <2> QED
    BY <2>1, <2>2, <2>3, Clicks
<1>2. CASE PressConnect
  <2> DEFINE a == [app EXCEPT !.suppressed = FALSE, !.retries = 0, !.pending = TRUE,
                              !.waiting = FALSE, !.left = FALSE, !.recover = FALSE]
  <2>1. PICK ok \in BOOLEAN :
            /\ AllowUsb(DeniedJob(app), ok) \/ Connect(JobOf(app), ok)
            /\ Counted(ok)
    BY <1>2 DEF PressConnect
  <2>2. ~running /\ Pressed(a) /\ history' = [AfterClick EXCEPT !.quit = FALSE]
    BY <1>2 DEF PressConnect
  <2>3. a \in Windows
    BY <1>0 DEF Windows
  <2> HIDE DEF a
  <2>4. AppTypeOK' /\ InventoryTypeOK' /\ HistoryTypeOK' /\ BusTypeOK'
    BY <2>1, <2>2, <2>3, PressIsTyped, ClickIsTyped, BusIsCounted
  <2>5. SessionInv' /\ LifecycleStep
    <3>1. JobOf(app) \in Jobs /\ DeniedJob(app) \in Jobs
      BY <1>0, JobIsTyped, DeniedIsTyped DEF SessionInv
    <3> QED
      BY <1>0, <2>1, <2>2, <3>1, Connects, UsbAllowed
  <2> QED
    BY <2>4, <2>5
<1>3. CASE PressSwitch
  <2>1. /\ Click([app EXCEPT !.moving = TRUE, !.received = FALSE], Stopped(session, worker))
        /\ history' = [AfterClick EXCEPT !.quit = FALSE]
    BY <1>3 DEF PressSwitch
  <2>2. [app EXCEPT !.moving = TRUE, !.received = FALSE] \in Windows
    BY <1>0 DEF Windows
  <2> QED
    BY <2>1, <2>2, ClickIsTyped, Clicks
<1>4. CASE PressLater
  <2>1. Click([app EXCEPT !.received = FALSE], session) /\ history' = AfterClick
    BY <1>4 DEF PressLater
  <2>2. [app EXCEPT !.received = FALSE] \in Windows
    BY <1>0 DEF Windows
  <2> QED
    BY <2>1, <2>2, ClickIsTyped, Clicks
<1>5. CASE Rotate
  <2>1. /\ Click([app EXCEPT !.rotated = ~@], Transformed(session, worker, ~app.rotated))
        /\ history' = AfterClick
    BY <1>5 DEF Rotate
  <2>2. [app EXCEPT !.rotated = ~@] \in Windows /\ (~app.rotated) \in BOOLEAN
    BY <1>0 DEF Windows
  <2> QED
    BY <2>1, <2>2, ClickIsTyped, Clicks
<1>6. CASE PressReplace
  <2>1. PICK ok \in BOOLEAN :
            Click(app, [session EXCEPT !.state = IF ok THEN "Idle" ELSE @,
                                       !.error = IF ok THEN None ELSE @])
    BY <1>6 DEF PressReplace
  <2>2. session.error = "hopeless" /\ history' = AfterClick
    BY <1>6 DEF PressReplace
  <2>3. HistoryTypeOK'
    BY <2>2, ClickIsTyped
  <2>4. CASE ok
    <3> DEFINE s == [session EXCEPT !.state = "Idle", !.error = None]
    <3>1. Pressed(app) /\ session' = s /\ UNCHANGED <<bus, worker, pipe>>
      BY <2>1, <2>4 DEF Click
    <3>2. AppTypeOK' /\ InventoryTypeOK' /\ BusTypeOK'
      BY <1>0, <3>1, PressIsTyped DEF BusTypeOK
    <3>3. session.error # None
      BY <2>2, NoneAssumption
    <3>4. SessionInv' /\ LifecycleStep
      BY <3>1, <3>3, SessionIsCleared
    <3> QED
      BY <2>3, <3>2, <3>4
  <2>5. CASE ~ok
    <3>1. [session EXCEPT !.state = IF ok THEN "Idle" ELSE @,
                          !.error = IF ok THEN None ELSE @] = session
      BY <2>5 DEF SessionInv, SessionTypeOK
    <3> QED
      BY <1>0, <2>1, <2>3, <3>1, Clicks
  <2> QED
    BY <2>4, <2>5
<1>7. CASE ForgetPhone
  <2>1. Click([app EXCEPT !.paired = FALSE], session) /\ history' = AfterClick
    BY <1>7 DEF ForgetPhone
  <2>2. [app EXCEPT !.paired = FALSE] \in Windows
    BY <1>0 DEF Windows
  <2> QED
    BY <2>1, <2>2, ClickIsTyped, Clicks
<1>8. CASE Quit
  <2>1. /\ app' = [app EXCEPT !.pc = "gone"] /\ Dropped
        /\ UNCHANGED <<bus, inventory, history>>
    BY <1>8 DEF Quit
  <2>2. AppTypeOK' /\ BusTypeOK' /\ InventoryTypeOK' /\ HistoryTypeOK'
    BY <1>0, <2>1 DEF AppTypeOK, Windows, BusTypeOK, InventoryTypeOK, HistoryTypeOK
  <2> QED
    BY <2>1, <2>2, WindowIsGone
<1>9. ASSUME NEW transport \in {"usb", "lan"}, SelectTransport(transport)
      PROVE  Inv' /\ LifecycleStep
  <2> DEFINE s == [session EXCEPT !.state = "Idle", !.error = None, !.permission = None]
             a == [app EXCEPT !.transport = transport]
  <2>1. ~running /\ Pressed(a) /\ session' = s /\ UNCHANGED <<bus, worker, pipe>>
    BY <1>9 DEF SelectTransport, Click
  <2>2. a \in Windows /\ history' = AfterClick
    BY <1>0, <1>9 DEF Windows, SelectTransport
  <2> HIDE DEF a
  <2>3. AppTypeOK' /\ InventoryTypeOK' /\ BusTypeOK' /\ HistoryTypeOK'
    BY <2>1, <2>2, PressIsTyped, ClickIsTyped DEF BusTypeOK
  <2>4. SessionInv' /\ LifecycleStep
    BY <2>1, SessionIsCleared
  <2> QED
    BY <2>3, <2>4
<1> QED
  BY <1>1, <1>2, <1>3, <1>4, <1>5, <1>6, <1>7, <1>8, <1>9 DEF User

LEMMA ThreadsKeep ==
    ASSUME Inv, Threads
    PROVE  Inv' /\ LifecycleStep
<1>1. (WriterStep \/ DeadlinePasses \/ OutputEnds \/ ProcessEnds) /\ UNCHANGED appVars
  BY DEF Threads
<1>2. SessionInv' /\ LifecycleStep
  BY <1>1, ThreadSteps, ReaderEnds, ProcessDies DEF Inv
<1> QED
  BY <1>1, <1>2 DEF Inv, appVars, AppTypeOK, BusTypeOK, InventoryTypeOK, HistoryTypeOK

LEMMA PhoneEnters ==
    ASSUME BusTypeOK, NEW device
    PROVE  Enters(device) \in [phone : AnyPhone, plugs : Nat, denied : BOOLEAN,
                               writable : BOOLEAN, helper : BOOLEAN, faults : Nat]
<1>1. bus.plugs + 1 \in Nat
  BY DEF BusTypeOK
<1>2. Device(bus.plugs + 1, TRUE) \in AnyPhone
  BY <1>1 DEF Device, AnyPhone, Phones
<1> HIDE DEF Device
<1> QED
  BY <1>1, <1>2 DEF BusTypeOK, Enters

(* The worker's steps are what it writes on its way from phase to phase.   *)
LEMMA WorkerTalks ==
    ASSUME Inv,
           \/ WorkerConnects \/ WorkerConnectsLan \/ WorkerConnectsUsb
           \/ WorkerExchanges \/ WorkerStreams \/ WorkerStops
    PROVE  SessionInv' /\ LifecycleStep
<1> DEFINE Phases == {"connecting", "exchange", "approval", "stream", "failed", "ended"}
<1>1. ASSUME NEW error \in Errors, WorkerFails(error)
      PROVE  SessionInv' /\ LifecycleStep
  BY <1>1, ListsOfAWorker, WorkerSpeaks DEF Inv, WorkerFails
<1>2. ASSUME NEW phase \in Phases, Proceeds(phase, <<>>)
      PROVE  SessionInv' /\ LifecycleStep
  BY <1>2, ListsOfAWorker, WorkerSpeaks DEF Inv
<1>3. ASSUME NEW phase \in Phases, NEW kind \in Plain, Proceeds(phase, <<Event(kind)>>)
      PROVE  SessionInv' /\ LifecycleStep
  BY <1>3, ListsOfAWorker, WorkerSpeaks DEF Inv
<1>4. ASSUME NEW event \in Events, event.kind # "Error", NEW error \in Errors,
             Proceeds("failed", <<event, Error(error), Event("Stopped")>>)
      PROVE  SessionInv' /\ LifecycleStep
  BY <1>4, ListsOfAWorker, WorkerSpeaks DEF Inv
<1>5. Errors = {"transient", "hopeless", "replug"}
  BY DEF Errors
<1>6. \A kind \in {"Connecting", "Waiting", "Pending", "ActiveStats", "IdleStats",
                    "PairingInfo", "QualityFailed", "Stopped"} : kind \in Plain
  BY DEF Plain
<1>7. CASE WorkerConnects
  <2>1. Proceeds("connecting", <<Event("Connecting")>>)
    BY <1>7 DEF WorkerConnects
  <2> QED
    BY <1>3, <1>6, <2>1
<1>8. CASE WorkerConnectsLan
  <2>1. Proceeds("exchange", <<>>) \/ \E error \in Errors : WorkerFails(error)
    BY <1>8, <1>5 DEF WorkerConnectsLan
  <2> QED
    BY <1>1, <1>2, <2>1
<1>9. CASE WorkerConnectsUsb
  <2>1. \/ Proceeds("exchange", <<>>)
        \/ \E error \in Errors : WorkerFails(error)
        \/ /\ worker.proc = "alive" /\ OnUsb
           /\ Proceeds("failed", <<Denied(worker.job.device), Error("hopeless"),
                                   Event("Stopped")>>)
    BY <1>9, <1>5 DEF WorkerConnectsUsb, WorkerAt
  <2>2. CASE /\ worker.proc = "alive"
             /\ Proceeds("failed", <<Denied(worker.job.device), Error("hopeless"),
                                     Event("Stopped")>>)
    <3>1. worker.job.device \in AnyPhone
      BY <2>2 DEF Inv, SessionInv, WorkerTypeOK, Jobs
    <3>2. Denied(worker.job.device) \in Events /\ Denied(worker.job.device).kind # "Error"
      BY <3>1 DEF Denied, Events
    <3> QED
      BY <1>4, <1>5, <2>2, <3>2
  <2> QED
    BY <1>1, <1>2, <2>1, <2>2
<1>10. CASE WorkerExchanges
  <2>1. \/ Proceeds("stream", <<Event("Waiting")>>)
        \/ Proceeds("approval", <<Event("Pending")>>)
        \/ \E error \in Errors : WorkerFails(error)
    BY <1>10, <1>5 DEF WorkerExchanges
  <2> QED
    BY <1>1, <1>3, <1>6, <2>1
<1>11. CASE WorkerStreams
  <2>1. \/ \E kind \in {"ActiveStats", "IdleStats", "PairingInfo"} :
               Proceeds("stream", <<Event(kind)>>)
        \/ Proceeds("failed", <<Event("QualityFailed"), Error("transient"), Event("Stopped")>>)
        \/ \E error \in Errors : WorkerFails(error)
    BY <1>11, <1>5 DEF WorkerStreams
  <2>2. Event("QualityFailed") \in Events /\ Event("QualityFailed").kind # "Error"
    BY DEF Event, Events, Plain
  <2> QED
    BY <1>1, <1>3, <1>4, <1>5, <1>6, <2>1, <2>2
<1>12. CASE WorkerStops
  <2>1. Proceeds("ended", <<Event("Stopped")>>) \/ \E error \in Errors : WorkerFails(error)
    BY <1>12, <1>5 DEF WorkerStops
  <2> QED
    BY <1>1, <1>3, <1>6, <2>1
<1> QED
  BY <1>7, <1>8, <1>9, <1>10, <1>11, <1>12

LEMMA WorkerKeeps ==
    ASSUME Inv, Worker
    PROVE  Inv' /\ LifecycleStep
<1> DEFINE Buses == [phone : AnyPhone, plugs : Nat, denied : BOOLEAN, writable : BOOLEAN,
                     helper : BOOLEAN, faults : Nat]
<1>1. UNCHANGED <<app, inventory, history>>
  BY DEF Worker
<1>2. AppTypeOK' /\ InventoryTypeOK' /\ HistoryTypeOK'
  BY <1>1 DEF Inv, AppTypeOK, InventoryTypeOK, HistoryTypeOK
<1>3. BusTypeOK'
  <2>1. bus \in Buses /\ \A device : Enters(device) \in Buses
    BY PhoneEnters DEF Inv, BusTypeOK
  <2>2. \A b \in Buses : [b EXCEPT !.denied = FALSE, !.writable = TRUE] \in Buses
    OBVIOUS
  <2>3. \/ UNCHANGED bus
        \/ \E device : bus' = Enters(device)
        \/ \E b \in {bus, Enters(session.restart.job.device)} :
               bus' = [b EXCEPT !.denied = FALSE, !.writable = TRUE]
    BY DEF Worker, WorkerConnects, WorkerConnectsLan, WorkerConnectsUsb, WorkerExchanges,
           WorkerStreams, WorkerStops, AuxiliaryEnds
  <2> HIDE DEF Buses
  <2>4. bus' \in Buses
    BY <2>1, <2>2, <2>3
  <2> QED
    BY <2>4 DEF BusTypeOK, Buses
<1>4. CASE AuxiliaryEnds
  <2>1. PICK how \in Dead : session' = [session EXCEPT !.auxiliary = how]
    BY <1>4 DEF AuxiliaryEnds, Dead
  <2>2. session.auxiliary = "alive" /\ UNCHANGED <<worker, pipe>>
    BY <1>4 DEF AuxiliaryEnds
  <2> QED
    BY <1>2, <1>3, <2>1, <2>2, HelperEnds DEF Inv
<1>5. CASE ~AuxiliaryEnds
  BY <1>2, <1>3, <1>5, WorkerTalks DEF Inv, Worker
<1> QED
  BY <1>4, <1>5

LEMMA CableKeeps ==
    ASSUME Inv, Cable
    PROVE  Inv' /\ LifecycleStep
<1> USE DEF Inv
<1>1. UNCHANGED sessionVars /\ UNCHANGED app
  BY DEF Cable, Plug, Unplug, ListUsb
<1>2. SessionInv' /\ LifecycleStep
  BY <1>1, Stutters
<1>3. AppTypeOK'
  BY <1>1 DEF AppTypeOK
<1>4. BusTypeOK'
  <2>1. bus.plugs + 1 \in Nat
    BY DEF BusTypeOK
  <2>2. Device(bus.plugs + 1, FALSE) \in AnyPhone /\ None \in AnyPhone
    BY <2>1 DEF Device, AnyPhone, Phones
  <2> HIDE DEF Device
  <2> QED
    BY <2>1, <2>2 DEF Cable, Plug, Unplug, ListUsb, BusTypeOK
<1>5. InventoryTypeOK'
  <2>1. Listed \in Lists
    BY DEF Listed, Lists, BusTypeOK, AnyPhone
  <2> HIDE DEF Listed
  <2> QED
    BY <2>1 DEF Cable, Plug, Unplug, ListUsb, InventoryTypeOK
<1>6. HistoryTypeOK'
  <2>1. history.returns + 1 \in Nat
    BY DEF HistoryTypeOK
  <2> QED
    BY <2>1 DEF Cable, Plug, Unplug, ListUsb, HistoryTypeOK
<1> QED
  BY <1>2, <1>3, <1>4, <1>5, <1>6

LEMMA NextKeeps ==
    ASSUME Inv, [Next]_vars
    PROVE  Inv' /\ LifecycleStep
<1>1. CASE Next
  BY <1>1, FrameKeeps, UserKeeps, ThreadsKeep, WorkerKeeps, CableKeeps DEF Next
<1>2. CASE UNCHANGED vars
  <2>1. UNCHANGED sessionVars /\ UNCHANGED <<app, bus, inventory, history>>
    BY <1>2 DEF vars, sessionVars
  <2> QED
    BY <2>1, Stutters DEF Inv, AppTypeOK, BusTypeOK, InventoryTypeOK, HistoryTypeOK
<1> QED
  BY <1>1, <1>2

LEMMA InitTyped == Init => Inv
<1> SUFFICES ASSUME Init PROVE Inv
  OBVIOUS
<1>1. SessionInv
  BY SessionBegins
<1>2. PICK start \in Starts :
          /\ app = [pc |-> "logic", transport |-> start.transport, selected |-> None,
                    lost |-> FALSE, timer |-> "none", retries |-> 0,
                    suppressed |-> FALSE, pending |-> FALSE, recover |-> FALSE,
                    waiting |-> FALSE, left |-> FALSE, moving |-> FALSE,
                    received |-> FALSE, paired |-> start.paired, rotated |-> FALSE,
                    attempted |-> FALSE]
          /\ inventory = [enabled |-> start.transport = "usb", previous |-> None,
                          sent |-> None]
          /\ bus = [phone |-> None, plugs |-> 0, denied |-> start.denied,
                    writable |-> start.writable, helper |-> start.helper,
                    faults |-> start.faults]
  BY DEF Init
<1>3. start \in [transport : {"usb", "lan"}, paired : BOOLEAN, denied : BOOLEAN,
                 writable : BOOLEAN, helper : BOOLEAN, faults : Nat]
  BY HostAppAssumption
<1>4. AppTypeOK
  BY <1>2, <1>3 DEF AppTypeOK, Windows, AnyPhone
<1>5. InventoryTypeOK
  BY <1>2 DEF InventoryTypeOK, Lists
<1>6. BusTypeOK
  BY <1>2, <1>3 DEF BusTypeOK, AnyPhone
<1>7. HistoryTypeOK
  BY DEF Init, HistoryTypeOK
<1> QED
  BY <1>1, <1>4, <1>5, <1>6, <1>7 DEF Inv

-----------------------------------------------------------------------------
(* What the polls leave to the helper and to the writer thread. *)

LEMMA HandledKeepsHelper ==
    ASSUME SessionInv, PollEvent
    PROVE  /\ session'.auxiliary = session.auxiliary /\ session'.stop = session.stop
           /\ session'.slot = session.slot /\ session'.restart = session.restart
<1>1. session' = Handled(session, Head(pipe))
  BY DEF PollEvent
<1> QED
  BY <1>1 DEF SessionInv, SessionTypeOK, Handled, Heeded, Shown, Failed

LEMMA PollKeepsHelper ==
    ASSUME SessionInv, NEW silent \in BOOLEAN, NEW overdue \in BOOLEAN,
           NEW failing \in BOOLEAN, PollEnds(silent, overdue, failing)
    PROVE  /\ session'.auxiliary = session.auxiliary /\ session'.restart = session.restart
           /\ session'.stop \/ (session'.stop = session.stop /\ session'.slot = session.slot)
<1> DEFINE Type == [state : States, error : Errors \cup {None}, stop : BOOLEAN,
                 slot : BOOLEAN \cup {None}, deadline : {"none", "armed", "expired"},
                 listening : BOOLEAN, writer : {"start", "loop", "done"},
                 finished : BOOLEAN, permission : AnyPhone, pairing : BOOLEAN,
                 auxiliary : Procs,
                 restart : [job : Jobs, switched : BOOLEAN] \cup {None}]
           Same(s) == /\ s \in Type /\ s.auxiliary = session.auxiliary
                      /\ s.restart = session.restart
                      /\ s.stop = session.stop /\ s.slot = session.slot
           due == PollDeadlines(session, silent, overdue)
           waited == Waited(due, worker, failing)
<1>1. session \in Type
  BY DEF SessionInv, SessionTypeOK
<1>2. \/ session' = waited
      \/ session' = Finished(waited, Reaped(worker, failing))
  BY DEF PollEnds
<1>3. Same(due)
  BY <1>1, ZenonT(80) DEF PollDeadlines, Failed, States, Errors
<1> HIDE DEF due
<1>4. Same(waited)
  BY <1>3 DEF Waited, Failed, States, Errors
<1> HIDE DEF waited
<1>5. CASE session' = waited
  BY <1>4, <1>5
<1>6. CASE session' = Finished(waited, Reaped(worker, failing))
  BY <1>4, <1>6 DEF Finished
<1> QED
  BY <1>2, <1>5, <1>6

-----------------------------------------------------------------------------
(* Disconnect. *)

LEMMA ResolvedStaysQuiet ==
    ASSUME NEW a \in Windows, a.suppressed, a.timer = "none", ~a.moving, a.attempted
    PROVE  /\ Resolved(a).suppressed /\ Resolved(a).timer = "none"
           /\ ~Resolved(a).moving /\ Resolved(a).attempted
<1> DEFINE b == [a EXCEPT !.pending = FALSE, !.recover = FALSE]
<1>1. Rearmed(b, session.error) = [b EXCEPT !.waiting = FALSE, !.left = FALSE, !.timer = "none"]
  BY DEF Rearmed, Windows
<1> QED
  BY <1>1, ZenonT(80) DEF Resolved, Windows

LEMMA ResolvedKeepsAttempted ==
    ASSUME NEW a \in Windows
    PROVE  Resolved(a).attempted = a.attempted /\ Resolved(a).moving = a.moving
<1> DEFINE b == [a EXCEPT !.pending = FALSE, !.recover = FALSE]
<1>1. /\ Rearmed(b, session.error).attempted = b.attempted
      /\ Rearmed(b, session.error).moving = b.moving
  BY DEF Rearmed, Windows
<1> QED
  BY <1>1 DEF Resolved, Windows

(* In no step of a frame is there anything left to dial.                   *)
LEMMA FrameStaysQuiet ==
    ASSUME Inv, QuietAfterQuit, history.quit, Frame \/ PollsEvent
    PROVE  /\ history'.quit /\ app'.suppressed /\ app'.timer = "none"
           /\ ~app'.moving /\ app'.attempted
           /\ ~running => ~running'
<1> USE DEF Inv
<1>0. app \in Windows /\ app.suppressed /\ app.timer = "none" /\ ~app.moving /\ app.attempted
  BY DEF AppTypeOK, QuietAfterQuit
<1>1. Heard.quit = history.quit
  BY DEF Heard, HistoryTypeOK
<1>2. ASSUME NEW a \in Windows, NoDial(a), a.suppressed, a.timer = "none", ~a.moving,
             a.attempted
      PROVE  /\ history'.quit /\ app'.suppressed /\ app'.timer = "none"
             /\ ~app'.moving /\ app'.attempted
             /\ ~running => ~running'
  BY <1>1, <1>2 DEF NoDial, sessionVars, Running, running
<1>3. CASE TakePairing
  BY <1>0, <1>3 DEF TakePairing, Windows, Running, running, SessionInv, SessionTypeOK
<1>4. CASE Move
  BY <1>0, <1>4 DEF Move, MovesNow
<1>5. CASE DialWhenDue
  <2>1. PICK a \in {IF app.pc = "dial" THEN app ELSE Resolved(app)} :
            \/ ~a.attempted
            \/ a.timer = "armed"
            \/ NoDial([a EXCEPT !.pc = "poll"])
    BY <1>5 DEF DialWhenDue
  <2>2. a \in Windows /\ a.suppressed /\ a.timer = "none" /\ ~a.moving /\ a.attempted
    BY <1>0, ResolvedStaysQuiet, ResolvedIsTyped
  <2>3. [a EXCEPT !.pc = "poll"] \in Windows
    BY <2>2 DEF Windows
  <2>4. NoDial([a EXCEPT !.pc = "poll"])
    BY <2>1, <2>2
  <2> QED
    BY <1>2, <2>2, <2>3, <2>4 DEF Windows
<1>6. CASE PollsEvent
  BY <1>0, <1>6, HandledKeepsHelper DEF PollsEvent, appVars, PollEvent, Running, running,
     QuietAfterQuit
<1>7. CASE Poll
  <2>1. app' = [app EXCEPT !.pc = "devices"] /\ UNCHANGED history
    BY <1>7 DEF Poll
  <2>2. /\ history'.quit /\ app'.suppressed /\ app'.timer = "none"
        /\ ~app'.moving /\ app'.attempted
    BY <1>0, <2>1 DEF Windows, QuietAfterQuit
  <2>3. ASSUME ~running PROVE ~running'
    <3>1. worker.proc = None /\ session.auxiliary = None
      BY <2>3 DEF Running, running
    <3>2. PICK failing, silent, overdue \in BOOLEAN : PollEnds(silent, overdue, failing)
      BY <1>7, <3>1, NoneAssumption DEF Poll, PollAuxiliaryRunning, PollAuxiliaryFailed,
         PollAuxiliaryEnded, Living, Dead
    <3>3. worker'.proc = None
      BY <3>1, <3>2, NoneAssumption DEF PollEnds, Killed, NoWorker
    <3>4. session'.auxiliary = None
      BY <3>1, <3>2, PollKeepsHelper
    <3> QED
      BY <3>3, <3>4 DEF Running, running
  <2> QED
    BY <2>2, <2>3
<1>8. CASE Devices
  <2>1. CASE inventory.sent = None
    <3>1. NoDial([app EXCEPT !.pc = "ui"])
      BY <1>8, <2>1 DEF Devices
    <3> QED
      BY <1>0, <1>2, <3>1 DEF Windows
  <2>2. CASE inventory.sent # None
    <3> DEFINE found == Reconciled(app, inventory.sent)
               known == [found EXCEPT !.pc = "ui"]
    <3>1. found \in Windows
      BY <1>0, <2>2, ReconciledIsTyped DEF InventoryTypeOK, Lists
    <3>2. found.suppressed /\ found.timer = "none" /\ ~found.moving /\ found.attempted
      BY <1>0 DEF Reconciled, Windows
    <3>3. known.suppressed => NoDial(known)
      BY <1>8, <2>2 DEF Devices
    <3> HIDE DEF found
    <3>4. /\ known \in Windows /\ known.suppressed /\ known.timer = "none"
          /\ ~known.moving /\ known.attempted
      BY <3>1, <3>2 DEF Windows
    <3> HIDE DEF known
    <3> QED
      BY <1>2, <3>3, <3>4
  <2> QED
    BY <2>1, <2>2
<1> QED
  BY <1>3, <1>4, <1>5, <1>6, <1>7, <1>8 DEF Frame

(* The attempt of a launch is made before anything can be pressed.         *)
LEMMA AttemptComesFirst ==
    ASSUME Inv, QuietAfterQuit, [Next]_vars
    PROVE  app'.pc \in {"poll", "devices", "ui"} => app'.attempted
<1> SUFFICES ASSUME app'.pc \in {"poll", "devices", "ui"} PROVE app'.attempted
  OBVIOUS
<1>0. app \in Windows
  BY DEF Inv, AppTypeOK
<1>1. app.pc \in {"poll", "devices", "ui"} => app.attempted
  BY DEF QuietAfterQuit
<1>2. ASSUME UNCHANGED app PROVE app'.attempted
  BY <1>1, <1>2
<1>3. ASSUME NEW a \in Windows, Pressed(a) PROVE FALSE
  BY <1>3 DEF Pressed, Windows
<1>4. ASSUME NEW a \in Windows, NoDial(a) \/ Dial(a) \/ AutoConnect(a)
      PROVE  app'.attempted = a.attempted /\ app'.pc = a.pc
  BY <1>4 DEF NoDial, Dial, AutoConnect, Windows
<1>5. CASE Frame
  <2>1. CASE TakePairing
    BY <1>0, <2>1 DEF TakePairing, Windows
  <2>2. CASE Move
    <3> DEFINE a == [Resolved(app) EXCEPT !.pc = "dial", !.moving = FALSE,
                         !.transport = "lan", !.retries = 0, !.suppressed = FALSE]
    <3>1. a \in Windows /\ a.pc = "dial"
      BY <1>0, ResolvedIsTyped, ZenonT(80) DEF Windows
    <3>2. AutoConnect(a)
      BY <2>2 DEF Move
    <3> HIDE DEF a
    <3> QED
      BY <1>4, <3>1, <3>2
  <2>3. CASE DialWhenDue
    <3>1. PICK a \in {IF app.pc = "dial" THEN app ELSE Resolved(app)} :
              \/ AutoConnect([a EXCEPT !.pc = "poll", !.attempted = TRUE])
              \/ /\ a.attempted
                 /\ \/ AutoConnect([a EXCEPT !.pc = "poll", !.timer = "none"])
                    \/ NoDial([a EXCEPT !.pc = "poll"])
      BY <2>3 DEF DialWhenDue
    <3>2. a \in Windows
      BY <1>0, ResolvedIsTyped
    <3>3. /\ [a EXCEPT !.pc = "poll", !.attempted = TRUE] \in Windows
          /\ [a EXCEPT !.pc = "poll", !.attempted = TRUE].attempted
      BY <3>2 DEF Windows
    <3>4. /\ [a EXCEPT !.pc = "poll", !.timer = "none"] \in Windows
          /\ [a EXCEPT !.pc = "poll", !.timer = "none"].attempted = a.attempted
      BY <3>2 DEF Windows
    <3>5. /\ [a EXCEPT !.pc = "poll"] \in Windows
          /\ [a EXCEPT !.pc = "poll"].attempted = a.attempted
      BY <3>2 DEF Windows
    <3> QED
      BY <1>4, <3>1, <3>3, <3>4, <3>5
  <2>4. CASE Poll
    BY <1>0, <1>1, <2>4 DEF Poll, Windows
  <2>5. CASE Devices
    <3>1. app.attempted
      BY <1>1, <2>5 DEF Devices
    <3>2. CASE inventory.sent = None
      BY <1>0, <3>1, <3>2, <2>5 DEF Devices, NoDial, Windows
    <3>3. CASE inventory.sent # None
      <4> DEFINE found == Reconciled(app, inventory.sent)
                 known == [found EXCEPT !.pc = "ui"]
      <4>1. found \in Windows /\ found.attempted = app.attempted
        <5>1. found \in Windows
          BY <1>0, <3>3, ReconciledIsTyped DEF Inv, InventoryTypeOK, Lists
        <5>2. found.attempted = app.attempted
          BY <1>0 DEF Reconciled, Windows
        <5> QED
          BY <5>1, <5>2
      <4>2. AutoConnect(known) \/ NoDial(known)
        BY <2>5, <3>3 DEF Devices
      <4> HIDE DEF found
      <4>3. known \in Windows /\ known.attempted = app.attempted
        BY <4>1 DEF Windows
      <4> HIDE DEF known
      <4> QED
        BY <1>4, <3>1, <4>2, <4>3
    <3> QED
      BY <3>2, <3>3
  <2> QED
    BY <1>5, <2>1, <2>2, <2>3, <2>4, <2>5 DEF Frame
<1>6. CASE User
  <2>1. CASE Quit
    BY <1>0, <2>1 DEF Quit, Windows
  <2>2. CASE ~Quit
    <3>1. \E a \in Windows : Pressed(a)
      <4>1. /\ [app EXCEPT !.timer = "none", !.suppressed = TRUE, !.recover = FALSE,
                           !.waiting = FALSE, !.left = FALSE, !.pending = FALSE] \in Windows
            /\ [app EXCEPT !.suppressed = FALSE, !.retries = 0, !.pending = TRUE,
                           !.waiting = FALSE, !.left = FALSE, !.recover = FALSE] \in Windows
            /\ \A transport \in {"usb", "lan"} : [app EXCEPT !.transport = transport] \in Windows
            /\ [app EXCEPT !.moving = TRUE, !.received = FALSE] \in Windows
            /\ [app EXCEPT !.received = FALSE] \in Windows
            /\ [app EXCEPT !.rotated = ~@] \in Windows
            /\ [app EXCEPT !.paired = FALSE] \in Windows
        BY <1>0, ZenonT(80) DEF Windows
      <4> QED
        BY <1>0, <1>6, <2>2, <4>1 DEF User, PressDisconnect, PressConnect, SelectTransport,
           PressSwitch, PressLater, Rotate, ForgetPhone, PressReplace, Click, Pressed
    <3> QED
      BY <1>3, <3>1
  <2> QED
    BY <2>1, <2>2
<1>7. CASE PollsEvent \/ Threads \/ Worker \/ Cable \/ UNCHANGED vars
  BY <1>2, <1>7 DEF PollsEvent, Threads, Worker, Cable, Plug, Unplug, ListUsb, appVars, vars
<1> QED
  BY <1>5, <1>6, <1>7 DEF Next

LEMMA QuietKeeps ==
    ASSUME Inv, QuietAfterQuit, [Next]_vars
    PROVE  /\ QuietAfterQuit'
           /\ history.quit /\ ~running => ~running' \/ ~history'.quit
<1> DEFINE Quiet(a) == a.suppressed /\ a.timer = "none" /\ ~a.moving /\ a.attempted
<1> SUFFICES /\ history'.quit => Quiet(app')
             /\ history.quit /\ ~running => ~running' \/ ~history'.quit
  BY AttemptComesFirst DEF QuietAfterQuit
<1>0. /\ app \in Windows
      /\ history \in [clicks : Nat, dials : Nat, returns : Nat, quit : BOOLEAN]
      /\ history.quit => Quiet(app)
      /\ app.pc = "ui" => app.attempted
  BY DEF Inv, AppTypeOK, HistoryTypeOK, QuietAfterQuit
<1>1. ASSUME UNCHANGED <<app, history>>
      PROVE  history'.quit => Quiet(app')
  BY <1>0, <1>1
<1>2. CASE Frame \/ PollsEvent
  <2>1. CASE history.quit
    BY <1>2, <2>1, FrameStaysQuiet
  <2>2. CASE ~history.quit
    <3>1. Heard.quit = history.quit
      BY <1>0 DEF Heard
    <3>2. ASSUME NEW a, NoDial(a) \/ Dial(a) \/ AutoConnect(a)
          PROVE  history'.quit = history.quit
      <4>1. Heard \in [clicks : Nat, dials : Nat, returns : Nat, quit : BOOLEAN]
        BY HeardIsTyped DEF Inv
      <4>2. history' = Heard \/ history' = [Heard EXCEPT !.dials = @ + 1]
        BY <3>2 DEF AutoConnect, NoDial, Dial
      <4> HIDE DEF Heard
      <4> QED
        BY <3>1, <4>1, <4>2
    <3>3. UNCHANGED history \/ \E a : NoDial(a) \/ Dial(a) \/ AutoConnect(a)
      BY <1>2 DEF Frame, TakePairing, Move, DialWhenDue, Poll, Devices, PollsEvent, appVars
    <3> QED
      BY <2>2, <3>2, <3>3
  <2> QED
    BY <2>1, <2>2
<1>3. CASE User
  <2>1. CASE Quit
    <3>1. running /\ UNCHANGED history /\ app' = [app EXCEPT !.pc = "gone"]
      BY <2>1 DEF Quit
    <3> QED
      BY <1>0, <3>1 DEF Windows
  <2>2. CASE PressConnect \/ PressSwitch
    <3>1. ~history'.quit
      BY <1>0, <2>2 DEF PressConnect, PressSwitch, AfterClick
    <3> QED
      BY <3>1
  <2>3. CASE PressDisconnect
    <3> DEFINE a == [app EXCEPT !.timer = "none", !.suppressed = TRUE, !.recover = FALSE,
                                !.waiting = FALSE, !.left = FALSE, !.pending = FALSE]
    <3>1. /\ running /\ app.attempted /\ app' = [a EXCEPT !.pc = "logic"]
          /\ history' = [AfterClick EXCEPT !.quit = ~app.moving]
      BY <1>0, <2>3 DEF PressDisconnect, Click, Pressed
    <3>2. history'.quit = ~app.moving
      BY <1>0, <3>1 DEF AfterClick
    <3>3. app'.suppressed /\ app'.timer = "none" /\ app'.moving = app.moving /\ app'.attempted
      BY <1>0, <3>1 DEF Windows
    <3> QED
      BY <3>1, <3>2, <3>3
  <2>4. CASE \/ PressLater \/ Rotate \/ PressReplace \/ ForgetPhone
             \/ \E transport \in {"usb", "lan"} : SelectTransport(transport)
    <3>1. history' = AfterClick /\ UNCHANGED worker
      BY <2>4 DEF PressLater, Rotate, PressReplace, ForgetPhone, SelectTransport, Click
    <3>2. history'.quit = history.quit
      BY <1>0, <3>1 DEF AfterClick
    <3>3. Quiet(app) => Quiet(app')
      BY <1>0, <2>4, ZenonT(80) DEF PressLater, Rotate, PressReplace, ForgetPhone, SelectTransport, Click,
                        Pressed, Windows
    <3>4. ASSUME ~running PROVE session'.auxiliary = None
      <4>1. session.auxiliary = None /\ worker.proc = None
        BY <3>4 DEF Running, running
      <4>2. \/ session' = session
            \/ session' = Transformed(session, worker, ~app.rotated)
            \/ session' = [session EXCEPT !.state = "Idle", !.error = None, !.permission = None]
            \/ \E ok \in BOOLEAN :
                   session' = [session EXCEPT !.state = IF ok THEN "Idle" ELSE @,
                                              !.error = IF ok THEN None ELSE @]
        BY <2>4 DEF PressLater, Rotate, PressReplace, ForgetPhone, SelectTransport, Click
      <4>3. Transformed(session, worker, ~app.rotated) = session
        BY <4>1 DEF Transformed, Running
      <4> QED
        BY <4>1, <4>2, <4>3 DEF Inv, SessionInv, SessionTypeOK
    <3>5. ~running => ~running'
      BY <3>1, <3>4 DEF Running, running
    <3> QED
      BY <1>0, <3>2, <3>3, <3>5
  <2> QED
    BY <1>3, <2>1, <2>2, <2>3, <2>4 DEF User
<1>4. CASE Threads
  <2>1. UNCHANGED <<app, history>>
    BY <1>4 DEF Threads, appVars
  <2>2. ASSUME ~running PROVE ~running'
    <3>1. session.auxiliary = None /\ worker.proc = None
      BY <2>2 DEF Running, running
    <3>2. worker'.proc = None /\ session'.auxiliary = None
      BY <1>4, <3>1, NoneAssumption DEF Threads, WriterStep, OutputEnds, ProcessEnds,
         DeadlinePasses, Dead, Inv, SessionInv, SessionTypeOK
    <3> QED
      BY <3>2 DEF Running, running
  <2> QED
    BY <1>1, <2>1, <2>2
<1>5. CASE Worker
  <2>1. UNCHANGED <<app, history>>
    BY <1>5 DEF Worker
  <2>2. running
    BY <1>5, NoneAssumption DEF Worker, WorkerConnects, WorkerConnectsLan, WorkerConnectsUsb,
       WorkerExchanges, WorkerStreams, WorkerStops, AuxiliaryEnds, WorkerAt, Running, running
  <2> QED
    BY <1>1, <2>1, <2>2
<1>6. CASE Cable \/ UNCHANGED vars
  <2>1. UNCHANGED <<app, session, worker>>
    BY <1>6 DEF Cable, Plug, Unplug, ListUsb, sessionVars, vars
  <2>2. history'.quit = history.quit
    BY <1>0, <1>6 DEF Cable, Plug, Unplug, ListUsb, vars
  <2> QED
    BY <1>0, <2>1, <2>2 DEF Running, running
<1> QED
  BY <1>2, <1>3, <1>4, <1>5, <1>6 DEF Next

-----------------------------------------------------------------------------
(* The rotation. *)

(* Steps that neither turn the picture nor start a worker.                 *)
LEMMA SameRotation ==
    ASSUME NewestTransform, app'.rotated = app.rotated,
           session'.restart \in {session.restart, None},
           worker'.proc = "alive" /\ ~session'.stop =>
               /\ worker.proc = "alive" /\ ~session.stop /\ session'.slot = session.slot
               /\ worker'.job = worker.job /\ worker'.rotated = worker.rotated
               /\ worker'.phase = "boot" <=> worker.phase = "boot"
    PROVE  NewestTransform'
BY DEF NewestTransform

LEMMA WorkerStartsTurned ==
    ASSUME Inv, NewestTransform, NEW j, j.rotated = app.rotated,
           app'.rotated = app.rotated, ~running, NEW ok \in BOOLEAN,
           Connect(j, ok) \/ AllowUsb(j, ok)
    PROVE  NewestTransform'
<1> USE NoneAssumption DEF Inv
<1>1. worker.proc = None /\ session.restart = None
  BY DEF SessionInv, OneProcess, Running, running
<1>2. \/ \E error : Refuse(Failed(session, error))
      \/ Refuse(NotSpawned(session))
      \/ \E switched : Refuse(Assisted(session, [job |-> j, switched |-> switched]))
      \/ /\ session' = Started(session) /\ worker' = Spawned(j) /\ pipe' = <<>>
  BY DEF Connect, AllowUsb, Setup, RunAuxiliary, StartWorker
<1>3. CASE \E error : Refuse(Failed(session, error))
  BY <1>1, <1>3 DEF NewestTransform, Refuse, Failed, SessionInv, SessionTypeOK
<1>4. CASE Refuse(NotSpawned(session))
  BY <1>1, <1>4 DEF NewestTransform, Refuse, NotSpawned, Failed, SessionInv, SessionTypeOK
<1>5. CASE \E switched : Refuse(Assisted(session, [job |-> j, switched |-> switched]))
  BY <1>1, <1>5 DEF NewestTransform, Refuse, Assisted, SessionInv, SessionTypeOK
<1>6. CASE session' = Started(session) /\ worker' = Spawned(j)
  BY <1>1, <1>6 DEF NewestTransform, Started, Spawned, NoWorker, SessionInv, SessionTypeOK
<1> QED
  BY <1>2, <1>3, <1>4, <1>5, <1>6

LEMMA DialsTurned ==
    ASSUME Inv, NewestTransform, NEW a \in Windows, a.rotated = app.rotated,
           NoDial(a) \/ AutoConnect(a)
    PROVE  NewestTransform'
<1> DEFINE left == a.left \/ Gone(a)
           waits == [a EXCEPT !.left = left, !.waiting = @ \/ Gone(a),
                              !.timer = IF a.suppressed THEN @ ELSE "armed"]
<1>1. NoDial(a) \/ NoDial(waits) \/ (~running /\ Dial(a))
  BY DEF AutoConnect
<1>2. waits.rotated = a.rotated
  BY DEF Windows
<1> HIDE DEF waits
<1>3. CASE NoDial(a) \/ NoDial(waits)
  BY <1>2, <1>3, SameRotation DEF NoDial, sessionVars
<1>4. CASE ~running /\ Dial(a)
  <2>1. PICK ok \in BOOLEAN :
            /\ Connect(JobOf(a), ok)
            /\ app' = [a EXCEPT !.waiting = IF a.transport = "usb" THEN FALSE ELSE @,
                                !.left = IF a.transport = "usb" THEN FALSE ELSE @,
                                !.pending = TRUE, !.timer = IF ok THEN "none" ELSE @]
    BY <1>4 DEF Dial
  <2>2. app'.rotated = app.rotated /\ JobOf(a).rotated = app.rotated
    BY <2>1 DEF Windows, JobOf, Job
  <2> QED
    BY <1>4, <2>1, <2>2, WorkerStartsTurned
<1> QED
  BY <1>1, <1>3, <1>4

(* The helper ends: its session begins with what was set meanwhile.        *)
LEMMA HelperTurned ==
    ASSUME Inv, NewestTransform, NEW device \in AnyPhone, NEW spawned \in BOOLEAN,
           PollAuxiliaryEnded(device, spawned), app'.rotated = app.rotated
    PROVE  NewestTransform'
<1> USE NoneAssumption DEF Inv, SessionInv
<1> DEFINE idle == [session EXCEPT !.auxiliary = None, !.restart = None,
                                   !.state = "Idle", !.error = None]
           job == session.restart.job
<1>1. /\ worker.proc = None
      /\ \/ /\ \/ session' = idle \/ session' = Failed(idle, "replug")
               \/ session' = NotSpawned(idle)
            /\ UNCHANGED worker
         \/ /\ session.restart # None /\ session' = Started(idle)
            /\ worker' = Spawned(IF session.restart.switched
                                 THEN [job EXCEPT !.device = device] ELSE job)
  BY DEF PollAuxiliaryEnded, OneProcess, Dead
<1>3. CASE UNCHANGED worker /\ session'.restart = None
  BY <1>1, <1>3 DEF NewestTransform
<1>4. CASE session.restart # None /\ session' = Started(idle)
  <2>1. job.rotated = app.rotated /\ job \in Jobs
    BY <1>4 DEF NewestTransform, SessionTypeOK
  <2>2. session'.slot = None /\ session'.restart = None
    BY <1>4 DEF Started, SessionTypeOK
  <2>3. worker' = Spawned(job) \/ worker' = Spawned([job EXCEPT !.device = device])
        \/ UNCHANGED worker
    BY <1>1
  <2>4. [job EXCEPT !.device = device].rotated = job.rotated
    BY <2>1 DEF Jobs
  <2> HIDE DEF job
  <2> QED
    BY <1>1, <2>1, <2>2, <2>3, <2>4 DEF NewestTransform, Spawned, NoWorker
<1>5. session' = idle \/ session' = Failed(idle, "replug") \/ session' = NotSpawned(idle)
      => session'.restart = None
  BY DEF SessionTypeOK, Failed, NotSpawned
<1> QED
  BY <1>1, <1>3, <1>4, <1>5

LEMMA FrameTurned ==
    ASSUME Inv, NewestTransform, Frame \/ PollsEvent
    PROVE  NewestTransform'
<1> USE NoneAssumption DEF Inv, SessionInv
<1>0. /\ app \in Windows /\ Resolved(app) \in Windows
      /\ Resolved(app).rotated = app.rotated
  <2>1. \A b \in Windows : Rearmed(b, session.error).rotated = b.rotated
    BY DEF Rearmed, Windows
  <2>2. /\ [app EXCEPT !.pending = FALSE, !.recover = FALSE] \in Windows
        /\ [app EXCEPT !.pending = FALSE, !.recover = FALSE].rotated = app.rotated
    BY DEF AppTypeOK, Windows
  <2>3. Resolved(app).rotated = app.rotated
    BY <2>1, <2>2 DEF Resolved, AppTypeOK, Windows
  <2> QED
    BY <2>3, ResolvedIsTyped DEF AppTypeOK
<1>1. CASE TakePairing
  BY <1>0, <1>1, SameRotation DEF TakePairing, Windows, SessionTypeOK
<1>2. CASE Move
  <2> DEFINE a == [Resolved(app) EXCEPT !.pc = "dial", !.moving = FALSE,
                       !.transport = "lan", !.retries = 0, !.suppressed = FALSE]
  <2>1. a \in Windows /\ a.rotated = app.rotated
    BY <1>0 DEF Windows
  <2>2. AutoConnect(a)
    BY <1>2 DEF Move
  <2> HIDE DEF a
  <2> QED
    BY <2>1, <2>2, DialsTurned
<1>3. CASE DialWhenDue
  <2>1. PICK a \in {IF app.pc = "dial" THEN app ELSE Resolved(app)} :
            \/ AutoConnect([a EXCEPT !.pc = "poll", !.attempted = TRUE])
            \/ AutoConnect([a EXCEPT !.pc = "poll", !.timer = "none"])
            \/ NoDial([a EXCEPT !.pc = "poll"])
    BY <1>3 DEF DialWhenDue
  <2>2. a \in Windows /\ a.rotated = app.rotated
    BY <1>0
  <2>3. /\ [a EXCEPT !.pc = "poll", !.attempted = TRUE] \in Windows
        /\ [a EXCEPT !.pc = "poll", !.attempted = TRUE].rotated = a.rotated
    BY <2>2 DEF Windows
  <2>4. /\ [a EXCEPT !.pc = "poll", !.timer = "none"] \in Windows
        /\ [a EXCEPT !.pc = "poll", !.timer = "none"].rotated = a.rotated
    BY <2>2 DEF Windows
  <2>5. /\ [a EXCEPT !.pc = "poll"] \in Windows
        /\ [a EXCEPT !.pc = "poll"].rotated = a.rotated
    BY <2>2 DEF Windows
  <2> QED
    BY <2>1, <2>2, <2>3, <2>4, <2>5, DialsTurned
<1>4. CASE PollsEvent
  <2>1. PollEvent /\ UNCHANGED <<app, worker>>
    BY <1>4 DEF PollsEvent, appVars, PollEvent
  <2> QED
    BY <2>1, HandledKeepsHelper, SameRotation
<1>5. CASE Poll
  <2>1. app'.rotated = app.rotated
    BY <1>0, <1>5 DEF Poll, Windows
  <2>2. CASE \E silent, overdue, failing \in BOOLEAN : PollEnds(silent, overdue, failing)
    <3>1. PICK silent, overdue, failing \in BOOLEAN : PollEnds(silent, overdue, failing)
      BY <2>2
    <3>2. worker' = worker \/ worker' = NoWorker \/ worker' = Killed(worker)
      BY <3>1 DEF PollEnds
    <3>3. worker'.proc = "alive" => worker' = worker
      BY <3>2 DEF Killed, Corpse, NoWorker
    <3> QED
      BY <2>1, <3>1, <3>3, PollKeepsHelper, SameRotation
  <2>3. CASE PollAuxiliaryRunning
    BY <2>1, <2>3, SameRotation DEF PollAuxiliaryRunning, sessionVars
  <2>4. CASE \E failing \in BOOLEAN : PollAuxiliaryFailed(failing)
    <3>1. session'.restart = None /\ UNCHANGED worker /\ worker.proc = None
      BY <2>4 DEF PollAuxiliaryFailed, Failed, SessionTypeOK, OneProcess, Dead
    <3> QED
      BY <3>1 DEF NewestTransform
  <2>5. CASE \E spawned \in BOOLEAN :
                 PollAuxiliaryEnded(IF session.restart = None THEN None
                     ELSE SwitchedIdentity(session.restart.job.device), spawned)
    <3>1. (IF session.restart = None THEN None
           ELSE SwitchedIdentity(session.restart.job.device)) \in AnyPhone
      BY DEF SwitchedIdentity, BusTypeOK, AnyPhone
    <3> QED
      BY <2>1, <2>5, <3>1, HelperTurned
  <2> QED
    BY <1>5, <2>2, <2>3, <2>4, <2>5 DEF Poll, Fault
<1>6. CASE Devices
  <2>1. CASE inventory.sent = None
    <3>1. NoDial([app EXCEPT !.pc = "ui"])
      BY <1>6, <2>1 DEF Devices
    <3>2. [app EXCEPT !.pc = "ui"] \in Windows /\ [app EXCEPT !.pc = "ui"].rotated = app.rotated
      BY <1>0 DEF Windows
    <3> QED
      BY <3>1, <3>2, DialsTurned
  <2>2. CASE inventory.sent # None
    <3> DEFINE found == Reconciled(app, inventory.sent)
               known == [found EXCEPT !.pc = "ui"]
    <3>1. found \in Windows
      BY <1>0, <2>2, ReconciledIsTyped DEF InventoryTypeOK, Lists
    <3>2. found.rotated = app.rotated
      BY <1>0 DEF Reconciled, Windows
    <3>3. AutoConnect(known) \/ NoDial(known)
      BY <1>6, <2>2 DEF Devices
    <3> HIDE DEF found
    <3>4. known \in Windows /\ known.rotated = app.rotated
      BY <3>1, <3>2 DEF Windows
    <3> HIDE DEF known
    <3> QED
      BY <3>3, <3>4, DialsTurned
  <2> QED
    BY <2>1, <2>2
<1> QED
  BY <1>1, <1>2, <1>3, <1>4, <1>5, <1>6 DEF Frame

LEMMA UserTurned ==
    ASSUME Inv, NewestTransform, User
    PROVE  NewestTransform'
<1> USE NoneAssumption DEF Inv, SessionInv
<1>0. app \in Windows
  BY DEF AppTypeOK
<1>1. CASE PressConnect
  <2>1. PICK ok \in BOOLEAN : AllowUsb(DeniedJob(app), ok) \/ Connect(JobOf(app), ok)
    BY <1>1 DEF PressConnect
  <2>2. ~running /\ app'.rotated = app.rotated
    BY <1>0, <1>1 DEF PressConnect, Pressed, Windows
  <2>3. DeniedJob(app).rotated = app.rotated /\ JobOf(app).rotated = app.rotated
    BY DEF DeniedJob, JobOf, Job
  <2> QED
    BY <2>1, <2>2, <2>3, WorkerStartsTurned
<1>2. CASE PressDisconnect \/ PressSwitch
  <2>1. app'.rotated = app.rotated /\ UNCHANGED worker
    BY <1>0, <1>2 DEF PressDisconnect, PressSwitch, Click, Pressed, Windows
  <2>2. session' = Stopped(session, worker)
    BY <1>2 DEF PressDisconnect, PressSwitch, Click
  <2>3. /\ session'.restart \in {session.restart, None}
        /\ worker.proc = "alive" => session'.stop
    BY <2>2 DEF Stopped, SessionTypeOK, OneProcess, Running
  <2> QED
    BY <2>1, <2>3, SameRotation
<1>3. CASE Rotate
  <2>1. app'.rotated = ~app.rotated /\ UNCHANGED worker
    BY <1>0, <1>3 DEF Rotate, Click, Pressed, Windows
  <2>2. session' = Transformed(session, worker, ~app.rotated) /\ (~app.rotated) \in BOOLEAN
    BY <1>0, <1>3 DEF Rotate, Click, Windows
  <2>3. /\ session'.restart # None => session'.restart.job.rotated = ~app.rotated
        /\ worker.proc = "alive" => session'.slot = ~app.rotated
    BY <2>2 DEF Transformed, SessionTypeOK, Jobs, OneProcess, Running
  <2>4. session'.restart # None => session'.restart.job.rotated = app'.rotated
    BY <2>1, <2>3
  <2>5. worker'.proc = "alive" => session'.slot = app'.rotated /\ session'.slot # None
    BY <2>1, <2>2, <2>3
  <2> QED
    BY <2>4, <2>5 DEF NewestTransform
<1>4. CASE PressLater \/ PressReplace \/ ForgetPhone
           \/ \E transport \in {"usb", "lan"} : SelectTransport(transport)
  <2>1. app'.rotated = app.rotated /\ UNCHANGED worker
    BY <1>0, <1>4 DEF PressLater, PressReplace, ForgetPhone, SelectTransport, Click, Pressed,
       Windows
  <2>2. \/ session' = session
        \/ session' = [session EXCEPT !.state = "Idle", !.error = None, !.permission = None]
        \/ \E ok \in BOOLEAN :
               session' = [session EXCEPT !.state = IF ok THEN "Idle" ELSE @,
                                          !.error = IF ok THEN None ELSE @]
    BY <1>4 DEF PressLater, PressReplace, ForgetPhone, SelectTransport, Click
  <2>3. /\ session'.restart = session.restart /\ session'.stop = session.stop
        /\ session'.slot = session.slot
    BY <2>2 DEF SessionTypeOK
  <2> QED
    BY <2>1, <2>3, SameRotation
<1>5. CASE Quit
  <2>1. app'.rotated = app.rotated /\ Dropped
    BY <1>0, <1>5 DEF Quit, Windows
  <2>2. session'.restart = session.restart /\ worker'.proc # "alive"
    BY <2>1 DEF Dropped, Killed, Corpse, NoWorker, SessionTypeOK
  <2> QED
    BY <2>1, <2>2, SameRotation
<1> QED
  BY <1>1, <1>2, <1>3, <1>4, <1>5 DEF User

LEMMA ThreadsTurned ==
    ASSUME Inv, NewestTransform, Threads
    PROVE  NewestTransform'
<1> USE NoneAssumption DEF Inv, SessionInv
<1>1. UNCHANGED app /\ (WriterStep \/ OutputEnds \/ ProcessEnds \/ DeadlinePasses)
  BY DEF Threads, appVars
<1>2. CASE WriterStep
  <2>1. session'.restart = session.restart /\ session'.stop = session.stop
    BY <1>2 DEF WriterStep, SessionTypeOK
  <2>2. CASE /\ session.writer = "start" /\ worker.phase = "boot"
             /\ session' = [session EXCEPT !.writer = "loop"]
             /\ worker' = [worker EXCEPT !.phase = "started", !.rotated = worker.job.rotated]
    <3>1. /\ worker'.phase = "started" /\ worker'.rotated = worker.job.rotated
          /\ worker'.proc = worker.proc /\ session'.slot = session.slot
      BY <2>2 DEF WorkerTypeOK, SessionTypeOK
    <3>2. session'.restart # None => session'.restart.job.rotated = app'.rotated
      BY <1>1, <2>1 DEF NewestTransform
    <3>3. CASE session.slot # None
      BY <1>1, <2>1, <3>1, <3>2, <3>3 DEF NewestTransform
    <3>4. CASE session.slot = None
      <4>1. worker.proc = "alive" /\ ~session.stop => app'.rotated = worker'.rotated
        BY <1>1, <2>2, <3>1, <3>4 DEF NewestTransform
      <4> QED
        BY <2>1, <3>1, <3>2, <3>4, <4>1 DEF NewestTransform
    <3> QED
      BY <3>3, <3>4
  <2>3. CASE /\ session.writer = "loop" /\ session.slot # None
             /\ session' = [session EXCEPT !.slot = None]
             /\ worker' = [worker EXCEPT !.rotated = session.slot]
    <3>1. /\ worker'.phase = worker.phase /\ worker'.rotated = session.slot
          /\ worker'.proc = worker.proc /\ session'.slot = None
      BY <2>3 DEF WorkerTypeOK, SessionTypeOK
    <3>2. worker.proc = "alive" => worker.phase # "boot"
      BY <2>3 DEF StartComesFirst
    <3> QED
      BY <1>1, <2>1, <2>3, <3>1, <3>2 DEF NewestTransform
  <2>4. CASE session.stop
    <3>1. worker'.proc = worker.proc
      BY <1>2 DEF WriterStep, WorkerTypeOK
    <3> QED
      BY <1>1, <2>1, <2>4, SameRotation
  <2> QED
    BY <1>2, <2>2, <2>3, <2>4 DEF WriterStep
<1>3. CASE OutputEnds
  BY <1>1, <1>3, SameRotation DEF OutputEnds
<1>4. CASE ProcessEnds
  <2>1. /\ session'.restart = session.restart /\ session'.stop = session.stop
        /\ session'.slot = session.slot
        /\ worker'.proc # "alive" \/ worker' = worker
    BY <1>4 DEF ProcessEnds, Corpse, NoWorker, SessionTypeOK
  <2> QED
    BY <1>1, <2>1, SameRotation
<1>5. CASE DeadlinePasses
  <2>1. /\ session'.restart = session.restart /\ session'.stop = session.stop
        /\ session'.slot = session.slot /\ worker' = worker
    BY <1>5 DEF DeadlinePasses, SessionTypeOK
  <2> QED
    BY <1>1, <2>1, SameRotation
<1> QED
  BY <1>1, <1>2, <1>3, <1>4, <1>5

LEMMA WorkerTurned ==
    ASSUME Inv, NewestTransform, Worker
    PROVE  NewestTransform'
<1> USE NoneAssumption DEF Inv, SessionInv
<1>1. UNCHANGED app
  BY DEF Worker
<1>2. CASE AuxiliaryEnds
  <2>1. /\ session'.restart = session.restart /\ session'.stop = session.stop
        /\ session'.slot = session.slot /\ worker' = worker
    BY <1>2 DEF AuxiliaryEnds, SessionTypeOK
  <2> QED
    BY <1>1, <2>1, SameRotation
<1>3. CASE ~AuxiliaryEnds
  <2>1. /\ worker.phase # "boot" /\ UNCHANGED session
        /\ \E phase \in {"connecting", "exchange", "approval", "stream", "failed", "ended"} :
               worker' = [worker EXCEPT !.phase = phase]
    BY <1>3 DEF Worker, WorkerConnects, WorkerConnectsLan, WorkerConnectsUsb, WorkerExchanges,
       WorkerStreams, WorkerStops, WorkerAt, WorkerFails, Proceeds
  <2>2. /\ worker'.phase # "boot" /\ worker'.proc = worker.proc
        /\ worker'.job = worker.job /\ worker'.rotated = worker.rotated
    BY <2>1 DEF WorkerTypeOK
  <2> QED
    BY <1>1, <2>1, <2>2, SameRotation
<1> QED
  BY <1>2, <1>3

-----------------------------------------------------------------------------
(* Retries.  Ahead counts the dials that may still come without a press,   *)
(* a plug or a phone that answers.                                         *)

Num(b) == IF b THEN 1 ELSE 0
Budget(a) == IF a.retries < AutoRetryLimit THEN AutoRetryLimit - a.retries ELSE 0

(* A failure that the window has seen already, or will not count.          *)
SettledFor(a) == ~(session.state = "Failed" /\ (a.pending \/ a.recover))
Settled == app.pc = "dial" \/ SettledFor(app)

(* What may dial: a timer, unless a failure sets it anew or the cable is   *)
(* waited for; a phone that has left and is back; a phone whose return is  *)
(* still to be read from a list; and any list after a move to Wi-Fi.       *)
Due(a, settled) == settled /\ a.timer = "armed" /\ (a.transport = "usb" => ~a.waiting)
Ready(a) == a.waiting /\ a.left /\ ~Gone(a)
Returning(gone) ==
    IF inventory.sent = None THEN gone /\ bus.phone # None
    ELSE IF inventory.sent = {} THEN bus.phone # None ELSE gone
Listing == inventory.enabled \/ inventory.sent # None

Ahead(a, settled, returning, listing) ==
    IF a.moving
    THEN IF a.transport = "usb"
         THEN 3 + AutoRetryLimit + Num(Ready(a) \/ returning)
         ELSE 2 + AutoRetryLimit + Num(a.waiting /\ listing)
    ELSE Num(~a.attempted) + Budget(a) + Num(Due(a, settled))
         + (IF a.transport = "usb" THEN Num(Ready(a)) + Num(returning)
            ELSE Num(a.waiting /\ listing))
CableBack == Returning(Gone(app))
AheadNow == Ahead(app, Settled, CableBack, Listing)

(* The invariant of RetriesAreBounded.                                     *)
DialsAreCounted == history.dials + AheadNow <= 4 + AutoRetryLimit + history.returns
WaitsAreKnown ==
    /\ app.left => app.waiting
    /\ app.moving => app.attempted /\ app.pc # "dial"
    /\ session.listening => worker.proc # None
RetryInv == DialsAreCounted /\ WaitsAreKnown

-----------------------------------------------------------------------------
LEMMA AheadIsBounded ==
    ASSUME NEW a \in Windows, NEW settled \in BOOLEAN, NEW returning \in BOOLEAN,
           NEW listing \in BOOLEAN
    PROVE  /\ Ahead(a, settled, returning, listing) \in Nat
           /\ Ahead(a, settled, returning, listing) <= 4 + AutoRetryLimit
<1>1. /\ AutoRetryLimit \in Nat \ {0} /\ a.retries \in Nat
      /\ a.transport \in {"usb", "lan"}
  BY HostAppAssumption DEF Windows
<1>2. Budget(a) \in 0..AutoRetryLimit
  BY <1>1 DEF Budget
<1>3. \A b \in BOOLEAN : Num(b) \in {0, 1}
  BY DEF Num
<1>4. /\ Num(~a.attempted) \in {0, 1} /\ Num(Ready(a) \/ returning) \in {0, 1}
      /\ Num(a.waiting /\ listing) \in {0, 1} /\ Num(returning) \in {0, 1}
  BY DEF Num
<1>5. Num(Due(a, settled)) \in {0, 1} /\ Num(Ready(a)) \in {0, 1}
  BY DEF Num
<1>6. a.transport = "usb" => Num(Due(a, settled)) + Num(Ready(a)) <= 1
  BY DEF Num, Due, Ready
<1> QED
  BY <1>1, <1>2, <1>4, <1>5, <1>6 DEF Ahead

(* No more is ahead in b than in a, part by part.                          *)
LEMMA NoMoreAhead ==
    ASSUME NEW a \in Windows, NEW settled \in BOOLEAN, NEW returning \in BOOLEAN,
           NEW listing \in BOOLEAN,
           NEW b \in Windows, NEW settled2 \in BOOLEAN, NEW returning2 \in BOOLEAN,
           NEW listing2 \in BOOLEAN,
           b.transport = a.transport, b.moving = a.moving, b.attempted = a.attempted,
           ~a.moving => Budget(b) + Num(Due(b, settled2)) <= Budget(a) + Num(Due(a, settled)),
           a.transport = "usb" =>
               /\ Ready(b) \/ returning2 => Ready(a) \/ returning
               /\ Num(Ready(b)) + Num(returning2) <= Num(Ready(a)) + Num(returning),
           a.transport = "lan" => (b.waiting /\ listing2 => a.waiting /\ listing)
    PROVE  Ahead(b, settled2, returning2, listing2) <= Ahead(a, settled, returning, listing)
<1>0. AutoRetryLimit \in Nat /\ Budget(a) \in Nat /\ Budget(b) \in Nat
      /\ a.transport \in {"usb", "lan"} /\ a.moving \in BOOLEAN
  BY HostAppAssumption DEF Budget, Windows
<1>1. /\ Num(Due(b, settled2)) \in {0, 1} /\ Num(Due(a, settled)) \in {0, 1}
      /\ Num(~b.attempted) \in {0, 1} /\ Num(~b.attempted) = Num(~a.attempted)
      /\ Num(Ready(b)) \in {0, 1} /\ Num(Ready(a)) \in {0, 1}
      /\ Num(returning) \in {0, 1} /\ Num(returning2) \in {0, 1}
  BY DEF Num
<1>2. CASE a.moving /\ a.transport = "usb"
  <2>1. /\ Ahead(a, settled, returning, listing) = 3 + AutoRetryLimit + Num(Ready(a) \/ returning)
        /\ Ahead(b, settled2, returning2, listing2)
             = 3 + AutoRetryLimit + Num(Ready(b) \/ returning2)
    BY <1>2 DEF Ahead
  <2>2. Num(Ready(b) \/ returning2) <= Num(Ready(a) \/ returning)
        /\ Num(Ready(b) \/ returning2) \in {0, 1} /\ Num(Ready(a) \/ returning) \in {0, 1}
    BY <1>2 DEF Num
  <2> QED
    BY <1>0, <2>1, <2>2
<1>3. CASE a.moving /\ a.transport = "lan"
  <2>1. /\ Ahead(a, settled, returning, listing) = 2 + AutoRetryLimit + Num(a.waiting /\ listing)
        /\ Ahead(b, settled2, returning2, listing2)
             = 2 + AutoRetryLimit + Num(b.waiting /\ listing2)
    BY <1>3 DEF Ahead
  <2>2. Num(b.waiting /\ listing2) <= Num(a.waiting /\ listing)
        /\ Num(b.waiting /\ listing2) \in {0, 1} /\ Num(a.waiting /\ listing) \in {0, 1}
    BY <1>3 DEF Num
  <2> QED
    BY <1>0, <2>1, <2>2
<1>4. CASE ~a.moving /\ a.transport = "usb"
  <2>1. /\ Ahead(a, settled, returning, listing)
             = Num(~a.attempted) + Budget(a) + Num(Due(a, settled))
               + (Num(Ready(a)) + Num(returning))
        /\ Ahead(b, settled2, returning2, listing2)
             = Num(~b.attempted) + Budget(b) + Num(Due(b, settled2))
               + (Num(Ready(b)) + Num(returning2))
    BY <1>4 DEF Ahead
  <2> QED
    BY <1>0, <1>1, <1>4, <2>1
<1>5. CASE ~a.moving /\ a.transport = "lan"
  <2>1. /\ Ahead(a, settled, returning, listing)
             = Num(~a.attempted) + Budget(a) + Num(Due(a, settled)) + Num(a.waiting /\ listing)
        /\ Ahead(b, settled2, returning2, listing2)
             = Num(~b.attempted) + Budget(b) + Num(Due(b, settled2)) + Num(b.waiting /\ listing2)
    BY <1>5 DEF Ahead
  <2>2. Num(b.waiting /\ listing2) <= Num(a.waiting /\ listing)
        /\ Num(b.waiting /\ listing2) \in {0, 1} /\ Num(a.waiting /\ listing) \in {0, 1}
    BY <1>5 DEF Num
  <2> QED
    BY <1>0, <1>1, <1>5, <2>1, <2>2
<1> QED
  BY <1>0, <1>2, <1>3, <1>4, <1>5

LEMMA RetryFields ==
    ASSUME Inv
    PROVE  /\ app \in Windows /\ Settled \in BOOLEAN /\ Listing \in BOOLEAN
           /\ \A gone \in BOOLEAN : Returning(gone) \in BOOLEAN
           /\ \A a \in Windows : Gone(a) \in BOOLEAN /\ SettledFor(a) \in BOOLEAN
           /\ history.dials \in Nat /\ history.returns \in Nat
           /\ AutoRetryLimit \in Nat
<1>1. app \in Windows /\ history.dials \in Nat /\ history.returns \in Nat /\ AutoRetryLimit \in Nat
  BY HostAppAssumption DEF Inv, AppTypeOK, HistoryTypeOK
<1>2. inventory.enabled \in BOOLEAN
  BY DEF Inv, InventoryTypeOK
<1> QED
  BY <1>1, <1>2 DEF Settled, SettledFor, Listing, Returning, Gone, Windows

(* Whatever is under way, there is a bound on what it dials.               *)
AheadFits == AheadNow \in Nat /\ AheadNow <= 4 + AutoRetryLimit

LEMMA AheadHasABound == Inv => AheadFits
<1> SUFFICES ASSUME Inv PROVE AheadFits
  OBVIOUS
<1>1. Gone(app) \in BOOLEAN /\ CableBack \in BOOLEAN
  BY RetryFields DEF CableBack
<1> QED
  BY <1>1, RetryFields, AheadIsBounded DEF AheadNow, AheadFits

(* A press starts the count again.                                         *)
LEMMA PressCountsAnew ==
    ASSUME Inv', history'.dials = 0
    PROVE  DialsAreCounted'
<1>1. AheadFits'
  BY AheadHasABound, PTL
<1>2. history'.returns \in Nat /\ AutoRetryLimit \in Nat
  BY HostAppAssumption DEF Inv, HistoryTypeOK
<1> QED
  BY <1>1, <1>2 DEF DialsAreCounted, AheadFits

(* What logic() makes of a failure opens no dial that was not counted.     *)
LEMMA ResolvedKeepsFields ==
    ASSUME NEW a \in Windows, a.left => a.waiting
    PROVE  /\ Resolved(a) \in Windows
           /\ Resolved(a).transport = a.transport /\ Resolved(a).moving = a.moving
           /\ Resolved(a).attempted = a.attempted
           /\ Gone(Resolved(a)) = Gone(a)
           /\ Resolved(a).left => Resolved(a).waiting
<1> DEFINE b == [a EXCEPT !.pending = FALSE, !.recover = FALSE]
<1>1. /\ b \in Windows /\ b.transport = a.transport /\ b.moving = a.moving
      /\ b.attempted = a.attempted /\ Gone(b) = Gone(a)
      /\ b.left => b.waiting
  BY DEF Windows, Gone
<1> HIDE DEF b
<1>2. /\ Rearmed(b, session.error).transport = b.transport
      /\ Rearmed(b, session.error).moving = b.moving
      /\ Rearmed(b, session.error).attempted = b.attempted
      /\ Rearmed(b, session.error).lost = b.lost
      /\ Rearmed(b, session.error).selected = b.selected
      /\ Rearmed(b, session.error).left => Rearmed(b, session.error).waiting
  BY <1>1 DEF Rearmed, Windows
<1>3. Gone(Rearmed(b, session.error)) = Gone(b)
  BY <1>2 DEF Gone
<1>4. \/ Resolved(a) = Rearmed(b, session.error)
      \/ Resolved(a) = a
      \/ Resolved(a) = [a EXCEPT !.pending = FALSE, !.retries = 0, !.timer = "none",
                                 !.recover = TRUE, !.waiting = FALSE, !.left = FALSE]
      \/ Resolved(a) = [a EXCEPT !.pending = FALSE, !.recover = TRUE, !.timer = "none"]
  BY DEF Resolved, b
<1>5. Resolved(a) \in Windows
  BY ResolvedIsTyped
<1>6. CASE Resolved(a) = Rearmed(b, session.error)
  BY <1>1, <1>2, <1>3, <1>5, <1>6
<1>7. CASE Resolved(a) # Rearmed(b, session.error)
  <2>1. /\ Resolved(a).transport = a.transport /\ Resolved(a).moving = a.moving
        /\ Resolved(a).attempted = a.attempted /\ Resolved(a).lost = a.lost
        /\ Resolved(a).selected = a.selected
        /\ Resolved(a).left => Resolved(a).waiting
    BY <1>4, <1>7 DEF Windows
  <2> QED
    BY <1>5, <2>1 DEF Gone
<1> QED
  BY <1>6, <1>7

LEMMA RearmedSpends ==
    ASSUME NEW a \in Windows, a.left => a.waiting, NEW error,
           NEW settled \in BOOLEAN, NEW settled2 \in BOOLEAN,
           NEW returning \in BOOLEAN, NEW listing \in BOOLEAN
    PROVE  Ahead(Rearmed(a, error), settled2, returning, listing)
               <= Ahead(a, settled, returning, listing)
<1> DEFINE b == Rearmed(a, error)
<1>0. AutoRetryLimit \in Nat \ {0} /\ a.retries \in Nat /\ b \in Windows
  BY HostAppAssumption, RearmedIsTyped DEF Windows
<1>1. /\ b.transport = a.transport /\ b.moving = a.moving /\ b.attempted = a.attempted
      /\ Gone(b) = Gone(a) /\ a.transport \in {"usb", "lan"}
  BY DEF Rearmed, Windows, Gone
<1>2. /\ Ready(b) => Ready(a)
      /\ a.transport = "lan" => (b.waiting => a.waiting)
  BY <1>1 DEF Rearmed, Windows, Ready, Gone
<1>3. \/ b.timer = "none" /\ b.retries \in {a.retries, AutoRetryLimit + 1}
      \/ a.transport = "usb" /\ b.waiting /\ b.retries = a.retries
      \/ a.retries < AutoRetryLimit /\ b.retries = a.retries + 1
  BY <1>0 DEF Rearmed, Windows
<1> HIDE DEF b
<1>4. Budget(b) + Num(Due(b, settled2)) <= Budget(a) + Num(Due(a, settled))
  <2>0. Num(Due(a, settled)) \in {0, 1} /\ Num(Due(b, settled2)) \in {0, 1}
    BY DEF Num
  <2>1. Budget(a) \in Nat /\ Budget(b) \in Nat /\ b.retries \in Nat
    BY <1>0 DEF Budget, Windows
  <2>2. CASE b.timer = "none" /\ b.retries \in {a.retries, AutoRetryLimit + 1}
    <3>1. Num(Due(b, settled2)) = 0
      BY <2>2 DEF Num, Due
    <3>2. Budget(b) <= Budget(a)
      BY <1>0, <2>2 DEF Budget
    <3> QED
      BY <2>0, <2>1, <3>1, <3>2
  <2>3. CASE a.transport = "usb" /\ b.waiting /\ b.retries = a.retries
    <3>1. Num(Due(b, settled2)) = 0
      BY <1>1, <2>3 DEF Num, Due
    <3>2. Budget(b) = Budget(a)
      BY <2>3 DEF Budget
    <3> QED
      BY <2>0, <2>1, <3>1, <3>2
  <2>4. CASE a.retries < AutoRetryLimit /\ b.retries = a.retries + 1
    <3>1. Budget(b) + 1 <= Budget(a)
      BY <1>0, <2>4 DEF Budget
    <3> QED
      BY <2>0, <2>1, <3>1
  <2> QED
    BY <1>3, <2>2, <2>3, <2>4
<1>5. Num(Ready(b)) + Num(returning) <= Num(Ready(a)) + Num(returning)
  BY <1>2 DEF Num
<1>6. Ahead(b, settled2, returning, listing) <= Ahead(a, settled, returning, listing)
  BY <1>0, <1>1, <1>2, <1>4, <1>5, NoMoreAhead
<1> QED
  BY <1>6 DEF b

LEMMA ResolvedSpends ==
    ASSUME NEW a \in Windows, a.left => a.waiting,
           session.state \notin {"Waiting", "Streaming"},
           NEW settled \in BOOLEAN, NEW settled2 \in BOOLEAN, SettledFor(a) => settled,
           NEW returning \in BOOLEAN, NEW listing \in BOOLEAN
    PROVE  Ahead(Resolved(a), settled2, returning, listing)
               <= Ahead(a, settled, returning, listing)
<1> DEFINE b == [a EXCEPT !.pending = FALSE, !.recover = FALSE]
           c == [a EXCEPT !.pending = FALSE, !.recover = TRUE, !.timer = "none"]
<1>0. AutoRetryLimit \in Nat \ {0} /\ a.retries \in Nat
  BY HostAppAssumption DEF Windows
<1>1. ASSUME NEW d \in Windows, d.transport = a.transport, d.moving = a.moving,
             d.attempted = a.attempted, d.retries = a.retries, d.waiting = a.waiting,
             Ready(d) = Ready(a), Due(d, settled2) => Due(a, settled)
      PROVE  Ahead(d, settled2, returning, listing) <= Ahead(a, settled, returning, listing)
  <2>1. Budget(d) = Budget(a) /\ Budget(a) \in Nat
    BY <1>0, <1>1 DEF Budget
  <2>2. /\ Num(Due(d, settled2)) <= Num(Due(a, settled)) /\ Num(Ready(d)) = Num(Ready(a))
        /\ Num(Due(d, settled2)) \in {0, 1} /\ Num(Due(a, settled)) \in {0, 1}
        /\ Num(Ready(a)) \in {0, 1} /\ Num(returning) \in {0, 1}
    BY <1>1 DEF Num
  <2>3. Budget(d) + Num(Due(d, settled2)) <= Budget(a) + Num(Due(a, settled))
    BY <2>1, <2>2
  <2>4. Num(Ready(d)) + Num(returning) <= Num(Ready(a)) + Num(returning)
    BY <2>2
  <2> QED
    BY <1>1, <2>3, <2>4, NoMoreAhead
<1>2. CASE session.state \in {"Connecting", "ApprovalPending"}
  <2>1. Resolved(a) = c
    BY <1>2 DEF Resolved
  <2>2. /\ c \in Windows /\ c.transport = a.transport /\ c.moving = a.moving
        /\ c.attempted = a.attempted /\ c.retries = a.retries /\ c.waiting = a.waiting
        /\ Ready(c) = Ready(a) /\ ~Due(c, settled2)
    BY DEF Windows, Ready, Gone, Due
  <2> HIDE DEF c
  <2> QED
    BY <1>1, <2>1, <2>2
<1>3. CASE session.state = "Failed" /\ (a.pending \/ a.recover)
  <2>1. Resolved(a) = Rearmed(b, session.error)
    BY <1>3 DEF Resolved
  <2>2. /\ b \in Windows
        /\ b.left => b.waiting
        /\ b.transport = a.transport /\ b.moving = a.moving /\ b.attempted = a.attempted
        /\ b.retries = a.retries /\ b.waiting = a.waiting /\ b.timer = a.timer
        /\ Ready(b) = Ready(a)
    BY DEF Windows, Ready, Gone
  <2> HIDE DEF b
  <2>3. PICK s \in BOOLEAN : ~s
    OBVIOUS
  <2>4. Ahead(b, s, returning, listing) <= Ahead(a, settled, returning, listing)
    <3>1. ~Due(b, s) /\ Budget(b) = Budget(a) /\ Budget(a) \in Nat
      BY <1>0, <2>2, <2>3 DEF Due, Budget
    <3>2. /\ Num(Due(b, s)) = 0 /\ Num(Due(a, settled)) \in {0, 1}
          /\ Num(Ready(b)) = Num(Ready(a))
          /\ Num(Ready(a)) \in {0, 1} /\ Num(returning) \in {0, 1}
      BY <2>2, <3>1 DEF Num
    <3>3. Budget(b) + Num(Due(b, s)) <= Budget(a) + Num(Due(a, settled))
      BY <3>1, <3>2
    <3>4. Num(Ready(b)) + Num(returning) <= Num(Ready(a)) + Num(returning)
      BY <3>2
    <3> QED
      BY <2>2, <2>3, <3>3, <3>4, NoMoreAhead
  <2>5. Ahead(Rearmed(b, session.error), settled2, returning, listing)
            <= Ahead(b, s, returning, listing)
    BY <2>2, <2>3, RearmedSpends
  <2>6. /\ Ahead(Rearmed(b, session.error), settled2, returning, listing) \in Nat
        /\ Ahead(b, s, returning, listing) \in Nat
        /\ Ahead(a, settled, returning, listing) \in Nat
    BY <2>2, <2>3, RearmedIsTyped, AheadIsBounded
  <2> QED
    BY <2>1, <2>4, <2>5, <2>6
<1>4. CASE session.state \notin {"Connecting", "ApprovalPending"}
           /\ ~(session.state = "Failed" /\ (a.pending \/ a.recover))
  <2>1. Resolved(a) = a /\ settled
    BY <1>4 DEF Resolved, SettledFor
  <2>2. Due(a, settled2) => Due(a, settled)
    BY <2>1 DEF Due
  <2> QED
    BY <1>1, <2>1, <2>2
<1> QED
  BY <1>2, <1>3, <1>4

-----------------------------------------------------------------------------
(* An automatic connection: whether it dials, and what it leaves. *)

Later(a) == [a EXCEPT !.left = @ \/ Gone(a), !.waiting = @ \/ Gone(a),
                      !.timer = IF a.suppressed THEN @ ELSE "armed"]

LEMMA LaterLeaves ==
    ASSUME NEW a \in Windows
    PROVE  /\ Later(a) \in Windows
           /\ Later(a).transport = a.transport /\ Later(a).moving = a.moving
           /\ Later(a).retries = a.retries /\ Later(a).attempted = a.attempted
           /\ Later(a).waiting = (a.waiting \/ Gone(a)) /\ Later(a).left = (a.left \/ Gone(a))
           /\ Later(a).lost = a.lost /\ Later(a).selected = a.selected
           /\ Later(a).pc = a.pc
<1> DEFINE left == a.left \/ Gone(a)
           waiting == a.waiting \/ Gone(a)
           timer == IF a.suppressed THEN a.timer ELSE "armed"
<1>1. left \in BOOLEAN /\ waiting \in BOOLEAN /\ timer \in {"none", "armed"}
  BY DEF Gone, Windows
<1>2. Later(a) = [a EXCEPT !.left = left, !.waiting = waiting, !.timer = timer]
  BY DEF Later
<1> HIDE DEF left, waiting, timer
<1>3. /\ Later(a) \in Windows
      /\ Later(a).transport = a.transport /\ Later(a).moving = a.moving
      /\ Later(a).retries = a.retries /\ Later(a).attempted = a.attempted
      /\ Later(a).waiting = waiting /\ Later(a).left = left
      /\ Later(a).lost = a.lost /\ Later(a).selected = a.selected
      /\ Later(a).pc = a.pc
  BY <1>1, <1>2, ZenonT(80) DEF Windows
<1> QED
  BY <1>3 DEF left, waiting

LEMMA DialsOrWaits ==
    ASSUME NEW a \in Windows, AutoConnect(a)
    PROVE  \/ NoDial(a)
           \/ /\ ~running /\ a.transport = "usb" /\ NoDial(Later(a))
              /\ ~Gone(a) => a.waiting /\ ~a.left
           \/ /\ ~running /\ Dial(a)
              /\ a.transport = "usb" => /\ ~Gone(a) /\ (a.waiting => a.left)
                                        /\ a.waiting \/ a.retries # 0
BY DEF AutoConnect, UsbMayDial, Later, Windows, Gone

LEMMA WhatFailsIsShown ==
    ASSUME Inv, NEW j \in Jobs, Connect(j, FALSE)
    PROVE  session'.state = "Failed"
<1> USE NoneAssumption DEF Inv, SessionInv
<1>1. \/ \E error \in Errors : session' = Failed(session, error)
      \/ session' = NotSpawned(session)
  BY DEF Connect, Setup, RunAuxiliary, StartWorker, Refuse, Errors
<1> QED
  BY <1>1 DEF Failed, NotSpawned, SessionTypeOK

LEMMA DialLeaves ==
    ASSUME Inv, ~running, NEW a \in Windows, Dial(a)
    PROVE  /\ history' = [Heard EXCEPT !.dials = @ + 1]
           /\ bus'.phone = bus.phone
           /\ app' \in Windows /\ app'.pc = a.pc
           /\ app'.transport = a.transport /\ app'.moving = a.moving
           /\ app'.attempted = a.attempted /\ app'.retries = a.retries
           /\ Gone(app') = Gone(a)
           /\ app'.waiting = (a.transport = "lan" /\ a.waiting)
           /\ app'.left = (a.transport = "lan" /\ a.left)
           /\ app'.timer = "armed" => a.timer = "armed" /\ ~SettledFor(app)'
<1>1. PICK ok \in BOOLEAN :
          /\ Connect(JobOf(a), ok) /\ Counted(ok)
          /\ app' = [a EXCEPT !.waiting = IF a.transport = "usb" THEN FALSE ELSE @,
                              !.left = IF a.transport = "usb" THEN FALSE ELSE @,
                              !.pending = TRUE, !.timer = IF ok THEN "none" ELSE @]
          /\ history' = [Heard EXCEPT !.dials = @ + 1]
  BY DEF Dial
<1>2. bus'.phone = bus.phone
  BY <1>1 DEF Counted, Inv, BusTypeOK
<1>3. /\ app'.pc = a.pc
      /\ app'.transport = a.transport /\ app'.moving = a.moving
      /\ app'.attempted = a.attempted /\ app'.retries = a.retries
      /\ app'.lost = a.lost /\ app'.selected = a.selected
      /\ app'.waiting = (a.transport = "lan" /\ a.waiting)
      /\ app'.left = (a.transport = "lan" /\ a.left)
      /\ app'.pending /\ app'.timer = (IF ok THEN "none" ELSE a.timer)
  BY <1>1, ZenonT(80) DEF Windows
<1>4. app' \in Windows
  BY <1>1, ZenonT(80) DEF Windows
<1>5. ~ok => session'.state = "Failed"
  BY <1>1, WhatFailsIsShown, JobIsTyped
<1>6. Gone(app') = Gone(a)
  BY <1>3 DEF Gone
<1> QED
  <2>1. app'.timer = "armed" => a.timer = "armed" /\ ~SettledFor(app)'
    BY <1>3, <1>5 DEF SettledFor
  <2> QED
    BY <1>1, <1>2, <1>3, <1>4, <1>6, <2>1

(* The types of what Ahead is made of, also for the next state.            *)
AheadParts ==
    /\ app \in Windows /\ Settled \in BOOLEAN /\ CableBack \in BOOLEAN
    /\ Listing \in BOOLEAN /\ history.dials \in Nat /\ history.returns \in Nat

LEMMA PartsAreTyped == Inv => AheadParts
BY RetryFields DEF AheadParts, CableBack

(* A dial is paid for by what could dial before: the attempt of a launch,  *)
(* a timer, a phone that is back, or a list after the move to Wi-Fi.       *)
LEMMA DialCosts ==
    ASSUME Inv, Inv', ~running, NEW a \in Windows, Dial(a), a.pc # "dial",
           NEW o \in Windows, NEW settled \in BOOLEAN, NEW returning \in BOOLEAN,
           NEW listing \in BOOLEAN,
           o.transport = a.transport, o.moving = a.moving, o.retries = a.retries,
           o.waiting = a.waiting,
           ~a.attempted => ~o.attempted, CableBack' => returning, a.transport = "lan" => (Listing' => listing),
           \/ ~a.moving /\ a.attempted /\ ~o.attempted
           \/ ~a.moving /\ Due(o, settled)
           \/ a.transport = "usb" /\ ~a.moving /\ Ready(o)
           \/ a.transport = "usb" /\ ~CableBack' /\ (Ready(o) \/ returning)
           \/ a.transport = "lan" /\ ~Listing' /\ o.waiting /\ listing
    PROVE  AheadNow' + 1 <= Ahead(o, settled, returning, listing)
<1>0. /\ AutoRetryLimit \in Nat \ {0} /\ a.retries \in Nat
      /\ a.transport \in {"usb", "lan"} /\ a.moving \in BOOLEAN
  BY HostAppAssumption DEF Windows
<1>1. AheadParts'
  BY PartsAreTyped, PTL
<1>2. /\ app'.pc = a.pc /\ app'.transport = a.transport /\ app'.moving = a.moving
      /\ app'.attempted = a.attempted /\ app'.retries = a.retries
      /\ app'.waiting = (a.transport = "lan" /\ a.waiting)
      /\ app'.timer = "armed" => ~SettledFor(app)'
  BY DialLeaves
<1>3. ~Due(app', Settled') /\ ~(a.transport = "usb" /\ Ready(app'))
  BY <1>2 DEF Due, Settled, Ready
<1>4. /\ Budget(app') = Budget(o) /\ Budget(o) \in Nat
      /\ Num(Due(app', Settled')) = 0 /\ Num(Due(o, settled)) \in {0, 1}
      /\ Num(Ready(o)) \in {0, 1} /\ Num(returning) \in {0, 1} /\ Num(CableBack') \in {0, 1}
      /\ Num(CableBack') <= Num(returning)
      /\ Num(~app'.attempted) \in {0, 1} /\ Num(~o.attempted) \in {0, 1}
      /\ Num(~app'.attempted) <= Num(~o.attempted)
  BY <1>0, <1>1, <1>2, <1>3 DEF Budget, Num, AheadParts
<1>5. AheadNow' = Ahead(app', Settled', CableBack', Listing')
  BY DEF AheadNow
<1>6. CASE a.moving /\ a.transport = "usb"
  <2>1. AheadNow' = 3 + AutoRetryLimit + Num(Ready(app') \/ CableBack')
    BY <1>2, <1>5, <1>6 DEF Ahead
  <2>2. Ahead(o, settled, returning, listing) = 3 + AutoRetryLimit + Num(Ready(o) \/ returning)
    BY <1>6 DEF Ahead
  <2>3. Num(Ready(app') \/ CableBack') = 0 /\ Num(Ready(o) \/ returning) = 1
    BY <1>3, <1>6 DEF Num
  <2> QED
    BY <1>0, <2>1, <2>2, <2>3
<1>7. CASE a.moving /\ a.transport = "lan"
  <2>1. AheadNow' = 2 + AutoRetryLimit + Num(app'.waiting /\ Listing')
    BY <1>2, <1>5, <1>7 DEF Ahead
  <2>2. Ahead(o, settled, returning, listing) = 2 + AutoRetryLimit + Num(o.waiting /\ listing)
    BY <1>7 DEF Ahead
  <2>3. Num(app'.waiting /\ Listing') = 0 /\ Num(o.waiting /\ listing) = 1
    BY <1>7 DEF Num
  <2> QED
    BY <1>0, <2>1, <2>2, <2>3
<1>8. CASE ~a.moving /\ a.transport = "usb"
  <2>1. AheadNow' = Num(~app'.attempted) + Budget(app') + Num(Due(app', Settled'))
                    + (Num(Ready(app')) + Num(CableBack'))
    BY <1>2, <1>5, <1>8 DEF Ahead
  <2>2. Ahead(o, settled, returning, listing)
            = Num(~o.attempted) + Budget(o) + Num(Due(o, settled))
              + (Num(Ready(o)) + Num(returning))
    BY <1>8 DEF Ahead
  <2>3. Num(Ready(app')) = 0
    BY <1>3, <1>8 DEF Num
  <2>4. \/ Num(~app'.attempted) + 1 <= Num(~o.attempted)
        \/ Num(Due(o, settled)) = 1 \/ Num(Ready(o)) = 1
        \/ Num(CableBack') + 1 <= Num(returning)
    BY <1>1, <1>2, <1>8 DEF Num, AheadParts
  <2> QED
    BY <1>0, <1>4, <2>1, <2>2, <2>3, <2>4
<1>9. CASE ~a.moving /\ a.transport = "lan"
  <2>1. AheadNow' = Num(~app'.attempted) + Budget(app') + Num(Due(app', Settled'))
                    + Num(app'.waiting /\ Listing')
    BY <1>2, <1>5, <1>9 DEF Ahead
  <2>2. Ahead(o, settled, returning, listing)
            = Num(~o.attempted) + Budget(o) + Num(Due(o, settled)) + Num(o.waiting /\ listing)
    BY <1>9 DEF Ahead
  <2>3. /\ Num(app'.waiting /\ Listing') <= Num(o.waiting /\ listing)
        /\ Num(app'.waiting /\ Listing') \in {0, 1} /\ Num(o.waiting /\ listing) \in {0, 1}
    BY <1>2, <1>9 DEF Num, Windows
  <2>4. \/ Num(~app'.attempted) + 1 <= Num(~o.attempted)
        \/ Num(Due(o, settled)) = 1
        \/ Num(app'.waiting /\ Listing') + 1 <= Num(o.waiting /\ listing)
    BY <1>2, <1>9 DEF Num
  <2> QED
    BY <1>0, <1>4, <2>1, <2>2, <2>3, <2>4
<1> QED
  BY <1>0, <1>6, <1>7, <1>8, <1>9

LEMMA OneMore ==
    ASSUME NEW limit \in Nat, NEW listed \in Nat, NEW before \in Nat, NEW ahead \in Nat,
           ahead <= 1 + limit + listed, 2 + limit + listed <= before
    PROVE  ahead + 0 <= before /\ ahead + 1 <= before
OBVIOUS

LEMMA CountsAdd ==
    ASSUME NEW limit \in Nat, NEW heard \in Nat, NEW returns \in Nat, NEW before \in Nat,
           NEW ahead \in Nat, NEW dials \in {0, 1},
           ahead + dials <= before, heard + before <= 4 + limit + returns
    PROVE  (heard + dials) + ahead <= 4 + limit + returns
<1> dials \in Nat
  OBVIOUS
<1> QED
  OBVIOUS

(* The count, after a step that hears whether the phone has answered.      *)
LEMMA CountIsKept ==
    ASSUME Inv, Inv', DialsAreCounted, NEW before \in Nat, before <= 4 + AutoRetryLimit,
           session.state \notin {"Waiting", "Streaming"} => before <= AheadNow,
           NEW dials \in {0, 1}, history'.dials = Heard.dials + dials,
           history'.returns = Heard.returns, AheadNow' + dials <= before
    PROVE  DialsAreCounted'
<1>1. AheadFits
  BY AheadHasABound
<1>2. AheadFits'
  BY AheadHasABound, PTL
<1>3. AutoRetryLimit \in Nat /\ history.dials \in Nat /\ history.returns \in Nat
  BY HostAppAssumption DEF Inv, HistoryTypeOK
<1>4. AheadNow \in Nat /\ AheadNow' \in Nat
  BY <1>1, <1>2 DEF AheadFits
<1>5. Heard.dials \in Nat /\ Heard.returns \in Nat
  BY HeardIsTyped DEF Inv
<1>6. Heard.dials + before <= 4 + AutoRetryLimit + Heard.returns
  <2>1. CASE session.state \in {"Waiting", "Streaming"}
    <3>1. Heard.dials = 0 /\ Heard.returns = 0
      BY <2>1 DEF Heard, Inv, HistoryTypeOK
    <3> QED
      BY <1>3, <3>1
  <2>2. CASE session.state \notin {"Waiting", "Streaming"}
    <3>1. Heard = history /\ before <= AheadNow
      BY <2>2 DEF Heard
    <3>2. history.dials + before <= 4 + AutoRetryLimit + history.returns
      BY <1>3, <1>4, <3>1 DEF DialsAreCounted
    <3> QED
      BY <3>1, <3>2
  <2> QED
    BY <2>1, <2>2
<1>7. (Heard.dials + dials) + AheadNow' <= 4 + AutoRetryLimit + Heard.returns
  BY <1>3, <1>4, <1>5, <1>6, CountsAdd
<1>8. history'.dials + AheadNow' <= 4 + AutoRetryLimit + history'.returns
  BY <1>7
<1> QED
  BY <1>8 DEF DialsAreCounted

LEMMA AutoConnectCounts ==
    ASSUME Inv, Inv', DialsAreCounted, NEW a \in Windows, AutoConnect(a) \/ NoDial(a),
           a.pc # "dial",
           NEW o \in Windows, NEW settled \in BOOLEAN, NEW returning \in BOOLEAN,
           NEW listing \in BOOLEAN,
           session.state \notin {"Waiting", "Streaming"} =>
               Ahead(o, settled, returning, listing) <= AheadNow,
           o.transport = a.transport, o.moving = a.moving, o.retries = a.retries,
           o.waiting = a.waiting,
           ~a.attempted => ~o.attempted, a.timer = "armed" => o.timer = "armed",
           CableBack' => returning, a.transport = "lan" => (Listing' => listing),
           Ready(a) => Ready(o) \/ (returning /\ ~CableBack'),
           NoDial(a) /\ Settled' => settled,
           /\ ~running /\ ~NoDial(a)
           /\ a.transport = "usb" => /\ ~Gone(a) /\ (a.waiting => a.left)
                                     /\ a.waiting \/ a.retries # 0
           => \/ ~a.moving /\ a.attempted /\ ~o.attempted
              \/ ~a.moving /\ Due(o, settled)
              \/ a.transport = "usb" /\ ~a.moving /\ Ready(o)
              \/ a.transport = "usb" /\ ~CableBack' /\ (Ready(o) \/ returning)
              \/ a.transport = "lan" /\ ~Listing' /\ o.waiting /\ listing
    PROVE  DialsAreCounted'
<1> DEFINE before == Ahead(o, settled, returning, listing)
<1>0. before \in Nat /\ before <= 4 + AutoRetryLimit
  BY AheadIsBounded
<1>1. AheadParts' /\ AheadFits'
  BY PartsAreTyped, AheadHasABound, PTL
<1>2. ASSUME NEW b \in Windows, NoDial(b), b.transport = a.transport, b.moving = a.moving,
             b.retries = a.retries, b.attempted = a.attempted,
             Due(b, Settled') => Due(o, settled),
             a.transport = "usb" /\ Ready(b) => Ready(o) \/ (returning /\ ~CableBack'),
             a.transport = "lan" => b.waiting = a.waiting
      PROVE  DialsAreCounted'
  <2>1. app' = b /\ history' = Heard
    BY <1>2 DEF NoDial
  <2>2. /\ Budget(b) = Budget(o) /\ Budget(o) \in Nat
        /\ Num(Due(b, Settled')) <= Num(Due(o, settled))
        /\ Num(Due(b, Settled')) \in {0, 1} /\ Num(Due(o, settled)) \in {0, 1}
    BY <1>2, HostAppAssumption DEF Budget, Num, Windows
  <2>3. a.transport = "usb" =>
            /\ Ready(b) \/ CableBack' => Ready(o) \/ returning
            /\ Num(Ready(b)) + Num(CableBack') <= Num(Ready(o)) + Num(returning)
    BY <1>1, <1>2 DEF Num, AheadParts
  <2>4. a.transport = "lan" => (b.waiting /\ Listing' => o.waiting /\ listing)
    BY <1>2
  <2>5. b.attempted = o.attempted \/ (b.attempted /\ ~o.attempted)
    BY <1>2 DEF Windows
  <2>6. AheadNow' = Ahead(b, Settled', CableBack', Listing')
    BY <2>1 DEF AheadNow
  <2>7. AheadNow' <= before
    <3> DEFINE c == [b EXCEPT !.attempted = o.attempted]
    <3>1. /\ c \in Windows /\ c.transport = b.transport /\ c.moving = b.moving
          /\ c.attempted = o.attempted /\ c.retries = b.retries /\ c.waiting = b.waiting
          /\ Due(c, Settled') = Due(b, Settled') /\ Ready(c) = Ready(b)
      BY <1>2 DEF Windows, Due, Ready, Gone
    <3> HIDE DEF c
    <3>2. Budget(c) = Budget(b)
      BY <3>1 DEF Budget
    <3>3. Budget(c) + Num(Due(c, Settled')) <= Budget(o) + Num(Due(o, settled))
      BY <2>2, <3>1, <3>2
    <3>4. a.transport = "usb" =>
            /\ Ready(c) \/ CableBack' => Ready(o) \/ returning
            /\ Num(Ready(c)) + Num(CableBack') <= Num(Ready(o)) + Num(returning)
      BY <2>3, <3>1
    <3>5. Ahead(c, Settled', CableBack', Listing') <= before
      BY <1>1, <1>2, <2>4, <3>1, <3>3, <3>4, NoMoreAhead DEF AheadParts
    <3>6. Ahead(b, Settled', CableBack', Listing') <= Ahead(c, Settled', CableBack', Listing')
      <4>1. Num(~b.attempted) <= Num(~c.attempted) /\ Num(~b.attempted) \in {0, 1}
            /\ Num(~c.attempted) \in {0, 1}
        BY <2>5, <3>1 DEF Num
      <4>2. /\ Num(Due(b, Settled')) = Num(Due(c, Settled')) /\ Num(Ready(b)) = Num(Ready(c))
            /\ Num(b.waiting /\ Listing') = Num(c.waiting /\ Listing')
            /\ Num(Ready(b) \/ CableBack') = Num(Ready(c) \/ CableBack')
            /\ Num(Ready(b)) \in {0, 1} /\ Num(CableBack') \in {0, 1}
            /\ Num(b.waiting /\ Listing') \in {0, 1}
            /\ Num(Ready(b) \/ CableBack') \in {0, 1}
        BY <3>1 DEF Num
      <4>3. AutoRetryLimit \in Nat /\ Budget(b) \in Nat
        BY <2>2, <3>2, <1>2, HostAppAssumption DEF Budget, Windows
      <4> QED
        BY <2>2, <3>1, <3>2, <4>1, <4>2, <4>3 DEF Ahead
    <3>7. /\ Ahead(b, Settled', CableBack', Listing') \in Nat
          /\ Ahead(c, Settled', CableBack', Listing') \in Nat
      BY <1>1, <1>2, <3>1, AheadIsBounded DEF AheadParts
    <3> HIDE DEF before
    <3> QED
      BY <1>0, <2>6, <3>5, <3>6, <3>7
  <2>8. AheadNow' + 0 <= before
    BY <1>1, <2>7 DEF AheadFits
  <2>9. history'.dials = Heard.dials + 0 /\ history'.returns = Heard.returns
    BY <2>1, HeardIsTyped DEF Inv
  <2> HIDE DEF before
  <2> QED
    BY <1>0, <2>8, <2>9, CountIsKept DEF before
<1>3. CASE NoDial(a)
  <2>1. app' = a /\ (Due(a, Settled') => Due(o, settled))
    BY <1>3 DEF NoDial, Due
  <2> QED
    BY <1>2, <1>3, <2>1
<1>4. CASE ~running /\ a.transport = "usb" /\ NoDial(Later(a)) /\ (~Gone(a) => a.waiting /\ ~a.left)
  <2> DEFINE b == Later(a)
  <2>1. /\ b \in Windows /\ b.transport = a.transport /\ b.moving = a.moving
        /\ b.retries = a.retries /\ b.attempted = a.attempted
        /\ b.waiting = (a.waiting \/ Gone(a)) /\ b.left = (a.left \/ Gone(a))
        /\ b.lost = a.lost /\ b.selected = a.selected
    BY LaterLeaves
  <2>2. Gone(b) = Gone(a)
    BY <2>1 DEF Gone
  <2> HIDE DEF b
  <2>3. ~Due(b, Settled') /\ ~Ready(b)
    BY <1>4, <2>1, <2>2 DEF Due, Ready, Windows
  <2>4. NoDial(b)
    BY <1>4 DEF b
  <2> QED
    BY <1>2, <1>4, <2>1, <2>3, <2>4
<1>5. CASE /\ ~running /\ Dial(a) /\ ~NoDial(a)
           /\ a.transport = "usb" => /\ ~Gone(a) /\ (a.waiting => a.left)
                                     /\ a.waiting \/ a.retries # 0
  <2>1. AheadNow' + 1 <= before
    BY <1>5, DialCosts
  <2>2. history'.dials = Heard.dials + 1 /\ history'.returns = Heard.returns
    <3>1. history' = [Heard EXCEPT !.dials = @ + 1]
      BY <1>5, DialLeaves
    <3> QED
      BY <3>1, HeardIsTyped DEF Inv
  <2> HIDE DEF before
  <2> QED
    BY <1>0, <2>1, <2>2, CountIsKept DEF before
<1> QED
  BY <1>3, <1>4, <1>5, DialsOrWaits

-----------------------------------------------------------------------------
(* WaitsAreKnown. *)

WindowWaits(a) ==
    /\ a.left => a.waiting
    /\ a.moving => a.attempted /\ a.pc # "dial"
ReaderListens == session.listening => worker.proc # None

LEMMA DialKeepsWaits ==
    ASSUME NEW a \in Windows, WindowWaits(a), NoDial(a) \/ Dial(a) \/ AutoConnect(a)
    PROVE  WindowWaits(app')
<1>1. CASE NoDial(a)
  BY <1>1 DEF NoDial
<1>2. CASE Dial(a)
  <2>1. /\ app'.pc = a.pc /\ app'.moving = a.moving /\ app'.attempted = a.attempted
        /\ app'.waiting = (a.transport = "lan" /\ a.waiting)
        /\ app'.left = (a.transport = "lan" /\ a.left)
    BY <1>2, ZenonT(80) DEF Dial, Windows
  <2> QED
    BY <2>1 DEF WindowWaits
<1>3. CASE NoDial(Later(a))
  BY <1>3, LaterLeaves DEF NoDial, WindowWaits
<1> QED
  BY <1>1, <1>2, <1>3, DialsOrWaits

LEMMA WindowWaitsKept ==
    ASSUME Inv, QuietAfterQuit, WindowWaits(app), [Next]_vars
    PROVE  WindowWaits(app')
<1>0. app \in Windows /\ Resolved(app) \in Windows
  BY ResolvedIsTyped DEF Inv, AppTypeOK
<1>1. /\ Resolved(app).moving = app.moving /\ Resolved(app).attempted = app.attempted
      /\ Resolved(app).left => Resolved(app).waiting
  BY <1>0, ResolvedKeepsFields DEF WindowWaits
<1>2. CASE TakePairing
  BY <1>0, <1>2 DEF TakePairing, WindowWaits, Windows
<1>3. CASE Move
  <2> DEFINE a == [Resolved(app) EXCEPT !.pc = "dial", !.moving = FALSE,
                       !.transport = "lan", !.retries = 0, !.suppressed = FALSE]
  <2>1. AutoConnect(a)
    BY <1>3 DEF Move
  <2>2. a \in Windows /\ ~a.moving /\ (a.left => a.waiting)
    BY <1>0, <1>1, ZenonT(80) DEF Windows
  <2> HIDE DEF a
  <2> QED
    BY <2>1, <2>2, DialKeepsWaits DEF WindowWaits
<1>4. CASE DialWhenDue
  <2>1. PICK a \in {IF app.pc = "dial" THEN app ELSE Resolved(app)} :
            \/ AutoConnect([a EXCEPT !.pc = "poll", !.attempted = TRUE])
            \/ AutoConnect([a EXCEPT !.pc = "poll", !.timer = "none"])
            \/ NoDial([a EXCEPT !.pc = "poll"])
    BY <1>4 DEF DialWhenDue
  <2>2. a \in Windows /\ (a.left => a.waiting) /\ (a.moving => a.attempted)
    BY <1>0, <1>1, <2>1 DEF WindowWaits
  <2>3. /\ [a EXCEPT !.pc = "poll", !.attempted = TRUE] \in Windows
        /\ WindowWaits([a EXCEPT !.pc = "poll", !.attempted = TRUE])
    BY <2>2 DEF Windows, WindowWaits
  <2>4. /\ [a EXCEPT !.pc = "poll", !.timer = "none"] \in Windows
        /\ WindowWaits([a EXCEPT !.pc = "poll", !.timer = "none"])
    BY <2>2 DEF Windows, WindowWaits
  <2>5. /\ [a EXCEPT !.pc = "poll"] \in Windows
        /\ WindowWaits([a EXCEPT !.pc = "poll"])
    BY <2>2 DEF Windows, WindowWaits
  <2> QED
    BY <2>1, <2>3, <2>4, <2>5, DialKeepsWaits
<1>5. CASE Poll
  BY <1>0, <1>5 DEF Poll, WindowWaits, Windows
<1>6. CASE Devices
  <2>1. CASE inventory.sent = None
    <3>1. app' = [app EXCEPT !.pc = "ui"]
      BY <1>6, <2>1 DEF Devices, NoDial
    <3> QED
      BY <1>0, <3>1 DEF WindowWaits, Windows
  <2>2. CASE inventory.sent # None
    <3> DEFINE found == Reconciled(app, inventory.sent)
               known == [found EXCEPT !.pc = "ui"]
    <3>1. found \in Windows
      BY <1>0, <2>2, ReconciledIsTyped DEF Inv, InventoryTypeOK, Lists
    <3>2. /\ found.left = app.left /\ found.waiting = app.waiting
          /\ found.moving = app.moving /\ found.attempted = app.attempted
      BY <1>0 DEF Reconciled, Windows
    <3>3. AutoConnect(known) \/ NoDial(known)
      BY <1>6, <2>2 DEF Devices
    <3> HIDE DEF found
    <3>4. known \in Windows /\ WindowWaits(known)
      BY <3>1, <3>2 DEF Windows, WindowWaits
    <3> HIDE DEF known
    <3> QED
      BY <3>3, <3>4, DialKeepsWaits
  <2> QED
    BY <2>1, <2>2
<1>7. CASE User
  <2>1. app.pc = "ui" => app.attempted
    BY DEF QuietAfterQuit
  <2>2. CASE Quit \/ PressLater \/ Rotate \/ PressReplace \/ ForgetPhone
             \/ \E transport \in {"usb", "lan"} : SelectTransport(transport)
    <3>1. /\ app'.left = app.left /\ app'.waiting = app.waiting
          /\ app'.moving = app.moving /\ app'.attempted = app.attempted
          /\ app'.pc # "dial"
      BY <1>0, <2>2, ZenonT(80) DEF Quit, PressLater, Rotate, PressReplace, ForgetPhone,
         SelectTransport, Click, Pressed, Windows
    <3> QED
      BY <3>1 DEF WindowWaits
  <2>3. CASE PressDisconnect
    <3>1. ~app'.left /\ app'.moving = app.moving /\ app'.attempted = app.attempted
          /\ app'.pc = "logic"
      BY <1>0, <2>3, ZenonT(80) DEF PressDisconnect, Click, Pressed, Windows
    <3> QED
      BY <3>1 DEF WindowWaits
  <2>4. CASE PressConnect
    <3>1. ~app'.left /\ app'.moving = app.moving /\ app'.attempted = app.attempted
          /\ app'.pc = "logic"
      BY <1>0, <2>4, ZenonT(80) DEF PressConnect, Pressed, Windows
    <3> QED
      BY <3>1 DEF WindowWaits
  <2>5. CASE PressSwitch
    <3>1. /\ app.attempted /\ app'.left = app.left /\ app'.waiting = app.waiting
          /\ app'.attempted = app.attempted /\ app'.pc = "logic"
      BY <1>0, <2>1, <2>5, ZenonT(80) DEF PressSwitch, Click, Pressed, Windows
    <3> QED
      BY <3>1 DEF WindowWaits
  <2> QED
    BY <1>7, <2>2, <2>3, <2>4, <2>5 DEF User
<1>8. CASE PollsEvent \/ Threads \/ Worker \/ Cable \/ UNCHANGED vars
  <2>1. UNCHANGED app
    BY <1>8 DEF PollsEvent, Threads, Worker, Cable, Plug, Unplug, ListUsb, appVars, vars
  <2> QED
    BY <2>1
<1> QED
  BY <1>2, <1>3, <1>4, <1>5, <1>6, <1>7, <1>8 DEF Next, Frame

LEMMA ConnectKeepsListening ==
    ASSUME SessionInv, ReaderListens, NEW j, NEW ok \in BOOLEAN, Connect(j, ok) \/ AllowUsb(j, ok)
    PROVE  ReaderListens'
<1>1. \/ \E error \in Errors : session' = Failed(session, error) /\ UNCHANGED worker
      \/ session' = NotSpawned(session) /\ UNCHANGED worker
      \/ \E restart : session' = Assisted(session, restart) /\ UNCHANGED worker
      \/ worker' = Spawned(j)
  BY DEF Connect, AllowUsb, Setup, RunAuxiliary, StartWorker, Refuse, Errors
<1>2. Spawned(j).proc # None
  BY NoneAssumption DEF Spawned, NoWorker
<1>3. /\ \A error \in Errors : Failed(session, error).listening = session.listening
      /\ NotSpawned(session).listening = session.listening
      /\ \A restart : Assisted(session, restart).listening = session.listening
  BY DEF SessionInv, SessionTypeOK, Failed, NotSpawned, Assisted
<1> QED
  BY <1>1, <1>2, <1>3 DEF ReaderListens

LEMMA ListeningStays ==
    ASSUME ReaderListens, session'.listening = session.listening,
           worker.proc # None => worker'.proc # None
    PROVE  ReaderListens'
BY DEF ReaderListens

LEMMA PollKeepsListening ==
    ASSUME SessionInv, ReaderListens, NEW silent \in BOOLEAN, NEW overdue \in BOOLEAN,
           NEW failing \in BOOLEAN, PollEnds(silent, overdue, failing)
    PROVE  ReaderListens'
<1> DEFINE Type == [state : States, error : Errors \cup {None}, stop : BOOLEAN,
                 slot : BOOLEAN \cup {None}, deadline : {"none", "armed", "expired"},
                 listening : BOOLEAN, writer : {"start", "loop", "done"},
                 finished : BOOLEAN, permission : AnyPhone, pairing : BOOLEAN,
                 auxiliary : Procs,
                 restart : [job : Jobs, switched : BOOLEAN] \cup {None}]
           Same(s) == s \in Type /\ s.listening = session.listening
           due == PollDeadlines(session, silent, overdue)
           waited == Waited(due, worker, failing)
<1>1. session \in Type
  BY DEF SessionInv, SessionTypeOK
<1>2. /\ session' = IF waited.finished THEN Finished(waited, Reaped(worker, failing)) ELSE waited
      /\ ~waited.finished => worker' \in {worker, Killed(worker)}
  BY DEF PollEnds
<1>3. Same(due)
  BY <1>1, ZenonT(80) DEF PollDeadlines, Failed, States, Errors
<1> HIDE DEF due
<1>4. Same(waited)
  BY <1>3 DEF Waited, Failed, States, Errors
<1> HIDE DEF waited
<1>5. CASE waited.finished
  <2>1. ~session'.listening
    BY <1>2, <1>4, <1>5 DEF Finished
  <2> QED
    BY <2>1 DEF ReaderListens
<1>6. CASE ~waited.finished
  <2>1. session'.listening = session.listening
    BY <1>2, <1>4, <1>6
  <2>2. worker.proc # None => worker'.proc # None
    BY <1>2, <1>6, NoneAssumption DEF Killed, Corpse, NoWorker
  <2> QED
    BY <2>1, <2>2, ListeningStays
<1> QED
  BY <1>5, <1>6

LEMMA HelperKeepsListening ==
    ASSUME SessionInv, ReaderListens, NEW device, NEW spawned,
           PollAuxiliaryEnded(device, spawned)
    PROVE  ReaderListens'
<1> DEFINE idle == [session EXCEPT !.auxiliary = None, !.restart = None,
                                !.state = "Idle", !.error = None]
<1>1. \/ session' \in {idle, Failed(idle, "replug"), NotSpawned(idle)} /\ UNCHANGED worker
      \/ \E j : worker' = Spawned(j)
  BY DEF PollAuxiliaryEnded
<1>2. \A j : Spawned(j).proc # None
  BY NoneAssumption DEF Spawned, NoWorker
<1>3. /\ idle.listening = session.listening
      /\ Failed(idle, "replug").listening = session.listening
      /\ NotSpawned(idle).listening = session.listening
  BY DEF SessionInv, SessionTypeOK, Failed, NotSpawned
<1> HIDE DEF idle
<1>4. CASE \E j : worker' = Spawned(j)
  BY <1>2, <1>4 DEF ReaderListens
<1>5. CASE session' \in {idle, Failed(idle, "replug"), NotSpawned(idle)} /\ UNCHANGED worker
  <2>1. session'.listening = session.listening
    BY <1>3, <1>5
  <2> QED
    BY <1>5, <2>1, ListeningStays
<1> QED
  BY <1>1, <1>4, <1>5

LEMMA ReaderListensKept ==
    ASSUME Inv, ReaderListens, [Next]_vars
    PROVE  ReaderListens'
<1> USE DEF Inv
<1>1. ASSUME NEW a, NoDial(a) \/ Dial(a) \/ AutoConnect(a)
      PROVE  ReaderListens'
  <2>1. (\E b : NoDial(b)) \/ Dial(a)
    BY <1>1 DEF AutoConnect
  <2>2. CASE \E b : NoDial(b)
    <3>1. UNCHANGED <<session, worker>>
      BY <2>2 DEF NoDial, sessionVars
    <3> QED
      BY <3>1, ListeningStays
  <2>3. CASE Dial(a)
    <3>1. PICK ok \in BOOLEAN : Connect(JobOf(a), ok)
      BY <2>3 DEF Dial
    <3> QED
      BY <3>1, ConnectKeepsListening
  <2> QED
    BY <2>1, <2>2, <2>3
<1>2. CASE TakePairing
  BY <1>2, ListeningStays DEF TakePairing, SessionInv, SessionTypeOK
<1>3. CASE Move \/ DialWhenDue \/ Devices
  <2>1. \E a : NoDial(a) \/ Dial(a) \/ AutoConnect(a)
    BY <1>3 DEF Move, DialWhenDue, Devices
  <2> QED
    BY <1>1, <2>1
<1>4. CASE Poll
  <2>1. PICK failing \in BOOLEAN :
            \/ \E silent, overdue \in BOOLEAN : PollEnds(silent, overdue, failing)
            \/ PollAuxiliaryRunning
            \/ PollAuxiliaryFailed(failing)
            \/ \E device, spawned : PollAuxiliaryEnded(device, spawned)
    BY <1>4 DEF Poll
  <2>2. CASE \E silent, overdue \in BOOLEAN : PollEnds(silent, overdue, failing)
    BY <2>2, PollKeepsListening
  <2>3. CASE PollAuxiliaryRunning
    BY <2>3, ListeningStays DEF PollAuxiliaryRunning, sessionVars
  <2>4. CASE PollAuxiliaryFailed(failing)
    <3>1. session'.listening = session.listening /\ UNCHANGED worker
      BY <2>4 DEF PollAuxiliaryFailed, Failed, SessionInv, SessionTypeOK
    <3> QED
      BY <3>1, ListeningStays
  <2>5. CASE \E device, spawned : PollAuxiliaryEnded(device, spawned)
    BY <2>5, HelperKeepsListening
  <2> QED
    BY <2>1, <2>2, <2>3, <2>4, <2>5
<1>5. CASE PollsEvent
  <2>1. session' = Handled(session, Head(pipe)) /\ UNCHANGED worker
    BY <1>5 DEF PollsEvent, PollEvent
  <2>2. session'.listening = session.listening
    BY <2>1 DEF SessionInv, SessionTypeOK, Handled, Heeded, Shown, Failed
  <2> QED
    BY <2>1, <2>2, ListeningStays
<1>6. CASE User
  <2>1. CASE Quit
    <3>1. session'.listening = session.listening /\ worker' = Killed(worker)
      BY <2>1 DEF Quit, Dropped, SessionInv, SessionTypeOK
    <3>2. worker.proc # None => worker'.proc # None
      BY <3>1, NoneAssumption DEF Killed, Corpse, NoWorker
    <3> QED
      BY <3>1, <3>2, ListeningStays
  <2>2. CASE PressConnect
    <3>1. PICK ok \in BOOLEAN : Connect(JobOf(app), ok) \/ AllowUsb(DeniedJob(app), ok)
      BY <2>2 DEF PressConnect
    <3> QED
      BY <3>1, ConnectKeepsListening
  <2>3. CASE \/ PressDisconnect \/ PressSwitch \/ PressLater \/ Rotate \/ PressReplace
             \/ ForgetPhone \/ \E transport \in {"usb", "lan"} : SelectTransport(transport)
    <3>1. /\ UNCHANGED worker
          /\ \/ session' \in {session, Stopped(session, worker),
                              Transformed(session, worker, ~app.rotated)}
             \/ session' = [session EXCEPT !.state = "Idle", !.error = None, !.permission = None]
             \/ \E ok \in BOOLEAN :
                    session' = [session EXCEPT !.state = IF ok THEN "Idle" ELSE @,
                                               !.error = IF ok THEN None ELSE @]
      BY <2>3 DEF PressDisconnect, PressSwitch, PressLater, Rotate, PressReplace, ForgetPhone,
                  SelectTransport, Click
    <3>2. /\ Stopped(session, worker).listening = session.listening
          /\ Transformed(session, worker, ~app.rotated).listening = session.listening
      BY DEF Stopped, Transformed, SessionInv, SessionTypeOK
    <3>3. session'.listening = session.listening
      BY <3>1, <3>2 DEF SessionInv, SessionTypeOK
    <3> QED
      BY <3>1, <3>3, ListeningStays
  <2> QED
    BY <1>6, <2>1, <2>2, <2>3 DEF User
<1>7. CASE Threads
  <2>1. session'.listening = session.listening
    BY <1>7 DEF Threads, WriterStep, OutputEnds, ProcessEnds, DeadlinePasses, SessionInv,
                SessionTypeOK
  <2>2. worker.proc # None => worker'.proc # None
    BY <1>7, NoneAssumption DEF Threads, WriterStep, OutputEnds, ProcessEnds, DeadlinePasses,
       SessionInv, WorkerTypeOK, Corpse, NoWorker
  <2> QED
    BY <2>1, <2>2, ListeningStays
<1>8. CASE Worker
  <2>1. \/ UNCHANGED session /\ \E phase : worker' = [worker EXCEPT !.phase = phase]
        \/ UNCHANGED worker /\ AuxiliaryEnds
    BY <1>8 DEF Worker, WorkerConnects, WorkerConnectsLan, WorkerConnectsUsb, WorkerExchanges,
       WorkerStreams, WorkerStops, AuxiliaryEnds, WorkerFails, Proceeds
  <2>2. session'.listening = session.listening /\ worker'.proc = worker.proc
    BY <2>1 DEF AuxiliaryEnds, SessionInv, SessionTypeOK, WorkerTypeOK
  <2> QED
    BY <2>2, ListeningStays
<1>9. CASE Cable \/ UNCHANGED vars
  <2>1. UNCHANGED <<session, worker>>
    BY <1>9 DEF Cable, Plug, Unplug, ListUsb, sessionVars, vars
  <2> QED
    BY <2>1, ListeningStays
<1> QED
  BY <1>2, <1>3, <1>4, <1>5, <1>6, <1>7, <1>8, <1>9 DEF Next, Frame

-----------------------------------------------------------------------------
(* The steps of a frame keep the count. *)

LEMMA CountStays ==
    ASSUME Inv, Inv', DialsAreCounted, AheadNow' <= AheadNow,
           history'.dials = history.dials, history'.returns = history.returns
    PROVE  DialsAreCounted'
<1>1. AheadFits
  BY AheadHasABound
<1>2. AheadFits'
  BY AheadHasABound, PTL
<1>3. AutoRetryLimit \in Nat /\ history.dials \in Nat /\ history.returns \in Nat
  BY HostAppAssumption DEF Inv, HistoryTypeOK
<1>4. AheadNow \in Nat /\ AheadNow' \in Nat
  BY <1>1, <1>2 DEF AheadFits
<1>5. history.dials + AheadNow <= 4 + AutoRetryLimit + history.returns
  BY DEF DialsAreCounted
<1>6. history.dials + AheadNow' <= 4 + AutoRetryLimit + history.returns
  BY <1>3, <1>4, <1>5
<1>7. history'.dials + AheadNow' <= 4 + AutoRetryLimit + history'.returns
  BY <1>6
<1> QED
  BY <1>7 DEF DialsAreCounted

(* What logic() does first, when the worker has not answered.              *)
LEMMA ResolvedIsCounted ==
    ASSUME Inv, WindowWaits(app), session.state \notin {"Waiting", "Streaming"},
           NEW settled \in BOOLEAN
    PROVE  Ahead(Resolved(app), settled, CableBack, Listing) <= AheadNow
<1>1. AheadParts
  BY PartsAreTyped
<1>2. SettledFor(app) => Settled
  BY DEF Settled
<1>3. Ahead(Resolved(app), settled, CableBack, Listing) <= Ahead(app, Settled, CableBack, Listing)
  BY <1>1, <1>2, ResolvedSpends DEF AheadParts, WindowWaits
<1> QED
  BY <1>3 DEF AheadNow

(* The move to Wi-Fi starts a budget of its own.                           *)
LEMMA MoveIsCounted ==
    ASSUME Inv, Inv', DialsAreCounted, WindowWaits(app), Move
    PROVE  DialsAreCounted'
<1> DEFINE o == Resolved(app)
           a == [o EXCEPT !.pc = "dial", !.moving = FALSE,
                          !.transport = "lan", !.retries = 0, !.suppressed = FALSE]
           before == Ahead(o, Settled, CableBack, Listing)
           listed == Num(o.waiting /\ Listing)
<1>1. AheadParts
  BY PartsAreTyped
<1>2. AheadParts'
  BY PartsAreTyped, PTL
<1>3. AheadNow' \in Nat
  <2>1. AheadFits'
    BY AheadHasABound, PTL
  <2> QED
    BY <2>1 DEF AheadFits
<1>4. /\ o \in Windows /\ o.moving /\ o.attempted /\ o.transport \in {"usb", "lan"}
  BY <1>1, ResolvedKeepsFields DEF Move, MovesNow, WindowWaits, AheadParts, Windows
<1>5. session.state \notin {"Waiting", "Streaming"} => before <= AheadNow
  BY <1>1, ResolvedIsCounted DEF AheadParts
<1>6. AutoConnect(a) /\ ~running /\ inventory' = inventory
  BY DEF Move, MovesNow
<1> HIDE DEF o
<1>7. /\ a \in Windows /\ a.pc = "dial" 
      /\ a.transport = "lan" /\ a.retries = 0 /\ a.attempted /\ a.waiting = o.waiting
  BY <1>4, ZenonT(80) DEF Windows
<1>8. ~a.moving
  BY <1>4 DEF Windows
<1> HIDE DEF a
<1>9. AutoRetryLimit \in Nat \ {0} /\ AutoRetryLimit \in Nat
  BY HostAppAssumption
<1>10. before \in Nat /\ before <= 4 + AutoRetryLimit
  BY <1>1, <1>4, AheadIsBounded DEF AheadParts
<1>11. Listing' = Listing
  BY <1>6 DEF Listing
<1>12. /\ Num(o.waiting /\ Listing) \in {0, 1} /\ Num(Due(app, Settled)') \in {0, 1}
       /\ Num(Ready(o) \/ CableBack) \in {0, 1}
  BY DEF Num
<1>13. \/ before = 3 + AutoRetryLimit + Num(Ready(o) \/ CableBack)
       \/ before = 2 + AutoRetryLimit + Num(o.waiting /\ Listing)
  BY <1>4 DEF Ahead
<1>14. 2 + AutoRetryLimit + listed <= before /\ listed \in Nat
  BY <1>9, <1>12, <1>13
<1>15. ASSUME app'.transport = "lan", ~app'.moving, app'.attempted, app'.retries = 0,
              app'.waiting = o.waiting
       PROVE  AheadNow' <= 1 + AutoRetryLimit + listed
  <2>1. AheadNow' = Num(~app'.attempted) + Budget(app') + Num(Due(app', Settled'))
                    + Num(app'.waiting /\ Listing')
    BY <1>15 DEF AheadNow, Ahead
  <2>2. Num(~app'.attempted) = 0 /\ Budget(app') = AutoRetryLimit
    BY <1>9, <1>15 DEF Num, Budget
  <2>3. Num(app'.waiting /\ Listing') = Num(o.waiting /\ Listing)
    BY <1>11, <1>15
  <2>4. Num(Due(app', Settled')) \in {0, 1}
    BY DEF Num
  <2> QED
    BY <1>9, <1>12, <2>1, <2>2, <2>3, <2>4
<1>16. CASE NoDial(a)
  <2>1. app' = a /\ history' = Heard
    BY <1>16 DEF NoDial
  <2>2. AheadNow' <= 1 + AutoRetryLimit + listed
    BY <1>7, <1>8, <1>15, <2>1
  <2> HIDE DEF before, listed
  <2>3. AheadNow' + 0 <= before
    BY <1>3, <1>9, <1>10, <1>14, <2>2, OneMore
  <2>4. history'.dials = Heard.dials + 0 /\ history'.returns = Heard.returns
    BY <2>1, HeardIsTyped DEF Inv
  <2> QED
    BY <1>5, <1>10, <2>3, <2>4, CountIsKept
<1>17. CASE Dial(a)
  <2>1. /\ app'.transport = "lan" /\ ~app'.moving /\ app'.attempted /\ app'.retries = 0
        /\ app'.waiting = o.waiting
        /\ history' = [Heard EXCEPT !.dials = @ + 1]
    <3>1. /\ history' = [Heard EXCEPT !.dials = @ + 1]
          /\ app'.transport = a.transport /\ app'.moving = a.moving
          /\ app'.attempted = a.attempted /\ app'.retries = a.retries
          /\ app'.waiting = (a.transport = "lan" /\ a.waiting)
      BY <1>6, <1>7, <1>17, DialLeaves
    <3>2. a.waiting \in BOOLEAN
      BY <1>7 DEF Windows
    <3> QED
      BY <1>7, <1>8, <3>1, <3>2
  <2>2. AheadNow' <= 1 + AutoRetryLimit + listed
    BY <1>15, <2>1
  <2> HIDE DEF before, listed
  <2>3. AheadNow' + 1 <= before
    BY <1>3, <1>9, <1>10, <1>14, <2>2, OneMore
  <2>4. history'.dials = Heard.dials + 1 /\ history'.returns = Heard.returns
    BY <2>1, HeardIsTyped DEF Inv
  <2> QED
    BY <1>5, <1>10, <2>3, <2>4, CountIsKept
<1> QED
  BY <1>6, <1>7, <1>16, <1>17, DialsOrWaits

(* Neither an automatic connection nor its absence moves the cable.        *)
LEMMA DialKeepsCable ==
    ASSUME Inv, NEW a \in Windows, AutoConnect(a) \/ NoDial(a)
    PROVE  bus'.phone = bus.phone /\ Gone(app') = Gone(a)
<1>1. CASE NoDial(a)
  BY <1>1 DEF NoDial
<1>2. CASE ~running /\ Dial(a)
  BY <1>2, DialLeaves
<1>3. CASE NoDial(Later(a))
  BY <1>3, LaterLeaves DEF NoDial, Gone
<1> QED
  BY <1>1, <1>2, <1>3, DialsOrWaits

LEMMA DialIsCounted ==
    ASSUME Inv, Inv', DialsAreCounted, WindowWaits(app), DialWhenDue
    PROVE  DialsAreCounted'
<1>1. AheadParts
  BY PartsAreTyped
<1>2. PICK settled \in BOOLEAN : settled
  OBVIOUS
<1>3. PICK o \in {IF app.pc = "dial" THEN app ELSE Resolved(app)} :
          /\ app.pc = "dial" \/ ~MovesNow
          /\ \/ /\ ~o.attempted
                /\ AutoConnect([o EXCEPT !.pc = "poll", !.attempted = TRUE])
             \/ /\ o.attempted /\ o.timer = "armed"
                /\ AutoConnect([o EXCEPT !.pc = "poll", !.timer = "none"])
             \/ /\ o.attempted
                /\ NoDial([o EXCEPT !.pc = "poll"])
          /\ UNCHANGED inventory
  BY DEF DialWhenDue
<1>4. /\ o \in Windows /\ o.moving = app.moving /\ o.attempted = app.attempted
      /\ Gone(o) = Gone(app)
  BY <1>1, <1>3, ResolvedKeepsFields DEF WindowWaits, AheadParts
<1>5. session.state \notin {"Waiting", "Streaming"} =>
          Ahead(o, settled, CableBack, Listing) <= AheadNow
  <2>1. CASE app.pc = "dial"
    <3>1. o = app /\ Settled = settled
      BY <1>1, <1>2, <1>3, <2>1 DEF Settled, AheadParts
    <3>2. Ahead(o, settled, CableBack, Listing) = AheadNow
      BY <3>1 DEF AheadNow
    <3>3. AheadNow \in Nat
      BY AheadHasABound DEF AheadFits
    <3> QED
      BY <3>2, <3>3
  <2>2. CASE app.pc # "dial"
    <3>1. o = Resolved(app)
      BY <1>3, <2>2
    <3> QED
      BY <3>1, ResolvedIsCounted
  <2> QED
    BY <2>1, <2>2
<1>6. /\ o.moving => running
      /\ o.moving => o.attempted
  BY <1>3, <1>4 DEF MovesNow, WindowWaits
<1>7. Listing' = Listing
  BY <1>3 DEF Listing
<1>8. ASSUME NEW a \in Windows, AutoConnect(a) \/ NoDial(a), a.pc = "poll",
             a.transport = o.transport, a.moving = o.moving, a.retries = o.retries,
             a.waiting = o.waiting, a.left = o.left, Gone(a) = Gone(o),
             \/ a.attempted /\ ~o.attempted
             \/ a.attempted = o.attempted /\ o.timer = "armed"
             \/ a.attempted = o.attempted /\ NoDial(a),
             a.timer = "armed" => o.timer = "armed"
      PROVE  DialsAreCounted'
  <2>1. /\ bus'.phone = bus.phone /\ Gone(app') = Gone(app)
    BY <1>4, <1>8, DialKeepsCable
  <2>2. CableBack' = CableBack
    BY <1>3, <2>1 DEF CableBack, Returning
  <2>3. ~a.attempted => ~o.attempted
    BY <1>8
  <2>4. Ready(a) => Ready(o)
    BY <1>8 DEF Ready
  <2>5. ASSUME ~running, ~NoDial(a),
               a.transport = "usb" => /\ ~Gone(a) /\ (a.waiting => a.left)
                                      /\ a.waiting \/ a.retries # 0
        PROVE  \/ ~a.moving /\ a.attempted /\ ~o.attempted
               \/ ~a.moving /\ Due(o, settled)
               \/ a.transport = "usb" /\ ~a.moving /\ Ready(o)
    BY <1>2, <1>6, <1>8, <2>5 DEF Due, Ready
  <2> QED
    BY <1>1, <1>4, <1>5, <1>7, <1>8, <1>2, <2>2, <2>3, <2>4, <2>5, AutoConnectCounts
       DEF AheadParts
<1>9. ASSUME ~o.attempted, AutoConnect([o EXCEPT !.pc = "poll", !.attempted = TRUE])
      PROVE  DialsAreCounted'
  <2> DEFINE a == [o EXCEPT !.pc = "poll", !.attempted = TRUE]
  <2>1. /\ a \in Windows /\ a.pc = "poll" /\ a.transport = o.transport /\ a.moving = o.moving
        /\ a.retries = o.retries /\ a.waiting = o.waiting /\ a.left = o.left
        /\ a.lost = o.lost /\ a.selected = o.selected /\ a.attempted /\ a.timer = o.timer
    BY <1>4, ZenonT(80) DEF Windows
  <2>2. Gone(a) = Gone(o) /\ AutoConnect(a)
    BY <1>9, <2>1 DEF Gone
  <2> HIDE DEF a
  <2> QED
    BY <1>8, <1>9, <2>1, <2>2
<1>10. ASSUME o.attempted, o.timer = "armed",
              AutoConnect([o EXCEPT !.pc = "poll", !.timer = "none"])
       PROVE  DialsAreCounted'
  <2> DEFINE a == [o EXCEPT !.pc = "poll", !.timer = "none"]
  <2>1. /\ a \in Windows /\ a.pc = "poll" /\ a.transport = o.transport /\ a.moving = o.moving
        /\ a.retries = o.retries /\ a.waiting = o.waiting /\ a.left = o.left
        /\ a.lost = o.lost /\ a.selected = o.selected /\ a.attempted = o.attempted
        /\ a.timer = "none"
    BY <1>4, ZenonT(80) DEF Windows
  <2>2. Gone(a) = Gone(o) /\ AutoConnect(a)
    BY <1>10, <2>1 DEF Gone
  <2> HIDE DEF a
  <2> QED
    BY <1>8, <1>10, <2>1, <2>2
<1>11. ASSUME NoDial([o EXCEPT !.pc = "poll"])
       PROVE  DialsAreCounted'
  <2> DEFINE a == [o EXCEPT !.pc = "poll"]
  <2>1. /\ a \in Windows /\ a.pc = "poll" /\ a.transport = o.transport /\ a.moving = o.moving
        /\ a.retries = o.retries /\ a.waiting = o.waiting /\ a.left = o.left
        /\ a.lost = o.lost /\ a.selected = o.selected /\ a.attempted = o.attempted
        /\ a.timer = o.timer
    BY <1>4, ZenonT(80) DEF Windows
  <2>2. Gone(a) = Gone(o) /\ NoDial(a)
    BY <1>11, <2>1 DEF Gone
  <2> HIDE DEF a
  <2> QED
    BY <1>8, <2>1, <2>2
<1> QED
  BY <1>3, <1>9, <1>10, <1>11

(* A new list of the bus: the phone that is back is dialled once.          *)
LEMMA ListIsCounted ==
    ASSUME Inv, Inv', DialsAreCounted, WindowWaits(app), app.attempted, Devices
    PROVE  DialsAreCounted'
<1>1. AheadParts
  BY PartsAreTyped
<1>2. inventory \in [enabled : BOOLEAN, previous : Lists, sent : Lists]
  BY DEF Inv, InventoryTypeOK
<1>3. session.state \notin {"Waiting", "Streaming"} =>
          Ahead(app, Settled, CableBack, Listing) <= AheadNow
  <2>1. AheadNow \in Nat
    BY AheadHasABound DEF AheadFits
  <2> QED
    BY <2>1 DEF AheadNow
<1>4. ASSUME NEW a \in Windows, AutoConnect(a) \/ NoDial(a), a.pc = "ui",
             a.transport = app.transport, a.moving = app.moving, a.retries = app.retries,
             a.waiting = app.waiting, a.left = app.left, a.attempted = app.attempted,
             a.timer = app.timer, a.pending = app.pending, a.recover = app.recover,
             CableBack' => CableBack, a.transport = "lan" => ~Listing',
             Ready(a) => Ready(app) \/ (CableBack /\ ~CableBack'),
             \/ NoDial(a)
             \/ inventory.sent # None /\ a.waiting /\ ~CableBack'
      PROVE  DialsAreCounted'
  <2>1. NoDial(a) /\ Settled' => Settled
    <3>1. ASSUME NoDial(a), Settled' PROVE Settled
      <4>1. app' = a /\ UNCHANGED session
        BY <3>1 DEF NoDial, sessionVars
      <4>2. app'.pc # "dial" /\ app'.pending = app.pending /\ app'.recover = app.recover
        BY <1>4, <4>1
      <4> QED
        BY <3>1, <4>1, <4>2 DEF Settled, SettledFor
    <3> QED
      BY <3>1
  <2>2. ASSUME ~running, ~NoDial(a),
               a.transport = "usb" => /\ ~Gone(a) /\ (a.waiting => a.left)
                                      /\ a.waiting \/ a.retries # 0
        PROVE  \/ a.transport = "usb" /\ ~CableBack' /\ (Ready(app) \/ CableBack)
               \/ a.transport = "lan" /\ ~Listing' /\ app.waiting /\ Listing
    <3>1. Listing /\ app.waiting /\ ~CableBack'
      BY <1>4, <2>2 DEF Listing
    <3>2. a.transport = "usb" => Ready(a)
      BY <1>4, <2>2 DEF Ready
    <3>3. a.transport \in {"usb", "lan"}
      BY DEF Windows
    <3> QED
      BY <1>4, <3>1, <3>2, <3>3
  <2>3. ~a.attempted => ~app.attempted
    BY <1>4
  <2>4. app \in Windows /\ Settled \in BOOLEAN /\ CableBack \in BOOLEAN /\ Listing \in BOOLEAN
    BY <1>1 DEF AheadParts
  <2> QED
    BY <1>3, <1>4, <2>1, <2>2, <2>3, <2>4, AutoConnectCounts
<1>5. CASE inventory.sent = None
  <2> DEFINE a == [app EXCEPT !.pc = "ui"]
  <2>1. NoDial(a) /\ UsbWatched(app, inventory)
    BY <1>5 DEF Devices
  <2>2. /\ a \in Windows /\ a.pc = "ui" /\ a.transport = app.transport /\ a.moving = app.moving
        /\ a.retries = app.retries /\ a.waiting = app.waiting /\ a.left = app.left
        /\ a.lost = app.lost /\ a.selected = app.selected /\ a.attempted = app.attempted
        /\ a.timer = app.timer /\ a.pending = app.pending /\ a.recover = app.recover
    BY <1>1, ZenonT(80) DEF AheadParts, Windows
  <2> HIDE DEF a
  <2>3. Gone(a) = Gone(app)
    BY <2>2 DEF Gone
  <2>4. app' = a /\ bus' = bus /\ inventory'.sent = None
        /\ inventory'.enabled = (app.transport = "usb")
    BY <1>2, <1>5, <2>1 DEF NoDial, UsbWatched
  <2>5. CableBack' = CableBack
    BY <1>5, <2>3, <2>4 DEF CableBack, Returning
  <2>6. a.transport = "lan" => ~Listing'
    BY <2>2, <2>4 DEF Listing
  <2>7. Ready(a) = Ready(app)
    BY <2>2, <2>3 DEF Ready
  <2> QED
    BY <1>4, <2>1, <2>2, <2>5, <2>6, <2>7
<1>6. CASE inventory.sent # None
  <2> DEFINE found == Reconciled(app, inventory.sent)
             a == [found EXCEPT !.pc = "ui"]
  <2>1. inventory.sent \in SUBSET Phones
    BY <1>2, <1>6 DEF Lists
  <2>2. found \in Windows
    BY <1>1, <2>1, ReconciledIsTyped DEF AheadParts
  <2>3. /\ found.transport = app.transport /\ found.moving = app.moving
        /\ found.retries = app.retries /\ found.waiting = app.waiting /\ found.left = app.left
        /\ found.attempted = app.attempted
        /\ found.timer = app.timer /\ found.pending = app.pending /\ found.recover = app.recover
    BY <1>1 DEF AheadParts, Reconciled, Windows
  <2>4. Gone(found) = (inventory.sent = {})
    <3>1. CASE inventory.sent = {}
      <4>1. found = [app EXCEPT !.lost = app.selected # None]
        BY <3>1 DEF Reconciled
      <4>2. found.lost = (app.selected # None) /\ found.selected = app.selected
        BY <1>1, <4>1 DEF AheadParts, Windows
      <4> QED
        BY <3>1, <4>2 DEF Gone
    <3>2. CASE inventory.sent # {}
      <4> DEFINE device == CHOOSE device \in inventory.sent : TRUE
      <4>1. device \in Phones
        BY <2>1, <3>2
      <4>2. device # None
        BY <4>1, HostAppAssumption DEF Phones
      <4>3. found = [app EXCEPT !.selected = device, !.lost = FALSE]
        BY <3>2 DEF Reconciled
      <4> HIDE DEF device, found
      <4>4. ~found.lost /\ found.selected = device
        BY <1>1, <4>3, ZenonT(80) DEF AheadParts, Windows
      <4> QED
        BY <3>2, <4>2, <4>4 DEF Gone
    <3> QED
      BY <3>1, <3>2
  <2>5. /\ UsbWatched(a, [inventory EXCEPT !.sent = None])
        /\ IF a.waiting /\ ~Gone(a) /\ ~running /\ ~a.suppressed
           THEN AutoConnect(a) ELSE NoDial(a)
    BY <1>6 DEF Devices
  <2> HIDE DEF found
  <2>6. /\ a \in Windows /\ a.pc = "ui" /\ a.transport = app.transport /\ a.moving = app.moving
        /\ a.retries = app.retries /\ a.waiting = app.waiting /\ a.left = app.left
        /\ a.lost = found.lost /\ a.selected = found.selected /\ a.attempted = app.attempted
        /\ a.timer = app.timer /\ a.pending = app.pending /\ a.recover = app.recover
    <3>1. /\ a \in Windows /\ a.pc = "ui" /\ a.transport = found.transport
          /\ a.moving = found.moving
          /\ a.retries = found.retries /\ a.waiting = found.waiting /\ a.left = found.left
          /\ a.lost = found.lost /\ a.selected = found.selected
          /\ a.attempted = found.attempted
          /\ a.timer = found.timer /\ a.pending = found.pending /\ a.recover = found.recover
      BY <2>2, ZenonT(80) DEF Windows
    <3> HIDE DEF a
    <3> QED
      BY <2>3, <3>1
  <2> HIDE DEF a
  <2>7. Gone(a) = (inventory.sent = {})
    BY <2>4, <2>6 DEF Gone
  <2>8. bus'.phone = bus.phone /\ Gone(app') = Gone(a)
    BY <2>5, <2>6, DialKeepsCable
  <2>9. inventory'.sent = None /\ inventory'.enabled = (a.transport = "usb")
    BY <1>2, <2>5 DEF UsbWatched
  <2>10. a.transport = "lan" => ~Listing'
    BY <2>9 DEF Listing
  <2>11. CASE inventory.sent = {}
    <3>1. NoDial(a) /\ ~Ready(a)
      BY <2>5, <2>7, <2>11 DEF Ready
    <3>2. CableBack' => CableBack
      BY <1>6, <2>8, <2>9, <2>11 DEF CableBack, Returning
    <3> QED
      BY <1>4, <2>6, <2>10, <3>1, <3>2
  <2>12. CASE inventory.sent # {}
    <3>1. ~CableBack'
      BY <2>7, <2>8, <2>9, <2>12 DEF CableBack, Returning
    <3>2. Ready(a) => Ready(app) \/ CableBack
      BY <1>6, <2>6, <2>12 DEF Ready, CableBack, Returning
    <3>3. NoDial(a) \/ a.waiting
      BY <2>5
    <3>4. AutoConnect(a) \/ NoDial(a)
      BY <2>5
    <3> QED
      BY <1>4, <1>6, <2>6, <2>10, <3>1, <3>2, <3>3, <3>4
  <2> QED
    BY <2>11, <2>12
<1> QED
  BY <1>5, <1>6

(* A step that dials nothing and takes nothing back.                       *)
LEMMA QuietStep ==
    ASSUME Inv, Inv', DialsAreCounted,
           app'.transport = app.transport, app'.moving = app.moving,
           app'.attempted = app.attempted, app'.retries = app.retries,
           app'.waiting = app.waiting, app'.left = app.left, app'.lost = app.lost,
           app'.selected = app.selected, app'.timer = app.timer,
           Settled' => Settled, CableBack' => CableBack, Listing' => Listing,
           history'.dials = history.dials, history'.returns = history.returns
    PROVE  DialsAreCounted'
<1>1. AheadParts
  BY PartsAreTyped
<1>2. AheadParts'
  BY PartsAreTyped, PTL
<1>3. /\ app \in Windows /\ app' \in Windows
      /\ Settled \in BOOLEAN /\ Settled' \in BOOLEAN /\ CableBack \in BOOLEAN
      /\ CableBack' \in BOOLEAN /\ Listing \in BOOLEAN /\ Listing' \in BOOLEAN
  BY <1>1, <1>2 DEF AheadParts
<1>4. Ready(app') = Ready(app) /\ Budget(app') = Budget(app) /\ Budget(app) \in Nat
  BY <1>3, HostAppAssumption DEF Ready, Gone, Budget, Windows
<1>5. Due(app', Settled') => Due(app, Settled)
  BY DEF Due
<1>6. /\ Num(Due(app', Settled')) <= Num(Due(app, Settled))
      /\ Num(Due(app', Settled')) \in {0, 1} /\ Num(Due(app, Settled)) \in {0, 1}
      /\ Num(Ready(app')) = Num(Ready(app)) /\ Num(Ready(app)) \in {0, 1}
      /\ Num(CableBack') <= Num(CableBack)
      /\ Num(CableBack') \in {0, 1} /\ Num(CableBack) \in {0, 1}
  BY <1>4, <1>5 DEF Num
<1>7. Budget(app') + Num(Due(app', Settled')) <= Budget(app) + Num(Due(app, Settled))
  BY <1>4, <1>6
<1>8. Num(Ready(app')) + Num(CableBack') <= Num(Ready(app)) + Num(CableBack)
  BY <1>6
<1>9. Ahead(app', Settled', CableBack', Listing') <= Ahead(app, Settled, CableBack, Listing)
  BY <1>3, <1>4, <1>7, <1>8, NoMoreAhead
<1>10. AheadNow' <= AheadNow
  BY <1>9 DEF AheadNow
<1> QED
  BY <1>10, CountStays

(* No event and no end of a poll takes a failure back that the window has  *)
(* not seen.                                                               *)
LEMMA FailureStaysShown ==
    ASSUME Inv, ReaderListens, PollsEvent \/ Poll, session.state = "Failed"
    PROVE  session'.state = "Failed"
<1> USE DEF Inv, SessionInv
<1>1. CASE PollsEvent
  <2>1. pipe # <<>> /\ session' = Handled(session, Head(pipe)) /\ pipe \in Seq(Events)
    BY <1>1 DEF PollsEvent, PollEvent
  <2>2. session.listening /\ worker.proc # None
    BY <2>1 DEF NothingRevives, ReaderListens
  <2>3. session.finished \/ Head(pipe).kind = "Stopped"
    BY <2>1, <2>2 DEF NothingRevives
  <2> QED
    BY <2>1, <2>3 DEF Handled, SessionTypeOK
<1>2. CASE Poll
  <2>1. session.auxiliary = None
    BY DEF OneProcess
  <2>2. PICK failing, silent, overdue \in BOOLEAN : PollEnds(silent, overdue, failing)
    BY <1>2, <2>1, NoneAssumption DEF Poll, PollAuxiliaryRunning, PollAuxiliaryFailed,
       PollAuxiliaryEnded, Living, Dead
  <2> DEFINE due == PollDeadlines(session, silent, overdue)
             waited == Waited(due, worker, failing)
             Type == [state : States, error : Errors \cup {None}, stop : BOOLEAN,
                 slot : BOOLEAN \cup {None}, deadline : {"none", "armed", "expired"},
                 listening : BOOLEAN, writer : {"start", "loop", "done"},
                 finished : BOOLEAN, permission : AnyPhone, pairing : BOOLEAN,
                 auxiliary : Procs,
                 restart : [job : Jobs, switched : BOOLEAN] \cup {None}]
             Same(s) == s \in Type /\ s.state = "Failed"
  <2>3. session' \in {waited, Finished(waited, Reaped(worker, failing))}
    BY <2>2 DEF PollEnds
  <2>4. Same(session)
    BY DEF SessionTypeOK
  <2>5. Same(due)
    BY <2>4, ZenonT(80) DEF PollDeadlines, Failed, States, Errors
  <2> HIDE DEF due
  <2>6. Same(waited)
    BY <2>5 DEF Waited, Failed, States, Errors
  <2> HIDE DEF waited
  <2>7. Finished(waited, Reaped(worker, failing)).state = "Failed"
    BY <2>6 DEF Finished
  <2> QED
    BY <2>3, <2>6, <2>7
<1> QED
  BY <1>1, <1>2

LEMMA PollIsCounted ==
    ASSUME Inv, Inv', DialsAreCounted, ReaderListens, TakePairing \/ PollsEvent \/ Poll
    PROVE  DialsAreCounted'
<1>0. app \in Windows /\ session.state \in States
  BY DEF Inv, AppTypeOK, SessionInv, SessionTypeOK
<1>1. /\ app'.transport = app.transport /\ app'.moving = app.moving
      /\ app'.attempted = app.attempted /\ app'.retries = app.retries
      /\ app'.waiting = app.waiting /\ app'.left = app.left /\ app'.lost = app.lost
      /\ app'.selected = app.selected /\ app'.timer = app.timer
      /\ app'.pending = app.pending /\ app'.recover = app.recover
      /\ app.pc # "dial" /\ app'.pc # "dial"
  <2>1. /\ \/ app' = app
           \/ app' = [app EXCEPT !.pc = "logic", !.paired = TRUE, !.received = TRUE]
           \/ app' = [app EXCEPT !.pc = "devices"]
        /\ app.pc \in {"logic", "ui", "poll"}
    BY DEF TakePairing, PollsEvent, Poll, appVars
  <2> QED
    BY <1>0, <2>1, ZenonT(80) DEF Windows
<1>2. UNCHANGED <<inventory, history>> /\ bus'.phone = bus.phone
  <2>1. UNCHANGED <<inventory, history>>
    BY DEF TakePairing, PollsEvent, Poll, appVars
  <2>2. bus' = bus \/ bus' = [bus EXCEPT !.faults = @ - 1]
    BY DEF TakePairing, PollsEvent, Poll, appVars
  <2> QED
    BY <2>1, <2>2 DEF Inv, BusTypeOK
<1>3. session.state = "Failed" => session'.state = "Failed"
  BY FailureStaysShown DEF TakePairing, Inv, SessionInv, SessionTypeOK
<1>4. Settled' => Settled
  BY <1>1, <1>3 DEF Settled, SettledFor
<1>5. CableBack' = CableBack /\ Listing' = Listing
  BY <1>1, <1>2 DEF CableBack, Returning, Listing, Gone
<1> QED
  BY <1>1, <1>2, <1>4, <1>5, QuietStep

LEMMA PressIsCounted ==
    ASSUME Inv, Inv', DialsAreCounted, User
    PROVE  DialsAreCounted'
<1>1. CASE Quit
  <2>1. /\ app \in Windows /\ session.state \in States
    BY DEF Inv, AppTypeOK, SessionInv, SessionTypeOK
  <2>2. /\ app'.transport = app.transport /\ app'.moving = app.moving
        /\ app'.attempted = app.attempted /\ app'.retries = app.retries
        /\ app'.waiting = app.waiting /\ app'.left = app.left /\ app'.lost = app.lost
        /\ app'.selected = app.selected /\ app'.timer = app.timer
        /\ app'.pending = app.pending /\ app'.recover = app.recover
        /\ app.pc # "dial" /\ app'.pc # "dial"
    BY <1>1, <2>1, ZenonT(80) DEF Quit, Windows
  <2>3. session'.state = session.state /\ UNCHANGED <<bus, inventory, history>>
    BY <1>1 DEF Quit, Dropped, Inv, SessionInv, SessionTypeOK
  <2>4. Settled' = Settled
    BY <2>2, <2>3 DEF Settled, SettledFor
  <2>5. CableBack' = CableBack /\ Listing' = Listing
    BY <2>2, <2>3 DEF CableBack, Returning, Listing, Gone
  <2> QED
    BY <2>2, <2>3, <2>4, <2>5, QuietStep
<1>2. CASE ~Quit
  <2>1. history \in [clicks : Nat, dials : Nat, returns : Nat, quit : BOOLEAN]
    BY DEF Inv, HistoryTypeOK
  <2>2. history' = AfterClick \/ \E quit : history' = [AfterClick EXCEPT !.quit = quit]
    BY <1>2 DEF User, PressDisconnect, PressConnect, PressSwitch, PressLater, Rotate,
                PressReplace, ForgetPhone, SelectTransport
  <2>3. history'.dials = 0
    BY <2>1, <2>2 DEF AfterClick
  <2> QED
    BY <2>3, PressCountsAnew
<1> QED
  BY <1>1, <1>2

(* Neither the threads nor the worker dial; nor do they bring a phone back *)
(* that is not on the bus.                                                 *)
LEMMA WorkIsCounted ==
    ASSUME Inv, Inv', DialsAreCounted, Threads \/ Worker \/ UNCHANGED vars
    PROVE  DialsAreCounted'
<1> USE DEF Inv, SessionInv
<1>1. UNCHANGED <<app, inventory, history>>
  BY DEF Threads, Worker, appVars, vars
<1>2. session'.state = session.state
  BY DEF Threads, Worker, vars, WriterStep, OutputEnds, ProcessEnds, DeadlinePasses,
     WorkerConnects, WorkerConnectsLan, WorkerConnectsUsb, WorkerExchanges, WorkerStreams,
     WorkerStops, AuxiliaryEnds, WorkerFails, Proceeds, SessionTypeOK
<1>3. bus'.phone # None => bus.phone # None
  <2>1. CASE UNCHANGED bus
    BY <2>1
  <2>2. CASE bus' = [bus EXCEPT !.denied = FALSE, !.writable = TRUE]
    BY <2>2 DEF BusTypeOK
  <2>3. CASE \E device \in Listed : TRUE
    BY <2>3 DEF Listed
  <2>4. \/ UNCHANGED bus \/ \E device \in Listed : TRUE
        \/ bus' = [bus EXCEPT !.denied = FALSE, !.writable = TRUE]
    BY DEF Threads, Worker, appVars, vars,
       WorkerConnects, WorkerConnectsLan, WorkerConnectsUsb, WorkerExchanges, WorkerStreams,
       WorkerStops, AuxiliaryEnds
  <2> QED
    BY <2>1, <2>2, <2>3, <2>4
<1>4. Settled' = Settled
  BY <1>1, <1>2 DEF Settled, SettledFor
<1>5. (CableBack' => CableBack) /\ Listing' = Listing
  BY <1>1, <1>3 DEF CableBack, Returning, Listing
<1> QED
  BY <1>1, <1>4, <1>5, QuietStep

(* A phone that is plugged in is counted, and may be dialled once for it.  *)
LEMMA PlugAddsOne ==
    ASSUME NEW a \in Windows, NEW settled \in BOOLEAN, NEW listing \in BOOLEAN,
           NEW returning \in BOOLEAN, NEW returning2 \in BOOLEAN
    PROVE  Ahead(a, settled, returning2, listing) <= Ahead(a, settled, returning, listing) + 1
<1>1. /\ Num(returning2) <= Num(returning) + 1
      /\ Num(Ready(a) \/ returning2) <= Num(Ready(a) \/ returning) + 1
      /\ Num(returning) \in Nat /\ Num(returning2) \in Nat /\ Num(Ready(a)) \in Nat
      /\ Num(Ready(a) \/ returning) \in Nat /\ Num(Ready(a) \/ returning2) \in Nat
      /\ Num(~a.attempted) \in Nat /\ Num(Due(a, settled)) \in Nat
      /\ Num(a.waiting /\ listing) \in Nat
  BY DEF Num
<1>2. AutoRetryLimit \in Nat /\ Budget(a) \in Nat
  BY HostAppAssumption DEF Budget, Windows
<1> QED
  BY <1>1, <1>2 DEF Ahead

LEMMA CableIsCounted ==
    ASSUME Inv, Inv', DialsAreCounted, Cable
    PROVE  DialsAreCounted'
<1>1. UNCHANGED <<app, session>>
  BY DEF Cable, Plug, Unplug, ListUsb, sessionVars
<1>2. Settled' = Settled
  BY <1>1 DEF Settled, SettledFor
<1>3. CASE Unplug
  <2>1. UNCHANGED <<inventory, history>> /\ bus'.phone = None
    BY <1>3 DEF Unplug, Inv, BusTypeOK
  <2>2. (CableBack' => CableBack) /\ Listing' = Listing
    BY <1>1, <2>1 DEF CableBack, Returning, Listing
  <2> QED
    BY <1>1, <1>2, <2>1, <2>2, QuietStep
<1>4. CASE ListUsb
  <2>1. UNCHANGED <<bus, history>> /\ inventory.enabled /\ inventory.sent = None
        /\ inventory'.sent = Listed
    BY <1>4 DEF ListUsb, Inv, InventoryTypeOK
  <2>2. Listing
    BY <2>1 DEF Listing
  <2>3. CableBack' => CableBack
    BY <1>1, <2>1 DEF CableBack, Returning, Listed
  <2> QED
    BY <1>1, <1>2, <2>1, <2>2, <2>3, QuietStep
<1>5. CASE Plug
  <2>1. /\ AheadParts
    BY PartsAreTyped
  <2>2. CableBack' \in BOOLEAN
    <3>1. AheadParts'
      BY PartsAreTyped, PTL
    <3> QED
      BY <3>1 DEF AheadParts
  <2>3. /\ history' = [history EXCEPT !.returns = @ + 1] /\ UNCHANGED inventory
    BY <1>5 DEF Plug
  <2>4. history'.dials = history.dials /\ history'.returns = history.returns + 1
    BY <2>3 DEF Inv, HistoryTypeOK
  <2>5. Listing' = Listing
    BY <2>3 DEF Listing
  <2>6. Ahead(app, Settled, CableBack', Listing) <= Ahead(app, Settled, CableBack, Listing) + 1
    BY <2>1, <2>2, PlugAddsOne DEF AheadParts
  <2>7. AheadNow' <= AheadNow + 1
    BY <1>1, <1>2, <2>5, <2>6 DEF AheadNow
  <2>8. AheadNow' \in Nat
    <3>1. AheadFits'
      BY AheadHasABound, PTL
    <3> QED
      BY <3>1 DEF AheadFits
  <2>9. AheadNow \in Nat
    BY AheadHasABound DEF AheadFits
  <2>10. history.dials \in Nat /\ history.returns \in Nat /\ AutoRetryLimit \in Nat
    BY HostAppAssumption DEF Inv, HistoryTypeOK
  <2>11. history.dials + AheadNow <= 4 + AutoRetryLimit + history.returns
    BY DEF DialsAreCounted
  <2>12. history.dials + AheadNow' <= 4 + AutoRetryLimit + (history.returns + 1)
    BY <2>7, <2>8, <2>9, <2>10, <2>11
  <2>13. history'.dials + AheadNow' <= 4 + AutoRetryLimit + history'.returns
    BY <2>4, <2>12
  <2> QED
    BY <2>13 DEF DialsAreCounted
<1> QED
  BY <1>3, <1>4, <1>5 DEF Cable

LEMMA CountKeeps ==
    ASSUME Inv, Inv', QuietAfterQuit, RetryInv, [Next]_vars
    PROVE  RetryInv'
<1>1. WindowWaits(app) /\ ReaderListens /\ DialsAreCounted
  BY DEF RetryInv, WaitsAreKnown, WindowWaits, ReaderListens
<1>2. WindowWaits(app') /\ ReaderListens'
  BY <1>1, WindowWaitsKept, ReaderListensKept
<1>3. WaitsAreKnown'
  BY <1>2 DEF WaitsAreKnown, WindowWaits, ReaderListens
<1>4. Devices => app.attempted
  BY DEF Devices, QuietAfterQuit
<1>5. DialsAreCounted'
  BY <1>1, <1>4, MoveIsCounted, DialIsCounted, ListIsCounted, PollIsCounted, PressIsCounted,
     WorkIsCounted, CableIsCounted DEF Next, Frame
<1> QED
  BY <1>3, <1>5 DEF RetryInv

LEMMA CountBegins == Init => RetryInv
<1> SUFFICES ASSUME Init PROVE RetryInv
  OBVIOUS
<1>1. /\ app.left = FALSE /\ app.waiting = FALSE /\ app.moving = FALSE /\ history.dials = 0
      /\ history.returns = 0 /\ session.listening = FALSE
  BY DEF Init, NewSession
<1>2. AheadFits
  BY InitTyped, AheadHasABound
<1>3. AutoRetryLimit \in Nat
  BY HostAppAssumption
<1>4. DialsAreCounted
  BY <1>1, <1>2, <1>3 DEF DialsAreCounted, AheadFits
<1> QED
  BY <1>1, <1>4 DEF RetryInv, WaitsAreKnown

-----------------------------------------------------------------------------
(* The theorems. *)

(* The invariant the others rest on: types, one process, nothing that      *)
(* brings a failed session back, and Start before any other command.       *)
THEOREM Invariance == Spec => []Inv
<1>1. Init => Inv
  BY InitTyped
<1>2. Inv /\ [Next]_vars => Inv'
  BY NextKeeps
<1> QED
  BY <1>1, <1>2, PTL DEF Spec

(* Every field of the Session, the window, the worker and the bus keeps to *)
(* the values the code gives it, whatever presses, plugs and faults.       *)
THEOREM TypeCorrectness == Spec => []TypeOK
<1>1. Inv => TypeOK
  BY DEF Inv, SessionInv, TypeOK
<1> QED
  BY <1>1, Invariance, PTL

(* start(), stop(), poll() and their threads and processes implement the   *)
(* session the window counts on: one receiver at a time, that has ended    *)
(* before the session is over, and no way back from a stop or a failure.   *)
THEOREM SessionImplements == Spec => SessionIsALifecycle
<1>1. Init => Lifecycle!Init
  BY SessionBegins
<1>2. Inv /\ [Next]_vars => [Lifecycle!Next]_<<Phase, Receivers>>
  BY NextKeeps DEF LifecycleStep
<1> QED
  BY <1>1, <1>2, Invariance, PTL DEF Spec, SessionIsALifecycle, Lifecycle!Spec
(* A Disconnect holds: whatever timer, list of the bus or answer comes     *)
(* later, no session begins until the user presses something that dials.   *)
THEOREM DisconnectIsFinal == Spec => DisconnectHolds
<1>1. Init => QuietAfterQuit
  BY DEF Init, QuietAfterQuit
<1>2. Inv /\ QuietAfterQuit /\ [Next]_vars => QuietAfterQuit'
  BY QuietKeeps
<1>3. Inv /\ QuietAfterQuit /\ [Next]_vars
        => [history.quit /\ ~running => ~running' \/ ~history'.quit]_vars
  BY QuietKeeps
<1> QED
  BY <1>1, <1>2, <1>3, Invariance, PTL DEF Spec, DisconnectHolds

(* The last rotation the user set is what the worker shows, has on its way *)
(* or starts with: neither the one-place slot, nor a Start still unwritten,*)
(* nor the wait for the helper loses it.                                   *)
THEOREM NewestRotationWins == Spec => []NewestTransform
<1>1. Init => NewestTransform
  <2>1. Init => session.restart = None /\ worker.proc = None
    BY DEF Init, NewSession, NoWorker
  <2> QED
    BY <2>1, NoneAssumption DEF NewestTransform
<1>2. ASSUME Inv, NewestTransform, [Next]_vars PROVE NewestTransform'
  <2>1. CASE Cable \/ UNCHANGED vars
    <3>1. UNCHANGED <<app, session, worker>>
      BY <2>1 DEF Cable, Plug, Unplug, ListUsb, sessionVars, vars
    <3> QED
      BY <1>2, <3>1, SameRotation
  <2> QED
    BY <1>2, <2>1, FrameTurned, UserTurned, ThreadsTurned, WorkerTurned DEF Next
<1> QED
  BY <1>1, <1>2, Invariance, PTL DEF Spec

(* However often the worker fails, and whatever timers, lists of the bus   *)
(* and moves to Wi-Fi are under way, logic() and poll_inventory() dial a   *)
(* phone that never answers a bounded number of times after the last press.*)
THEOREM BoundedRetries == Spec => []RetriesAreBounded
<1>1. Init => QuietAfterQuit
  BY DEF Init, QuietAfterQuit
<1>2. Inv /\ Inv' /\ QuietAfterQuit /\ RetryInv /\ [Next]_vars => QuietAfterQuit' /\ RetryInv'
  BY QuietKeeps, CountKeeps
<1>3. Inv /\ RetryInv => RetriesAreBounded
  <2> SUFFICES ASSUME Inv, RetryInv PROVE RetriesAreBounded
    OBVIOUS
  <2>1. AheadNow \in Nat
    BY AheadHasABound DEF AheadFits
  <2>2. history.dials \in Nat /\ history.returns \in Nat /\ AutoRetryLimit \in Nat
    BY HostAppAssumption DEF Inv, HistoryTypeOK
  <2>3. history.dials + AheadNow <= 4 + AutoRetryLimit + history.returns
    BY DEF RetryInv, DialsAreCounted
  <2> QED
    BY <2>1, <2>2, <2>3 DEF RetriesAreBounded
<1> QED
  BY <1>1, <1>2, <1>3, CountBegins, Invariance, PTL DEF Spec
=============================================================================
