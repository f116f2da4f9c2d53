---------------------------- MODULE HostSession ----------------------------
(***************************************************************************)
(* The desktop's Session (session.rs) with the processes it owns: the      *)
(* receiver worker, whose events a reader thread forwards to the window    *)
(* and whose commands a writer thread takes from a one-place slot,         *)
(* and, on Linux, the auxiliary pkexec process that sets the host up or    *)
(* switches the phone before a worker is started for it.                   *)
(*                                                                         *)
(* The functions below are the bodies of the methods, from one Session     *)
(* record to the next; HostApp calls them from the frames of the window.   *)
(* Pipe and channel are one queue, of which one poll() handles what the    *)
(* reader thread has forwarded: some prefix.                               *)
(* A killed process is "dying" until the operating system has ended it.    *)
(* The quality half of Session is in HostQuality; of it only the ends of a *)
(* session are here.  Instants are "none", "armed" or "expired".           *)
(***************************************************************************)
EXTENDS Integers, Sequences

CONSTANT None

ASSUME NoneAssumption ==
    /\ None \notin BOOLEAN
    /\ None \notin {"alive", "dying", "success", "failure", "hopeless"}

VARIABLES
    session,        \* the fields of Session, and the threads' own ones
    worker,         \* the child process and what it has been told
    pipe            \* the events it has written and poll() has not seen

sessionVars == <<session, worker, pipe>>

(* What arm_retry and the texts tell apart in an error message. *)
Errors == {"transient", "hopeless", "replug"}
States == {"Idle", "Connecting", "ApprovalPending", "Waiting", "Streaming",
           "Stopping", "Failed"}
Living == {"alive", "dying"}
Dead   == {"success", "failure"}

Event(kind)    == [kind |-> kind, body |-> None]
Error(error)   == [kind |-> "Error", body |-> error]
Denied(device) == [kind |-> "UsbPermission", body |-> device]

NoWorker == [proc |-> None, phase |-> "boot", job |-> None, rotated |-> FALSE,
             told |-> FALSE]
Job(transport, device, rotated) ==
    [transport |-> transport, device |-> device, rotated |-> rotated]
NewSession ==
    [state |-> "Idle", error |-> None, stop |-> FALSE, slot |-> None,
     deadline |-> "none", listening |-> FALSE, writer |-> "done",
     finished |-> FALSE, permission |-> None,
     pairing |-> FALSE, auxiliary |-> None, restart |-> None]

Failed(s, error) == [s EXCEPT !.state = "Failed", !.error = error]
Running(s, w) == s.auxiliary # None \/ w.proc # None
Kill(proc) == IF proc = "alive" THEN "dying" ELSE proc

(* Of a worker that was killed or has ended, only that is left.            *)
Corpse(proc) == [NoWorker EXCEPT !.proc = proc]
Killed(w) == IF w.proc = "alive" THEN Corpse("dying") ELSE w

-----------------------------------------------------------------------------
(* The methods. *)

\* Mutant: the command slot of the last session is not emptied.
Started_KeepsSlot(s) ==
    [s EXCEPT !.state = "Connecting", !.error = None, !.stop = FALSE,
              !.listening = TRUE, !.writer = "start", !.permission = None]
(* start(): deadline and pairing_info are the only fields it leaves alone. *)
Started(s) ==
    [s EXCEPT !.state = "Connecting", !.error = None, !.stop = FALSE,
              !.slot = None, !.listening = TRUE, !.writer = "start",
              !.permission = None]
Spawned(job) == [NoWorker EXCEPT !.proc = "alive", !.job = job]
(* start() that could not spawn: the fields are reset all the same. *)
NotSpawned(s) ==
    Failed([s EXCEPT !.stop = FALSE, !.slot = None, !.permission = None],
           "transient")

(* auxiliary(): pkexec with a script or a device on its standard input. *)
Assisted(s, restart) ==
    [s EXCEPT !.state = "Connecting", !.error = None, !.permission = None,
              !.auxiliary = "alive", !.restart = restart]

Transformed(s, w, rotated) ==
    IF s.auxiliary # None
    THEN IF s.restart = None THEN s
         ELSE [s EXCEPT !.restart.job.rotated = rotated]
    ELSE IF Running(s, w) THEN [s EXCEPT !.slot = rotated] ELSE s

\* Mutant: a stop waits for as long as the worker takes.
Stopped_Patiently(s, w) ==
    IF s.auxiliary # None
    THEN [s EXCEPT !.restart = None, !.auxiliary = Kill(s.auxiliary),
                   !.state = "Stopping", !.error = None]
    ELSE IF Running(s, w)
    THEN [s EXCEPT !.stop = TRUE, !.state = "Stopping", !.error = None] ELSE s
Stopped(s, w) ==
    IF s.auxiliary # None
    THEN [s EXCEPT !.restart = None, !.auxiliary = Kill(s.auxiliary),
                   !.state = "Stopping", !.error = None]
    ELSE IF Running(s, w)
    THEN [s EXCEPT !.stop = TRUE, !.deadline = "armed",
                   !.state = "Stopping", !.error = None]
    ELSE s

-----------------------------------------------------------------------------
(* poll() *)

(* One event of the channel; Stopped counts even while stopping.           *)
Shown(s, state) == [s EXCEPT !.state = state, !.error = None]
Heeded(s, event) ==
    CASE event.kind = "Connecting"    -> Shown(s, "Connecting")
      [] event.kind = "Waiting"       -> Shown(s, "Waiting")
      [] event.kind = "Pending"       -> Shown(s, "ApprovalPending")
      [] event.kind = "ActiveStats"   -> Shown(s, "Streaming")
      [] event.kind = "IdleStats"     -> Shown(s, "Waiting")
      [] event.kind = "Error"         -> Failed(s, event.body)
      [] event.kind = "QualityFailed" ->
             [Failed(s, "transient") EXCEPT !.finished = TRUE]
      [] event.kind = "UsbPermission" -> [s EXCEPT !.permission = event.body]
      [] event.kind = "PairingInfo"   -> [s EXCEPT !.pairing = TRUE]
      [] OTHER                        -> s
Handled(s, event) ==
    IF event.kind = "Stopped" THEN [s EXCEPT !.finished = TRUE]
    ELSE IF s.state = "Stopping" \/ s.finished THEN s
    ELSE Heeded(s, event)

\* Mutant: a session that has finished forgets its child.
Reaped_Unasked(w, failing) == TRUE
(* try_wait(): failing is whether waiting itself did, for a dead process. *)
Reaped(w, failing) == w.proc = None \/ (w.proc \in Dead /\ ~failing)
Waited(s, w, failing) ==
    CASE failing -> [Failed(s, "transient") EXCEPT !.finished = TRUE]
      [] ~failing /\ w.proc \in Dead ->
             IF w.proc = "failure" /\ s.state \notin {"Failed", "Stopping"}
             THEN [Failed(s, "transient") EXCEPT !.finished = TRUE]
             ELSE [s EXCEPT !.finished = TRUE]
      [] OTHER -> s

(* The end of poll(): a worker that lives on is killed and asked again.    *)
(* With a worker that is dead the threads of its pipes end too.            *)
Finished(s, reaped) ==
    [s EXCEPT !.stop = TRUE, !.listening = FALSE, !.finished = FALSE,
              !.deadline = IF reaped THEN "none" ELSE "armed",
              !.writer = IF reaped THEN "done" ELSE @,
              !.state = IF s.state = "Failed" THEN "Failed"
                        ELSE IF reaped THEN "Idle" ELSE "Stopping"]

(* The next event of the channel. *)
PollEvent ==
    /\ session.auxiliary = None /\ pipe # <<>>
    /\ session' = Handled(session, Head(pipe)) /\ pipe' = Tail(pipe)
    /\ UNCHANGED worker

(* After the last one: three seconds without Stats perhaps, the deadline   *)
(* of a quality request, that of a stop or of a kill, and what became of   *)
(* the child.                                                              *)
PollDeadlines(s, silent, overdue) ==
    LET shown == [s EXCEPT !.state = IF silent /\ @ = "Streaming" THEN "Waiting" ELSE @]
        ended == IF overdue THEN Failed(shown, "transient") ELSE shown
    IN  [ended EXCEPT !.finished = @ \/ overdue \/ s.deadline = "expired"]
PollEnds(silent, overdue, failing) ==
    LET waited == Waited(PollDeadlines(session, silent, overdue), worker, failing)
        reaped == Reaped(worker, failing)
        late   == session.deadline = "expired"
    IN  /\ session.auxiliary = None
        /\ failing => worker.proc \in Dead
        /\ overdue => session.state \in {"Waiting", "Streaming"} /\ ~session.finished
        /\ session' = IF waited.finished THEN Finished(waited, reaped) ELSE waited
        /\ worker' = IF waited.finished /\ reaped THEN NoWorker
                     ELSE IF waited.finished \/ late THEN Killed(worker) ELSE worker
        /\ pipe' = IF waited.finished THEN <<>> ELSE pipe

(* poll() of an auxiliary process that is still running. *)
PollAuxiliaryRunning == session.auxiliary \in Living /\ UNCHANGED sessionVars

(* The auxiliary process failed, or could not be waited for. *)
PollAuxiliaryFailed(failing) ==
    /\ session.auxiliary \in Dead
    /\ failing \/ (session.auxiliary = "failure" /\ session.state # "Stopping")
    /\ session' = [Failed(session, IF failing THEN "transient" ELSE "hopeless")
                      EXCEPT !.auxiliary = None, !.restart = None]
    /\ UNCHANGED <<worker, pipe>>

(* It succeeded, or was stopped: the session it was for starts now.        *)
(* device is what switched_identity() answered, None when it failed.       *)
PollAuxiliaryEnded(device, spawned) ==
    LET idle == [session EXCEPT !.auxiliary = None, !.restart = None,
                                !.state = "Idle", !.error = None]
        job  == session.restart.job
        gone == session.restart.switched /\ device = None
    IN  /\ session.auxiliary = "success"
           \/ (session.auxiliary = "failure" /\ session.state = "Stopping")
        /\ CASE session.restart = None ->
                  session' = idle /\ UNCHANGED <<worker, pipe>>
             [] session.restart # None /\ gone ->
                  /\ session' = Failed(idle, "replug")
                  /\ UNCHANGED <<worker, pipe>>
             [] session.restart # None /\ ~gone /\ ~spawned ->
                  session' = NotSpawned(idle) /\ UNCHANGED <<worker, pipe>>
             [] OTHER ->
                  /\ session' = Started(idle)
                  /\ worker' = Spawned(IF session.restart.switched
                                       THEN [job EXCEPT !.device = device] ELSE job)
                  /\ pipe' = <<>>

-----------------------------------------------------------------------------
(* The threads and the processes. *)

(* The writer thread: Start, the slot while not stopped, and Stop.         *)
(* The worker's own thread takes each command as it comes.                 *)
WriterStep ==
    /\ worker.proc = "alive"
    /\ \/ /\ session.writer = "start" /\ worker.phase = "boot"
          /\ session' = [session EXCEPT !.writer = "loop"]
          /\ worker' = [worker EXCEPT !.phase = "started",
                                      !.rotated = worker.job.rotated]
       \/ /\ session.writer = "loop" /\ ~session.stop /\ session.slot # None
          /\ session' = [session EXCEPT !.slot = None]
          /\ worker' = [worker EXCEPT !.rotated = session.slot]
       \/ /\ session.writer = "loop" /\ session.stop
          /\ session' = [session EXCEPT !.writer = "done"]
          /\ worker' = [worker EXCEPT !.told = TRUE]
    /\ UNCHANGED pipe

(* What the worker writes while nobody listens any more is lost. *)
Says(list) == pipe' = IF session.listening THEN pipe \o list ELSE pipe

(* At the end of the output the reader thread makes up for a Stopped that  *)
(* never came.                                                             *)
OutputEnds ==
    /\ worker.proc \in Dead /\ session.listening /\ ~session.finished
    /\ \A i \in DOMAIN pipe : pipe[i].kind # "Stopped"
    /\ Says(<<Error("transient"), Event("Stopped")>>)
    /\ UNCHANGED <<session, worker>>

(* A killed process ends; so does a worker that has written Stopped.       *)
ProcessEnds ==
    \/ /\ \/ worker.proc = "dying" /\ worker' = Corpse("failure")
          \/ worker.proc = "alive" /\ worker.phase = "failed"
             /\ worker' = Corpse("failure")
          \/ worker.proc = "alive" /\ worker.phase = "ended"
             /\ worker' = Corpse("success")
       /\ UNCHANGED <<session, pipe>>
    \/ /\ session.auxiliary = "dying"
       /\ session' = [session EXCEPT !.auxiliary = "failure"]
       /\ UNCHANGED <<worker, pipe>>

(* The deadline passes. *)
DeadlinePasses ==
    /\ session.deadline = "armed"
    /\ session' = [session EXCEPT !.deadline = "expired"]
    /\ UNCHANGED <<worker, pipe>>

(* ~App: the window is gone, and with it the Session: both are killed.     *)
Dropped ==
    /\ session' = [session EXCEPT !.stop = TRUE, !.auxiliary = Kill(@)]
    /\ worker' = Killed(worker)
    /\ UNCHANGED pipe
=============================================================================
