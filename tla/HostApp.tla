------------------------------- MODULE HostApp -------------------------------
(***************************************************************************)
(* The window of the PC program (gui.rs): automatic connections, their     *)
(* retries and the wait for a replugged phone, the buttons, the thread     *)
(* that lists the USB bus, and the Session under them.                     *)
(*                                                                         *)
(* A frame runs from "logic" to "ui"; the worker, the threads and the      *)
(* cable may do anything between two parts of a frame.  The user presses   *)
(* at most one button a frame.  Times are not compared: a timer that has   *)
(* been armed may be found due in any later frame.                         *)
(***************************************************************************)
EXTENDS HostSession

CONSTANTS
    AutoRetryLimit,     \* AUTO_RETRY_LIMIT
    MaxPlugs,           \* bound: enumerations of the phone on the bus
    MaxClicks,          \* bound: buttons the user presses
    Starts              \* the settings a launch finds, and the PC it runs on

ASSUME HostAppAssumption ==
    /\ AutoRetryLimit \in Nat \ {0}
    /\ MaxPlugs \in Nat
    /\ MaxClicks \in Nat
    /\ Starts \subseteq [transport : {"usb", "lan"}, paired : BOOLEAN,
                        denied : BOOLEAN, writable : BOOLEAN, helper : BOOLEAN,
                        faults : Nat]
    /\ None \notin [number : Nat, accessory : BOOLEAN]

VARIABLES
    app,        \* the fields of App that decide what it does
    bus,        \* the phone on the USB bus, and what the system permits
    inventory,  \* the thread that lists the bus, with its channel of one
    history     \* what the user asked for last, and what was dialled since

appVars == <<app, bus, inventory, history>>
vars == <<app, bus, inventory, history, session, worker, pipe>>

running == Running(session, worker)
Gone(a) == a.lost \/ a.selected = None
JobOf(a) == Job(a.transport, IF a.transport = "usb" THEN a.selected ELSE None,
                a.rotated)
(* allow_usb() goes by the device the worker was denied, which need not be *)
(* the one that is selected now.                                           *)
DeniedJob(a) == Job(a.transport, session.permission, a.rotated)

-----------------------------------------------------------------------------
(* The phone: unplugged, plugged in, switched into accessory mode.         *)

Device(number, accessory) == [number |-> number, accessory |-> accessory]
Listed == IF bus.phone = None THEN {} ELSE {bus.phone}

(* switched_identity(): the accessory at the port of the device.           *)
SwitchedIdentity(device) ==
    IF device # None /\ bus.phone # None /\ bus.phone.accessory THEN bus.phone ELSE None

Enters(device) ==
    [bus EXCEPT !.phone = Device(bus.plugs + 1, TRUE), !.plugs = @ + 1]

Unplug == bus.phone # None /\ bus' = [bus EXCEPT !.phone = None]
          /\ UNCHANGED <<app, inventory, history, sessionVars>>
Plug ==
    /\ bus.phone = None /\ bus.plugs < MaxPlugs
    /\ bus' = [bus EXCEPT !.phone = Device(bus.plugs + 1, FALSE), !.plugs = @ + 1]
    /\ history' = [history EXCEPT !.returns = @ + 1]
    /\ UNCHANGED <<app, inventory, sessionVars>>

(* reconcile_selection() with one phone at one port; UsbLink has the rest. *)
Reconciled(a, list) ==
    IF list = {} THEN [a EXCEPT !.lost = a.selected # None]
    ELSE [a EXCEPT !.selected = CHOOSE device \in list : TRUE, !.lost = FALSE]

(* The inventory thread; it waits in park() while USB is not selected.     *)
ListUsb ==
    /\ inventory.enabled /\ inventory.sent = None /\ Listed # inventory.previous
    /\ inventory' = [inventory EXCEPT !.sent = Listed, !.previous = Listed]
    /\ UNCHANGED <<app, bus, history, sessionVars>>

-----------------------------------------------------------------------------
(* Session::start, setup, connect and allow_usb, with what they may find.  *)
(* Each is a relation between sessionVars and the next ones; ok is Ok(()). *)

Fault == bus.faults > 0
Refuse(s) == session' = s /\ UNCHANGED <<worker, pipe>>

StartWorker(j, ok) ==
    IF ok THEN /\ session' = Started(session) /\ worker' = Spawned(j)
               /\ pipe' = <<>>
    ELSE Fault /\ Refuse(NotSpawned(session))

RunAuxiliary(j, switched, ok) ==
    IF ok THEN Refuse(Assisted(session, [job |-> j, switched |-> switched]))
    ELSE Fault /\ Refuse(Failed(session, "transient"))

(* A phone that is no accessory yet and may not be opened is switched too. *)
Setup(j, ok) ==
    LET outside == j.device # None /\ ~j.device.accessory
    IN  IF outside /\ j.device \notin Listed
        THEN ~ok /\ Refuse(Failed(session, "replug"))
        ELSE RunAuxiliary(j, outside /\ bus.denied, ok)

(* connect(): a loopback device that cannot be written needs the setup.    *)
Connect(j, ok) ==
    CASE j.transport = "usb" /\ j.device = None ->
            ~ok /\ Refuse(Failed(session, "transient"))
      [] j.transport = "usb" /\ j.device # None /\ ~bus.writable -> Setup(j, ok)
      [] j.transport = "lan" /\ ~bus.writable -> Setup(j, ok)
      [] OTHER -> StartWorker(j, ok)

AllowUsb(j, ok) ==
    IF session.permission.accessory \/ ~bus.helper THEN Setup(j, ok)
    ELSE RunAuxiliary(j, TRUE, ok)

Counted(ok) == bus' = IF ok \/ ~Fault THEN bus ELSE [bus EXCEPT !.faults = @ - 1]
-----------------------------------------------------------------------------
(* Retries. *)

(* usb_may_dial(): a replug is over only when the phone was seen to leave. *)
UsbMayDial(waiting, gone, left) == ~gone /\ (waiting => left)

(* arm_retry() of plan_retry(): stop, wait for the cable, or count a dial. *)
Rearmed(a, error) ==
    LET quiet == [a EXCEPT !.waiting = FALSE, !.left = FALSE, !.timer = "none"]
    IN  CASE a.suppressed \/ error = "hopeless" -> quiet
          [] ~a.suppressed /\ error # "hopeless"
             /\ a.transport = "usb" /\ (Gone(a) \/ error = "replug") ->
                [a EXCEPT !.waiting = TRUE, !.left = @ \/ Gone(a), !.timer = "armed"]
          [] OTHER ->
                IF a.retries >= AutoRetryLimit
                THEN [quiet EXCEPT !.retries = AutoRetryLimit + 1]
                ELSE [quiet EXCEPT !.retries = @ + 1, !.timer = "armed"]

(* auto_connect(), called with a for app; then is the rest of the frame.   *)
Heard == IF session.state \in {"Waiting", "Streaming"}
         THEN [history EXCEPT !.dials = 0, !.returns = 0] ELSE history
NoDial(a) == app' = a /\ history' = Heard /\ UNCHANGED <<bus, sessionVars>>
Dial(a) ==
    \E ok \in BOOLEAN :
        /\ Connect(JobOf(a), ok) /\ Counted(ok)
        /\ app' = [a EXCEPT !.waiting = IF a.transport = "usb" THEN FALSE ELSE @,
                            !.left = IF a.transport = "usb" THEN FALSE ELSE @,
                            !.pending = TRUE, !.timer = IF ok THEN "none" ELSE @]
        /\ history' = [Heard EXCEPT !.dials = @ + 1]

AutoConnect(a) ==
    LET left == a.left \/ Gone(a)
    IN  CASE running -> NoDial(a)
          [] ~running /\ a.transport = "lan" ->
                IF a.paired THEN Dial(a) ELSE NoDial(a)
          [] ~running /\ a.transport = "usb" /\ ~a.waiting /\ a.retries = 0 ->
                NoDial(a)
          [] OTHER ->
                IF UsbMayDial(a.waiting, Gone(a), left) THEN Dial(a)
                ELSE NoDial([a EXCEPT !.left = left, !.waiting = @ \/ Gone(a),
                                      !.timer = IF a.suppressed THEN @ ELSE "armed"])

-----------------------------------------------------------------------------
(* A frame. *)

\* Mutant: a worker that was started is a connection, and clears the budget.
Resolved_OnSpawn(a) ==
    CASE session.state \in {"Waiting", "Streaming", "Connecting", "ApprovalPending"} ->
            [a EXCEPT !.pending = FALSE, !.retries = 0, !.timer = "none",
                      !.recover = TRUE, !.waiting = FALSE, !.left = FALSE]
      [] session.state = "Failed" /\ (a.pending \/ a.recover) ->
            Rearmed([a EXCEPT !.pending = FALSE, !.recover = FALSE], session.error)
      [] OTHER -> a
(* logic(), first: what became of the attempt the session reports.         *)
Resolved(a) ==
    CASE session.state \in {"Waiting", "Streaming"} ->
            [a EXCEPT !.pending = FALSE, !.retries = 0, !.timer = "none",
                      !.recover = TRUE, !.waiting = FALSE, !.left = FALSE]
      [] session.state \in {"Connecting", "ApprovalPending"} ->
            [a EXCEPT !.pending = FALSE, !.recover = TRUE, !.timer = "none"]
      [] session.state = "Failed" /\ (a.pending \/ a.recover) ->
            Rearmed([a EXCEPT !.pending = FALSE, !.recover = FALSE], session.error)
      [] OTHER -> a

(* The pairing the phone sent over the cable is what the user would type.  *)
TakePairing ==
    /\ app.pc \in {"logic", "ui"} /\ session.pairing
    /\ app' = [app EXCEPT !.pc = "logic", !.paired = TRUE, !.received = TRUE]
    /\ session' = [session EXCEPT !.pairing = FALSE]
    /\ UNCHANGED <<bus, inventory, history, worker, pipe>>

(* The move to Wi-Fi, once the session it ends has stopped.                *)
MovesNow == app.moving /\ ~running
Move ==
    /\ app.pc \in {"logic", "ui"} /\ ~session.pairing /\ MovesNow
    /\ AutoConnect([Resolved(app) EXCEPT !.pc = "dial", !.moving = FALSE,
                        !.transport = "lan", !.retries = 0, !.suppressed = FALSE])
    /\ UNCHANGED inventory

(* The one attempt of a launch, or the timer of a retry.                   *)
DialWhenDue ==
    \E a \in {IF app.pc = "dial" THEN app ELSE Resolved(app)} :
        /\ app.pc = "dial" \/ (app.pc \in {"logic", "ui"} /\ ~session.pairing /\ ~MovesNow)
        /\ \/ /\ ~a.attempted
              /\ AutoConnect([a EXCEPT !.pc = "poll", !.attempted = TRUE])
           \/ /\ a.attempted /\ a.timer = "armed"
              /\ AutoConnect([a EXCEPT !.pc = "poll", !.timer = "none"])
           \/ /\ a.attempted      \* no timer, or not yet due
              /\ NoDial([a EXCEPT !.pc = "poll"])
        /\ UNCHANGED inventory

(* poll(), one event of the worker at a time.                              *)
PollsEvent ==
    app.pc = "poll" /\ PollEvent /\ UNCHANGED appVars
Poll ==
    /\ app.pc = "poll"
    /\ \E failing \in BOOLEAN :
        /\ failing => Fault
        /\ bus' = IF failing THEN [bus EXCEPT !.faults = @ - 1] ELSE bus
        /\ \/ \E silent, overdue \in BOOLEAN : PollEnds(silent, overdue, failing)
           \/ ~failing /\ PollAuxiliaryRunning
           \/ PollAuxiliaryFailed(failing)
           \/ /\ ~failing
              /\ \E spawned \in {TRUE} \cup {~Fault} :
                    PollAuxiliaryEnded(
                        IF session.restart = None THEN None
                        ELSE SwitchedIdentity(session.restart.job.device), spawned)
    /\ app' = [app EXCEPT !.pc = "devices"]
    /\ UNCHANGED <<inventory, history>>

(* The end of ui() tells the thread whether to list.                       *)
UsbWatched(a, i) == inventory' = [i EXCEPT !.enabled = (a.transport = "usb")]

(* A new list of the bus; a phone that came back is dialled at once.       *)
Devices ==
    /\ app.pc = "devices"
    /\ IF inventory.sent = None
       THEN NoDial([app EXCEPT !.pc = "ui"]) /\ UsbWatched(app, inventory)
       ELSE LET known == [Reconciled(app, inventory.sent) EXCEPT !.pc = "ui"]
            IN  /\ UsbWatched(known, [inventory EXCEPT !.sent = None])
                /\ IF known.waiting /\ ~Gone(known) /\ ~running /\ ~known.suppressed
                   THEN AutoConnect(known) ELSE NoDial(known)

-----------------------------------------------------------------------------
(* The buttons. *)

Pressed(a) == app' = [a EXCEPT !.pc = "logic"] /\ UsbWatched(a, inventory)
Click(a, s) ==
    /\ app.pc = "ui" /\ Pressed(a) /\ session' = s
    /\ UNCHANGED <<bus, worker, pipe>>
Clicked == history.clicks < MaxClicks
AfterClick == [history EXCEPT !.clicks = @ + 1, !.dials = 0, !.returns = 0]

\* Mutant: the retry that is due is not cancelled.
PressDisconnect_KeepsTimer ==
    /\ running
    /\ Click([app EXCEPT !.suppressed = TRUE, !.recover = FALSE,
                         !.waiting = FALSE, !.left = FALSE, !.pending = FALSE],
             Stopped(session, worker))
    /\ Clicked /\ history' = [AfterClick EXCEPT !.quit = ~app.moving]
(* A Disconnect does not take back a move to Wi-Fi that is under way.      *)
PressDisconnect ==
    /\ running
    /\ Click([app EXCEPT !.timer = "none", !.suppressed = TRUE, !.recover = FALSE,
                         !.waiting = FALSE, !.left = FALSE, !.pending = FALSE],
             Stopped(session, worker))
    /\ Clicked /\ history' = [AfterClick EXCEPT !.quit = ~app.moving]

PressConnect ==
    /\ app.pc = "ui" /\ ~running
    /\ IF app.transport = "lan" THEN app.paired ELSE ~Gone(app)
    /\ \E ok \in BOOLEAN :
        /\ IF app.transport = "usb" /\ session.permission # None
           THEN AllowUsb(DeniedJob(app), ok) ELSE Connect(JobOf(app), ok)
        /\ Counted(ok)
    /\ Pressed([app EXCEPT !.suppressed = FALSE, !.retries = 0, !.pending = TRUE,
                           !.waiting = FALSE, !.left = FALSE, !.recover = FALSE])
    /\ Clicked /\ history' = [AfterClick EXCEPT !.quit = FALSE]

SelectTransport(transport) ==
    /\ ~running
    /\ Click([app EXCEPT !.transport = transport],
             [session EXCEPT !.state = "Idle", !.error = None, !.permission = None])
    /\ Clicked /\ history' = AfterClick

(* "Switch to Wi-Fi" and "Later" of the pairing the phone has sent.        *)
PressSwitch ==
    /\ app.received
    /\ Click([app EXCEPT !.moving = TRUE, !.received = FALSE], Stopped(session, worker))
    /\ Clicked
    /\ history' = [AfterClick EXCEPT !.quit = FALSE]
PressLater ==
    /\ app.received /\ Click([app EXCEPT !.received = FALSE], session)
    /\ Clicked /\ history' = AfterClick

Rotate ==
    /\ Click([app EXCEPT !.rotated = ~@], Transformed(session, worker, ~app.rotated))
    /\ Clicked /\ history' = AfterClick

ForgetPhone ==
    /\ app.transport = "lan" /\ ~running /\ app.paired
    /\ Click([app EXCEPT !.paired = FALSE], session)
    /\ Clicked /\ history' = AfterClick

(* A key that cannot be read is replaced, after a second press.            *)
PressReplace ==
    /\ session.error = "hopeless"
    /\ \E ok \in BOOLEAN :
        /\ Click(app, [session EXCEPT !.state = IF ok THEN "Idle" ELSE @,
                                     !.error = IF ok THEN None ELSE @])
    /\ Clicked /\ history' = AfterClick

Quit ==
    /\ app.pc = "ui" /\ app' = [app EXCEPT !.pc = "gone"] /\ Dropped
    /\ running
    /\ UNCHANGED <<bus, inventory, history>>

-----------------------------------------------------------------------------
(* The worker process, as far as the window sees it: its events, and what  *)
(* its USB connection does to the phone.                                   *)

WorkerAt(phase) == worker.proc = "alive" /\ worker.phase = phase
OnUsb == worker.job.transport = "usb"
Proceeds(phase, list) ==
    /\ worker' = [worker EXCEPT !.phase = phase]
    /\ Says(list) /\ UNCHANGED session

WorkerFails(error) == Proceeds("failed", <<Error(error), Event("Stopped")>>)

WorkerConnects ==
    WorkerAt("started") /\ Proceeds("connecting", <<Event("Connecting")>>)
    /\ UNCHANGED bus

(* SecureTcp::connect: unreachable, or not the phone that is pinned.       *)
WorkerConnectsLan ==
    /\ WorkerAt("connecting") /\ ~OnUsb
    /\ \/ Proceeds("exchange", <<>>)
       \/ \E error \in {"transient", "hopeless"} : WorkerFails(error)
    /\ UNCHANGED bus

(* Usb::connect: the very device that was selected, opened and switched.   *)
WorkerConnectsUsb ==
    /\ WorkerAt("connecting") /\ OnUsb
    /\ \/ worker.job.device \notin Listed /\ WorkerFails("replug") /\ UNCHANGED bus
       \/ /\ worker.job.device \in Listed /\ bus.denied
          /\ Proceeds("failed", <<Denied(worker.job.device), Error("hopeless"),
                                  Event("Stopped")>>)
          /\ UNCHANGED bus
       \/ /\ worker.job.device \in Listed /\ ~bus.denied
          /\ \/ worker.job.device.accessory /\ Proceeds("exchange", <<>>)
                /\ UNCHANGED bus
             \/ /\ ~worker.job.device.accessory /\ bus.plugs < MaxPlugs
                /\ Proceeds("exchange", <<>>) /\ bus' = Enters(worker.job.device)
             \/ \E error \in {"transient", "hopeless"} :
                    WorkerFails(error) /\ UNCHANGED bus

(* A failed exchange of a phone that is still an accessory asks for a      *)
(* replug; a rejection is what the phone said.                             *)
WorkerExchanges ==
    /\ WorkerAt("exchange") \/ WorkerAt("approval")
    /\ \/ Proceeds("stream", <<Event("Waiting")>>)
       \/ WorkerAt("exchange") /\ Proceeds("approval", <<Event("Pending")>>)
       \/ \E error \in {"transient", "hopeless"} : WorkerFails(error)
       \/ OnUsb /\ SwitchedIdentity(worker.job.device) # None /\ WorkerFails("replug")
    /\ UNCHANGED bus

WorkerStreams ==
    /\ WorkerAt("stream") /\ pipe = <<>>
    /\ \/ \E kind \in {"ActiveStats", "IdleStats"} : Proceeds("stream", <<Event(kind)>>)
       \/ OnUsb /\ Proceeds("stream", <<Event("PairingInfo")>>)
       \/ Proceeds("failed", <<Event("QualityFailed"), Error("transient"), Event("Stopped")>>)
       \/ \E error \in {"transient", "hopeless"} : WorkerFails(error)
    /\ UNCHANGED bus

(* Stop is noticed in the exchange, where it is an error, and in the stream. *)
WorkerStops ==
    /\ worker.told
    /\ \/ WorkerAt("stream") /\ Proceeds("ended", <<Event("Stopped")>>)
       \/ /\ WorkerAt("exchange") \/ WorkerAt("approval")
          /\ WorkerFails(IF OnUsb /\ SwitchedIdentity(worker.job.device) # None
                         THEN "replug" ELSE "transient")
    /\ UNCHANGED bus

(* The auxiliary process sets the host up and switches the very device it  *)
(* was given, or it fails.                                                 *)
AuxiliaryEnds ==
    /\ session.auxiliary = "alive"
    /\ \/ /\ session' = [session EXCEPT !.auxiliary = "success"]
          /\ IF session.restart.switched
             THEN /\ session.restart.job.device \in Listed /\ bus.plugs < MaxPlugs
                  /\ bus' = [Enters(session.restart.job.device)
                             EXCEPT !.denied = FALSE, !.writable = TRUE]
             ELSE bus' = [bus EXCEPT !.denied = FALSE, !.writable = TRUE]
       \/ session' = [session EXCEPT !.auxiliary = "failure"] /\ UNCHANGED bus
    /\ UNCHANGED <<worker, pipe>>

-----------------------------------------------------------------------------
Init ==
    /\ session = NewSession /\ worker = NoWorker /\ pipe = <<>>
    /\ \E start \in Starts :
        /\ app = [pc |-> "logic", transport |-> start.transport, selected |-> None,
                  lost |-> FALSE, timer |-> "none", retries |-> 0,
                  suppressed |-> FALSE, pending |-> FALSE, recover |-> FALSE,
                  waiting |-> FALSE, left |-> FALSE, moving |-> FALSE,
                  received |-> FALSE, paired |-> start.paired, rotated |-> FALSE,
                  attempted |-> FALSE]
        /\ inventory = [enabled |-> start.transport = "usb", previous |-> None,
                        sent |-> None]
        /\ bus = [phone |-> None, plugs |-> 0, denied |-> start.denied,
                  writable |-> start.writable, helper |-> start.helper,
                  faults |-> start.faults]
    /\ history = [clicks |-> 0, dials |-> 0, returns |-> 0, quit |-> FALSE]

Frame ==
    \/ TakePairing \/ Move \/ DialWhenDue \/ Poll \/ Devices
User ==
    \/ PressDisconnect \/ PressConnect \/ PressSwitch \/ PressLater \/ Rotate
    \/ PressReplace \/ ForgetPhone \/ Quit \/ \E transport \in {"usb", "lan"} : SelectTransport(transport)
Threads ==
    (WriterStep \/ OutputEnds \/ ProcessEnds \/ DeadlinePasses) /\ UNCHANGED appVars
Worker ==
    (WorkerConnects \/ WorkerConnectsLan \/ WorkerConnectsUsb \/ WorkerExchanges
     \/ WorkerStreams \/ WorkerStops \/ AuxiliaryEnds)
    /\ app.pc # "gone" /\ UNCHANGED <<app, inventory, history>>
Cable == app.pc # "gone" /\ (Plug \/ Unplug \/ ListUsb)

Next == Frame \/ PollsEvent \/ User \/ Threads \/ Worker \/ Cable
Spec == Init /\ [][Next]_vars
(* The window repaints while a session runs, and a poll() that has events  *)
(* to handle ends all the same; deadlines pass and killed processes end.   *)
(* Nothing is assumed of a worker that is only told.                       *)
FairSpec ==
    /\ Spec
    /\ WF_vars(Frame)
    /\ WF_vars(ProcessEnds /\ UNCHANGED appVars)
    /\ WF_vars(DeadlinePasses /\ UNCHANGED appVars)

-----------------------------------------------------------------------------
(* The values of the variables. *)
Phones  == [number : Nat, accessory : BOOLEAN]
AnyPhone == Phones \cup {None}
Lists   == (SUBSET Phones) \cup {None}
Jobs    == [transport : {"usb", "lan"}, device : AnyPhone, rotated : BOOLEAN]
Procs   == Living \cup Dead \cup {None}
Plain   == {"Stopped", "Connecting", "Waiting", "Pending", "QualityFailed", "ActiveStats",
            "IdleStats", "PairingInfo"}
Events  == [kind : Plain, body : {None}] \cup [kind : {"Error"}, body : Errors]
           \cup [kind : {"UsbPermission"}, body : AnyPhone]

SessionTypeOK ==
    session \in [state : States, error : Errors \cup {None}, stop : BOOLEAN,
                 slot : BOOLEAN \cup {None}, deadline : {"none", "armed", "expired"},
                 listening : BOOLEAN, writer : {"start", "loop", "done"},
                 finished : BOOLEAN, permission : AnyPhone, pairing : BOOLEAN,
                 auxiliary : Procs,
                 restart : [job : Jobs, switched : BOOLEAN] \cup {None}]
WorkerTypeOK ==
    /\ worker \in [proc : Procs,
                   phase : {"boot", "started", "connecting", "exchange", "approval",
                            "stream", "failed", "ended"},
                   job : Jobs \cup {None}, rotated : BOOLEAN, told : BOOLEAN]
    /\ worker.proc = "alive" => worker.job \in Jobs
Windows ==
    [pc : {"logic", "dial", "poll", "devices", "ui", "gone"},
     transport : {"usb", "lan"}, selected : AnyPhone, lost : BOOLEAN,
     timer : {"none", "armed"}, retries : Nat, suppressed : BOOLEAN,
     pending : BOOLEAN, recover : BOOLEAN, waiting : BOOLEAN, left : BOOLEAN,
     moving : BOOLEAN, received : BOOLEAN, paired : BOOLEAN, rotated : BOOLEAN,
     attempted : BOOLEAN]
AppTypeOK == app \in Windows
BusTypeOK ==
    bus \in [phone : AnyPhone, plugs : Nat, denied : BOOLEAN, writable : BOOLEAN,
             helper : BOOLEAN, faults : Nat]
InventoryTypeOK == inventory \in [enabled : BOOLEAN, previous : Lists, sent : Lists]
HistoryTypeOK == history \in [clicks : Nat, dials : Nat, returns : Nat, quit : BOOLEAN]
TypeOK == SessionTypeOK /\ WorkerTypeOK /\ pipe \in Seq(Events) /\ AppTypeOK
          /\ BusTypeOK /\ InventoryTypeOK /\ HistoryTypeOK

-----------------------------------------------------------------------------
(* What the window sees of a session, and the processes it has. *)
Phase == IF ~running THEN "ended"
         ELSE IF session.state \in {"Stopping", "Failed", "Idle"} THEN "ending"
         ELSE "active"
Receivers == (IF worker.proc = "alive" THEN 1 ELSE 0)
             + (IF session.auxiliary = "alive" THEN 1 ELSE 0)

(* One receiver at a time, dead before its session is over, never revived. *)
Lifecycle == INSTANCE SessionLifecycle WITH phase <- Phase, live <- Receivers
SessionIsALifecycle == Lifecycle!Spec

(* A stop ends even when the worker answers nothing any more.              *)
StopEnds ==
    (session.state \in {"Stopping", "Failed"} /\ running)
        ~> (~running \/ app.pc = "gone")

(* Disconnect holds until the user asks again, whatever timers, devices    *)
(* and answers come afterwards.                                            *)
DisconnectHolds ==
    [][history.quit /\ ~running => ~running' \/ ~history'.quit]_vars

(* A phone that never answers is dialled a bounded number of times after   *)
(* the last press: the budget, once for each time the cable came back, and *)
(* what that press found under way.  With a move to Wi-Fi that is a list   *)
(* of the bus in which the phone is back, the move, the timer that had     *)
(* been armed for the cable, and one list more.                            *)
RetriesAreBounded == history.dials <= 4 + AutoRetryLimit + history.returns

(* What the user last set is what the worker shows, has on its way, or     *)
(* will start with, also when it waits for the setup.                      *)
NewestTransform ==
    /\ session.restart # None => session.restart.job.rotated = app.rotated
    /\ worker.proc = "alive" /\ ~session.stop =>
         app.rotated = IF session.slot # None THEN session.slot
                       ELSE IF worker.phase = "boot" THEN worker.job.rotated
                       ELSE worker.rotated
=============================================================================
