-------------------------- MODULE PhoneConnection --------------------------
(***************************************************************************)
(* The phone's connection owner (MainActivity) with the sessions of both   *)
(* transports: the accessory session and its reader, the Wi-Fi server and  *)
(* its handshake workers, the thread that tears a capture down, and what   *)
(* is remembered about a capture when its session drops.                   *)
(*                                                                         *)
(* An action is what one thread does between two points where another can  *)
(* see it: the handling of one posted message on the main looper, one of   *)
(* the steps by which a session begins or ends, one callback of the camera.*)
(* The owner of the grants (PhoneAuthorization) ends a session in a single *)
(* step, since it keeps its monitor meanwhile.                             *)
(***************************************************************************)
EXTENDS Queues, FiniteSets

CONSTANTS
    MaxConnections,     \* accessory attachments and clients that connect
    MaxPresses          \* buttons pressed, storage and camera failures

ASSUME ConnectionAssumption == MaxConnections \in Nat /\ MaxPresses \in Nat

VARIABLE act    \* the phone's process: MainActivity, its sessions, servers and captures

\* A session: socket or descriptor, the flag `running`, the grant, the reader;
\* how far the thread that starts it has got, the one that ends it, and who
\* ends it for what reason.
NewSession(kind, server) ==
    [kind |-> kind, server |-> server, open |-> TRUE, running |-> "new", gate |-> "none",
     reader |-> "none", cancelled |-> FALSE, start |-> "tls", at |-> "up",
     by |-> "other", why |-> "lost"]
NewServer == [running |-> TRUE, active |-> 0]
\* A capture: its session, how far the camera has got, and whether the session
\* was still up when it started.  What a closed one leaves behind (a device
\* opened too late) is left out.
NewCapture(s) == [session |-> s, at |-> "new", live |-> FALSE]
NoCapture == [session |-> 0, at |-> "off", live |-> FALSE]

\* shown, server and bridge are MainActivity's session, lanServer and
\* installedBridge, reading is the session the ReaderHandover asks (0: none);
\* step is where startCamera stands; wish is the last thing that was decided
\* about the capture that runs, is asked for or is remembered (a history).
Launched(mode) ==
    [mode |-> mode, shown |-> 0, server |-> IF mode = "lan" THEN 1 ELSE 0,
     bridge |-> NoCapture, want |-> FALSE, resume |-> FALSE, reading |-> 0, step |-> "idle",
     sess |-> <<>>, servers |-> IF mode = "lan" THEN <<NewServer>> ELSE <<>>,
     posts |-> <<>>, jobs |-> <<>>, owned |-> FALSE, wish |-> "no", presses |-> 0]
ConnectionInit == \E mode \in {"usb", "lan"} : act = Launched(mode)

GateIsOpen(session) == session.gate \in {"waiting", "granted", "denied"}
IsGranted(w, s) == s # 0 /\ w.sess[s].gate = "granted"
\* Capture is running or asked for.
Capturing(w) == w.bridge # NoCapture \/ w.want

\* A message to the main looper; one that will find nothing to do (a session
\* that is not, and will not be, the Activity's) is left out.
WillBeShown(w, s) ==
    w.shown = s \/ \E i \in DOMAIN w.posts : w.posts[i].what = "connected" /\ w.posts[i].session = s
FindsNothing(w, what, s) ==
    \/ what \in {"changed", "closed"} /\ ~WillBeShown(w, s)
    \/ what = "error" /\ w.sess[s].kind = "usb" /\ ~WillBeShown(w, s)
    \/ what = "error" /\ w.sess[s].kind = "lan" /\ w.server # w.sess[s].server
Post(w, what, s, why) ==
    IF FindsNothing(w, what, s) THEN w
    ELSE [w EXCEPT !.posts = Append(@, [what |-> what, session |-> s, why |-> why])]

-----------------------------------------------------------------------------
(* How a session and a capture end: methods, as functions of the process. *)

\* closeMedia(), first half: the teardown of the capture, once per session.
\* Mutant: the stop is posted to the main looper (AUTHREV-001).
Cancelled_OnMainLooper(w, s) ==
    IF w.sess[s].cancelled THEN w
    ELSE Post([w EXCEPT !.sess[s].cancelled = TRUE], "changed", s, "lost")
Cancelled(w, s) ==
    IF w.sess[s].cancelled THEN w
    ELSE [w EXCEPT !.sess[s].cancelled = TRUE,
                   !.jobs = IF WillBeShown(w, s) THEN Append(@, s) ELSE @]
\* closeMedia(), second half: clientAuthorization.close(), whose onChanged posts.
GateClosed(w, s) ==
    IF ~GateIsOpen(w.sess[s]) THEN w
    ELSE Post([w EXCEPT !.sess[s].gate = "closed"], "changed", s, "lost")
MediaClosed(w, s) == GateClosed(Cancelled(w, s), s)

\* Whatever the camera has got to: a callback under way finds the flag `closed`.
CameraError == [what |-> "camera", session |-> 0, why |-> "lost"]
CaptureClosed(w) ==
    [w EXCEPT !.bridge = NoCapture, !.posts = Without(@, {CameraError})]
StopCamera(w) ==
    [CaptureClosed(w) EXCEPT !.want = FALSE, !.wish = IF w.resume THEN @ ELSE "no"]

\* failMedia() and LanSession.finish(), up to the compare-and-set.
Ending(w, s, by, why) ==
    [w EXCEPT !.sess[s] = [@ EXCEPT !.open = FALSE, !.running = "no", !.at = "ends",
                                    !.by = by, !.why = why]]
\* What an ended session tells the Activity: the server's slot is freed before
\* its message, the error comes last.
HasSlot(w, s) == w.sess[s].kind = "lan" /\ w.servers[w.sess[s].server].active = s
Freed(w, s) ==
    [w EXCEPT !.servers[w.sess[s].server].active = 0, !.sess[s].at = "freed"]
Told(w, s) ==
    LET session == w.sess[s]
        closed  == IF session.at = "freed" THEN Post(w, "closed", s, "lost") ELSE w
        told    == IF session.kind = "usb" \/ session.why = "refused"
                   THEN Post(closed, "error", s, session.why) ELSE closed
    IN  [told EXCEPT !.sess[s] =
            [@ EXCEPT !.at = "down", !.by = "other", !.why = "lost",
                      !.reader = IF session.by = "reader" THEN "done" ELSE session.reader]]
FreedOrTold(w, s) == IF HasSlot(w, s) THEN Freed(w, s) ELSE Told(w, s)
\* All of it in one go, on a thread that lets nobody in between.
SessionEnded(w, s, why) ==
    IF w.sess[s].running # "yes" THEN [w EXCEPT !.sess[s].open = FALSE]
    ELSE LET closed == MediaClosed(Ending(w, s, "other", why), s)
         IN  Told(IF HasSlot(closed, s) THEN Freed(closed, s) ELSE closed, s)

\* closeAndAwait(): the reader ends within the wait, or outlives it.
Awaited(w, s, stopped) ==
    LET reader == IF stopped /\ w.sess[s].reader = "reading" THEN "done" ELSE w.sess[s].reader
    IN  MediaClosed([w EXCEPT !.sess[s] =
            [@ EXCEPT !.running = "no", !.open = FALSE, !.reader = reader]], s)
Outcomes(w) ==
    IF w.shown = 0 \/ w.sess[w.shown].kind = "lan" THEN {TRUE}
    ELSE LET session == w.sess[w.shown]
         IN  {stopped \in BOOLEAN :
                 IF stopped THEN session.reader # "reading" \/ session.by # "reader"
                 ELSE session.reader = "reading"}
CloseSession(w, stopped) ==
    LET s    == w.shown
        idle == StopCamera([w EXCEPT !.shown = 0])
    IN  IF s = 0 THEN idle
        ELSE IF w.sess[s].kind = "lan" THEN SessionEnded(idle, s, "lost")
        ELSE [Awaited(idle, s, stopped) EXCEPT !.reading = IF stopped THEN 0 ELSE s]

\* LanServer.close(), and lanServer = null.
CloseServer(w) ==
    IF w.server = 0 THEN w
    ELSE LET s      == w.servers[w.server].active
             closed == [w EXCEPT !.servers[w.server] = [running |-> FALSE, active |-> 0],
                                 !.server = 0]
         IN  IF s = 0 THEN closed ELSE SessionEnded(closed, s, "lost")

-----------------------------------------------------------------------------
(* The main looper. *)

\* startCamera(), up to the check of the grant.
StartCamera(w) ==
    IF ~w.want \/ w.bridge # NoCapture THEN w
    ELSE IF ~IsGranted(w, w.shown) THEN [w EXCEPT !.want = FALSE, !.wish = "no"]
    ELSE [w EXCEPT !.step = "start"]

AnotherIsActive(w) == \E s \in DOMAIN w.sess : GateIsOpen(w.sess[s])
\* startMedia(): openSession throws while another session has the slot.
MediaStarted(w, s) ==
    IF AnotherIsActive(w) THEN SessionEnded(w, s, "lost")
    ELSE LET reader == IF w.sess[s].kind = "usb" THEN "reading" ELSE w.sess[s].reader
         IN  Post([w EXCEPT !.sess[s] = [@ EXCEPT !.gate = "waiting", !.reader = reader]],
                  "changed", s, "lost")

ReaderInTheWay(w) == w.reading # 0 /\ w.sess[w.reading].reader = "reading"
\* openAccessory(), once the accessory could be opened.
Opened(w) ==
    LET s    == Len(w.sess) + 1
        free == CloseSession([w EXCEPT !.reading = 0], TRUE)
        made == [free EXCEPT !.sess = Append(@, [NewSession("usb", 0) EXCEPT !.start = "done",
                                                                       !.running = "yes"]),
                             !.shown = s]
    IN  MediaStarted(made, s)
\* discoverUsb(): there is no accessory, it cannot be opened yet, or it is.
Discovered(w) ==
    {w} \union IF w.shown = 0 /\ ~ReaderInTheWay(w) /\ Len(w.sess) < MaxConnections
               THEN {Opened(w)} ELSE {}
DiscoverUsb ==
    /\ act.step = "idle" /\ act.mode = "usb"
    /\ act' \in Discovered(act)

\* startLanMode(): a new server, which may fail to listen.
LanMode(w, keep, stopped, listens) ==
    LET closed == CloseServer(CloseSession(StopCamera([w EXCEPT !.resume = keep /\ @]), stopped))
    IN  [closed EXCEPT !.mode = "lan", !.servers = IF listens THEN Append(@, NewServer) ELSE @,
                       !.server = IF listens THEN Len(closed.servers) + 1 ELSE 0]

Press == act.step = "idle" /\ act.presses < MaxPresses
Pressed(wish) == [act EXCEPT !.presses = @ + 1, !.wish = wish]
PressUsb ==
    /\ Press /\ ~(act.mode = "usb" /\ (act.shown # 0 \/ act.want))
    /\ \E stopped \in Outcomes(act) :
           LET free == CloseSession(CloseServer(StopCamera([Pressed("no") EXCEPT !.resume = FALSE])),
                                    stopped)
           IN  act' \in Discovered([free EXCEPT !.mode = "usb"])
PressLan ==
    /\ Press /\ ~(act.mode = "lan" /\ act.server # 0)
    /\ \E stopped \in Outcomes(act), listens \in BOOLEAN :
           act' = LanMode(Pressed("no"), FALSE, stopped, listens)
\* Retry keeps what is remembered, a rotated key does not.
PressRetry ==
    /\ Press /\ act.mode = "lan" /\ act.bridge = NoCapture
    /\ act' = LanMode(CloseServer(Pressed(act.wish)), TRUE, TRUE, TRUE)
PressRotate ==
    /\ Press /\ act.mode = "lan"
    /\ act' = LanMode(CloseServer(Pressed("no")), FALSE, TRUE, TRUE)
\* The camera button: Cancel or Stop while a start stands, else Start.
PressCamera ==
    /\ Press /\ (IsGranted(act, act.shown) \/ Capturing(act))
    /\ act' = IF act.want THEN StopCamera([Pressed("no") EXCEPT !.resume = FALSE])
              ELSE StartCamera([Pressed("start") EXCEPT !.want = TRUE])
\* The notification's Stop, while it is there: an intent, delivered later.
TapStop ==
    /\ Press /\ act.bridge # NoCapture
    /\ act' = Post(Pressed(act.wish), "stop", 0, "lost")
\* An approval could not be stored: stopConnections().
StopConnections ==
    /\ Press
    /\ \E stopped \in Outcomes(act) :
           act' = CloseServer(CloseSession([Pressed("no") EXCEPT !.resume = FALSE], stopped))

\* onAuthorizationChanged
\* Mutant: the first approval resumes as well.
OnChanged_First(w, s) ==
    IF w.shown # s THEN w
    ELSE IF IsGranted(w, s)
    THEN IF w.resume THEN StartCamera([w EXCEPT !.resume = FALSE, !.want = TRUE]) ELSE w
    ELSE StopCamera([w EXCEPT !.resume = TRUE])
OnChanged(w, s) ==
    IF w.shown # s THEN w
    ELSE IF IsGranted(w, s)
    THEN IF w.resume THEN StartCamera([w EXCEPT !.resume = FALSE, !.want = TRUE]) ELSE w
    ELSE StopCamera([w EXCEPT !.resume = @ \/ Capturing(w)])
\* LanServer's onSession(session, true)
OnConnected(w, s, stopped) ==
    IF w.server # w.sess[s].server THEN SessionEnded(w, s, "lost")
    ELSE IF w.sess[s].running = "yes" THEN [CloseSession(w, stopped) EXCEPT !.shown = s]
    ELSE w
\* LanServer's onSession(session, false)
OnDisconnected(w, s) ==
    IF w.server # w.sess[s].server \/ w.shown # s THEN w
    ELSE [StopCamera([w EXCEPT !.resume = @ \/ Capturing(w)]) EXCEPT !.shown = 0]
\* onError of either transport: a refusal forgets, a drop remembers.  While a
\* capture runs, the client that was refused is another one than the capture's.
Forgotten(w) == [w EXCEPT !.resume = FALSE, !.wish = IF Capturing(w) THEN @ ELSE "no"]
OnError(w, s, why, stopped) ==
    IF w.sess[s].kind = "lan"
    THEN IF w.server = w.sess[s].server /\ why = "refused" THEN Forgotten(w) ELSE w
    ELSE IF w.shown # s THEN w
    ELSE CloseSession(IF why = "refused" THEN Forgotten(w)
                      ELSE [w EXCEPT !.resume = @ \/ Capturing(w)], stopped)

Handle ==
    /\ act.step = "idle" /\ act.posts # <<>>
    /\ LET m == Head(act.posts)
           w == [act EXCEPT !.posts = Tail(@)]
       IN  \/ m.what = "changed" /\ act' = OnChanged(w, m.session)
           \/ /\ m.what = "connected"
              /\ \E stopped \in Outcomes(w) : act' = OnConnected(w, m.session, stopped)
           \/ m.what = "closed" /\ act' = OnDisconnected(w, m.session)
           \/ /\ m.what = "error"
              /\ \E stopped \in Outcomes(w) : act' = OnError(w, m.session, m.why, stopped)
           \/ m.what = "stop" /\ act' = StopCamera([w EXCEPT !.wish = "notice"])
           \/ m.what = "camera" /\ act' = StopCamera(w)

\* The rest of startCamera(): the bridge is installed, then started under its
\* lock, where it asks again whether it is closed and the grant stands.
Install ==
    /\ act.step = "start"
    /\ act' = [act EXCEPT !.bridge = NewCapture(act.shown), !.step = "bridge"]
StartBridge ==
    /\ act.step = "bridge"
    /\ LET s == act.bridge.session
           w == [act EXCEPT !.step = "idle"]
       IN  \/ act' = StopCamera(w)
           \/ /\ act.bridge # NoCapture /\ IsGranted(act, s)
              /\ act' = [w EXCEPT !.bridge.at = "opening",
                                  !.bridge.live = act.sess[s].running = "yes"]

-----------------------------------------------------------------------------
(* The other threads. *)

\* The accept loop finds the slot free.  The client gets through TLS while the
\* server runs, or does not, however long that takes and whoever has the slot by
\* then, which is told in the words of a refusal.
NewClient ==
    /\ act.server # 0 /\ act.servers[act.server].active = 0
    /\ Len(act.sess) < MaxConnections
    /\ act' = [act EXCEPT !.sess = Append(@, NewSession("lan", act.server))]

\* The rest of completeHandshake() and LanSession.start(), test by test.  Turned
\* away at the last one, a session keeps the slot of a server that runs on.
Reaches(s, step) == [act EXCEPT !.sess[s].start = step]
TurnedAway(s) ==
    [act EXCEPT !.sess[s] = [@ EXCEPT !.start = "done", !.open = FALSE, !.at = "down"]]
ServerOf(s) == act.servers[act.sess[s].server]
Authenticates(s) ==
    /\ act.sess[s].start = "tls"
    /\ \/ ServerOf(s).running /\ act' = Reaches(s, "checked")
       \/ act' = IF ServerOf(s).running THEN Post(TurnedAway(s), "error", s, "refused")
                 ELSE TurnedAway(s)
ClaimSlot(s) ==
    /\ act.sess[s].start = "checked"
    /\ act' = IF ServerOf(s).active # 0 THEN TurnedAway(s)
              ELSE [Reaches(s, "claimed") EXCEPT !.servers[act.sess[s].server].active = s]
\* Mutant: the server is not asked again once the slot is taken.
LookAgain_Never(s) ==
    /\ act.sess[s].start = "claimed"
    /\ act' = IF act.sess[s].open THEN Reaches(s, "opening") ELSE TurnedAway(s)
LookAgain(s) ==
    /\ act.sess[s].start = "claimed"
    /\ act' = IF ServerOf(s).running /\ act.sess[s].open THEN Reaches(s, "opening")
              ELSE TurnedAway(s)
StartSession(s) ==
    \/ /\ act.sess[s].start = "opening"
       /\ act' = Post([act EXCEPT !.sess[s] = [@ EXCEPT !.start = "media", !.running = "yes"]],
                      "connected", s, "lost")
    \/ /\ act.sess[s].start = "media"
       /\ act' = MediaStarted(Reaches(s, "done"), s)
\* The deadline of the handshake closes the socket, however far the session is;
\* before it is through TLS that is a failed handshake.
HandshakeDeadline(s) ==
    /\ act.sess[s].start \notin {"tls", "done"} /\ act.sess[s].open
    /\ act' = [act EXCEPT !.sess[s].open = FALSE]

\* The reader or the writer fails; an accessory's reader may be blocked meanwhile.
\* The cancellation that follows the compare-and-set is part of this step.
Lose(s, by) ==
    /\ act.sess[s].running = "yes" /\ GateIsOpen(act.sess[s])
    /\ by = "reader" => act.sess[s].kind = "usb"
    /\ act' = Cancelled(Ending(act, s, by, "lost"), s)
\* The rest of failMedia() or finish().
EndStep(s) ==
    \/ act.sess[s].at = "ends" /\ act' = FreedOrTold(GateClosed(act, s), s)
    \/ act.sess[s].at = "freed" /\ act' = Told(act, s)
\* A reader whose session was ended by another thread.
ReaderStops(s) ==
    /\ act.sess[s].reader = "reading" /\ act.sess[s].running = "no"
    /\ act.sess[s].by # "reader" \/ act.sess[s].at = "down"
    /\ act' = [act EXCEPT !.sess[s].reader = "done"]

\* PhoneAuthorization: a grant, a refusal (the session ends when it has been
\* sent), and the end of the session under the monitor.
Grants(s) ==
    /\ act.sess[s].gate = "waiting"
    /\ act' = Post([act EXCEPT !.sess[s].gate = "granted"], "changed", s, "lost")
NowRefused(wish) == IF wish = "no" THEN "no" ELSE "refused"
Denies(s) ==
    /\ act.sess[s].gate = "waiting"
    /\ act' = Post([act EXCEPT !.sess[s].gate = "denied", !.wish = NowRefused(@)], "changed", s, "lost")
OwnerEnds(s, why) ==
    /\ GateIsOpen(act.sess[s]) /\ (why = "lost" => act.sess[s].gate = "granted")
    /\ LET closed == GateClosed(IF why = "refused" /\ act.sess[s].gate = "granted"
                                THEN [act EXCEPT !.wish = NowRefused(@)] ELSE act, s)
       IN  act' = IF act.sess[s].running = "yes" THEN SessionEnded(closed, s, why) ELSE closed

\* CaptureCancellation: the question on its own thread, then the detachment.
Owns ==
    /\ ~act.owned /\ act.jobs # <<>>
    /\ act' = [act EXCEPT !.jobs = Tail(@),
                          !.owned = act.shown = Head(act.jobs)]
Detaches ==
    /\ act.owned
    /\ act' = [CaptureClosed(act) EXCEPT !.owned = FALSE]

\* The camera's callbacks, until it delivers: each asks whether the capture was
\* closed and the grant stands, the last only the first.
CameraStep ==
    LET capture == act.bridge
        Camera(now) == act' = [act EXCEPT !.bridge.at = now]
    IN  \/ capture.at = "opening"
           /\ Camera(IF IsGranted(act, capture.session) THEN "device" ELSE "closed")
        \/ capture.at = "device" /\ Camera("on")
CameraFails ==
    /\ act.presses < MaxPresses /\ act.bridge.at \in {"opening", "device", "on"}
    /\ act' = [act EXCEPT !.bridge.at = "closed", !.presses = @ + 1,
                          !.posts = Append(@, CameraError)]

-----------------------------------------------------------------------------
ConnectionNext ==
    \/ DiscoverUsb \/ PressUsb \/ PressLan \/ PressRetry \/ PressRotate \/ PressCamera
    \/ TapStop \/ StopConnections \/ Handle \/ Install \/ StartBridge
    \/ NewClient \/ Owns \/ Detaches \/ CameraStep \/ CameraFails
    \/ \E s \in DOMAIN act.sess :
           \/ Authenticates(s) \/ ClaimSlot(s) \/ LookAgain(s) \/ StartSession(s) \/ HandshakeDeadline(s)
           \/ EndStep(s) \/ ReaderStops(s) \/ Grants(s) \/ Denies(s)
           \/ \E by \in {"reader", "other"} : Lose(s, by)
           \/ \E why \in {"lost", "refused"} : OwnerEnds(s, why)

ConnectionSpec == ConnectionInit /\ [][ConnectionNext]_act

-----------------------------------------------------------------------------
(* Properties. *)

\* At most one session is up, whichever transport and however a mode change,
\* a retry and a handshake meet: one that started on a closed server or lost
\* its slot has its socket closed (completeHandshake, LanSession.start).  At
\* most one reader is on the accessory's endpoint (openAccessory,
\* ReaderHandover, closeAndAwait).
OneSessionAtATime ==
    \A s, t \in DOMAIN act.sess :
        s # t => /\ ~ \A x \in {s, t} : act.sess[x].running = "yes" /\ act.sess[x].open
                 /\ ~ \A x \in {s, t} : act.sess[x].kind = "usb" /\ act.sess[x].reader = "reading"

\* A capture starts by itself only to continue one that was started with the
\* button: not after the button's Stop, a change of mode, or a refusal that
\* was told to the Activity (resumeCaptureWhenAuthorized).
Resumes == act.resume /\ ~act'.resume /\ act'.step = "start"
ResumesWhatWasStarted ==
    [][Resumes => act.wish \in {"start", "notice", "refused"}]_act

\* The claim of architecture.md:167-169 and of the comment on the flag: a
\* refusal, an explicit stop, or a mode change ends the resumption.
OnlyAStartResumes == [][Resumes => act.wish = "start"]_act

\* While a capture streams although its session has ended, the teardown thread
\* has its cancellation in hand or in its queue, whatever the main looper does
\* (AUTHREV-001; closeMedia, onCaptureCancelled, CaptureCancellation).
StreamsForNobody ==
    act.bridge.at = "on" /\ act.bridge.live /\ act.sess[act.bridge.session].running = "no"
TeardownIsUnderWay ==
    StreamsForNobody =>
        act.owned \/ \E i \in DOMAIN act.jobs : act.jobs[i] = act.bridge.session /\ act.shown = act.jobs[i]
=============================================================================
