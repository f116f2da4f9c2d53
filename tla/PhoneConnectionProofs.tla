----------------------- MODULE PhoneConnectionProofs -----------------------
(***************************************************************************)
(* Theorems about PhoneConnection, for any number of connections and       *)
(* presses: at most one session is up and one reader on the accessory's    *)
(* endpoint, a capture whose session has ended is on its way to be torn    *)
(* down, and none is resumed that was not started.                         *)
(***************************************************************************)
EXTENDS PhoneConnection, QueueProofs

-----------------------------------------------------------------------------
(* Types. *)

Early == {"tls", "checked", "claimed", "opening"}
Late  == {"opening", "media", "done"}
Whats == {"changed", "connected", "closed", "error", "stop", "camera"}
Reasons == {"lost", "refused"}

Sessions ==
    [kind : {"usb", "lan"}, server : Nat, open : BOOLEAN, running : {"new", "yes", "no"},
     gate : {"none", "waiting", "granted", "denied", "closed"}, reader : {"none", "reading", "done"},
     cancelled : BOOLEAN, start : Early \union Late, at : {"up", "ends", "freed", "down"},
     by : {"reader", "other"}, why : Reasons]
Servers  == [running : BOOLEAN, active : Nat]
Captures == [session : Nat, at : {"off", "new", "opening", "device", "on", "closed"}, live : BOOLEAN]
Messages == [what : Whats, session : Nat, why : Reasons]
Processes ==
    [mode : {"usb", "lan"}, shown : Nat, server : Nat, bridge : Captures, want : BOOLEAN,
     resume : BOOLEAN, reading : Nat, step : {"idle", "start", "bridge"}, sess : Seq(Sessions),
     servers : Seq(Servers), posts : Seq(Messages), jobs : Seq(Nat), owned : BOOLEAN,
     wish : {"no", "start", "notice", "refused"}, presses : Nat]

-----------------------------------------------------------------------------
(* The invariant, of a process w. *)

\* A session by itself: it runs once, is cancelled when it no longer does, and
\* has no socket once it ends.
SessionOK(w, s) ==
    LET session == w.sess[s]
    IN  /\ session.start \in Early => session.running = "new"
        /\ session.cancelled => session.running = "no"
        /\ session.at # "up" => ~session.open
        /\ session.kind = "usb" => session.start = "done" /\ session.at # "freed"
        /\ session.kind = "lan" =>
              session.server \in DOMAIN w.servers /\ session.reader # "reading"

\* An accessory session with a descriptor is the Activity's, its reader is that
\* one's or the one the handover asks; a socket that is past the server's second
\* look has the slot of the Activity's server.
HasPlace(w, s) ==
    LET session == w.sess[s]
    IN  /\ session.kind = "usb" =>
              /\ session.open => w.shown = s
              /\ session.reader = "reading" => s = w.shown \/ s = w.reading
        /\ session.kind = "lan" /\ session.open =>
              /\ session.start \in Late =>
                    session.server = w.server /\ w.servers[session.server].active = s
              /\ session.start = "claimed" /\ w.servers[session.server].running =>
                    w.servers[session.server].active = s

\* What MainActivity holds: the session is of its mode, the server that runs is its own.
OwnerOK(w) ==
    /\ w.shown # 0 =>
          /\ w.shown \in DOMAIN w.sess /\ w.sess[w.shown].kind = w.mode
          /\ w.mode = "usb" => w.reading = 0
    /\ w.reading # 0 => w.reading \in DOMAIN w.sess
    /\ w.server # 0 => w.server \in DOMAIN w.servers /\ w.mode = "lan"
    /\ \A k \in DOMAIN w.servers :
          /\ w.servers[k].running => k = w.server
          /\ w.servers[k].active # 0 =>
                w.servers[k].active \in DOMAIN w.sess /\ w.sess[w.servers[k].active].kind = "lan"

\* Every message is about a session that exists, the server's about its own.
PostOK(w, m) ==
    /\ m.what \in {"changed", "connected", "closed", "error"} => m.session \in DOMAIN w.sess
    /\ m.what \in {"connected", "closed"} => w.sess[m.session].kind = "lan"
PostsOK(w) == \A i \in DOMAIN w.posts : PostOK(w, w.posts[i])

\* The capture is of the Activity's session, and has its teardown under way when
\* that session has ended since it started.
CaptureOK(w) ==
    /\ w.step = "start" => w.shown # 0
    /\ w.bridge # NoCapture =>
          /\ w.shown # 0 /\ w.bridge.session = w.shown
          /\ w.bridge.live =>
                /\ w.sess[w.shown].running # "new"
                /\ w.sess[w.shown].running = "no" =>
                      w.owned \/ \E i \in DOMAIN w.jobs : w.jobs[i] = w.shown

\* The sessions, except that x need not have its place.
PlacedBut(w, x) ==
    /\ w \in Processes
    /\ \A s \in DOMAIN w.sess : SessionOK(w, s) /\ (s # x => HasPlace(w, s))
    /\ OwnerOK(w) /\ PostsOK(w)
Placed(w) == PlacedBut(w, 0)

\* A capture that runs, is asked for, about to start or remembered was started by
\* somebody.
WishOK(w) == w.resume \/ Capturing(w) \/ w.step = "start" => w.wish # "no"

Sound(w) == Placed(w) /\ CaptureOK(w) /\ WishOK(w)
IInv == Sound(act)

-----------------------------------------------------------------------------
(* Records of sessions in a sequence. *)

LEMMA PutSession ==
    ASSUME NEW q \in Seq(Sessions), NEW s \in DOMAIN q, NEW new \in Sessions
    PROVE  /\ [q EXCEPT ![s] = new] \in Seq(Sessions)
           /\ DOMAIN [q EXCEPT ![s] = new] = DOMAIN q /\ Len([q EXCEPT ![s] = new]) = Len(q)
           /\ \A t \in DOMAIN q : [q EXCEPT ![s] = new][t] = IF t = s THEN new ELSE q[t]
  OBVIOUS

\* Nothing but the record of session s is different in r.
Changes(w, r, s, new) == r = [w EXCEPT !.sess = [@ EXCEPT ![s] = new]]

LEMMA ChangesOne ==
    ASSUME NEW w \in Processes, NEW s \in DOMAIN w.sess, NEW new \in Sessions, NEW r,
           Changes(w, r, s, new)
    PROVE  /\ r \in Processes /\ DOMAIN r.sess = DOMAIN w.sess /\ Len(r.sess) = Len(w.sess)
           /\ \A t \in DOMAIN w.sess : r.sess[t] = IF t = s THEN new ELSE w.sess[t]
           /\ r.mode = w.mode /\ r.shown = w.shown /\ r.server = w.server /\ r.bridge = w.bridge
           /\ r.want = w.want /\ r.resume = w.resume /\ r.reading = w.reading /\ r.step = w.step
           /\ r.servers = w.servers /\ r.posts = w.posts /\ r.jobs = w.jobs
           /\ r.owned = w.owned /\ r.wish = w.wish /\ r.presses = w.presses
<1> DEFINE q == [w.sess EXCEPT ![s] = new]
<1>1. /\ q \in Seq(Sessions) /\ DOMAIN q = DOMAIN w.sess /\ Len(q) = Len(w.sess)
      /\ \A t \in DOMAIN w.sess : q[t] = IF t = s THEN new ELSE w.sess[t]
  <2>1. w.sess \in Seq(Sessions)
    BY DEF Processes
  <2> QED
    BY <2>1, PutSession
<1>2. r = [w EXCEPT !.sess = q]
  BY DEF Changes
<1> HIDE DEF q
<1> QED
  BY <1>1, <1>2 DEF Processes


\* The places of the others stay, and so do the messages.
LEMMA ChangeKeeps ==
    ASSUME NEW w, NEW x, PlacedBut(w, x), NEW s \in DOMAIN w.sess, NEW new \in Sessions, NEW r,
           Changes(w, r, s, new), new.kind = w.sess[s].kind, new.server = w.sess[s].server,
           SessionOK(r, s), NEW y, y = x \/ x = s, s # y => HasPlace(r, s)
    PROVE  PlacedBut(r, y)
<1>1. /\ w \in Processes /\ r \in Processes /\ DOMAIN r.sess = DOMAIN w.sess
      /\ \A t \in DOMAIN w.sess : r.sess[t] = IF t = s THEN new ELSE w.sess[t]
      /\ r.mode = w.mode /\ r.shown = w.shown /\ r.server = w.server
      /\ r.reading = w.reading /\ r.servers = w.servers /\ r.posts = w.posts
  BY ChangesOne DEF PlacedBut
<1>2. \A t \in DOMAIN w.sess : r.sess[t].kind = w.sess[t].kind
  BY <1>1
<1>3. \A t \in DOMAIN r.sess : SessionOK(r, t) /\ (t # y => HasPlace(r, t))
  BY <1>1 DEF PlacedBut, SessionOK, HasPlace
<1>4. OwnerOK(r)
  <2>1. OwnerOK(w)
    BY DEF PlacedBut
  <2> QED
    BY <1>1, <1>2, <2>1 DEF OwnerOK
<1>5. PostsOK(r)
  <2>1. PostsOK(w)
    BY DEF PlacedBut
  <2> QED
    BY <1>1, <1>2, <2>1 DEF PostsOK, PostOK
<1> QED
  BY <1>1, <1>3, <1>4, <1>5 DEF PlacedBut

LEMMA EndingChanges ==
    ASSUME NEW w \in Processes, NEW s \in DOMAIN w.sess, NEW by \in {"reader", "other"},
           NEW why \in Reasons
    PROVE  LET new == [w.sess[s] EXCEPT !.open = FALSE, !.running = "no", !.at = "ends",
                                        !.by = by, !.why = why]
           IN  new \in Sessions /\ Changes(w, Ending(w, s, by, why), s, new)
<1> DEFINE new == [w.sess[s] EXCEPT !.open = FALSE, !.running = "no", !.at = "ends",
                                    !.by = by, !.why = why]
<1>1. w.sess \in Seq(Sessions) /\ w.sess[s] \in Sessions
  BY DEF Processes
<1>2. new \in Sessions
  BY <1>1 DEF Sessions
<1>3. Ending(w, s, by, why) = [w EXCEPT !.sess[s] = new]
  BY <1>1 DEF Ending
<1>4. Changes(w, Ending(w, s, by, why), s, new)
  BY <1>3 DEF Changes
<1> QED
  BY <1>2, <1>4

-----------------------------------------------------------------------------
(* How sessions end. *)

\* What is left alone when sessions end: the Activity's own state, and whose
\* session is whose.  A session that no longer runs has its teardown in the queue.
Goes(w, r) ==
    /\ r.mode = w.mode /\ r.shown = w.shown /\ r.bridge = w.bridge /\ r.want = w.want
    /\ r.resume = w.resume /\ r.reading = w.reading /\ r.step = w.step /\ r.owned = w.owned
    /\ r.wish = w.wish /\ r.presses = w.presses
    /\ DOMAIN r.sess = DOMAIN w.sess /\ DOMAIN r.servers = DOMAIN w.servers
    /\ \A i \in DOMAIN w.jobs : \E j \in DOMAIN r.jobs : r.jobs[j] = w.jobs[i]
    /\ \A t \in DOMAIN w.sess :
          /\ r.sess[t].kind = w.sess[t].kind /\ r.sess[t].server = w.sess[t].server
          /\ r.sess[t].start = w.sess[t].start /\ (r.sess[t].open => w.sess[t].open)
          /\ \/ r.sess[t].running = w.sess[t].running
             \/ /\ w.sess[t].running = "yes" /\ r.sess[t].running = "no"
                /\ t = w.shown => \E j \in DOMAIN r.jobs : r.jobs[j] = t

LEMMA GoesTwice ==
    ASSUME NEW w, NEW u, NEW r, Goes(w, u), Goes(u, r)
    PROVE  Goes(w, r)
<1>1. \A t \in DOMAIN w.sess :
          \/ r.sess[t].running = w.sess[t].running
          \/ /\ w.sess[t].running = "yes" /\ r.sess[t].running = "no"
             /\ t = w.shown => \E j \in DOMAIN r.jobs : r.jobs[j] = t
  BY DEF Goes
<1> QED
  BY <1>1 DEF Goes

LEMMA GoesKeepsCapture ==
    ASSUME NEW w, NEW r, Goes(w, r), OwnerOK(w)
    PROVE  /\ CaptureOK(w) => CaptureOK(r)
           /\ WishOK(w) => WishOK(r)
  BY DEF Goes, CaptureOK, WishOK, Capturing, OwnerOK

\* Only messages are different.
Posted(w, r) ==
    /\ r.mode = w.mode /\ r.shown = w.shown /\ r.server = w.server /\ r.bridge = w.bridge
    /\ r.want = w.want /\ r.resume = w.resume /\ r.reading = w.reading /\ r.step = w.step
    /\ r.sess = w.sess /\ r.servers = w.servers /\ r.jobs = w.jobs /\ r.owned = w.owned
    /\ r.wish = w.wish /\ r.presses = w.presses

LEMMA PostedGoes ==
    ASSUME NEW w, NEW r, Posted(w, r)
    PROVE  Goes(w, r)
  BY DEF Posted, Goes

LEMMA PostKeeps ==
    ASSUME NEW w, NEW x, PlacedBut(w, x), NEW what \in Whats, NEW s \in Nat, NEW why \in Reasons,
           PostOK(w, [what |-> what, session |-> s, why |-> why])
    PROVE  PlacedBut(Post(w, what, s, why), x) /\ Posted(w, Post(w, what, s, why))
<1> DEFINE m == [what |-> what, session |-> s, why |-> why]
           q == Append(w.posts, m)
           r == [w EXCEPT !.posts = q]
<1>1. w \in Processes /\ m \in Messages /\ w.posts \in Seq(Messages)
  BY DEF PlacedBut, Processes, Messages
<1>2. /\ q \in Seq(Messages) /\ Len(w.posts) \in Nat
      /\ DOMAIN q = 1..(Len(w.posts) + 1) /\ DOMAIN w.posts = 1..Len(w.posts)
      /\ \A i \in 1..Len(w.posts) : q[i] = w.posts[i]
      /\ q[Len(w.posts) + 1] = m
  <2> HIDE DEF m
  <2> QED
    BY <1>1
<1>3. Post(w, what, s, why) = IF FindsNothing(w, what, s) THEN w ELSE r
  BY DEF Post
<1> HIDE DEF m, q
<1>4. r \in Processes /\ Posted(w, r) /\ r.posts = q
  BY <1>1, <1>2 DEF Processes, Posted
<1>5. PostsOK(r)
  <2>1. \A i \in DOMAIN q : i \in DOMAIN w.posts \/ i = Len(w.posts) + 1
    BY <1>2
  <2>2. \A i \in DOMAIN q : PostOK(w, q[i])
    BY <1>2, <2>1 DEF PlacedBut, PostsOK, m
  <2> QED
    BY <1>4, <2>2 DEF PostsOK, PostOK, Posted
<1>6. PlacedBut(r, x)
  BY <1>4, <1>5 DEF PlacedBut, Posted, SessionOK, HasPlace, OwnerOK
<1>7. Posted(w, w)
  BY DEF Posted
<1> QED
  BY <1>3, <1>4, <1>6, <1>7

\* A message that is about session s only.
LEMMA PostAboutKeeps ==
    ASSUME NEW w, NEW x, PlacedBut(w, x), NEW s \in DOMAIN w.sess, NEW why \in Reasons,
           NEW what \in Whats, what \in {"connected", "closed"} => w.sess[s].kind = "lan"
    PROVE  /\ PlacedBut(Post(w, what, s, why), x) /\ Posted(w, Post(w, what, s, why))
           /\ Goes(w, Post(w, what, s, why))
<1>1. s \in Nat
  BY DEF PlacedBut, Processes
<1>2. PostOK(w, [what |-> what, session |-> s, why |-> why])
  BY DEF PostOK
<1> QED
  BY <1>1, <1>2, PostKeeps, PostedGoes

LEMMA GateClosedKeeps ==
    ASSUME NEW w, NEW x, PlacedBut(w, x), NEW s \in DOMAIN w.sess
    PROVE  LET r == GateClosed(w, s)
           IN  /\ PlacedBut(r, x) /\ Goes(w, r)
               /\ r.server = w.server /\ r.servers = w.servers /\ r.jobs = w.jobs
               /\ \A t \in DOMAIN w.sess :
                     /\ r.sess[t].open = w.sess[t].open /\ r.sess[t].running = w.sess[t].running
                     /\ r.sess[t].at = w.sess[t].at /\ r.sess[t].by = w.sess[t].by
                     /\ r.sess[t].why = w.sess[t].why /\ r.sess[t].reader = w.sess[t].reader
                     /\ r.sess[t].cancelled = w.sess[t].cancelled
<1> DEFINE new == [w.sess[s] EXCEPT !.gate = "closed"]
           u == [w EXCEPT !.sess[s].gate = "closed"]
<1>1. w \in Processes /\ w.sess \in Seq(Sessions) /\ w.sess[s] \in Sessions
  BY DEF PlacedBut, Processes
<1>2. /\ new \in Sessions /\ new.kind = w.sess[s].kind /\ new.server = w.sess[s].server
      /\ new.open = w.sess[s].open /\ new.running = w.sess[s].running /\ new.at = w.sess[s].at
      /\ new.by = w.sess[s].by /\ new.why = w.sess[s].why /\ new.reader = w.sess[s].reader
      /\ new.cancelled = w.sess[s].cancelled /\ new.start = w.sess[s].start
  BY <1>1 DEF Sessions
<1>3. Changes(w, u, s, new)
  BY <1>1 DEF Changes, Processes
<1> HIDE DEF new, u
<1>4. /\ DOMAIN u.sess = DOMAIN w.sess
      /\ \A t \in DOMAIN w.sess : u.sess[t] = IF t = s THEN new ELSE w.sess[t]
      /\ u.mode = w.mode /\ u.shown = w.shown /\ u.server = w.server /\ u.bridge = w.bridge
      /\ u.want = w.want /\ u.resume = w.resume /\ u.reading = w.reading /\ u.step = w.step
      /\ u.servers = w.servers /\ u.jobs = w.jobs
      /\ u.owned = w.owned /\ u.wish = w.wish /\ u.presses = w.presses
  BY <1>1, <1>2, <1>3, ChangesOne
<1>5. SessionOK(u, s) /\ (s # x => HasPlace(u, s))
  BY <1>2, <1>4 DEF PlacedBut, SessionOK, HasPlace
<1>6. PlacedBut(u, x) /\ Goes(w, u)
  <2>1. PlacedBut(u, x)
    BY <1>2, <1>3, <1>5, ChangeKeeps
  <2>2. Goes(w, u)
    BY <1>2, <1>4 DEF Goes
  <2> QED
    BY <2>1, <2>2
<1> DEFINE r == Post(u, "changed", s, "lost")
<1>7. PlacedBut(r, x) /\ Posted(u, r) /\ Goes(u, r)
  BY <1>4, <1>6, PostAboutKeeps DEF Whats, Reasons
<1>8. Goes(w, r)
  BY <1>6, <1>7, GoesTwice
<1>9. CASE GateIsOpen(w.sess[s])
  <2>1. GateClosed(w, s) = r
    BY <1>9 DEF GateClosed, u
  <2> HIDE DEF r
  <2> QED
    BY <1>2, <1>4, <1>7, <1>8, <2>1 DEF Posted
<1>10. CASE ~GateIsOpen(w.sess[s])
  <2>1. GateClosed(w, s) = w
    BY <1>10 DEF GateClosed
  <2>2. Goes(w, w)
    BY DEF Goes
  <2> QED
    BY <2>1, <2>2
<1> QED
  BY <1>9, <1>10

\* The capture's cancellation, for a session that no longer runs.
LEMMA CancelledKeeps ==
    ASSUME NEW w, NEW x, PlacedBut(w, x), NEW s \in DOMAIN w.sess, w.sess[s].running = "no"
    PROVE  LET r == Cancelled(w, s)
           IN  /\ PlacedBut(r, x) /\ Goes(w, r)
               /\ r.server = w.server /\ r.servers = w.servers
               /\ ~w.sess[s].cancelled /\ s = w.shown => \E j \in DOMAIN r.jobs : r.jobs[j] = s
               /\ \A t \in DOMAIN w.sess :
                     /\ r.sess[t].open = w.sess[t].open /\ r.sess[t].running = w.sess[t].running
                     /\ r.sess[t].at = w.sess[t].at /\ r.sess[t].by = w.sess[t].by
                     /\ r.sess[t].why = w.sess[t].why /\ r.sess[t].reader = w.sess[t].reader
<1> DEFINE new == [w.sess[s] EXCEPT !.cancelled = TRUE]
           jobs == IF WillBeShown(w, s) THEN Append(w.jobs, s) ELSE w.jobs
           u == [w EXCEPT !.jobs = jobs]
           r == [w EXCEPT !.sess[s].cancelled = TRUE, !.jobs = jobs]
<1>1. /\ w \in Processes /\ w.sess \in Seq(Sessions) /\ w.sess[s] \in Sessions
      /\ w.jobs \in Seq(Nat) /\ s \in Nat
  BY DEF PlacedBut, Processes
<1>2. /\ new \in Sessions /\ new.kind = w.sess[s].kind /\ new.server = w.sess[s].server
      /\ new.open = w.sess[s].open /\ new.running = w.sess[s].running /\ new.at = w.sess[s].at
      /\ new.by = w.sess[s].by /\ new.why = w.sess[s].why /\ new.reader = w.sess[s].reader
      /\ new.start = w.sess[s].start
  BY <1>1 DEF Sessions
<1>3. /\ jobs \in Seq(Nat)
      /\ \A i \in DOMAIN w.jobs : \E j \in DOMAIN jobs : jobs[j] = w.jobs[i]
      /\ s = w.shown => \E j \in DOMAIN jobs : jobs[j] = s
  <2>1. /\ Append(w.jobs, s) \in Seq(Nat) /\ Len(w.jobs) \in Nat
        /\ DOMAIN Append(w.jobs, s) = 1..(Len(w.jobs) + 1) /\ DOMAIN w.jobs = 1..Len(w.jobs)
        /\ \A i \in 1..Len(w.jobs) : Append(w.jobs, s)[i] = w.jobs[i]
        /\ Append(w.jobs, s)[Len(w.jobs) + 1] = s
        /\ Len(w.jobs) + 1 \in 1..(Len(w.jobs) + 1)
        /\ \A i \in 1..Len(w.jobs) : i \in 1..(Len(w.jobs) + 1)
    BY <1>1
  <2>2. CASE WillBeShown(w, s)
    <3> DEFINE q == Append(w.jobs, s)
    <3>1. jobs = q
      BY <2>2
    <3> HIDE DEF q, jobs
    <3> QED
      BY <2>1, <3>1 DEF q
  <2>3. CASE ~WillBeShown(w, s)
    BY <1>1, <2>3 DEF WillBeShown
  <2> QED
    BY <2>2, <2>3
<1> HIDE DEF jobs
<1>4. PlacedBut(u, x) /\ u.sess = w.sess
  <2>1. /\ u \in Processes /\ u.sess = w.sess /\ u.servers = w.servers /\ u.shown = w.shown
        /\ u.server = w.server /\ u.reading = w.reading /\ u.mode = w.mode /\ u.posts = w.posts
    BY <1>1, <1>3 DEF Processes
  <2> HIDE DEF u
  <2> QED
    BY <2>1 DEF PlacedBut, SessionOK, HasPlace, OwnerOK, PostsOK, PostOK
<1>5. Changes(u, r, s, new)
  BY <1>1 DEF Changes, Processes
<1>6. /\ u \in Processes /\ u.sess = w.sess /\ u.servers = w.servers /\ u.shown = w.shown
      /\ u.server = w.server /\ u.reading = w.reading /\ u.mode = w.mode
      /\ u.bridge = w.bridge /\ u.want = w.want /\ u.resume = w.resume /\ u.step = w.step
      /\ u.jobs = jobs /\ u.owned = w.owned /\ u.wish = w.wish /\ u.presses = w.presses
  BY <1>1, <1>3 DEF Processes
<1> HIDE DEF new, u, r
<1>7. /\ r \in Processes /\ DOMAIN r.sess = DOMAIN w.sess
      /\ \A t \in DOMAIN w.sess : r.sess[t] = IF t = s THEN new ELSE w.sess[t]
      /\ r.mode = w.mode /\ r.shown = w.shown /\ r.server = w.server /\ r.bridge = w.bridge
      /\ r.want = w.want /\ r.resume = w.resume /\ r.reading = w.reading /\ r.step = w.step
      /\ r.servers = w.servers /\ r.jobs = jobs
      /\ r.owned = w.owned /\ r.wish = w.wish /\ r.presses = w.presses
  BY <1>2, <1>5, <1>6, ChangesOne
<1>8. SessionOK(r, s) /\ (s # x => HasPlace(r, s))
  BY <1>2, <1>7 DEF PlacedBut, SessionOK, HasPlace
<1>9. PlacedBut(r, x) /\ Goes(w, r)
  <2>1. PlacedBut(r, x)
    BY <1>2, <1>4, <1>5, <1>8, ChangeKeeps
  <2>2. Goes(w, r)
    BY <1>2, <1>3, <1>7 DEF Goes
  <2> QED
    BY <2>1, <2>2
<1>10. CASE w.sess[s].cancelled
  <2>1. Cancelled(w, s) = w
    BY <1>10 DEF Cancelled
  <2>2. Goes(w, w)
    BY DEF Goes
  <2> QED
    BY <1>10, <2>1, <2>2
<1>11. CASE ~w.sess[s].cancelled
  <2>1. Cancelled(w, s) = r
    BY <1>11 DEF Cancelled, r, jobs
  <2> QED
    BY <1>2, <1>3, <1>7, <1>9, <2>1
<1> QED
  BY <1>10, <1>11

\* failMedia() and finish() with the cancellation, of a session that runs.
LEMMA EndingKeeps ==
    ASSUME NEW w, NEW x, PlacedBut(w, x), NEW s \in DOMAIN w.sess, w.sess[s].running = "yes",
           NEW by \in {"reader", "other"}, NEW why \in Reasons,
           x = 0 \/ (x = s /\ w.sess[s].kind = "lan")
    PROVE  LET r == Cancelled(Ending(w, s, by, why), s)
           IN  /\ Placed(r) /\ Goes(w, r)
               /\ r.server = w.server /\ r.servers = w.servers
               /\ ~r.sess[s].open /\ r.sess[s].running = "no" /\ r.sess[s].at = "ends"
<1> DEFINE new == [w.sess[s] EXCEPT !.open = FALSE, !.running = "no", !.at = "ends",
                                    !.by = by, !.why = why]
           u == Ending(w, s, by, why)
           r == Cancelled(u, s)
<1>1. w \in Processes /\ w.sess \in Seq(Sessions) /\ w.sess[s] \in Sessions /\ s \in Nat /\ s # 0
  BY DEF PlacedBut, Processes
<1>2. new \in Sessions /\ Changes(w, u, s, new)
  BY <1>1, EndingChanges, Zenon
<1>3. /\ new.kind = w.sess[s].kind /\ new.server = w.sess[s].server /\ new.open = FALSE
      /\ new.running = "no" /\ new.at = "ends" /\ new.start = w.sess[s].start
      /\ new.reader = w.sess[s].reader /\ new.cancelled = w.sess[s].cancelled
  BY <1>1 DEF Sessions
<1> HIDE DEF new, u
<1>4. /\ u \in Processes /\ DOMAIN u.sess = DOMAIN w.sess
      /\ \A t \in DOMAIN w.sess : u.sess[t] = IF t = s THEN new ELSE w.sess[t]
      /\ u.mode = w.mode /\ u.shown = w.shown /\ u.server = w.server /\ u.bridge = w.bridge
      /\ u.want = w.want /\ u.resume = w.resume /\ u.reading = w.reading /\ u.step = w.step
      /\ u.servers = w.servers /\ u.jobs = w.jobs
      /\ u.owned = w.owned /\ u.wish = w.wish /\ u.presses = w.presses
  BY <1>1, <1>2, ChangesOne
<1>5. SessionOK(w, s) /\ (x = 0 => HasPlace(w, s)) /\ ~w.sess[s].cancelled
  BY <1>1 DEF PlacedBut, SessionOK
<1>6. SessionOK(u, s) /\ HasPlace(u, s)
  BY <1>3, <1>4, <1>5 DEF SessionOK, HasPlace
<1>7. Placed(u)
  <2>1. 0 = x \/ x = s
    OBVIOUS
  <2> QED
    BY <1>2, <1>3, <1>6, <2>1, ChangeKeeps DEF Placed
<1>8. /\ Placed(r) /\ Goes(u, r) /\ r.server = u.server /\ r.servers = u.servers
      /\ s = u.shown => \E j \in DOMAIN r.jobs : r.jobs[j] = s
      /\ \A t \in DOMAIN u.sess :
            /\ r.sess[t].open = u.sess[t].open /\ r.sess[t].running = u.sess[t].running
            /\ r.sess[t].at = u.sess[t].at
  BY <1>3, <1>4, <1>5, <1>7, CancelledKeeps DEF Placed
<1> HIDE DEF r
<1>9. Goes(w, r)
  BY <1>3, <1>4, <1>8 DEF Goes
<1> QED
  BY <1>3, <1>4, <1>8, <1>9 DEF r, u

\* The slot of the server is free again.
LEMMA FreedKeeps ==
    ASSUME NEW w, Placed(w), NEW s \in DOMAIN w.sess, HasSlot(w, s), w.sess[s].at # "up"
    PROVE  LET r == Freed(w, s)
           IN  /\ Placed(r) /\ Goes(w, r) /\ r.server = w.server
               /\ ~r.sess[s].open /\ r.sess[s].at = "freed"
<1> DEFINE k == w.sess[s].server
           slot == [w.servers[k] EXCEPT !.active = 0]
           servers == [w.servers EXCEPT ![k] = slot]
           u == [w EXCEPT !.servers = servers]
           new == [w.sess[s] EXCEPT !.at = "freed"]
           r == Freed(w, s)
<1>1. /\ w \in Processes /\ w.sess \in Seq(Sessions) /\ w.sess[s] \in Sessions
      /\ w.servers \in Seq(Servers) /\ k \in DOMAIN w.servers /\ w.servers[k] \in Servers
      /\ w.sess[s].kind = "lan" /\ w.servers[k].active = s /\ ~w.sess[s].open
      /\ \A t \in DOMAIN w.sess : t # 0 /\ SessionOK(w, t) /\ HasPlace(w, t)
  BY DEF Placed, PlacedBut, Processes, HasSlot, SessionOK
<1>2. slot \in Servers /\ slot.active = 0 /\ slot.running = w.servers[k].running
  BY <1>1 DEF Servers
<1>3. /\ servers \in Seq(Servers) /\ DOMAIN servers = DOMAIN w.servers
      /\ \A l \in DOMAIN w.servers : servers[l] = IF l = k THEN slot ELSE w.servers[l]
  <2> HIDE DEF slot, k
  <2> QED
    BY <1>1, <1>2
<1>4. /\ new \in Sessions /\ new.kind = w.sess[s].kind /\ new.server = w.sess[s].server
      /\ new.open = w.sess[s].open /\ new.running = w.sess[s].running /\ new.at = "freed"
      /\ new.reader = w.sess[s].reader /\ new.start = w.sess[s].start
      /\ new.cancelled = w.sess[s].cancelled
  BY <1>1 DEF Sessions
<1>5. r = [u EXCEPT !.sess = [@ EXCEPT ![s] = new]]
  <2>1. r = [w EXCEPT !.servers[k].active = 0, !.sess[s].at = "freed"]
    BY DEF Freed
  <2> QED
    BY <1>1, <2>1 DEF Processes
<1> HIDE DEF servers, slot, new, k
<1>6. /\ u \in Processes /\ u.sess = w.sess /\ u.servers = servers /\ u.shown = w.shown
      /\ u.server = w.server /\ u.reading = w.reading /\ u.mode = w.mode /\ u.posts = w.posts
      /\ u.bridge = w.bridge /\ u.want = w.want /\ u.resume = w.resume /\ u.step = w.step
      /\ u.jobs = w.jobs /\ u.owned = w.owned /\ u.wish = w.wish /\ u.presses = w.presses
  BY <1>1, <1>3 DEF Processes
<1> HIDE DEF u, r
<1>7. Placed(u)
  <2>1. \A t \in DOMAIN w.sess : SessionOK(u, t)
    BY <1>1, <1>3, <1>6 DEF SessionOK
  <2>2. \A t \in DOMAIN w.sess : HasPlace(u, t)
    <3>1. SUFFICES ASSUME NEW t \in DOMAIN w.sess PROVE HasPlace(u, t)
      OBVIOUS
    <3>2. /\ HasPlace(w, t)
          /\ w.sess[t].kind = "lan" => w.sess[t].server \in DOMAIN w.servers
      BY <1>1 DEF SessionOK
    <3>3. CASE t = s
      BY <1>1, <1>6, <3>2, <3>3 DEF HasPlace
    <3>4. CASE t # s
      BY <1>1, <1>2, <1>3, <1>6, <3>2, <3>4 DEF HasPlace
    <3> QED
      BY <3>3, <3>4
  <2>3. OwnerOK(u)
    BY <1>2, <1>3, <1>6 DEF Placed, PlacedBut, OwnerOK
  <2>4. PostsOK(u)
    BY <1>6 DEF Placed, PlacedBut, PostsOK, PostOK
  <2> QED
    BY <1>6, <2>1, <2>2, <2>3, <2>4 DEF Placed, PlacedBut
<1>8. Changes(u, r, s, new)
  BY <1>5 DEF Changes
<1>9. /\ r \in Processes /\ DOMAIN r.sess = DOMAIN w.sess
      /\ \A t \in DOMAIN w.sess : r.sess[t] = IF t = s THEN new ELSE w.sess[t]
      /\ r.mode = w.mode /\ r.shown = w.shown /\ r.server = w.server /\ r.bridge = w.bridge
      /\ r.want = w.want /\ r.resume = w.resume /\ r.reading = w.reading /\ r.step = w.step
      /\ r.servers = servers /\ r.jobs = w.jobs
      /\ r.owned = w.owned /\ r.wish = w.wish /\ r.presses = w.presses
  BY <1>4, <1>6, <1>8, ChangesOne
<1>10. SessionOK(r, s) /\ HasPlace(r, s)
  BY <1>1, <1>3, <1>4, <1>9 DEF SessionOK, HasPlace
<1>11. Placed(r)
  BY <1>4, <1>6, <1>7, <1>8, <1>10, ChangeKeeps DEF Placed
<1>12. Goes(w, r)
  BY <1>3, <1>4, <1>9 DEF Goes
<1> QED
  BY <1>1, <1>4, <1>9, <1>11, <1>12 DEF r

\* The Activity is told.
LEMMA ToldKeeps ==
    ASSUME NEW w, Placed(w), NEW s \in DOMAIN w.sess, w.sess[s].at # "up"
    PROVE  LET r == Told(w, s)
           IN  Placed(r) /\ Goes(w, r) /\ r.server = w.server /\ ~r.sess[s].open
<1> DEFINE closed == IF w.sess[s].at = "freed" THEN Post(w, "closed", s, "lost") ELSE w
           u == IF w.sess[s].kind = "usb" \/ w.sess[s].why = "refused"
                THEN Post(closed, "error", s, w.sess[s].why) ELSE closed
           reader == IF w.sess[s].by = "reader" THEN "done" ELSE w.sess[s].reader
           new == [u.sess[s] EXCEPT !.at = "down", !.by = "other", !.why = "lost",
                                    !.reader = reader]
           r == Told(w, s)
<1>1. /\ w \in Processes /\ w.sess \in Seq(Sessions) /\ w.sess[s] \in Sessions
      /\ SessionOK(w, s) /\ HasPlace(w, s) /\ s # 0 /\ w.sess[s].why \in Reasons
  <2>1. w \in Processes /\ w.sess \in Seq(Sessions)
    BY DEF Placed, PlacedBut, Processes
  <2>2. w.sess[s] \in Sessions /\ s # 0
    BY <2>1
  <2> QED
    BY <2>1, <2>2 DEF Placed, PlacedBut, Sessions
<1>2. Placed(closed) /\ Posted(w, closed)
  <2>1. CASE w.sess[s].at = "freed"
    <3>1. w.sess[s].kind = "lan"
      BY <1>1, <2>1 DEF SessionOK, Sessions
    <3> QED
      BY <2>1, <3>1, PostAboutKeeps DEF Placed, Whats, Reasons
  <2>2. CASE w.sess[s].at # "freed"
    BY <2>2 DEF Posted
  <2> QED
    BY <2>1, <2>2
<1> HIDE DEF closed
<1>3. Placed(u) /\ Posted(closed, u)
  <2>1. CASE w.sess[s].kind = "usb" \/ w.sess[s].why = "refused"
    <3>1. s \in DOMAIN closed.sess
      BY <1>2 DEF Posted
    <3> QED
      BY <1>1, <1>2, <2>1, <3>1, PostAboutKeeps DEF Placed, Whats
  <2>2. CASE ~(w.sess[s].kind = "usb" \/ w.sess[s].why = "refused")
    BY <1>2, <2>2 DEF Posted
  <2> QED
    BY <2>1, <2>2
<1>4. Posted(w, u)
  BY <1>2, <1>3 DEF Posted
<1>5. r = [u EXCEPT !.sess[s] = new]
  BY DEF Told, closed
<1> HIDE DEF u, r
<1>6. u.sess = w.sess /\ u \in Processes /\ Goes(w, u)
  BY <1>3, <1>4, PostedGoes DEF Posted, Placed, PlacedBut
<1>7. Changes(u, r, s, new)
  <2> HIDE DEF new
  <2> QED
    BY <1>5, <1>6 DEF Changes, Processes
<1>8. /\ new \in Sessions /\ new.kind = w.sess[s].kind /\ new.server = w.sess[s].server
      /\ new.open = w.sess[s].open /\ new.running = w.sess[s].running /\ new.at = "down"
      /\ new.start = w.sess[s].start /\ new.cancelled = w.sess[s].cancelled
      /\ new.reader \in {w.sess[s].reader, "done"}
  <2>1. reader \in {w.sess[s].reader, "done"} /\ reader \in {"none", "reading", "done"}
    BY <1>1, <1>6 DEF Sessions
  <2>2. w.sess[s] \in Sessions /\ new = [w.sess[s] EXCEPT !.at = "down", !.by = "other",
                                                       !.why = "lost", !.reader = reader]
    BY <1>1, <1>6
  <2> HIDE DEF reader, new
  <2> QED
    BY <2>1, <2>2 DEF Sessions, Reasons
<1> HIDE DEF new
<1>9. /\ r \in Processes /\ DOMAIN r.sess = DOMAIN w.sess
      /\ \A t \in DOMAIN w.sess : r.sess[t] = IF t = s THEN new ELSE w.sess[t]
      /\ r.mode = w.mode /\ r.shown = w.shown /\ r.server = w.server /\ r.bridge = w.bridge
      /\ r.want = w.want /\ r.resume = w.resume /\ r.reading = w.reading /\ r.step = w.step
      /\ r.servers = w.servers /\ r.jobs = w.jobs
      /\ r.owned = w.owned /\ r.wish = w.wish /\ r.presses = w.presses
  BY <1>4, <1>6, <1>7, <1>8, ChangesOne DEF Posted
<1>10. ~w.sess[s].open
  BY <1>1 DEF SessionOK
<1>11. SessionOK(r, s) /\ HasPlace(r, s)
  BY <1>1, <1>8, <1>9, <1>10 DEF SessionOK, HasPlace
<1>12. Placed(r)
  BY <1>3, <1>6, <1>7, <1>8, <1>11, ChangeKeeps DEF Placed
<1>13. Goes(w, r)
  BY <1>8, <1>9 DEF Goes
<1> QED
  BY <1>8, <1>9, <1>10, <1>12, <1>13 DEF r

LEMMA SocketClosedKeeps ==
    ASSUME NEW w, NEW x, PlacedBut(w, x), NEW s \in DOMAIN w.sess,
           x = 0 \/ (x = s /\ w.sess[s].kind = "lan")
    PROVE  LET r == [w EXCEPT !.sess[s].open = FALSE]
           IN  Placed(r) /\ Goes(w, r) /\ r.server = w.server /\ ~r.sess[s].open
<1> DEFINE new == [w.sess[s] EXCEPT !.open = FALSE]
           r == [w EXCEPT !.sess[s].open = FALSE]
<1>1. /\ w \in Processes /\ w.sess \in Seq(Sessions) /\ w.sess[s] \in Sessions
      /\ SessionOK(w, s) /\ (x = 0 => HasPlace(w, s)) /\ s # 0
  BY DEF PlacedBut, Processes
<1>2. /\ new \in Sessions /\ new.kind = w.sess[s].kind /\ new.server = w.sess[s].server
      /\ new.open = FALSE /\ new.running = w.sess[s].running /\ new.at = w.sess[s].at
      /\ new.reader = w.sess[s].reader /\ new.start = w.sess[s].start
      /\ new.cancelled = w.sess[s].cancelled
  BY <1>1 DEF Sessions
<1>3. Changes(w, r, s, new)
  BY <1>1 DEF Changes, Processes
<1> HIDE DEF new, r
<1>4. /\ r \in Processes /\ DOMAIN r.sess = DOMAIN w.sess
      /\ \A t \in DOMAIN w.sess : r.sess[t] = IF t = s THEN new ELSE w.sess[t]
      /\ r.mode = w.mode /\ r.shown = w.shown /\ r.server = w.server /\ r.bridge = w.bridge
      /\ r.want = w.want /\ r.resume = w.resume /\ r.reading = w.reading /\ r.step = w.step
      /\ r.servers = w.servers /\ r.jobs = w.jobs
      /\ r.owned = w.owned /\ r.wish = w.wish /\ r.presses = w.presses
  BY <1>1, <1>2, <1>3, ChangesOne
<1>5. SessionOK(r, s) /\ HasPlace(r, s)
  BY <1>1, <1>2, <1>4 DEF SessionOK, HasPlace
<1>6. Placed(r)
  BY <1>2, <1>3, <1>5, ChangeKeeps DEF Placed
<1>7. Goes(w, r)
  BY <1>2, <1>4 DEF Goes
<1> QED
  BY <1>2, <1>4, <1>6, <1>7 DEF r

LEMMA SessionEndedKeeps ==
    ASSUME NEW w, NEW x, PlacedBut(w, x), NEW s \in DOMAIN w.sess, NEW why \in Reasons,
           x = 0 \/ (x = s /\ w.sess[s].kind = "lan")
    PROVE  LET r == SessionEnded(w, s, why)
           IN  Placed(r) /\ Goes(w, r) /\ r.server = w.server /\ ~r.sess[s].open
<1>1. CASE w.sess[s].running # "yes"
  BY <1>1, SocketClosedKeeps DEF SessionEnded
<1>2. CASE w.sess[s].running = "yes"
  <2> DEFINE u == Cancelled(Ending(w, s, "other", why), s)
             closed == GateClosed(u, s)
             freed == IF HasSlot(closed, s) THEN Freed(closed, s) ELSE closed
             r == Told(freed, s)
  <2>1. Placed(u) /\ Goes(w, u) /\ u.server = w.server /\ u.sess[s].at = "ends"
    BY <1>2, EndingKeeps
  <2>2. SessionEnded(w, s, why) = r
    BY <1>2 DEF SessionEnded, MediaClosed
  <2> HIDE DEF u
  <2>3. s \in DOMAIN u.sess
    BY <2>1 DEF Goes
  <2>4. Placed(closed) /\ Goes(u, closed) /\ closed.server = u.server /\ closed.sess[s].at = "ends"
    BY <2>1, <2>3, GateClosedKeeps DEF Placed
  <2> HIDE DEF closed
  <2>5. s \in DOMAIN closed.sess
    BY <2>3, <2>4 DEF Goes
  <2>6. Placed(freed) /\ Goes(closed, freed) /\ freed.server = closed.server /\ freed.sess[s].at # "up"
    <3>1. CASE HasSlot(closed, s)
      BY <2>4, <2>5, <3>1, FreedKeeps
    <3>2. CASE ~HasSlot(closed, s)
      BY <2>4, <3>2 DEF Goes
    <3> QED
      BY <3>1, <3>2
  <2> HIDE DEF freed
  <2>7. s \in DOMAIN freed.sess
    BY <2>5, <2>6 DEF Goes
  <2>8. Placed(r) /\ Goes(freed, r) /\ r.server = freed.server /\ ~r.sess[s].open
    BY <2>6, <2>7, ToldKeeps
  <2> HIDE DEF r
  <2>9. Goes(w, r)
    BY <2>1, <2>4, <2>6, <2>8, GoesTwice
  <2> QED
    BY <2>1, <2>2, <2>4, <2>6, <2>8, <2>9
<1> QED
  BY <1>1, <1>2

-----------------------------------------------------------------------------
(* How a capture and the Activity's session end. *)

\* What closing leaves alone, and what is remembered when there is something to.
Stays(w, r) ==
    /\ r.mode = w.mode /\ r.resume = w.resume /\ r.step = w.step
    /\ w.resume => r.wish = w.wish
    /\ DOMAIN r.sess = DOMAIN w.sess /\ DOMAIN r.servers = DOMAIN w.servers
    /\ \A t \in DOMAIN w.sess :
          r.sess[t].kind = w.sess[t].kind /\ r.sess[t].server = w.sess[t].server
Idle(w) == w.shown = 0 /\ w.bridge = NoCapture /\ ~w.want

LEMMA GoesStays ==
    ASSUME NEW w, NEW r, Goes(w, r)
    PROVE  Stays(w, r) /\ (Idle(w) => Idle(r))
  BY DEF Goes, Stays, Idle

LEMMA StaysTwice ==
    ASSUME NEW w, NEW u, NEW r, Stays(w, u), Stays(u, r)
    PROVE  Stays(w, r)
  BY DEF Stays

\* Nothing about places depends on the capture.
LEMMA CaptureClosedKeeps ==
    ASSUME NEW w, NEW x, PlacedBut(w, x)
    PROVE  LET r == CaptureClosed(w)
           IN  /\ PlacedBut(r, x) /\ r.bridge = NoCapture
               /\ r.mode = w.mode /\ r.shown = w.shown /\ r.server = w.server /\ r.want = w.want
               /\ r.resume = w.resume /\ r.reading = w.reading /\ r.step = w.step
               /\ r.sess = w.sess /\ r.servers = w.servers /\ r.jobs = w.jobs
               /\ r.owned = w.owned /\ r.wish = w.wish /\ r.presses = w.presses
<1> DEFINE q == Without(w.posts, {CameraError})
           r == [w EXCEPT !.bridge = NoCapture, !.posts = q]
<1>1. w \in Processes /\ w.posts \in Seq(Messages) /\ NoCapture \in Captures
  BY DEF PlacedBut, Processes, NoCapture, Captures
<1>2. /\ q \in Seq(Messages)
      /\ \A j \in DOMAIN q : \E i \in DOMAIN w.posts : q[j] = w.posts[i]
  <2> DEFINE p == w.posts
             drop == {CameraError}
  <2>1. p \in Seq(Messages)
    BY <1>1
  <2> HIDE DEF p, drop
  <2>2. /\ Without(p, drop) \in Seq(Messages)
        /\ \A j \in DOMAIN Without(p, drop) : \E i \in DOMAIN p : Without(p, drop)[j] = p[i]
    BY <2>1, WithoutMembers
  <2> QED
    BY <2>2 DEF p, drop
<1>3. CaptureClosed(w) = r
  BY DEF CaptureClosed
<1> HIDE DEF q
<1>4. /\ r \in Processes /\ r.bridge = NoCapture /\ r.posts = q
      /\ r.mode = w.mode /\ r.shown = w.shown /\ r.server = w.server /\ r.want = w.want
      /\ r.resume = w.resume /\ r.reading = w.reading /\ r.step = w.step
      /\ r.sess = w.sess /\ r.servers = w.servers /\ r.jobs = w.jobs
      /\ r.owned = w.owned /\ r.wish = w.wish /\ r.presses = w.presses
  BY <1>1, <1>2 DEF Processes
<1> HIDE DEF r
<1>5. PostsOK(r)
  BY <1>2, <1>4 DEF PlacedBut, PostsOK, PostOK
<1>6. PlacedBut(r, x)
  BY <1>4, <1>5 DEF PlacedBut, SessionOK, HasPlace, OwnerOK
<1> QED
  BY <1>3, <1>4, <1>6

LEMMA StopCameraKeeps ==
    ASSUME NEW w, NEW x, PlacedBut(w, x)
    PROVE  LET r == StopCamera(w)
           IN  /\ PlacedBut(r, x) /\ r.bridge = NoCapture /\ ~r.want
               /\ Stays(w, r)
               /\ r.shown = w.shown /\ r.server = w.server /\ r.reading = w.reading
               /\ r.sess = w.sess /\ r.servers = w.servers /\ r.jobs = w.jobs
               /\ r.owned = w.owned /\ r.presses = w.presses
<1> DEFINE u == CaptureClosed(w)
           r == [u EXCEPT !.want = FALSE, !.wish = IF w.resume THEN @ ELSE "no"]
<1>1. /\ PlacedBut(u, x) /\ u.bridge = NoCapture
      /\ u.mode = w.mode /\ u.shown = w.shown /\ u.server = w.server /\ u.want = w.want
      /\ u.resume = w.resume /\ u.reading = w.reading /\ u.step = w.step
      /\ u.sess = w.sess /\ u.servers = w.servers /\ u.jobs = w.jobs
      /\ u.owned = w.owned /\ u.wish = w.wish /\ u.presses = w.presses
  BY CaptureClosedKeeps
<1>2. StopCamera(w) = r
  BY DEF StopCamera
<1> HIDE DEF u
<1>3. /\ r \in Processes /\ r.bridge = u.bridge /\ r.posts = u.posts /\ r.want = FALSE
      /\ r.mode = u.mode /\ r.shown = u.shown /\ r.server = u.server
      /\ r.resume = u.resume /\ r.reading = u.reading /\ r.step = u.step
      /\ r.sess = u.sess /\ r.servers = u.servers /\ r.jobs = u.jobs
      /\ r.owned = u.owned /\ r.presses = u.presses /\ (w.resume => r.wish = u.wish)
  BY <1>1 DEF PlacedBut, Processes
<1> HIDE DEF r
<1>4. PlacedBut(r, x)
  BY <1>1, <1>3 DEF PlacedBut, SessionOK, HasPlace, OwnerOK, PostsOK, PostOK
<1>5. Stays(w, r)
  BY <1>1, <1>3 DEF Stays
<1> QED
  BY <1>1, <1>2, <1>3, <1>4, <1>5

\* closeAndAwait(), of an accessory session that may have lost its place.
LEMMA AwaitedKeeps ==
    ASSUME NEW w, NEW s, PlacedBut(w, s), s \in DOMAIN w.sess, w.sess[s].kind = "usb",
           NEW stopped \in BOOLEAN
    PROVE  LET r == Awaited(w, s, stopped)
           IN  /\ PlacedBut(r, s) /\ Stays(w, r) /\ (Idle(w) => Idle(r))
               /\ r.shown = w.shown /\ r.reading = w.reading /\ r.server = w.server
               /\ ~r.sess[s].open /\ (stopped => r.sess[s].reader # "reading")
<1> DEFINE reader == IF stopped /\ w.sess[s].reader = "reading" THEN "done" ELSE w.sess[s].reader
           new == [w.sess[s] EXCEPT !.running = "no", !.open = FALSE, !.reader = reader]
           u == [w EXCEPT !.sess[s] = new]
           v == Cancelled(u, s)
           r == GateClosed(v, s)
<1>1. /\ w \in Processes /\ w.sess \in Seq(Sessions) /\ w.sess[s] \in Sessions
      /\ SessionOK(w, s) /\ w.sess[s].start = "done"
  BY DEF PlacedBut, Processes, SessionOK
<1>2. /\ reader \in {"none", "reading", "done"}
      /\ reader \in {w.sess[s].reader, "done"} /\ (stopped => reader # "reading")
  BY <1>1 DEF Sessions
<1>3. Awaited(w, s, stopped) = r
  BY DEF Awaited, MediaClosed
<1>4. Changes(w, u, s, new)
  BY <1>1 DEF Changes, Processes
<1> HIDE DEF reader, u
<1>5. /\ new \in Sessions /\ new.kind = w.sess[s].kind /\ new.server = w.sess[s].server
      /\ ~new.open /\ new.running = "no" /\ new.at = w.sess[s].at /\ new.start = w.sess[s].start
      /\ new.reader = reader
  BY <1>1, <1>2 DEF Sessions
<1> HIDE DEF new, v, r
<1>6. /\ u \in Processes /\ DOMAIN u.sess = DOMAIN w.sess
      /\ \A t \in DOMAIN w.sess : u.sess[t] = IF t = s THEN new ELSE w.sess[t]
      /\ u.mode = w.mode /\ u.shown = w.shown /\ u.server = w.server /\ u.bridge = w.bridge
      /\ u.want = w.want /\ u.resume = w.resume /\ u.reading = w.reading /\ u.step = w.step
      /\ u.servers = w.servers /\ u.posts = w.posts /\ u.jobs = w.jobs
      /\ u.owned = w.owned /\ u.wish = w.wish /\ u.presses = w.presses
  BY <1>1, <1>4, <1>5, ChangesOne
<1>7. SessionOK(u, s)
  BY <1>1, <1>5, <1>6 DEF SessionOK, Early
<1>8. PlacedBut(u, s)
  BY <1>4, <1>5, <1>7, ChangeKeeps
<1>9. Stays(w, u) /\ (Idle(w) => Idle(u))
  BY <1>5, <1>6 DEF Stays, Idle
<1>10. /\ PlacedBut(v, s) /\ Goes(u, v) /\ v.server = u.server
       /\ v.sess[s].open = u.sess[s].open /\ v.sess[s].reader = u.sess[s].reader
  <2>1. s \in DOMAIN u.sess /\ u.sess[s].running = "no"
    BY <1>5, <1>6
  <2> QED
    BY <1>8, <2>1, CancelledKeeps DEF v
<1>11. /\ PlacedBut(r, s) /\ Goes(v, r) /\ r.server = v.server
       /\ r.sess[s].open = v.sess[s].open /\ r.sess[s].reader = v.sess[s].reader
  <2>1. s \in DOMAIN v.sess
    BY <1>6, <1>10 DEF Goes
  <2> QED
    BY <1>10, <2>1, GateClosedKeeps DEF r
<1>12. Goes(u, r)
  BY <1>10, <1>11, GoesTwice
<1>13. Stays(w, r) /\ (Idle(w) => Idle(r))
  BY <1>9, <1>12, GoesStays, StaysTwice
<1>14. r.shown = w.shown /\ r.reading = w.reading /\ r.server = w.server
  BY <1>6, <1>10, <1>11, <1>12 DEF Goes
<1> QED
  BY <1>2, <1>3, <1>5, <1>6, <1>10, <1>11, <1>13, <1>14

\* Without its session or with the one of the server, the Activity can let go of it.
LEMMA UnshownKeeps ==
    ASSUME NEW w, Placed(w)
    PROVE  LET r == [w EXCEPT !.shown = 0]
               x == IF w.shown # 0 /\ w.mode = "usb" THEN w.shown ELSE 0
           IN  /\ PlacedBut(r, x) /\ Stays(w, r)
               /\ r.shown = 0 /\ r.sess = w.sess /\ r.server = w.server /\ r.reading = w.reading
<1> DEFINE r == [w EXCEPT !.shown = 0]
           x == IF w.shown # 0 /\ w.mode = "usb" THEN w.shown ELSE 0
<1>1. /\ r \in Processes /\ r.shown = 0
      /\ r.mode = w.mode /\ r.server = w.server /\ r.resume = w.resume /\ r.reading = w.reading
      /\ r.step = w.step /\ r.sess = w.sess /\ r.servers = w.servers /\ r.posts = w.posts
      /\ r.wish = w.wish
  BY DEF Placed, PlacedBut, Processes
<1> HIDE DEF r
<1>2. ASSUME NEW t \in DOMAIN w.sess
      PROVE  SessionOK(r, t) /\ (t # x => HasPlace(r, t))
  <2>1. SessionOK(w, t) /\ HasPlace(w, t) /\ OwnerOK(w)
    <3>1. t # 0
      BY DEF Placed, PlacedBut, Processes
    <3> QED
      BY <3>1 DEF Placed, PlacedBut
  <2>2. SessionOK(r, t)
    BY <1>1, <2>1 DEF SessionOK
  <2>3. ASSUME t # x PROVE HasPlace(r, t)
    <3>1. w.sess[t].kind = "usb" => t # w.shown
      BY <2>1, <2>3 DEF OwnerOK
    <3> QED
      BY <1>1, <2>1, <3>1 DEF HasPlace
  <2> QED
    BY <2>2, <2>3
<1>3. OwnerOK(r) /\ PostsOK(r)
  BY <1>1 DEF Placed, PlacedBut, OwnerOK, PostsOK, PostOK
<1>4. PlacedBut(r, x)
  BY <1>1, <1>2, <1>3 DEF PlacedBut
<1>5. Stays(w, r)
  BY <1>1 DEF Stays
<1> QED
  BY <1>1, <1>4, <1>5 DEF r

LEMMA CloseSessionKeeps ==
    ASSUME NEW w, Placed(w), NEW stopped \in BOOLEAN
    PROVE  LET r == CloseSession(w, stopped)
           IN  Placed(r) /\ Stays(w, r) /\ Idle(r) /\ r.server = w.server
<1> DEFINE s == w.shown
           v == [w EXCEPT !.shown = 0]
           x == IF s # 0 /\ w.mode = "usb" THEN s ELSE 0
           idle == StopCamera(v)
<1>1. PlacedBut(v, x) /\ Stays(w, v) /\ v.shown = 0 /\ v.sess = w.sess /\ v.server = w.server
      /\ v.reading = w.reading
  BY UnshownKeeps
<1>2. OwnerOK(w) /\ w \in Processes
  BY DEF Placed, PlacedBut
<1>3. CloseSession(w, stopped) =
          IF s = 0 THEN idle
          ELSE IF w.sess[s].kind = "lan" THEN SessionEnded(idle, s, "lost")
          ELSE [Awaited(idle, s, stopped) EXCEPT !.reading = IF stopped THEN 0 ELSE s]
  BY DEF CloseSession
<1> HIDE DEF v
<1>4. /\ PlacedBut(idle, x) /\ Idle(idle) /\ Stays(w, idle)
      /\ idle.sess = w.sess /\ idle.server = w.server /\ idle.reading = w.reading
  <2>1. /\ PlacedBut(idle, x) /\ idle.bridge = NoCapture /\ ~idle.want /\ Stays(v, idle)
        /\ idle.shown = v.shown /\ idle.server = v.server /\ idle.reading = v.reading
        /\ idle.sess = v.sess
    BY <1>1, StopCameraKeeps
  <2> HIDE DEF idle
  <2> QED
    BY <1>1, <2>1, StaysTwice DEF Idle
<1> HIDE DEF idle
<1>5. CASE s = 0
  <2>1. x = 0
    BY <1>5
  <2> QED
    BY <1>3, <1>4, <1>5, <2>1 DEF Placed
<1>6. CASE s # 0 /\ w.sess[s].kind = "lan"
  <2> DEFINE r == SessionEnded(idle, s, "lost")
  <2>1. x = 0 /\ s \in DOMAIN idle.sess
    BY <1>2, <1>4, <1>6 DEF OwnerOK
  <2>2. Placed(r) /\ Goes(idle, r) /\ r.server = idle.server
    BY <1>4, <2>1, SessionEndedKeeps DEF Reasons
  <2> HIDE DEF r
  <2>3. Stays(w, r) /\ Idle(r)
    BY <1>4, <2>2, GoesStays, StaysTwice
  <2> QED
    BY <1>3, <1>4, <1>6, <2>2, <2>3 DEF r
<1>7. CASE s # 0 /\ w.sess[s].kind # "lan"
  <2> DEFINE a == Awaited(idle, s, stopped)
             reading == IF stopped THEN 0 ELSE s
             r == [a EXCEPT !.reading = reading]
  <2>1. x = s /\ s \in DOMAIN idle.sess /\ idle.sess[s].kind = "usb" /\ w.reading = 0 /\ s \in Nat
    BY <1>2, <1>4, <1>7 DEF OwnerOK, Processes
  <2>2. /\ PlacedBut(a, s) /\ Stays(idle, a) /\ Idle(a)
        /\ a.shown = idle.shown /\ a.reading = idle.reading /\ a.server = idle.server
        /\ ~a.sess[s].open /\ (stopped => a.sess[s].reader # "reading")
    BY <1>4, <2>1, AwaitedKeeps
  <2>3. CloseSession(w, stopped) = r
    BY <1>3, <1>7
  <2> HIDE DEF a
  <2>4. /\ r \in Processes /\ r.reading = reading
        /\ r.mode = a.mode /\ r.shown = a.shown /\ r.server = a.server /\ r.bridge = a.bridge
        /\ r.want = a.want /\ r.resume = a.resume /\ r.step = a.step /\ r.sess = a.sess
        /\ r.servers = a.servers /\ r.posts = a.posts /\ r.wish = a.wish
    BY <2>1, <2>2 DEF PlacedBut, Processes
  <2>5. /\ reading # 0 => reading = s /\ ~stopped
        /\ reading = 0 => stopped \/ s = 0
    OBVIOUS
  <2> HIDE DEF r, reading
  <2>6. s \in DOMAIN a.sess /\ a.sess[s].kind = "usb" /\ a.shown = 0 /\ a.reading = 0
    BY <1>4, <2>1, <2>2 DEF Stays, Idle
  <2>7. ASSUME NEW t \in DOMAIN r.sess PROVE SessionOK(r, t) /\ HasPlace(r, t)
    <3>1. SessionOK(a, t) /\ (t # s => HasPlace(a, t)) /\ t # 0
      BY <2>2, <2>4 DEF PlacedBut, Processes
    <3>2. SessionOK(r, t)
      BY <2>4, <3>1 DEF SessionOK
    <3>3. CASE t = s
      <4>1. /\ r.sess[s].kind = "usb" /\ ~r.sess[s].open
            /\ r.sess[s].reader = "reading" => s = r.reading
        BY <1>7, <2>2, <2>4, <2>5, <2>6
      <4> QED
        BY <3>2, <3>3, <4>1 DEF HasPlace
    <3>4. CASE t # s
      <4>1. HasPlace(a, t) /\ a.shown = 0 /\ a.reading = 0 /\ t # 0
        BY <2>6, <3>1, <3>4
      <4>2. /\ r.sess = a.sess /\ r.servers = a.servers /\ r.shown = a.shown
            /\ r.server = a.server
        BY <2>4
      <4> QED
        BY <3>2, <4>1, <4>2 DEF HasPlace
    <3> QED
      BY <3>3, <3>4
  <2>8. OwnerOK(r) /\ PostsOK(r)
    <3>1. PostsOK(r)
      BY <2>2, <2>4 DEF PlacedBut, PostsOK, PostOK
    <3>2. OwnerOK(r)
      BY <2>2, <2>4, <2>5, <2>6 DEF PlacedBut, OwnerOK
    <3> QED
      BY <3>1, <3>2
  <2>9. Placed(r)
    BY <2>4, <2>7, <2>8 DEF Placed, PlacedBut
  <2>10. Stays(a, r) /\ Idle(r)
    BY <2>2, <2>4 DEF Stays, Idle
  <2>11. Stays(w, r)
    BY <1>4, <2>2, <2>10, StaysTwice
  <2> QED
    BY <1>4, <2>2, <2>3, <2>4, <2>9, <2>10, <2>11
<1> QED
  BY <1>5, <1>6, <1>7

LEMMA CloseServerKeeps ==
    ASSUME NEW w, Placed(w)
    PROVE  LET r == CloseServer(w)
           IN  Placed(r) /\ Goes(w, r) /\ r.server = 0
<1> DEFINE k == w.server
           s == w.servers[k].active
           slot == [running |-> FALSE, active |-> 0]
           servers == [w.servers EXCEPT ![k] = slot]
           u == [w EXCEPT !.servers = servers, !.server = 0]
<1>1. /\ w \in Processes /\ w.servers \in Seq(Servers) /\ slot \in Servers /\ OwnerOK(w)
      /\ \A t \in DOMAIN w.sess : t # 0 /\ SessionOK(w, t) /\ HasPlace(w, t)
  BY DEF Placed, PlacedBut, Processes, Servers
<1>2. CASE k = 0
  <2>1. Goes(w, w)
    BY DEF Goes
  <2> QED
    BY <1>2, <2>1 DEF CloseServer
<1>3. CASE k # 0
  <2>1. k \in DOMAIN w.servers /\ w.servers[k] \in Servers
    BY <1>1, <1>3 DEF OwnerOK
  <2>2. /\ servers \in Seq(Servers) /\ DOMAIN servers = DOMAIN w.servers
        /\ \A l \in DOMAIN w.servers : servers[l] = IF l = k THEN slot ELSE w.servers[l]
    <3> HIDE DEF slot, k
    <3> QED
      BY <1>1, <2>1
  <2>3. CloseServer(w) = IF s = 0 THEN u ELSE SessionEnded(u, s, "lost")
    BY <1>3 DEF CloseServer
  <2>4. slot.active = 0 /\ slot.running = FALSE
    OBVIOUS
  <2> HIDE DEF servers, slot
  <2>5. /\ u \in Processes /\ u.server = 0 /\ u.servers = servers
        /\ u.sess = w.sess /\ u.mode = w.mode /\ u.shown = w.shown /\ u.reading = w.reading
        /\ u.posts = w.posts /\ u.bridge = w.bridge /\ u.want = w.want /\ u.resume = w.resume
        /\ u.step = w.step /\ u.jobs = w.jobs /\ u.owned = w.owned /\ u.wish = w.wish
        /\ u.presses = w.presses
    BY <1>1, <2>2 DEF Processes
  <2> HIDE DEF u
  <2>6. ASSUME NEW t \in DOMAIN w.sess
        PROVE  SessionOK(u, t) /\ (t # s => HasPlace(u, t))
    <3>1. SessionOK(w, t) /\ HasPlace(w, t) /\ t # 0
      BY <1>1
    <3>2. SessionOK(u, t)
      BY <2>2, <2>5, <3>1 DEF SessionOK
    <3>3. ASSUME t # s PROVE HasPlace(u, t)
      <4>1. w.sess[t].kind = "lan" => w.sess[t].server \in DOMAIN w.servers
        BY <3>1 DEF SessionOK
      <4>2. \A l \in DOMAIN w.servers : ~servers[l].running
        BY <1>1, <2>2, <2>4 DEF OwnerOK
      <4> QED
        BY <2>5, <3>1, <3>3, <4>1, <4>2 DEF HasPlace
    <3> QED
      BY <3>2, <3>3
  <2>7. OwnerOK(u) /\ PostsOK(u)
    <3>1. PostsOK(u)
      BY <2>5 DEF Placed, PlacedBut, PostsOK, PostOK
    <3>2. OwnerOK(u)
      BY <1>1, <2>2, <2>4, <2>5 DEF OwnerOK
    <3> QED
      BY <3>1, <3>2
  <2>8. PlacedBut(u, s)
    BY <2>5, <2>6, <2>7 DEF PlacedBut
  <2>9. Goes(w, u)
    BY <2>2, <2>5 DEF Goes
  <2>10. CASE s = 0
    BY <2>3, <2>5, <2>8, <2>9, <2>10 DEF Placed
  <2>11. CASE s # 0
    <3> DEFINE r == SessionEnded(u, s, "lost")
    <3>1. s \in DOMAIN u.sess /\ u.sess[s].kind = "lan"
      BY <1>1, <2>1, <2>5, <2>11 DEF OwnerOK
    <3>2. Placed(r) /\ Goes(u, r) /\ r.server = u.server
      BY <2>8, <3>1, SessionEndedKeeps DEF Reasons
    <3> HIDE DEF r
    <3>3. Goes(w, r)
      BY <2>9, <3>2, GoesTwice
    <3> QED
      BY <2>3, <2>5, <2>11, <3>2, <3>3 DEF r
  <2> QED
    BY <2>10, <2>11
<1> QED
  BY <1>2, <1>3

-----------------------------------------------------------------------------
(* How sessions and captures begin. *)

\* Nothing a place depends on is different.
SamePlaces(w, r) ==
    /\ r.mode = w.mode /\ r.shown = w.shown /\ r.server = w.server /\ r.reading = w.reading
    /\ r.sess = w.sess /\ r.servers = w.servers

LEMMA StillPlaced ==
    ASSUME NEW w, NEW x, PlacedBut(w, x), NEW r \in Processes, SamePlaces(w, r), PostsOK(r)
    PROVE  PlacedBut(r, x)
  BY DEF SamePlaces, PlacedBut, SessionOK, HasPlace, OwnerOK, PostsOK, PostOK

\* Only what the Activity thinks of a capture is different.
LEMMA ThoughtKeeps ==
    ASSUME NEW w, Placed(w), NEW r \in Processes, SamePlaces(w, r), r.posts = w.posts
    PROVE  Placed(r)
<1>1. PostsOK(r)
  BY DEF SamePlaces, Placed, PlacedBut, PostsOK, PostOK
<1> QED
  BY <1>1, StillPlaced DEF Placed

\* startCamera() of an Activity whose session is approved, or that has a capture.
LEMMA StartCameraKeeps ==
    ASSUME NEW w, Sound(w), IsGranted(w, w.shown) \/ w.bridge # NoCapture
    PROVE  Sound(StartCamera(w))
<1> DEFINE r == [w EXCEPT !.step = "start"]
<1>1. CASE ~w.want \/ w.bridge # NoCapture
  BY <1>1 DEF StartCamera
<1>2. CASE ~(~w.want \/ w.bridge # NoCapture)
  <2>1. StartCamera(w) = r /\ w.shown # 0
    BY <1>2 DEF StartCamera, IsGranted
  <2>2. /\ r \in Processes /\ SamePlaces(w, r) /\ r.posts = w.posts /\ r.bridge = w.bridge
        /\ r.want = w.want /\ r.resume = w.resume /\ r.wish = w.wish
    BY DEF Sound, Placed, PlacedBut, Processes, SamePlaces
  <2> HIDE DEF r
  <2>3. Placed(r)
    BY <2>2, ThoughtKeeps DEF Sound
  <2>4. CaptureOK(r)
    BY <1>2, <2>1, <2>2 DEF CaptureOK, SamePlaces
  <2>5. WishOK(r)
    BY <1>2, <2>2 DEF Sound, WishOK, Capturing
  <2> QED
    BY <2>1, <2>3, <2>4, <2>5 DEF Sound
<1> QED
  BY <1>1, <1>2

LEMMA MediaStartedKeeps ==
    ASSUME NEW w, Placed(w), NEW s \in DOMAIN w.sess, w.sess[s].kind = "usb" => w.shown = s
    PROVE  LET r == MediaStarted(w, s)
           IN  Placed(r) /\ Goes(w, r)
<1> DEFINE reader == IF w.sess[s].kind = "usb" THEN "reading" ELSE w.sess[s].reader
           new == [w.sess[s] EXCEPT !.gate = "waiting", !.reader = reader]
           u == [w EXCEPT !.sess[s] = new]
           r == Post(u, "changed", s, "lost")
<1>1. /\ w \in Processes /\ w.sess \in Seq(Sessions) /\ w.sess[s] \in Sessions
      /\ SessionOK(w, s) /\ HasPlace(w, s) /\ s # 0
  BY DEF Placed, PlacedBut, Processes
<1>2. CASE AnotherIsActive(w)
  <2>1. MediaStarted(w, s) = SessionEnded(w, s, "lost")
    BY <1>2 DEF MediaStarted
  <2> QED
    BY <2>1, SessionEndedKeeps DEF Placed, Reasons
<1>3. CASE ~AnotherIsActive(w)
  <2>1. MediaStarted(w, s) = r
    BY <1>3 DEF MediaStarted
  <2>2. Changes(w, u, s, new)
    BY <1>1 DEF Changes, Processes
  <2>3. /\ reader \in {"none", "reading", "done"}
        /\ w.sess[s].kind = "lan" => reader = w.sess[s].reader
    BY <1>1 DEF Sessions
  <2> HIDE DEF reader, u
  <2>4. /\ new \in Sessions /\ new.kind = w.sess[s].kind /\ new.server = w.sess[s].server
        /\ new.open = w.sess[s].open /\ new.running = w.sess[s].running /\ new.at = w.sess[s].at
        /\ new.start = w.sess[s].start /\ new.cancelled = w.sess[s].cancelled
        /\ new.reader = reader
    BY <1>1, <2>3 DEF Sessions
  <2> HIDE DEF new, r
  <2>5. /\ u \in Processes /\ DOMAIN u.sess = DOMAIN w.sess
        /\ \A t \in DOMAIN w.sess : u.sess[t] = IF t = s THEN new ELSE w.sess[t]
        /\ u.mode = w.mode /\ u.shown = w.shown /\ u.server = w.server /\ u.bridge = w.bridge
        /\ u.want = w.want /\ u.resume = w.resume /\ u.reading = w.reading /\ u.step = w.step
        /\ u.servers = w.servers /\ u.posts = w.posts /\ u.jobs = w.jobs
        /\ u.owned = w.owned /\ u.wish = w.wish /\ u.presses = w.presses
    BY <1>1, <2>2, <2>4, ChangesOne
  <2>6. SessionOK(u, s) /\ HasPlace(u, s)
    BY <1>1, <2>3, <2>4, <2>5 DEF SessionOK, HasPlace
  <2>7. Placed(u)
    BY <2>2, <2>4, <2>6, ChangeKeeps DEF Placed
  <2>8. Goes(w, u)
    BY <2>4, <2>5 DEF Goes
  <2>9. Placed(r) /\ Goes(u, r)
    BY <2>5, <2>7, PostAboutKeeps DEF Placed, Whats, Reasons, r
  <2> QED
    BY <2>1, <2>8, <2>9, GoesTwice
<1> QED
  BY <1>2, <1>3

\* Another session, the Activity's or not.
LEMMA AppendKeeps ==
    ASSUME NEW w, Placed(w), NEW new \in Sessions, NEW r \in Processes, NEW n, n = Len(w.sess) + 1,
           r.sess = Append(w.sess, new), r.servers = w.servers, r.server = w.server,
           r.mode = w.mode, r.reading = w.reading, r.posts = w.posts,
           \/ r.shown = w.shown
           \/ /\ w.shown = 0 /\ r.shown = n /\ new.kind = w.mode
              /\ w.mode = "usb" => w.reading = 0,
           SessionOK(r, n), HasPlace(r, n)
    PROVE  /\ Placed(r) /\ n \in DOMAIN r.sess /\ r.sess[n] = new
           /\ \A t \in DOMAIN w.sess : t \in DOMAIN r.sess /\ r.sess[t] = w.sess[t]
<1>1. /\ w \in Processes /\ w.sess \in Seq(Sessions) /\ OwnerOK(w) /\ PostsOK(w)
      /\ \A t \in DOMAIN w.sess : SessionOK(w, t) /\ HasPlace(w, t) /\ t # 0
  BY DEF Placed, PlacedBut, Processes
<1>2. /\ n \in DOMAIN r.sess /\ r.sess[n] = new
      /\ \A t \in DOMAIN w.sess : t \in DOMAIN r.sess /\ r.sess[t] = w.sess[t]
      /\ \A t \in DOMAIN r.sess : t = n \/ t \in DOMAIN w.sess
  <2> DEFINE q == w.sess
  <2>1. q \in Seq(Sessions) /\ n = Len(q) + 1 /\ r.sess = Append(q, new)
    BY <1>1
  <2> HIDE DEF q
  <2>2. /\ n \in DOMAIN Append(q, new) /\ Append(q, new)[n] = new
        /\ \A t \in DOMAIN q : t \in DOMAIN Append(q, new) /\ Append(q, new)[t] = q[t]
        /\ \A t \in DOMAIN Append(q, new) : t = n \/ t \in DOMAIN q
    BY <2>1
  <2> QED
    BY <2>1, <2>2 DEF q
<1>3. ASSUME NEW t \in DOMAIN w.sess
      PROVE  SessionOK(r, t) /\ HasPlace(r, t)
  <2>1. SessionOK(w, t) /\ HasPlace(w, t) /\ t # 0 /\ r.sess[t] = w.sess[t]
    BY <1>1, <1>2
  <2>2. SessionOK(r, t)
    BY <2>1 DEF SessionOK
  <2>3. HasPlace(r, t)
    BY <2>1 DEF HasPlace
  <2> QED
    BY <2>2, <2>3
<1>4. OwnerOK(r)
  BY <1>1, <1>2 DEF OwnerOK
<1>5. PostsOK(r)
  BY <1>1, <1>2 DEF PostsOK, PostOK
<1> QED
  BY <1>2, <1>3, <1>4, <1>5 DEF Placed, PlacedBut

\* openAccessory(), with no session and nobody on the endpoint.
LEMMA OpenedKeeps ==
    ASSUME NEW w, Placed(w), w.resume => w.wish # "no", w.mode = "usb",
           w.step = "idle", w.shown = 0, ~ReaderInTheWay(w)
    PROVE  Sound(Opened(w))
<1> DEFINE n == Len(w.sess) + 1
           v == [w EXCEPT !.reading = 0]
           none == [v EXCEPT !.shown = 0]
           free == StopCamera(none)
           new == [NewSession("usb", 0) EXCEPT !.start = "done", !.running = "yes"]
           made == [free EXCEPT !.sess = Append(@, new), !.shown = n]
           r == MediaStarted(made, n)
<1>1. /\ w \in Processes /\ OwnerOK(w)
      /\ \A t \in DOMAIN w.sess : SessionOK(w, t) /\ HasPlace(w, t) /\ t # 0
  BY DEF Placed, PlacedBut, Processes
<1>2. /\ v \in Processes /\ v.reading = 0 /\ v.mode = w.mode /\ v.shown = w.shown
      /\ v.server = w.server /\ v.resume = w.resume /\ v.wish = w.wish /\ v.step = w.step
      /\ v.sess = w.sess /\ v.servers = w.servers /\ v.posts = w.posts
  BY <1>1 DEF Processes
<1>3. CloseSession(v, TRUE) = free
  BY <1>2 DEF CloseSession
<1> HIDE DEF v
<1>4. Placed(v)
  <2>1. ASSUME NEW t \in DOMAIN v.sess PROVE SessionOK(v, t) /\ HasPlace(v, t)
    <3>1. SessionOK(w, t) /\ HasPlace(w, t) /\ t # 0
      BY <1>1, <1>2
    <3>2. SessionOK(v, t)
      BY <1>2, <3>1 DEF SessionOK
    <3>3. HasPlace(v, t)
      BY <1>2, <3>1 DEF HasPlace, ReaderInTheWay
    <3> QED
      BY <3>2, <3>3
  <2>2. OwnerOK(v)
    BY <1>1, <1>2 DEF OwnerOK
  <2>3. PostsOK(v)
    BY <1>2 DEF Placed, PlacedBut, PostsOK, PostOK
  <2> QED
    BY <1>2, <2>1, <2>2, <2>3 DEF Placed, PlacedBut
<1>5. PlacedBut(none, 0) /\ Stays(v, none) /\ none.shown = 0 /\ none.sess = v.sess
      /\ none.server = v.server /\ none.reading = v.reading
  BY <1>2, <1>4, UnshownKeeps
<1> HIDE DEF none
<1>6. /\ PlacedBut(free, 0) /\ free.bridge = NoCapture /\ ~free.want /\ Stays(none, free)
      /\ free.shown = none.shown /\ free.server = none.server /\ free.reading = none.reading
      /\ free.sess = none.sess /\ free.servers = none.servers
  BY <1>5, StopCameraKeeps
<1>7. Opened(w) = r
  <2>1. Opened(w) =
          MediaStarted([CloseSession(v, TRUE) EXCEPT
                            !.sess = Append(@, [NewSession("usb", 0) EXCEPT !.start = "done",
                                                                           !.running = "yes"]),
                            !.shown = n], n)
    BY DEF Opened, v
  <2> HIDE DEF free, n
  <2> QED
    BY <1>3, <2>1
<1> HIDE DEF free
<1>8. /\ new \in Sessions /\ new.kind = "usb" /\ new.start = "done" /\ new.running = "yes"
      /\ new.cancelled = FALSE /\ new.at = "up" /\ new.reader = "none"
  BY DEF Sessions, NewSession, Early, Late, Reasons
<1> HIDE DEF new
<1>9. free.sess = w.sess /\ w.sess \in Seq(Sessions) /\ n \in Nat /\ n # 0
      /\ Append(w.sess, new) \in Seq(Sessions) /\ Append(w.sess, new)[n] = new
  <2> DEFINE q == w.sess
  <2>1. q \in Seq(Sessions)
    BY <1>1 DEF Processes
  <2> HIDE DEF q
  <2>2. /\ Len(q) + 1 \in Nat /\ Len(q) + 1 # 0 /\ Append(q, new) \in Seq(Sessions)
        /\ Append(q, new)[Len(q) + 1] = new
    BY <1>8, <2>1
  <2> QED
    BY <1>2, <1>5, <1>6, <2>1, <2>2 DEF q
<1>10. /\ made \in Processes /\ made.sess = Append(free.sess, new) /\ made.shown = n
       /\ made.mode = free.mode /\ made.server = free.server /\ made.reading = free.reading
       /\ made.servers = free.servers /\ made.posts = free.posts /\ made.bridge = free.bridge
       /\ made.want = free.want /\ made.resume = free.resume /\ made.step = free.step
       /\ made.wish = free.wish
  <2> HIDE DEF n
  <2> QED
    BY <1>6, <1>9 DEF PlacedBut, Processes
<1>11. made.sess[n] = new
  BY <1>9, <1>10
<1> HIDE DEF made
<1>12. SessionOK(made, n) /\ HasPlace(made, n)
  <2> HIDE DEF n
  <2> QED
    BY <1>8, <1>10, <1>11 DEF SessionOK, HasPlace, Early
<1>13. /\ free.mode = "usb" /\ free.shown = 0 /\ free.reading = 0
       /\ free.resume = w.resume /\ (w.resume => free.wish = w.wish) /\ free.step = "idle"
  BY <1>2, <1>5, <1>6 DEF Stays
<1>14. Placed(made) /\ n \in DOMAIN made.sess
  <2>1. n = Len(free.sess) + 1
    BY <1>9
  <2> HIDE DEF n
  <2> QED
    BY <1>6, <1>8, <1>10, <1>12, <1>13, <2>1, AppendKeeps DEF Placed
<1>15. CaptureOK(made) /\ WishOK(made)
  <2> HIDE DEF n
  <2> QED
    BY <1>6, <1>9, <1>10, <1>13 DEF CaptureOK, WishOK, Capturing
<1>16. Placed(r) /\ Goes(made, r)
  <2> HIDE DEF n
  <2> QED
    BY <1>10, <1>14, MediaStartedKeeps
<1> HIDE DEF r
<1>17. CaptureOK(r) /\ WishOK(r)
  BY <1>14, <1>15, <1>16, GoesKeepsCapture DEF Placed, PlacedBut
<1> QED
  BY <1>7, <1>16, <1>17 DEF Sound

LEMMA DiscoveredKeeps ==
    ASSUME NEW w, Sound(w), w.mode = "usb", w.step = "idle", NEW r \in Discovered(w)
    PROVE  Sound(r)
<1>1. CASE r = w
  BY <1>1
<1>2. CASE r = Opened(w) /\ w.shown = 0 /\ ~ReaderInTheWay(w)
  BY <1>2, OpenedKeeps DEF Sound, WishOK
<1> QED
  BY <1>1, <1>2 DEF Discovered

\* startLanMode()
LEMMA LanModeKeeps ==
    ASSUME NEW w, Placed(w), w.step = "idle", NEW keep \in BOOLEAN, NEW stopped \in BOOLEAN,
           NEW listens \in BOOLEAN, keep /\ w.resume => w.wish # "no"
    PROVE  Sound(LanMode(w, keep, stopped, listens))
<1> DEFINE v == [w EXCEPT !.resume = keep /\ @]
           a == StopCamera(v)
           b == CloseSession(a, stopped)
           c == CloseServer(b)
           servers == IF listens THEN Append(c.servers, NewServer) ELSE c.servers
           server == IF listens THEN Len(c.servers) + 1 ELSE 0
           r == [c EXCEPT !.mode = "lan", !.servers = servers, !.server = server]
<1>1. LanMode(w, keep, stopped, listens) = r
  BY DEF LanMode
<1>2. /\ v \in Processes /\ SamePlaces(w, v) /\ v.posts = w.posts /\ v.step = w.step
      /\ v.wish = w.wish /\ (v.resume => keep /\ w.resume)
  BY DEF Placed, PlacedBut, Processes, SamePlaces
<1> HIDE DEF v
<1>3. Placed(v)
  BY <1>2, ThoughtKeeps
<1>4. Placed(a) /\ Stays(v, a)
  BY <1>3, StopCameraKeeps DEF Placed
<1> HIDE DEF a
<1>5. Placed(b) /\ Stays(a, b) /\ Idle(b)
  BY <1>4, CloseSessionKeeps
<1> HIDE DEF b
<1>6. Placed(c) /\ Goes(b, c) /\ c.server = 0
  BY <1>5, CloseServerKeeps
<1> HIDE DEF c
<1>7. Idle(c) /\ Stays(v, c)
  BY <1>4, <1>5, <1>6, GoesStays, StaysTwice
<1>8. /\ servers \in Seq(Servers) /\ server \in Nat
      /\ \A k \in DOMAIN c.servers : k \in DOMAIN servers /\ servers[k] = c.servers[k]
      /\ \A k \in DOMAIN servers : k \in DOMAIN c.servers \/ (k = server /\ servers[k].active = 0)
      /\ server # 0 => server \in DOMAIN servers
  <2> DEFINE q == c.servers
  <2>1. q \in Seq(Servers) /\ NewServer \in Servers /\ NewServer.active = 0
    BY <1>6 DEF Placed, PlacedBut, Processes, Servers, NewServer
  <2> HIDE DEF q
  <2>2. /\ Append(q, NewServer) \in Seq(Servers) /\ Len(q) + 1 \in Nat
        /\ \A k \in DOMAIN q : k \in DOMAIN Append(q, NewServer) /\ Append(q, NewServer)[k] = q[k]
        /\ \A k \in DOMAIN Append(q, NewServer) :
              k \in DOMAIN q \/ (k = Len(q) + 1 /\ Append(q, NewServer)[k].active = 0)
        /\ Len(q) + 1 \in DOMAIN Append(q, NewServer)
    BY <2>1
  <2>3. CASE listens
    <3>1. servers = Append(q, NewServer) /\ server = Len(q) + 1 /\ c.servers = q
      BY <2>3 DEF q
    <3> HIDE DEF servers, server
    <3> QED
      BY <2>2, <3>1
  <2>4. CASE ~listens
    <3>1. servers = q /\ server = 0 /\ c.servers = q
      BY <2>4 DEF q
    <3> HIDE DEF servers, server
    <3> QED
      BY <2>1, <3>1
  <2> QED
    BY <2>3, <2>4
<1> HIDE DEF servers, server
<1>9. /\ r \in Processes /\ r.mode = "lan" /\ r.servers = servers /\ r.server = server
      /\ r.shown = c.shown /\ r.bridge = c.bridge /\ r.want = c.want /\ r.resume = c.resume
      /\ r.reading = c.reading /\ r.step = c.step /\ r.sess = c.sess /\ r.posts = c.posts
      /\ r.wish = c.wish
  BY <1>6, <1>8 DEF Placed, PlacedBut, Processes
<1> HIDE DEF r
<1>10. /\ OwnerOK(c) /\ PostsOK(c)
       /\ \A t \in DOMAIN c.sess : SessionOK(c, t) /\ HasPlace(c, t) /\ t # 0
  BY <1>6 DEF Placed, PlacedBut, Processes
<1>11. ASSUME NEW t \in DOMAIN r.sess PROVE SessionOK(r, t) /\ HasPlace(r, t)
  <2>1. /\ SessionOK(c, t) /\ HasPlace(c, t)
        /\ c.sess[t].kind = "lan" => c.sess[t].server \in DOMAIN c.servers
    BY <1>9, <1>10 DEF SessionOK
  <2>2. SessionOK(r, t)
    BY <1>8, <1>9, <2>1 DEF SessionOK
  <2>3. \A k \in DOMAIN c.servers : k # 0 /\ ~c.servers[k].running
    BY <1>6, <1>10 DEF OwnerOK, Placed, PlacedBut, Processes
  <2>4. HasPlace(r, t)
    BY <1>6, <1>8, <1>9, <2>1, <2>3 DEF HasPlace
  <2> QED
    BY <2>2, <2>4
<1>12. OwnerOK(r)
  <2>1. \A k \in DOMAIN c.servers : ~c.servers[k].running
    BY <1>6, <1>10 DEF OwnerOK, Placed, PlacedBut, Processes
  <2> QED
    BY <1>7, <1>8, <1>9, <1>10, <2>1 DEF OwnerOK, Idle
<1>13. PostsOK(r)
  BY <1>9, <1>10 DEF PostsOK, PostOK
<1>14. CaptureOK(r) /\ WishOK(r)
  BY <1>2, <1>7, <1>9 DEF CaptureOK, WishOK, Capturing, Idle, Stays
<1> QED
  BY <1>1, <1>9, <1>11, <1>12, <1>13, <1>14 DEF Sound, Placed, PlacedBut

-----------------------------------------------------------------------------
(* What every step of another thread is made of. *)

\* The record of one session is different, which may have begun to run.
LEMMA RecordKeeps ==
    ASSUME NEW w, Sound(w), NEW s \in DOMAIN w.sess, NEW new \in Sessions, NEW r,
           Changes(w, r, s, new), new.kind = w.sess[s].kind, new.server = w.sess[s].server,
           new.running = w.sess[s].running \/ (w.sess[s].running = "new" /\ new.running = "yes"),
           SessionOK(r, s), HasPlace(r, s)
    PROVE  Sound(r)
<1>1. w \in Processes
  BY DEF Sound, Placed, PlacedBut
<1>2. /\ DOMAIN r.sess = DOMAIN w.sess
      /\ \A t \in DOMAIN w.sess : r.sess[t] = IF t = s THEN new ELSE w.sess[t]
      /\ r.shown = w.shown /\ r.bridge = w.bridge
      /\ r.want = w.want /\ r.resume = w.resume /\ r.step = w.step
      /\ r.jobs = w.jobs /\ r.owned = w.owned /\ r.wish = w.wish
  BY <1>1, ChangesOne
<1>3. Placed(r)
  BY ChangeKeeps DEF Sound, Placed
<1>4. CaptureOK(r)
  <2>1. CaptureOK(w) /\ (w.shown # 0 => w.shown \in DOMAIN w.sess)
    BY DEF Sound, Placed, PlacedBut, OwnerOK
  <2> QED
    BY <1>2, <2>1 DEF CaptureOK
<1>5. WishOK(r)
  BY <1>2 DEF Sound, WishOK, Capturing
<1> QED
  BY <1>3, <1>4, <1>5 DEF Sound

LEMMA GoesKeeps ==
    ASSUME NEW w, Sound(w), NEW r, Placed(r), Goes(w, r)
    PROVE  Sound(r)
  BY GoesKeepsCapture DEF Sound, Placed, PlacedBut

\* A message about session s.
LEMMA PostSound ==
    ASSUME NEW w, Sound(w), NEW s \in DOMAIN w.sess, NEW why \in Reasons,
           NEW what \in Whats, what \in {"connected", "closed"} => w.sess[s].kind = "lan"
    PROVE  Sound(Post(w, what, s, why))
<1> DEFINE r == Post(w, what, s, why)
<1>1. Placed(r) /\ Goes(w, r)
  BY PostAboutKeeps DEF Sound, Placed
<1> HIDE DEF r
<1>2. Sound(r)
  BY <1>1, GoesKeeps
<1> QED
  BY <1>2 DEF r

LEMMA SoundPlaced ==
    ASSUME NEW w, Sound(w)
    PROVE  /\ Placed(w) /\ w \in Processes /\ OwnerOK(w) /\ PostsOK(w) /\ w.sess \in Seq(Sessions)
           /\ \A s \in DOMAIN w.sess :
                 w.sess[s] \in Sessions /\ SessionOK(w, s) /\ HasPlace(w, s) /\ s # 0
  BY DEF Sound, Placed, PlacedBut, Processes

LEMMA OutcomesAreBoolean ==
    ASSUME NEW w
    PROVE  Outcomes(w) \subseteq BOOLEAN
  BY DEF Outcomes

-----------------------------------------------------------------------------
(* The main looper. *)

LEMMA DiscoverUsbKeeps ==
    ASSUME IInv, DiscoverUsb
    PROVE  IInv'
  BY DiscoveredKeeps DEF IInv, DiscoverUsb

\* A history variable of the buttons: nothing else but the count is different.
LEMMA PressedKeeps ==
    ASSUME IInv, Press, NEW wish \in {"no", "start", "notice", "refused"}
    PROVE  LET r == Pressed(wish)
           IN  /\ r \in Processes /\ Placed(r) /\ r.step = "idle" /\ r.resume = act.resume
               /\ r.bridge = act.bridge /\ r.want = act.want /\ r.wish = wish
               /\ r.shown = act.shown /\ r.sess = act.sess /\ CaptureOK(r)
               /\ wish # "no" \/ wish = act.wish => Sound(r)
<1> DEFINE presses == act.presses + 1
           r == [act EXCEPT !.presses = presses, !.wish = wish]
<1>1. act \in Processes /\ Placed(act) /\ act.step = "idle" /\ presses \in Nat
  BY SoundPlaced DEF IInv, Press, Processes
<1>2. Pressed(wish) = r
  BY DEF Pressed
<1> HIDE DEF presses
<1>3. /\ r \in Processes /\ SamePlaces(act, r) /\ r.posts = act.posts /\ r.step = act.step
      /\ r.resume = act.resume /\ r.bridge = act.bridge /\ r.want = act.want /\ r.wish = wish
      /\ r.shown = act.shown /\ r.sess = act.sess /\ r.jobs = act.jobs /\ r.owned = act.owned
  BY <1>1 DEF Processes, SamePlaces
<1> HIDE DEF r
<1>4. Placed(r)
  BY <1>1, <1>3, ThoughtKeeps
<1>5. CaptureOK(r)
  BY <1>3 DEF IInv, Sound, CaptureOK
<1>6. wish # "no" \/ wish = act.wish => WishOK(r)
  BY <1>3 DEF IInv, Sound, WishOK, Capturing
<1> QED
  BY <1>1, <1>2, <1>3, <1>4, <1>5, <1>6 DEF Sound

\* What is remembered is another thing.
LEMMA ResumeKeeps ==
    ASSUME NEW w, Placed(w), NEW b \in BOOLEAN
    PROVE  LET r == [w EXCEPT !.resume = b]
           IN  /\ r \in Processes /\ Placed(r) /\ r.resume = b /\ r.step = w.step
               /\ r.wish = w.wish /\ r.bridge = w.bridge /\ r.want = w.want
               /\ r.shown = w.shown /\ r.sess = w.sess /\ (CaptureOK(w) => CaptureOK(r))
<1> DEFINE r == [w EXCEPT !.resume = b]
<1>1. /\ r \in Processes /\ SamePlaces(w, r) /\ r.posts = w.posts /\ r.step = w.step
      /\ r.resume = b /\ r.bridge = w.bridge /\ r.want = w.want /\ r.wish = w.wish
      /\ r.shown = w.shown /\ r.sess = w.sess /\ r.jobs = w.jobs /\ r.owned = w.owned
  BY DEF Placed, PlacedBut, Processes, SamePlaces
<1> HIDE DEF r
<1>2. Placed(r)
  BY <1>1, ThoughtKeeps
<1>3. CaptureOK(w) => CaptureOK(r)
  BY <1>1 DEF CaptureOK
<1> QED
  BY <1>1, <1>2, <1>3 DEF r

LEMMA StoppedKeeps ==
    ASSUME NEW w, Placed(w), w.step # "start", w.resume => w.wish # "no"
    PROVE  Sound(StopCamera(w))
<1> DEFINE r == StopCamera(w)
<1>1. Placed(r) /\ r.bridge = NoCapture /\ ~r.want /\ Stays(w, r)
  BY StopCameraKeeps DEF Placed
<1> HIDE DEF r
<1>2. CaptureOK(r) /\ WishOK(r)
  BY <1>1 DEF Stays, CaptureOK, WishOK, Capturing
<1> QED
  BY <1>1, <1>2 DEF r, Sound

LEMMA ClosedKeeps ==
    ASSUME NEW w, Placed(w), w.step # "start", w.resume => w.wish # "no", NEW stopped \in BOOLEAN
    PROVE  Sound(CloseSession(w, stopped))
<1> DEFINE r == CloseSession(w, stopped)
<1>1. Placed(r) /\ Stays(w, r) /\ Idle(r)
  BY CloseSessionKeeps
<1> HIDE DEF r
<1>2. CaptureOK(r) /\ WishOK(r)
  BY <1>1 DEF Stays, Idle, CaptureOK, WishOK, Capturing
<1> QED
  BY <1>1, <1>2 DEF r, Sound

LEMMA PressUsbKeeps ==
    ASSUME IInv, PressUsb
    PROVE  IInv'
<1>1. PICK stopped \in Outcomes(act) :
          act' \in Discovered([CloseSession(CloseServer(StopCamera(
                                   [Pressed("no") EXCEPT !.resume = FALSE])), stopped)
                               EXCEPT !.mode = "usb"])
  BY DEF PressUsb
<1> DEFINE p == Pressed("no")
           v == [p EXCEPT !.resume = FALSE]
           a == StopCamera(v)
           c == CloseServer(a)
           free == CloseSession(c, stopped)
           r == [free EXCEPT !.mode = "usb"]
<1>2. stopped \in BOOLEAN
  BY OutcomesAreBoolean
<1>3. p \in Processes /\ Placed(p) /\ p.step = "idle"
  BY PressedKeeps DEF PressUsb
<1> HIDE DEF p
<1>4. v.resume = FALSE /\ Placed(v) /\ v.step = "idle"
  BY <1>3, ResumeKeeps
<1> HIDE DEF v
<1>5. Placed(a) /\ Stays(v, a)
  BY <1>4, StopCameraKeeps DEF Placed
<1> HIDE DEF a
<1>6. Placed(c) /\ Goes(a, c) /\ c.server = 0
  BY <1>5, CloseServerKeeps
<1> HIDE DEF c
<1>7. Placed(free) /\ Stays(c, free) /\ Idle(free) /\ free.server = 0
  BY <1>2, <1>6, CloseSessionKeeps
<1>8. Stays(v, free)
  BY <1>5, <1>6, <1>7, GoesStays, StaysTwice
<1>9. act' \in Discovered(r)
  BY <1>1 DEF free, c, a, v, p
<1> HIDE DEF free
<1>10. /\ r \in Processes /\ r.mode = "usb" /\ r.shown = free.shown /\ r.server = free.server
       /\ r.reading = free.reading /\ r.sess = free.sess /\ r.servers = free.servers
       /\ r.posts = free.posts /\ r.bridge = free.bridge /\ r.want = free.want
       /\ r.resume = free.resume /\ r.step = free.step
  BY <1>7 DEF Placed, PlacedBut, Processes
<1> HIDE DEF r
<1>11. Placed(r)
  BY <1>7, <1>10 DEF Placed, PlacedBut, SessionOK, HasPlace, OwnerOK, PostsOK, PostOK, Idle
<1>12. CaptureOK(r) /\ WishOK(r) /\ r.step = "idle"
  BY <1>4, <1>7, <1>8, <1>10 DEF CaptureOK, WishOK, Capturing, Idle, Stays
<1> QED
  BY <1>9, <1>10, <1>11, <1>12, DiscoveredKeeps DEF Sound, IInv

LEMMA PressLanKeeps ==
    ASSUME IInv, PressLan
    PROVE  IInv'
<1>1. PICK stopped \in Outcomes(act), listens \in BOOLEAN :
          act' = LanMode(Pressed("no"), FALSE, stopped, listens)
  BY DEF PressLan
<1> DEFINE v == Pressed("no")
<1>2. stopped \in BOOLEAN
  BY OutcomesAreBoolean
<1>3. Placed(v) /\ v.step = "idle"
  BY PressedKeeps DEF PressLan
<1> HIDE DEF v
<1>5. Sound(LanMode(v, FALSE, stopped, listens))
  BY <1>2, <1>3, LanModeKeeps
<1> QED
  BY <1>1, <1>5 DEF IInv, v

LEMMA PressRetryKeeps ==
    ASSUME IInv, PressRetry
    PROVE  IInv'
<1> DEFINE v == Pressed(act.wish)
           c == CloseServer(v)
<1>1. act.wish \in {"no", "start", "notice", "refused"} /\ WishOK(act)
  BY SoundPlaced DEF IInv, Sound, Processes
<1>2. Placed(v) /\ v.step = "idle" /\ v.resume = act.resume /\ v.wish = act.wish
  BY <1>1, PressedKeeps DEF PressRetry
<1>3. act' = LanMode(c, TRUE, TRUE, TRUE)
  BY DEF PressRetry
<1> HIDE DEF v
<1>5. Placed(c) /\ Goes(v, c)
  BY <1>2, CloseServerKeeps
<1> HIDE DEF c
<1>6. c.step = "idle" /\ (c.resume => c.wish # "no")
  BY <1>1, <1>2, <1>5 DEF Goes, WishOK
<1> QED
  BY <1>3, <1>5, <1>6, LanModeKeeps DEF IInv

LEMMA PressRotateKeeps ==
    ASSUME IInv, PressRotate
    PROVE  IInv'
<1> DEFINE v == Pressed("no")
           c == CloseServer(v)
<1>2. Placed(v) /\ v.step = "idle"
  BY PressedKeeps DEF PressRotate
<1>3. act' = LanMode(c, FALSE, TRUE, TRUE)
  BY DEF PressRotate
<1> HIDE DEF v
<1>5. Placed(c) /\ Goes(v, c)
  BY <1>2, CloseServerKeeps
<1> HIDE DEF c
<1>6. c.step = "idle"
  BY <1>2, <1>5 DEF Goes
<1> QED
  BY <1>3, <1>5, <1>6, LanModeKeeps DEF IInv

LEMMA PressCameraKeeps ==
    ASSUME IInv, PressCamera
    PROVE  IInv'
<1>1. Press
  BY DEF PressCamera
<1>2. CASE act.want
  <2> DEFINE p == Pressed("no")
             v == [p EXCEPT !.resume = FALSE]
  <2>1. Placed(p) /\ p.step = "idle"
    BY <1>1, PressedKeeps
  <2>2. act' = StopCamera(v)
    BY <1>2 DEF PressCamera
  <2> HIDE DEF p
  <2>3. Placed(v) /\ v.step = "idle" /\ v.resume = FALSE
    BY <2>1, ResumeKeeps
  <2> HIDE DEF v
  <2> QED
    BY <2>2, <2>3, StoppedKeeps DEF IInv
<1>3. CASE ~act.want
  <2> DEFINE p == Pressed("start")
             v == [p EXCEPT !.want = TRUE]
  <2>1. /\ Sound(p) /\ p \in Processes /\ p.step = "idle" /\ p.bridge = act.bridge
        /\ p.shown = act.shown /\ p.sess = act.sess /\ p.wish = "start"
    BY <1>1, PressedKeeps
  <2>2. act' = StartCamera(v)
    BY <1>3 DEF PressCamera
  <2> HIDE DEF p
  <2>3. /\ v \in Processes /\ SamePlaces(p, v) /\ v.posts = p.posts /\ v.step = p.step
        /\ v.bridge = p.bridge /\ v.wish = p.wish /\ v.jobs = p.jobs /\ v.owned = p.owned
    BY <2>1 DEF Processes, SamePlaces
  <2> HIDE DEF v
  <2>4. Placed(v)
    BY <2>1, <2>3, ThoughtKeeps DEF Sound
  <2>5. CaptureOK(v) /\ WishOK(v)
    BY <2>1, <2>3 DEF Sound, CaptureOK, WishOK, SamePlaces
  <2>6. IsGranted(v, v.shown) \/ v.bridge # NoCapture
    BY <1>3, <2>1, <2>3 DEF PressCamera, IsGranted, Capturing, SamePlaces
  <2> QED
    BY <2>2, <2>4, <2>5, <2>6, StartCameraKeeps DEF IInv, Sound
<1> QED
  BY <1>2, <1>3

LEMMA TapStopKeeps ==
    ASSUME IInv, TapStop
    PROVE  IInv'
<1> DEFINE p == Pressed(act.wish)
           r == Post(p, "stop", 0, "lost")
<1>1. act.wish \in {"no", "start", "notice", "refused"}
  BY SoundPlaced DEF IInv, Processes
<1>2. Sound(p) /\ act' = r
  BY <1>1, PressedKeeps DEF TapStop
<1> HIDE DEF p
<1>3. Placed(r) /\ Posted(p, r)
  BY <1>2, PostKeeps DEF Sound, Placed, PostOK, Whats, Reasons
<1> HIDE DEF r
<1>4. Sound(r)
  BY <1>2, <1>3, PostedGoes, GoesKeeps
<1> QED
  BY <1>2, <1>4 DEF IInv

LEMMA StopConnectionsKeeps ==
    ASSUME IInv, StopConnections
    PROVE  IInv'
<1>1. PICK stopped \in Outcomes(act) :
          act' = CloseServer(CloseSession([Pressed("no") EXCEPT !.resume = FALSE], stopped))
  BY DEF StopConnections
<1> DEFINE p == Pressed("no")
           v == [p EXCEPT !.resume = FALSE]
           b == CloseSession(v, stopped)
           r == CloseServer(b)
<1>2. Placed(p) /\ p.step = "idle" /\ stopped \in BOOLEAN
  BY PressedKeeps, OutcomesAreBoolean DEF StopConnections
<1>3. act' = r
  BY <1>1
<1> HIDE DEF p
<1>4. Placed(v) /\ v.step = "idle" /\ v.resume = FALSE
  BY <1>2, ResumeKeeps
<1> HIDE DEF v
<1>5. Sound(b)
  BY <1>2, <1>4, ClosedKeeps
<1> HIDE DEF b
<1>6. Placed(r) /\ Goes(b, r)
  BY <1>5, CloseServerKeeps DEF Sound
<1> HIDE DEF r
<1> QED
  BY <1>3, <1>5, <1>6, GoesKeeps DEF IInv

\* A message is taken from the queue.
LEMMA TakenKeeps ==
    ASSUME IInv, act.posts # <<>>
    PROVE  LET m == Head(act.posts)
               w == [act EXCEPT !.posts = Tail(@)]
           IN  Sound(w) /\ m \in Messages /\ PostOK(w, m) /\ w.step = act.step
<1> DEFINE q == act.posts
           m == Head(q)
           w == [act EXCEPT !.posts = Tail(q)]
<1>1. act \in Processes /\ q \in Seq(Messages) /\ Placed(act)
  BY SoundPlaced DEF IInv, Processes
<1>2. \A i \in DOMAIN q : PostOK(act, q[i])
  BY <1>1 DEF Placed, PlacedBut, PostsOK
<1> HIDE DEF q
<1>3. /\ q # <<>> /\ Tail(q) \in Seq(Messages) /\ m \in Messages
      /\ 1 \in DOMAIN q /\ m = q[1]
      /\ \A i \in DOMAIN Tail(q) : i + 1 \in DOMAIN q /\ Tail(q)[i] = q[i + 1]
  <2>1. q # <<>>
    BY DEF q
  <2> QED
    BY <1>1, <2>1
<1> HIDE DEF m
<1>4. /\ w \in Processes /\ SamePlaces(act, w) /\ w.posts = Tail(q) /\ w.step = act.step
      /\ w.bridge = act.bridge /\ w.want = act.want /\ w.resume = act.resume
      /\ w.wish = act.wish /\ w.jobs = act.jobs /\ w.owned = act.owned
  BY <1>1, <1>3 DEF Processes, SamePlaces
<1> HIDE DEF w
<1>5. PostsOK(w)
  BY <1>2, <1>3, <1>4 DEF PostsOK, PostOK, SamePlaces
<1>6. Placed(w)
  <2>1. PlacedBut(act, 0) /\ w \in Processes /\ SamePlaces(act, w)
    BY <1>1, <1>4 DEF Placed
  <2>2. PlacedBut(w, 0)
    BY <1>5, <2>1, StillPlaced
  <2> QED
    BY <2>2 DEF Placed
<1>7. CaptureOK(w) /\ WishOK(w)
  BY <1>4 DEF IInv, Sound, CaptureOK, WishOK, Capturing, SamePlaces
<1>8. PostOK(w, m)
  BY <1>2, <1>3, <1>4 DEF PostOK, SamePlaces
<1> QED
  BY <1>3, <1>4, <1>6, <1>7, <1>8 DEF Sound, m, w, q

LEMMA OnChangedKeeps ==
    ASSUME NEW w, Sound(w), w.step = "idle", NEW s
    PROVE  Sound(OnChanged(w, s))
<1>1. w \in Processes /\ Placed(w)
  BY SoundPlaced
<1>2. CASE w.shown # s
  BY <1>2 DEF OnChanged
<1>3. CASE w.shown = s /\ IsGranted(w, s) /\ w.resume
  <2> DEFINE v == [w EXCEPT !.resume = FALSE, !.want = TRUE]
  <2>1. OnChanged(w, s) = StartCamera(v)
    BY <1>3 DEF OnChanged
  <2>2. /\ v \in Processes /\ SamePlaces(w, v) /\ v.posts = w.posts /\ v.step = w.step
        /\ v.bridge = w.bridge /\ v.wish = w.wish /\ v.jobs = w.jobs /\ v.owned = w.owned
    BY <1>1 DEF Processes, SamePlaces
  <2> HIDE DEF v
  <2>3. Placed(v)
    BY <1>1, <2>2, ThoughtKeeps
  <2>4. CaptureOK(v) /\ WishOK(v)
    BY <1>3, <2>2 DEF Sound, CaptureOK, WishOK, SamePlaces
  <2>5. IsGranted(v, v.shown)
    BY <1>3, <2>2 DEF IsGranted, SamePlaces
  <2> QED
    BY <2>1, <2>3, <2>4, <2>5, StartCameraKeeps DEF Sound
<1>4. CASE w.shown = s /\ IsGranted(w, s) /\ ~w.resume
  BY <1>4 DEF OnChanged
<1>5. CASE w.shown = s /\ ~IsGranted(w, s)
  <2> DEFINE b == w.resume \/ Capturing(w)
             v == [w EXCEPT !.resume = b]
  <2>1. OnChanged(w, s) = StopCamera(v) /\ b \in BOOLEAN /\ (b => w.wish # "no")
    BY <1>5 DEF OnChanged, Sound, WishOK
  <2> HIDE DEF b
  <2>2. Placed(v) /\ v.step = "idle" /\ v.wish = w.wish /\ v.resume = b
    BY <1>1, <2>1, ResumeKeeps
  <2> HIDE DEF v
  <2> QED
    BY <2>1, <2>2, StoppedKeeps
<1> QED
  BY <1>2, <1>3, <1>4, <1>5

LEMMA OnConnectedKeeps ==
    ASSUME NEW w, Sound(w), w.step = "idle", NEW s \in DOMAIN w.sess, w.sess[s].kind = "lan",
           NEW stopped \in BOOLEAN
    PROVE  Sound(OnConnected(w, s, stopped))
<1>1. /\ w \in Processes /\ Placed(w) /\ OwnerOK(w) /\ s # 0 /\ s \in Nat
      /\ w.sess[s].server \in DOMAIN w.servers /\ w.sess[s].server # 0
  <2>1. /\ w \in Processes /\ Placed(w) /\ OwnerOK(w) /\ s # 0 /\ s \in Nat
        /\ w.sess[s].server \in DOMAIN w.servers
    BY SoundPlaced DEF SessionOK
  <2> QED
    BY <2>1 DEF Processes
<1>2. CASE w.server # w.sess[s].server
  <2> DEFINE r == SessionEnded(w, s, "lost")
  <2>1. Placed(r) /\ Goes(w, r)
    BY <1>1, SessionEndedKeeps DEF Placed, Reasons
  <2>2. OnConnected(w, s, stopped) = r
    BY <1>2 DEF OnConnected
  <2> HIDE DEF r
  <2> QED
    BY <2>1, <2>2, GoesKeeps
<1>3. CASE w.server = w.sess[s].server /\ w.sess[s].running # "yes"
  BY <1>3 DEF OnConnected
<1>4. CASE w.server = w.sess[s].server /\ w.sess[s].running = "yes"
  <2> DEFINE c == CloseSession(w, stopped)
             r == [c EXCEPT !.shown = s]
  <2>1. OnConnected(w, s, stopped) = r
    BY <1>4 DEF OnConnected
  <2>2. Placed(c) /\ Stays(w, c) /\ Idle(c) /\ c.server = w.server
    BY <1>1, CloseSessionKeeps
  <2> HIDE DEF c
  <2>3. /\ c \in Processes /\ OwnerOK(c) /\ PostsOK(c)
        /\ \A t \in DOMAIN c.sess : SessionOK(c, t) /\ HasPlace(c, t) /\ t # 0
    BY <2>2 DEF Placed, PlacedBut, Processes
  <2>4. /\ r \in Processes /\ r.shown = s
        /\ r.mode = c.mode /\ r.server = c.server /\ r.resume = c.resume /\ r.reading = c.reading
        /\ r.step = c.step /\ r.sess = c.sess /\ r.servers = c.servers /\ r.posts = c.posts
        /\ r.wish = c.wish /\ r.bridge = c.bridge /\ r.want = c.want
    BY <1>1, <2>3 DEF Processes
  <2> HIDE DEF r
  <2>5. s \in DOMAIN c.sess /\ c.sess[s].kind = "lan" /\ c.mode = "lan"
    BY <1>1, <1>4, <2>2 DEF Stays, OwnerOK
  <2>6. ASSUME NEW t \in DOMAIN r.sess PROVE SessionOK(r, t) /\ HasPlace(r, t)
    <3>1. SessionOK(c, t) /\ HasPlace(c, t) /\ t # 0
      BY <2>3, <2>4
    <3>2. SessionOK(r, t)
      BY <2>4, <3>1 DEF SessionOK
    <3>3. HasPlace(r, t)
      BY <2>2, <2>4, <3>1 DEF HasPlace, Idle
    <3> QED
      BY <3>2, <3>3
  <2>7. OwnerOK(r)
    BY <2>3, <2>4, <2>5 DEF OwnerOK
  <2>8. PostsOK(r)
    BY <2>3, <2>4 DEF PostsOK, PostOK
  <2>9. CaptureOK(r)
    BY <1>1, <2>2, <2>4 DEF CaptureOK, Idle
  <2>10. WishOK(r)
    BY <2>2, <2>4 DEF Sound, WishOK, Idle, Capturing, Stays
  <2> QED
    BY <2>1, <2>4, <2>6, <2>7, <2>8, <2>9, <2>10 DEF Sound, Placed, PlacedBut
<1> QED
  BY <1>2, <1>3, <1>4

LEMMA OnDisconnectedKeeps ==
    ASSUME NEW w, Sound(w), w.step = "idle", NEW s \in DOMAIN w.sess, w.sess[s].kind = "lan"
    PROVE  Sound(OnDisconnected(w, s))
<1>1. w \in Processes /\ Placed(w) /\ OwnerOK(w)
  BY SoundPlaced
<1>2. CASE w.server # w.sess[s].server \/ w.shown # s
  BY <1>2 DEF OnDisconnected
<1>3. CASE w.server = w.sess[s].server /\ w.shown = s
  <2> DEFINE b == w.resume \/ Capturing(w)
             v == [w EXCEPT !.resume = b]
             a == StopCamera(v)
             r == [a EXCEPT !.shown = 0]
  <2>1. OnDisconnected(w, s) = r /\ b \in BOOLEAN /\ (b => w.wish # "no")
    BY <1>3 DEF OnDisconnected, Sound, WishOK
  <2> HIDE DEF b
  <2>2. Placed(v) /\ v.step = "idle" /\ v.wish = w.wish /\ v.resume = b /\ v.shown = w.shown
        /\ v.sess = w.sess
    BY <1>1, <2>1, ResumeKeeps
  <2> HIDE DEF v
  <2>3. /\ Placed(a) /\ a.bridge = NoCapture /\ ~a.want /\ Stays(v, a) /\ a.sess = v.sess
        /\ a.shown = v.shown
    BY <2>2, StopCameraKeeps DEF Placed
  <2> HIDE DEF a
  <2>4. a.mode # "usb" /\ a \in Processes
    <3>1. OwnerOK(a) /\ a \in Processes /\ s # 0
      BY <1>1, <2>3 DEF Placed, PlacedBut, Processes
    <3> QED
      BY <1>3, <2>2, <2>3, <3>1 DEF OwnerOK
  <2>5. Placed(r) /\ Stays(a, r)
    BY <2>3, <2>4, UnshownKeeps DEF Placed
  <2>6. r.bridge = a.bridge /\ r.want = a.want /\ r.step = a.step
    BY <2>4 DEF Processes
  <2> HIDE DEF r
  <2>7. CaptureOK(r) /\ WishOK(r)
    BY <2>1, <2>2, <2>3, <2>5, <2>6 DEF CaptureOK, WishOK, Capturing, Stays
  <2> QED
    BY <2>1, <2>5, <2>7 DEF Sound
<1> QED
  BY <1>2, <1>3

LEMMA ForgottenKeeps ==
    ASSUME NEW w, Sound(w)
    PROVE  LET r == Forgotten(w)
           IN  Placed(r) /\ r.resume = FALSE /\ r.step = w.step
               /\ (w.step = "idle" => Sound(r))
<1> DEFINE wish == IF Capturing(w) THEN w.wish ELSE "no"
           r == [w EXCEPT !.resume = FALSE, !.wish = wish]
<1>1. w \in Processes /\ Placed(w)
  BY SoundPlaced
<1>2. wish \in {"no", "start", "notice", "refused"} /\ (Capturing(w) => wish = w.wish)
  BY <1>1 DEF Processes
<1>3. Forgotten(w) = r
  BY DEF Forgotten
<1> HIDE DEF wish
<1>4. /\ r \in Processes /\ SamePlaces(w, r) /\ r.posts = w.posts /\ r.step = w.step
      /\ r.bridge = w.bridge /\ r.want = w.want /\ r.wish = wish /\ r.jobs = w.jobs
      /\ r.owned = w.owned /\ r.resume = FALSE
  BY <1>1, <1>2 DEF Processes, SamePlaces
<1> HIDE DEF r
<1>5. Placed(r)
  BY <1>1, <1>4, ThoughtKeeps
<1>6. CaptureOK(r)
  BY <1>4 DEF Sound, CaptureOK, SamePlaces
<1>7. w.step = "idle" => WishOK(r)
  BY <1>2, <1>4 DEF Sound, WishOK, Capturing
<1> QED
  BY <1>3, <1>4, <1>5, <1>6, <1>7 DEF Sound

LEMMA OnErrorKeeps ==
    ASSUME NEW w, Sound(w), w.step = "idle", NEW s, NEW why, NEW stopped \in BOOLEAN
    PROVE  Sound(OnError(w, s, why, stopped))
<1> DEFINE b == w.resume \/ Capturing(w)
           v == [w EXCEPT !.resume = b]
           f == Forgotten(w)
<1>1. b \in BOOLEAN /\ (b => w.wish # "no")
  BY DEF Sound, WishOK
<1>2. OnError(w, s, why, stopped) \in {w, f, CloseSession(f, stopped), CloseSession(v, stopped)}
  BY DEF OnError
<1>3. Sound(f) /\ Placed(f) /\ f.resume = FALSE /\ f.step = "idle"
  BY ForgottenKeeps
<1> HIDE DEF f, b
<1>4. Placed(v) /\ v.step = "idle" /\ v.wish = w.wish /\ v.resume = b
  BY <1>1, ResumeKeeps DEF Sound
<1> HIDE DEF v
<1>5. Sound(CloseSession(f, stopped)) /\ Sound(CloseSession(v, stopped))
  BY <1>1, <1>3, <1>4, ClosedKeeps
<1> QED
  BY <1>2, <1>3, <1>5

LEMMA HandleKeeps ==
    ASSUME IInv, Handle
    PROVE  IInv'
<1> DEFINE m == Head(act.posts)
           w == [act EXCEPT !.posts = Tail(@)]
<1>1. /\ Sound(w) /\ m \in Messages /\ PostOK(w, m) /\ w.step = "idle"
      /\ Outcomes(w) \subseteq BOOLEAN
  BY TakenKeeps, OutcomesAreBoolean DEF Handle
<1>2. \/ m.what = "changed" /\ act' = OnChanged(w, m.session)
      \/ /\ m.what = "connected"
         /\ \E stopped \in Outcomes(w) : act' = OnConnected(w, m.session, stopped)
      \/ m.what = "closed" /\ act' = OnDisconnected(w, m.session)
      \/ /\ m.what = "error"
         /\ \E stopped \in Outcomes(w) : act' = OnError(w, m.session, m.why, stopped)
      \/ m.what = "stop" /\ act' = StopCamera([w EXCEPT !.wish = "notice"])
      \/ m.what = "camera" /\ act' = StopCamera(w)
  BY DEF Handle
<1> HIDE DEF m, w
<1>3. Placed(w) /\ w \in Processes
  BY <1>1, SoundPlaced
<1>4. CASE m.what = "changed" /\ act' = OnChanged(w, m.session)
  BY <1>1, <1>4, OnChangedKeeps DEF IInv
<1>5. ASSUME m.what = "connected", NEW stopped \in Outcomes(w),
             act' = OnConnected(w, m.session, stopped)
      PROVE  IInv'
  <2>1. m.session \in DOMAIN w.sess /\ w.sess[m.session].kind = "lan"
    BY <1>1, <1>5 DEF PostOK
  <2> QED
    BY <1>1, <1>5, <2>1, OnConnectedKeeps DEF IInv
<1>6. CASE m.what = "closed" /\ act' = OnDisconnected(w, m.session)
  <2>1. m.session \in DOMAIN w.sess /\ w.sess[m.session].kind = "lan"
    BY <1>1, <1>6 DEF PostOK
  <2> QED
    BY <1>1, <1>6, <2>1, OnDisconnectedKeeps DEF IInv
<1>7. ASSUME m.what = "error", NEW stopped \in Outcomes(w),
             act' = OnError(w, m.session, m.why, stopped)
      PROVE  IInv'
  BY <1>1, <1>7, OnErrorKeeps DEF IInv
<1>8. CASE m.what = "stop" /\ act' = StopCamera([w EXCEPT !.wish = "notice"])
  <2> DEFINE v == [w EXCEPT !.wish = "notice"]
  <2>1. /\ v \in Processes /\ SamePlaces(w, v) /\ v.posts = w.posts /\ v.step = w.step
        /\ v.wish = "notice"
    BY <1>3 DEF Processes, SamePlaces
  <2>2. act' = StopCamera(v)
    BY <1>8
  <2> HIDE DEF v
  <2>3. Placed(v)
    BY <1>3, <2>1, ThoughtKeeps
  <2> QED
    BY <1>1, <2>1, <2>2, <2>3, StoppedKeeps DEF IInv
<1>9. CASE m.what = "camera" /\ act' = StopCamera(w)
  BY <1>1, <1>3, <1>9, StoppedKeeps DEF IInv, Sound, WishOK
<1> QED
  BY <1>2, <1>4, <1>5, <1>6, <1>7, <1>8, <1>9

LEMMA InstallKeeps ==
    ASSUME IInv, Install
    PROVE  IInv'
<1> DEFINE bridge == NewCapture(act.shown)
           r == [act EXCEPT !.bridge = bridge, !.step = "bridge"]
<1>1. act \in Processes /\ Placed(act) /\ act.step = "start" /\ act' = r
  BY SoundPlaced DEF IInv, Install
<1>2. bridge \in Captures /\ bridge.session = act.shown /\ bridge.live = FALSE
  BY <1>1 DEF Captures, NewCapture, Processes
<1> HIDE DEF bridge
<1>3. /\ r \in Processes /\ SamePlaces(act, r) /\ r.posts = act.posts /\ r.step = "bridge"
      /\ r.bridge = bridge /\ r.want = act.want /\ r.resume = act.resume /\ r.wish = act.wish
      /\ r.jobs = act.jobs /\ r.owned = act.owned
  BY <1>1, <1>2 DEF Processes, SamePlaces
<1> HIDE DEF r
<1>4. Placed(r)
  BY <1>1, <1>3, ThoughtKeeps
<1>5. CaptureOK(r)
  BY <1>1, <1>2, <1>3 DEF IInv, Sound, CaptureOK, SamePlaces
<1>6. WishOK(r)
  BY <1>1, <1>3 DEF IInv, Sound, WishOK
<1> QED
  BY <1>1, <1>4, <1>5, <1>6 DEF Sound, IInv

LEMMA StartBridgeKeeps ==
    ASSUME IInv, StartBridge
    PROVE  IInv'
<1> DEFINE s == act.bridge.session
           w == [act EXCEPT !.step = "idle"]
           live == act.sess[s].running = "yes"
           r == [w EXCEPT !.bridge.at = "opening", !.bridge.live = live]
<1>1. /\ act \in Processes /\ Placed(act) /\ act.bridge \in Captures /\ live \in BOOLEAN
      /\ CaptureOK(act) /\ WishOK(act)
  BY SoundPlaced DEF IInv, Sound, Processes
<1>2. \/ act' = StopCamera(w)
      \/ act.bridge # NoCapture /\ act' = r
  BY DEF StartBridge
<1>3. /\ w \in Processes /\ SamePlaces(act, w) /\ w.posts = act.posts /\ w.step = "idle"
      /\ w.bridge = act.bridge /\ w.want = act.want /\ w.resume = act.resume /\ w.wish = act.wish
      /\ w.jobs = act.jobs /\ w.owned = act.owned
  BY <1>1 DEF Processes, SamePlaces
<1> HIDE DEF w, live
<1>4. Placed(w)
  BY <1>1, <1>3, ThoughtKeeps
<1>5. CASE act' = StopCamera(w)
  BY <1>1, <1>3, <1>4, <1>5, StoppedKeeps DEF IInv, WishOK
<1>6. CASE act.bridge # NoCapture /\ act' = r
  <2>1. /\ r \in Processes /\ SamePlaces(w, r) /\ r.posts = w.posts /\ r.step = "idle"
        /\ r.bridge.session = w.bridge.session /\ r.bridge.live = live
        /\ r.want = w.want /\ r.resume = w.resume /\ r.wish = w.wish
        /\ r.jobs = w.jobs /\ r.owned = w.owned
    <3> DEFINE capture == [w.bridge EXCEPT !.at = "opening", !.live = live]
    <3>1. /\ capture \in Captures /\ capture.session = w.bridge.session
          /\ capture.live = live
      BY <1>1, <1>3 DEF Captures
    <3>2. r = [w EXCEPT !.bridge = capture]
      BY <1>3 DEF Processes
    <3> HIDE DEF capture, r
    <3> QED
      BY <1>3, <3>1, <3>2 DEF Processes, SamePlaces
  <2> HIDE DEF r
  <2>2. Placed(r)
    BY <1>4, <2>1, ThoughtKeeps
  <2>3. CaptureOK(r)
    BY <1>1, <1>3, <1>6, <2>1 DEF CaptureOK, SamePlaces, live
  <2>4. WishOK(r)
    BY <1>1, <1>3, <1>6, <2>1 DEF WishOK, Capturing
  <2> QED
    BY <1>6, <2>2, <2>3, <2>4 DEF Sound, IInv
<1> QED
  BY <1>2, <1>5, <1>6

-----------------------------------------------------------------------------
(* The other threads. *)

\* A session of which one thing or another is different.
LEMMA NewClientKeeps ==
    ASSUME IInv, NewClient
    PROVE  IInv'
<1> DEFINE n == Len(act.sess) + 1
           new == NewSession("lan", act.server)
           q == Append(act.sess, new)
           r == [act EXCEPT !.sess = q]
<1>1. /\ act \in Processes /\ Placed(act) /\ OwnerOK(act) /\ act.sess \in Seq(Sessions)
      /\ act.server \in Nat /\ act.server \in DOMAIN act.servers /\ act' = r
  <2>1. /\ act \in Processes /\ Placed(act) /\ OwnerOK(act) /\ act.sess \in Seq(Sessions)
    BY SoundPlaced DEF IInv
  <2> QED
    BY <2>1 DEF NewClient, Processes, OwnerOK
<1>2. /\ new \in Sessions /\ new.kind = "lan" /\ new.server = act.server /\ new.start = "tls"
      /\ new.running = "new" /\ new.cancelled = FALSE /\ new.at = "up" /\ new.reader = "none"
  BY <1>1 DEF Sessions, NewSession, Early, Late, Reasons
<1> HIDE DEF new
<1>3. q \in Seq(Sessions) /\ q[n] = new
  <2> DEFINE p == act.sess
  <2>1. p \in Seq(Sessions)
    BY <1>1
  <2> HIDE DEF p
  <2>2. Append(p, new) \in Seq(Sessions) /\ Append(p, new)[Len(p) + 1] = new
    BY <1>2, <2>1
  <2> QED
    BY <2>2 DEF p
<1>4. /\ r \in Processes /\ r.sess = q /\ r.servers = act.servers /\ r.server = act.server
      /\ r.mode = act.mode /\ r.reading = act.reading /\ r.posts = act.posts
      /\ r.shown = act.shown /\ r.bridge = act.bridge /\ r.want = act.want
      /\ r.resume = act.resume /\ r.step = act.step /\ r.wish = act.wish /\ r.jobs = act.jobs
      /\ r.owned = act.owned
  <2> HIDE DEF q
  <2> QED
    BY <1>1, <1>3 DEF Processes
<1> HIDE DEF r, n
<1>5. SessionOK(r, n) /\ HasPlace(r, n)
  <2>1. r.sess[n] = new
    BY <1>3, <1>4
  <2> QED
    BY <1>1, <1>2, <1>4, <2>1 DEF SessionOK, HasPlace, Early, Late
<1>6. /\ Placed(r)
      /\ \A t \in DOMAIN act.sess : t \in DOMAIN r.sess /\ r.sess[t] = act.sess[t]
  <2>1. n = Len(act.sess) + 1
    BY DEF n
  <2> QED
    BY <1>1, <1>2, <1>4, <1>5, <2>1, AppendKeeps
<1>7. CaptureOK(r)
  BY <1>1, <1>4, <1>6 DEF IInv, Sound, CaptureOK, OwnerOK
<1>8. WishOK(r)
  BY <1>4 DEF IInv, Sound, WishOK, Capturing
<1> QED
  BY <1>1, <1>6, <1>7, <1>8 DEF IInv, Sound

\* One more step of a session that begins, of which the place is known.
LEMMA ReachesKeeps ==
    ASSUME IInv, NEW s \in DOMAIN act.sess, NEW step \in Early \union Late,
           step \in Early => act.sess[s].running = "new",
           act.sess[s].kind = "usb" => step = "done",
           act.sess[s].kind = "lan" /\ act.sess[s].open =>
               /\ step \in Late => /\ act.sess[s].server = act.server
                                   /\ ServerOf(s).active = s
               /\ step = "claimed" /\ ServerOf(s).running => ServerOf(s).active = s
    PROVE  Sound(Reaches(s, step))
<1> DEFINE new == [act.sess[s] EXCEPT !.start = step]
           r == [act EXCEPT !.sess[s].start = step]
<1>1. /\ act \in Processes /\ act.sess \in Seq(Sessions) /\ act.sess[s] \in Sessions
      /\ SessionOK(act, s) /\ HasPlace(act, s)
  BY SoundPlaced DEF IInv
<1>2. /\ new \in Sessions /\ new.start = step
      /\ new.kind = act.sess[s].kind /\ new.server = act.sess[s].server
      /\ new.open = act.sess[s].open /\ new.running = act.sess[s].running
      /\ new.at = act.sess[s].at /\ new.reader = act.sess[s].reader
      /\ new.cancelled = act.sess[s].cancelled
  BY <1>1 DEF Sessions
<1>3. Changes(act, r, s, new)
  BY <1>1 DEF Changes, Processes
<1>4. Reaches(s, step) = r
  BY DEF Reaches
<1> HIDE DEF new, r
<1>5. /\ r.sess[s] = new /\ r.servers = act.servers /\ r.server = act.server
      /\ r.shown = act.shown /\ r.reading = act.reading
  BY <1>1, <1>2, <1>3, ChangesOne
<1>6. SessionOK(r, s) /\ HasPlace(r, s)
  BY <1>1, <1>2, <1>5 DEF SessionOK, HasPlace, ServerOf
<1> QED
  BY <1>2, <1>3, <1>4, <1>6, RecordKeeps DEF IInv

LEMMA TurnedAwayKeeps ==
    ASSUME IInv, NEW s \in DOMAIN act.sess, act.sess[s].kind = "lan"
    PROVE  Sound(TurnedAway(s)) /\ s \in DOMAIN TurnedAway(s).sess
<1> DEFINE new == [act.sess[s] EXCEPT !.start = "done", !.open = FALSE, !.at = "down"]
           r == [act EXCEPT !.sess[s] = new]
<1>1. /\ act \in Processes /\ act.sess \in Seq(Sessions) /\ act.sess[s] \in Sessions
      /\ SessionOK(act, s)
  BY SoundPlaced DEF IInv
<1>2. /\ new \in Sessions /\ new.start = "done" /\ new.open = FALSE /\ new.at = "down"
      /\ new.kind = act.sess[s].kind /\ new.server = act.sess[s].server
      /\ new.running = act.sess[s].running /\ new.reader = act.sess[s].reader
      /\ new.cancelled = act.sess[s].cancelled
  BY <1>1 DEF Sessions, Late
<1>3. Changes(act, r, s, new)
  BY <1>1 DEF Changes, Processes
<1>4. TurnedAway(s) = r
  BY DEF TurnedAway
<1> HIDE DEF new, r
<1>5. /\ r.sess[s] = new /\ r.servers = act.servers /\ DOMAIN r.sess = DOMAIN act.sess
  BY <1>1, <1>2, <1>3, ChangesOne
<1>6. SessionOK(r, s) /\ HasPlace(r, s)
  BY <1>1, <1>2, <1>5 DEF SessionOK, HasPlace, Early
<1> QED
  BY <1>2, <1>3, <1>4, <1>5, <1>6, RecordKeeps DEF IInv

LEMMA AuthenticatesKeeps ==
    ASSUME IInv, NEW s \in DOMAIN act.sess, Authenticates(s)
    PROVE  IInv'
<1>1. act.sess[s].kind = "lan" /\ act.sess[s].start = "tls" /\ act.sess[s].running = "new"
  BY SoundPlaced DEF IInv, SessionOK, Authenticates, Early, Sessions
<1>2. Sound(TurnedAway(s)) /\ s \in DOMAIN TurnedAway(s).sess
  BY <1>1, TurnedAwayKeeps
<1>3. Sound(Post(TurnedAway(s), "error", s, "refused"))
  BY <1>2, PostSound DEF Whats, Reasons
<1>4. Sound(Reaches(s, "checked"))
  BY <1>1, ReachesKeeps DEF Early, Late
<1> QED
  BY <1>2, <1>3, <1>4 DEF Authenticates, IInv

LEMMA LookAgainKeeps ==
    ASSUME IInv, NEW s \in DOMAIN act.sess, LookAgain(s)
    PROVE  IInv'
<1>1. /\ act.sess[s].kind = "lan" /\ act.sess[s].start = "claimed" /\ act.sess[s].running = "new"
      /\ HasPlace(act, s) /\ act.sess[s].server \in DOMAIN act.servers /\ OwnerOK(act)
  BY SoundPlaced DEF IInv, SessionOK, LookAgain, Early, Sessions
<1>2. Sound(TurnedAway(s))
  BY <1>1, TurnedAwayKeeps
<1>3. CASE ServerOf(s).running /\ act.sess[s].open
  <2>1. act.sess[s].server = act.server /\ ServerOf(s).active = s
    BY <1>1, <1>3 DEF ServerOf, OwnerOK, HasPlace
  <2>2. Sound(Reaches(s, "opening"))
    BY <1>1, <2>1, ReachesKeeps DEF Early, Late
  <2> QED
    BY <1>3, <2>2 DEF LookAgain, IInv
<1>4. CASE ~(ServerOf(s).running /\ act.sess[s].open)
  BY <1>2, <1>4 DEF LookAgain, IInv
<1> QED
  BY <1>3, <1>4

LEMMA ClaimSlotKeeps ==
    ASSUME IInv, NEW s \in DOMAIN act.sess, ClaimSlot(s)
    PROVE  IInv'
<1> DEFINE k == act.sess[s].server
           slot == [act.servers[k] EXCEPT !.active = s]
           servers == [act.servers EXCEPT ![k] = slot]
           new == [act.sess[s] EXCEPT !.start = "claimed"]
           u == [act EXCEPT !.servers = servers]
           r == [Reaches(s, "claimed") EXCEPT !.servers[k].active = s]
<1>1. /\ act.sess[s].kind = "lan" /\ act.sess[s].start = "checked" /\ act.sess[s].running = "new"
      /\ SessionOK(act, s) /\ k \in DOMAIN act.servers /\ OwnerOK(act) /\ act \in Processes
      /\ act.sess \in Seq(Sessions) /\ act.sess[s] \in Sessions /\ s \in Nat /\ Placed(act)
      /\ act.servers \in Seq(Servers) /\ act.servers[k] \in Servers
  <2>1. /\ SessionOK(act, s) /\ OwnerOK(act) /\ act \in Processes /\ Placed(act)
        /\ act.sess \in Seq(Sessions) /\ act.sess[s] \in Sessions
        /\ act.sess[s].start = "checked"
    BY SoundPlaced DEF IInv, ClaimSlot
  <2>2. /\ act.sess[s].kind = "lan" /\ act.sess[s].running = "new" /\ k \in DOMAIN act.servers
    BY <2>1 DEF SessionOK, Early, Sessions
  <2> QED
    BY <2>1, <2>2 DEF Processes
<1>2. CASE ServerOf(s).active # 0
  BY <1>1, <1>2, TurnedAwayKeeps DEF ClaimSlot, IInv
<1>3. CASE ServerOf(s).active = 0
  <2>1. act' = r
    BY <1>3 DEF ClaimSlot
  <2>2. /\ slot \in Servers /\ slot.active = s /\ slot.running = act.servers[k].running
        /\ act.servers[k].active = 0
    BY <1>1, <1>3 DEF Servers, ServerOf
  <2>3. /\ servers \in Seq(Servers) /\ DOMAIN servers = DOMAIN act.servers
        /\ \A l \in DOMAIN act.servers : servers[l] = IF l = k THEN slot ELSE act.servers[l]
    <3> HIDE DEF slot, k
    <3> QED
      BY <1>1, <2>2
  <2>4. /\ new \in Sessions /\ new.start = "claimed"
        /\ new.kind = act.sess[s].kind /\ new.server = act.sess[s].server
        /\ new.open = act.sess[s].open /\ new.running = act.sess[s].running
        /\ new.at = act.sess[s].at /\ new.reader = act.sess[s].reader
        /\ new.cancelled = act.sess[s].cancelled
    BY <1>1 DEF Sessions, Early
  <2>5. r = [u EXCEPT !.sess = [@ EXCEPT ![s] = new]]
    BY <1>1 DEF Reaches, Processes
  <2> HIDE DEF servers, slot, new, r
  <2>6. /\ u \in Processes /\ u.servers = servers /\ u.sess = act.sess /\ u.mode = act.mode
        /\ u.shown = act.shown /\ u.server = act.server /\ u.reading = act.reading
        /\ u.posts = act.posts /\ u.bridge = act.bridge /\ u.want = act.want
        /\ u.resume = act.resume /\ u.step = act.step /\ u.jobs = act.jobs
        /\ u.owned = act.owned /\ u.wish = act.wish
    BY <1>1, <2>3 DEF Processes
  <2> HIDE DEF u
  <2>7. ASSUME NEW t \in DOMAIN act.sess PROVE SessionOK(u, t) /\ HasPlace(u, t)
    <3>1. SessionOK(act, t) /\ HasPlace(act, t) /\ t # 0
      BY SoundPlaced DEF IInv
    <3>2. SessionOK(u, t)
      BY <2>3, <2>6, <3>1 DEF SessionOK
    <3>3. act.sess[t].kind = "lan" => act.sess[t].server \in DOMAIN act.servers
      BY <3>1 DEF SessionOK
    <3>4. HasPlace(u, t)
      <4>1. CASE act.sess[t].server = k /\ t # s
        BY <2>2, <2>3, <2>6, <3>1, <3>3, <4>1 DEF HasPlace
      <4>2. CASE act.sess[t].server # k
        BY <2>3, <2>6, <3>1, <3>3, <4>2 DEF HasPlace
      <4>3. CASE t = s
        BY <1>1, <2>6, <4>3 DEF HasPlace, Late
      <4> QED
        BY <4>1, <4>2, <4>3
    <3> QED
      BY <3>2, <3>4
  <2>8. OwnerOK(u)
    BY <1>1, <2>2, <2>3, <2>6 DEF OwnerOK
  <2>9. PostsOK(u)
    BY <1>1, <2>6 DEF Placed, PlacedBut, PostsOK, PostOK
  <2>10. CaptureOK(u) /\ WishOK(u)
    BY <2>6 DEF IInv, Sound, CaptureOK, WishOK, Capturing
  <2>11. Sound(u)
    BY <2>6, <2>7, <2>8, <2>9, <2>10 DEF Sound, Placed, PlacedBut
  <2>12. Changes(u, r, s, new)
    BY <2>5 DEF Changes
  <2>13. r.sess[s] = new /\ r.servers = servers /\ r.shown = act.shown
    BY <2>4, <2>6, <2>12, ChangesOne
  <2>14. SessionOK(r, s) /\ HasPlace(r, s)
    BY <1>1, <2>2, <2>3, <2>4, <2>13 DEF SessionOK, HasPlace, Late
  <2>15. Sound(r)
    BY <2>4, <2>6, <2>11, <2>12, <2>14, RecordKeeps
  <2> QED
    BY <2>1, <2>15 DEF IInv
<1> QED
  BY <1>2, <1>3

LEMMA StartSessionKeeps ==
    ASSUME IInv, NEW s \in DOMAIN act.sess, StartSession(s)
    PROVE  IInv'
<1>1. /\ act.sess[s].kind = "lan" /\ act \in Processes /\ act.sess \in Seq(Sessions)
      /\ act.sess[s] \in Sessions /\ SessionOK(act, s) /\ HasPlace(act, s)
  BY SoundPlaced DEF IInv, SessionOK, StartSession, Sessions
<1>2. CASE act.sess[s].start = "opening"
  <2> DEFINE new == [act.sess[s] EXCEPT !.start = "media", !.running = "yes"]
             u == [act EXCEPT !.sess[s] = new]
             r == Post(u, "connected", s, "lost")
  <2>1. act' = r
    BY <1>2 DEF StartSession
  <2>2. /\ new \in Sessions /\ new.start = "media" /\ new.running = "yes"
        /\ new.kind = act.sess[s].kind /\ new.server = act.sess[s].server
        /\ new.open = act.sess[s].open /\ new.at = act.sess[s].at
        /\ new.reader = act.sess[s].reader /\ new.cancelled = act.sess[s].cancelled
    BY <1>1 DEF Sessions, Late
  <2>3. Changes(act, u, s, new)
    BY <1>1 DEF Changes, Processes
  <2> HIDE DEF new, u
  <2>4. /\ u.sess[s] = new /\ u.servers = act.servers /\ u.server = act.server
        /\ u.shown = act.shown /\ u.reading = act.reading /\ DOMAIN u.sess = DOMAIN act.sess
    BY <1>1, <2>2, <2>3, ChangesOne
  <2>5. act.sess[s].running = "new"
    BY <1>1, <1>2 DEF SessionOK, Early
  <2>6. SessionOK(u, s) /\ HasPlace(u, s)
    BY <1>1, <1>2, <2>2, <2>4, <2>5 DEF SessionOK, HasPlace, Early, Late
  <2>7. Sound(u)
    BY <2>2, <2>3, <2>5, <2>6, RecordKeeps DEF IInv
  <2>8. Sound(r)
    BY <1>1, <2>2, <2>4, <2>7, PostSound DEF Whats, Reasons
  <2> QED
    BY <2>1, <2>8 DEF IInv
<1>3. CASE act.sess[s].start = "media"
  <2> DEFINE u == Reaches(s, "done")
             r == MediaStarted(u, s)
  <2>1. act' = r
    BY <1>3 DEF StartSession
  <2>2. Sound(u)
    BY <1>1, <1>3, ReachesKeeps DEF HasPlace, ServerOf, Early, Late
  <2>3. s \in DOMAIN u.sess /\ u.sess[s].kind = "lan"
    BY <1>1 DEF Reaches, Processes, Sessions
  <2> HIDE DEF u
  <2>4. Placed(r) /\ Goes(u, r)
    BY <2>2, <2>3, MediaStartedKeeps DEF Sound
  <2> HIDE DEF r
  <2> QED
    BY <2>1, <2>2, <2>4, GoesKeeps DEF IInv
<1> QED
  BY <1>2, <1>3 DEF StartSession

LEMMA HandshakeDeadlineKeeps ==
    ASSUME IInv, NEW s \in DOMAIN act.sess, HandshakeDeadline(s)
    PROVE  IInv'
<1> DEFINE r == [act EXCEPT !.sess[s].open = FALSE]
<1>1. act' = r
  BY DEF HandshakeDeadline
<1>2. Placed(r) /\ Goes(act, r)
  BY SocketClosedKeeps DEF IInv, Sound, Placed
<1> HIDE DEF r
<1> QED
  BY <1>1, <1>2, GoesKeeps DEF IInv

LEMMA LoseKeeps ==
    ASSUME IInv, NEW s \in DOMAIN act.sess, NEW by \in {"reader", "other"}, Lose(s, by)
    PROVE  IInv'
<1> DEFINE r == Cancelled(Ending(act, s, by, "lost"), s)
<1>1. act' = r /\ act.sess[s].running = "yes"
  BY DEF Lose
<1>2. Placed(r) /\ Goes(act, r)
  BY <1>1, EndingKeeps DEF IInv, Sound, Placed, Reasons
<1> HIDE DEF r
<1> QED
  BY <1>1, <1>2, GoesKeeps DEF IInv

LEMMA EndStepKeeps ==
    ASSUME IInv, NEW s \in DOMAIN act.sess, EndStep(s)
    PROVE  IInv'
<1>1. ASSUME NEW w, Sound(w), s \in DOMAIN w.sess, w.sess[s].at # "up"
      PROVE  Sound(Told(w, s))
  <2> DEFINE r == Told(w, s)
  <2>1. Placed(r) /\ Goes(w, r)
    BY <1>1, ToldKeeps DEF Sound
  <2> HIDE DEF r
  <2>2. Sound(r)
    BY <1>1, <2>1, GoesKeeps
  <2> QED
    BY <2>2 DEF r
<1>2. CASE act.sess[s].at = "ends" /\ act' = FreedOrTold(GateClosed(act, s), s)
  <2> DEFINE u == GateClosed(act, s)
             r == Freed(u, s)
  <2>1. Placed(u) /\ Goes(act, u) /\ u.sess[s].at = "ends"
    BY <1>2, GateClosedKeeps DEF IInv, Sound, Placed
  <2> HIDE DEF u
  <2>2. Sound(u) /\ s \in DOMAIN u.sess
    BY <2>1, GoesKeeps DEF IInv, Goes
  <2>3. CASE HasSlot(u, s)
    <3>1. Placed(r) /\ Goes(u, r)
      BY <2>1, <2>2, <2>3, FreedKeeps
    <3>2. act' = r
      BY <1>2, <2>3 DEF FreedOrTold, u
    <3> HIDE DEF r
    <3> QED
      BY <2>2, <3>1, <3>2, GoesKeeps DEF IInv
  <2>4. CASE ~HasSlot(u, s)
    <3>1. act' = Told(u, s)
      BY <1>2, <2>4 DEF FreedOrTold, u
    <3> QED
      BY <1>1, <2>1, <2>2, <3>1 DEF IInv
  <2> QED
    BY <2>3, <2>4
<1>3. CASE act.sess[s].at = "freed" /\ act' = Told(act, s)
  BY <1>1, <1>3 DEF IInv
<1> QED
  BY <1>2, <1>3 DEF EndStep

LEMMA ReaderStopsKeeps ==
    ASSUME IInv, NEW s \in DOMAIN act.sess, ReaderStops(s)
    PROVE  IInv'
<1> DEFINE new == [act.sess[s] EXCEPT !.reader = "done"]
           r == [act EXCEPT !.sess[s].reader = "done"]
<1>1. /\ act \in Processes /\ act.sess \in Seq(Sessions) /\ act.sess[s] \in Sessions
      /\ SessionOK(act, s) /\ HasPlace(act, s) /\ act' = r
  BY SoundPlaced DEF IInv, ReaderStops
<1>2. /\ new \in Sessions /\ new.start = act.sess[s].start /\ new.running = act.sess[s].running
      /\ new.kind = act.sess[s].kind /\ new.server = act.sess[s].server
      /\ new.open = act.sess[s].open /\ new.at = act.sess[s].at
      /\ new.reader = "done" /\ new.cancelled = act.sess[s].cancelled
  BY <1>1 DEF Sessions
<1>3. Changes(act, r, s, new)
  BY <1>1 DEF Changes, Processes
<1> HIDE DEF new, r
<1>4. /\ r.sess[s] = new /\ r.servers = act.servers /\ r.server = act.server
      /\ r.shown = act.shown /\ r.reading = act.reading
  BY <1>1, <1>2, <1>3, ChangesOne
<1>5. SessionOK(r, s) /\ HasPlace(r, s)
  BY <1>1, <1>2, <1>4 DEF SessionOK, HasPlace
<1> QED
  BY <1>1, <1>2, <1>3, <1>5, RecordKeeps DEF IInv

\* The owner of the grants decides.
LEMMA DecidedKeeps ==
    ASSUME IInv, NEW s \in DOMAIN act.sess,
           NEW gate \in {"none", "waiting", "granted", "denied", "closed"}
    PROVE  LET r == [act EXCEPT !.sess[s].gate = gate]
           IN  Sound(r) /\ s \in DOMAIN r.sess
<1> DEFINE new == [act.sess[s] EXCEPT !.gate = gate]
           r == [act EXCEPT !.sess[s].gate = gate]
<1>1. /\ act \in Processes /\ act.sess \in Seq(Sessions) /\ act.sess[s] \in Sessions
      /\ SessionOK(act, s) /\ HasPlace(act, s)
  BY SoundPlaced DEF IInv
<1>2. /\ new \in Sessions /\ new.start = act.sess[s].start /\ new.running = act.sess[s].running
      /\ new.kind = act.sess[s].kind /\ new.server = act.sess[s].server
      /\ new.open = act.sess[s].open /\ new.at = act.sess[s].at
      /\ new.reader = act.sess[s].reader /\ new.cancelled = act.sess[s].cancelled
  BY <1>1 DEF Sessions
<1>3. Changes(act, r, s, new)
  BY <1>1 DEF Changes, Processes
<1> HIDE DEF new, r
<1>4. /\ r.sess[s] = new /\ r.servers = act.servers /\ r.server = act.server
      /\ r.shown = act.shown /\ r.reading = act.reading /\ DOMAIN r.sess = DOMAIN act.sess
  BY <1>1, <1>2, <1>3, ChangesOne
<1>5. SessionOK(r, s) /\ HasPlace(r, s)
  BY <1>1, <1>2, <1>4 DEF SessionOK, HasPlace
<1>6. Sound(r)
  BY <1>2, <1>3, <1>5, RecordKeeps DEF IInv
<1> QED
  BY <1>4, <1>6 DEF r

LEMMA NowRefusedKeeps ==
    ASSUME NEW w, Sound(w)
    PROVE  LET r == [w EXCEPT !.wish = NowRefused(@)]
           IN  Sound(r) /\ r.sess = w.sess
<1> DEFINE wish == NowRefused(w.wish)
           r == [w EXCEPT !.wish = wish]
<1>1. w \in Processes /\ Placed(w)
  BY SoundPlaced
<1>2. wish \in {"no", "start", "notice", "refused"} /\ (w.wish # "no" => wish # "no")
  BY DEF NowRefused
<1> HIDE DEF wish
<1>3. /\ r \in Processes /\ SamePlaces(w, r) /\ r.posts = w.posts /\ r.step = w.step
      /\ r.bridge = w.bridge /\ r.want = w.want /\ r.resume = w.resume /\ r.wish = wish
      /\ r.jobs = w.jobs /\ r.owned = w.owned
  BY <1>1, <1>2 DEF Processes, SamePlaces
<1> HIDE DEF r
<1>4. Placed(r)
  BY <1>1, <1>3, ThoughtKeeps
<1>5. CaptureOK(r) /\ WishOK(r)
  BY <1>2, <1>3 DEF Sound, CaptureOK, WishOK, Capturing, SamePlaces
<1> QED
  BY <1>3, <1>4, <1>5 DEF Sound, SamePlaces, r, wish

LEMMA GrantsKeeps ==
    ASSUME IInv, NEW s \in DOMAIN act.sess, Grants(s)
    PROVE  IInv'
<1> DEFINE u == [act EXCEPT !.sess[s].gate = "granted"]
<1>1. Sound(u) /\ s \in DOMAIN u.sess
  BY DecidedKeeps
<1>2. act' = Post(u, "changed", s, "lost")
  BY DEF Grants
<1> HIDE DEF u
<1> QED
  BY <1>1, <1>2, PostSound DEF Whats, Reasons, IInv

LEMMA DeniesKeeps ==
    ASSUME IInv, NEW s \in DOMAIN act.sess, Denies(s)
    PROVE  IInv'
<1> DEFINE u == [act EXCEPT !.sess[s].gate = "denied"]
           v == [u EXCEPT !.wish = NowRefused(@)]
<1>1. Sound(u) /\ s \in DOMAIN u.sess
  BY DecidedKeeps
<1>2. act' = Post(v, "changed", s, "lost")
  <2>1. act \in Processes
    BY SoundPlaced DEF IInv
  <2>2. v = [act EXCEPT !.sess[s].gate = "denied", !.wish = NowRefused(@)]
    BY <2>1 DEF Processes
  <2> QED
    BY <2>2 DEF Denies
<1> HIDE DEF u
<1>3. Sound(v) /\ v.sess = u.sess
  BY <1>1, NowRefusedKeeps
<1> HIDE DEF v
<1> QED
  BY <1>1, <1>2, <1>3, PostSound DEF Whats, Reasons, IInv

LEMMA OwnerEndsKeeps ==
    ASSUME IInv, NEW s \in DOMAIN act.sess, NEW why \in {"lost", "refused"}, OwnerEnds(s, why)
    PROVE  IInv'
<1> DEFINE v == IF why = "refused" /\ act.sess[s].gate = "granted"
                THEN [act EXCEPT !.wish = NowRefused(@)] ELSE act
           c == GateClosed(v, s)
           r == SessionEnded(c, s, why)
<1>1. act' \in {c, r}
  BY DEF OwnerEnds
<1>2. Sound(v) /\ s \in DOMAIN v.sess
  <2> DEFINE u == [act EXCEPT !.wish = NowRefused(@)]
  <2>1. Sound(u) /\ u.sess = act.sess
    BY NowRefusedKeeps DEF IInv
  <2> HIDE DEF u
  <2>2. v \in {u, act}
    BY DEF u
  <2> HIDE DEF v
  <2> QED
    BY <2>1, <2>2 DEF IInv
<1> HIDE DEF v
<1>3. Placed(c) /\ Goes(v, c)
  BY <1>2, GateClosedKeeps DEF Sound, Placed
<1> HIDE DEF c
<1>4. Sound(c) /\ s \in DOMAIN c.sess
  BY <1>2, <1>3, GoesKeeps DEF Goes
<1>5. Placed(r) /\ Goes(c, r)
  BY <1>3, <1>4, SessionEndedKeeps DEF Placed, Reasons
<1> HIDE DEF r
<1>6. Sound(r)
  BY <1>4, <1>5, GoesKeeps
<1> QED
  BY <1>1, <1>4, <1>6 DEF IInv

LEMMA OwnsKeeps ==
    ASSUME IInv, Owns
    PROVE  IInv'
<1> DEFINE q == act.jobs
           jobs == Tail(q)
           owned == act.shown = Head(q)
           r == [act EXCEPT !.jobs = jobs, !.owned = owned]
<1>1. /\ act \in Processes /\ Placed(act) /\ q \in Seq(Nat) /\ q # <<>> /\ ~act.owned
      /\ act' = r /\ CaptureOK(act) /\ WishOK(act)
  BY SoundPlaced DEF IInv, Sound, Owns, Processes
<1> HIDE DEF q
<1>2. /\ jobs \in Seq(Nat) /\ Head(q) = q[1]
      /\ \A i \in DOMAIN q : i # 1 => i - 1 \in DOMAIN jobs /\ jobs[i - 1] = q[i]
  BY <1>1
<1>3. \A t : (\E i \in DOMAIN q : q[i] = t) => q[1] = t \/ \E i \in DOMAIN jobs : jobs[i] = t
  BY <1>2
<1>4. owned \in BOOLEAN /\ (owned <=> act.shown = q[1])
  BY <1>2
<1> HIDE DEF jobs, owned
<1>5. /\ r \in Processes /\ SamePlaces(act, r) /\ r.posts = act.posts /\ r.step = act.step
      /\ r.bridge = act.bridge /\ r.want = act.want /\ r.resume = act.resume
      /\ r.wish = act.wish /\ r.jobs = jobs /\ r.owned = owned
  BY <1>1, <1>2, <1>4 DEF Processes, SamePlaces
<1> HIDE DEF r
<1>6. Placed(r)
  BY <1>1, <1>5, ThoughtKeeps
<1>7. CaptureOK(r)
  <2>1. (\E i \in DOMAIN act.jobs : act.jobs[i] = act.shown)
            => owned \/ \E i \in DOMAIN jobs : jobs[i] = act.shown
    BY <1>3, <1>4 DEF q
  <2> QED
    BY <1>1, <1>5, <2>1 DEF CaptureOK, SamePlaces
<1>8. WishOK(r)
  BY <1>1, <1>5 DEF WishOK, Capturing
<1> QED
  BY <1>1, <1>6, <1>7, <1>8 DEF IInv, Sound

LEMMA DetachesKeeps ==
    ASSUME IInv, Detaches
    PROVE  IInv'
<1> DEFINE a == CaptureClosed(act)
           r == [a EXCEPT !.owned = FALSE]
<1>1. /\ Placed(a) /\ a.bridge = NoCapture /\ a.shown = act.shown /\ a.want = act.want
      /\ a.resume = act.resume /\ a.step = act.step /\ a.wish = act.wish /\ act' = r
  BY CaptureClosedKeeps DEF IInv, Sound, Placed, Detaches
<1> HIDE DEF a
<1>2. /\ r \in Processes /\ SamePlaces(a, r) /\ r.posts = a.posts /\ r.step = a.step
      /\ r.bridge = a.bridge /\ r.want = a.want /\ r.resume = a.resume /\ r.wish = a.wish
  BY <1>1 DEF Placed, PlacedBut, Processes, SamePlaces
<1> HIDE DEF r
<1>3. Placed(r)
  BY <1>1, <1>2, ThoughtKeeps
<1>4. CaptureOK(r) /\ WishOK(r)
  BY <1>1, <1>2 DEF IInv, Sound, CaptureOK, WishOK, Capturing, SamePlaces
<1> QED
  BY <1>1, <1>3, <1>4 DEF IInv, Sound

\* The camera has got somewhere else.
LEMMA CameraKeeps ==
    ASSUME IInv, act.bridge # NoCapture, NEW at \in {"off", "new", "opening", "device", "on", "closed"}
    PROVE  Sound([act EXCEPT !.bridge.at = at])
<1> DEFINE capture == [act.bridge EXCEPT !.at = at]
           r == [act EXCEPT !.bridge.at = at]
<1>1. act \in Processes /\ Placed(act) /\ act.bridge \in Captures
  BY SoundPlaced DEF IInv, Processes
<1>2. /\ capture \in Captures /\ capture.session = act.bridge.session
      /\ capture.live = act.bridge.live
  BY <1>1 DEF Captures
<1>3. r = [act EXCEPT !.bridge = capture]
  BY <1>1 DEF Processes
<1> HIDE DEF capture, r
<1>4. /\ r \in Processes /\ SamePlaces(act, r) /\ r.posts = act.posts /\ r.step = act.step
      /\ r.bridge = capture /\ r.want = act.want /\ r.resume = act.resume /\ r.wish = act.wish
      /\ r.jobs = act.jobs /\ r.owned = act.owned
  BY <1>1, <1>2, <1>3 DEF Processes, SamePlaces
<1>5. Placed(r)
  BY <1>1, <1>4, ThoughtKeeps
<1>6. CaptureOK(r) /\ WishOK(r)
  BY <1>2, <1>4 DEF IInv, Sound, CaptureOK, WishOK, Capturing, SamePlaces
<1> QED
  BY <1>5, <1>6 DEF Sound, r

LEMMA CameraStepKeeps ==
    ASSUME IInv, CameraStep
    PROVE  IInv'
<1>1. PICK at \in {"off", "new", "opening", "device", "on", "closed"} :
          act' = [act EXCEPT !.bridge.at = at]
  BY DEF CameraStep
<1>2. act.bridge # NoCapture
  BY DEF CameraStep, NoCapture
<1> QED
  BY <1>1, <1>2, CameraKeeps DEF IInv

LEMMA CameraFailsKeeps ==
    ASSUME IInv, CameraFails
    PROVE  IInv'
<1> DEFINE u == [act EXCEPT !.bridge.at = "closed"]
           presses == act.presses + 1
           q == Append(act.posts, CameraError)
           r == [u EXCEPT !.presses = presses, !.posts = q]
<1>1. act.bridge # NoCapture /\ act \in Processes /\ presses \in Nat /\ act.posts \in Seq(Messages)
  BY SoundPlaced DEF CameraFails, NoCapture, IInv, Processes
<1>2. act' = r
  BY <1>1 DEF CameraFails, Processes
<1>3. Sound(u) /\ u.posts = act.posts /\ u \in Processes /\ PostsOK(u)
  <2>1. Sound(u)
    BY <1>1, CameraKeeps
  <2>2. u.posts = act.posts
    BY <1>1 DEF Processes
  <2> HIDE DEF u
  <2> QED
    BY <2>1, <2>2, SoundPlaced
<1>4. /\ q \in Seq(Messages)
      /\ \A i \in DOMAIN q : q[i] = CameraError \/ (i \in DOMAIN act.posts /\ q[i] = act.posts[i])
  <2> DEFINE p == act.posts
  <2>1. p \in Seq(Messages) /\ CameraError \in Messages
    BY <1>1 DEF Messages, CameraError, Whats, Reasons
  <2> HIDE DEF p
  <2>2. /\ Append(p, CameraError) \in Seq(Messages)
        /\ \A i \in DOMAIN Append(p, CameraError) :
               \/ Append(p, CameraError)[i] = CameraError
               \/ i \in DOMAIN p /\ Append(p, CameraError)[i] = p[i]
    BY <2>1
  <2> QED
    BY <2>2 DEF p
<1> HIDE DEF u, q, presses
<1>5. /\ r \in Processes /\ SamePlaces(u, r) /\ r.posts = q /\ r.step = u.step
      /\ r.bridge = u.bridge /\ r.want = u.want /\ r.resume = u.resume /\ r.wish = u.wish
      /\ r.jobs = u.jobs /\ r.owned = u.owned
  BY <1>1, <1>3, <1>4 DEF Processes, SamePlaces
<1> HIDE DEF r
<1>6. PostsOK(r)
  <2>1. ASSUME NEW i \in DOMAIN q PROVE PostOK(r, q[i])
    <3>1. CASE q[i] = CameraError
      BY <3>1 DEF PostOK, CameraError
    <3>2. CASE i \in DOMAIN act.posts /\ q[i] = act.posts[i]
      BY <1>3, <1>5, <3>2 DEF PostsOK, PostOK, SamePlaces
    <3> QED
      BY <1>4, <3>1, <3>2
  <2> QED
    BY <1>5, <2>1 DEF PostsOK
<1>7. Placed(r)
  BY <1>3, <1>5, <1>6, StillPlaced DEF Sound, Placed
<1>8. CaptureOK(r) /\ WishOK(r)
  BY <1>3, <1>5 DEF Sound, CaptureOK, WishOK, Capturing, SamePlaces
<1> QED
  BY <1>2, <1>7, <1>8 DEF IInv, Sound

-----------------------------------------------------------------------------
(* The invariant. *)

LEMMA InitSound ==
    ASSUME ConnectionInit
    PROVE  IInv
<1>1. PICK mode \in {"usb", "lan"} : act = Launched(mode)
  BY DEF ConnectionInit
<1> DEFINE servers == IF mode = "lan" THEN <<NewServer>> ELSE <<>>
           server == IF mode = "lan" THEN 1 ELSE 0
<1>2. /\ servers \in Seq(Servers) /\ server \in Nat
      /\ \A k \in DOMAIN servers : k = server /\ servers[k].active = 0
      /\ server # 0 => server \in DOMAIN servers /\ mode = "lan"
  <2>1. NewServer \in Servers /\ NewServer.active = 0
    BY DEF NewServer, Servers
  <2>2. CASE mode = "lan"
    BY <2>1, <2>2
  <2>3. CASE mode = "usb"
    BY <2>3
  <2> QED
    BY <2>2, <2>3
<1>3. /\ act = [mode |-> mode, shown |-> 0, server |-> server,
                bridge |-> NoCapture, want |-> FALSE, resume |-> FALSE, reading |-> 0,
                step |-> "idle", sess |-> <<>>, servers |-> servers,
                posts |-> <<>>, jobs |-> <<>>, owned |-> FALSE, wish |-> "no", presses |-> 0]
  BY <1>1 DEF Launched
<1> HIDE DEF servers, server
<1>4. NoCapture \in Captures
  BY DEF NoCapture, Captures
<1>5. act \in Processes
  BY <1>2, <1>3, <1>4 DEF Processes
<1>6. OwnerOK(act) /\ PostsOK(act)
  BY <1>2, <1>3 DEF OwnerOK, PostsOK
<1>7. Placed(act)
  BY <1>3, <1>5, <1>6 DEF Placed, PlacedBut
<1>8. CaptureOK(act) /\ WishOK(act)
  BY <1>3 DEF CaptureOK, WishOK, Capturing
<1> QED
  BY <1>7, <1>8 DEF IInv, Sound

\* Every step of the phone's threads keeps the invariant.
LEMMA NextSound ==
    ASSUME IInv, [ConnectionNext]_act
    PROVE  IInv'
<1>1. CASE DiscoverUsb \/ PressUsb \/ PressLan \/ PressRetry \/ PressRotate \/ PressCamera
  BY <1>1, DiscoverUsbKeeps, PressUsbKeeps, PressLanKeeps, PressRetryKeeps, PressRotateKeeps,
     PressCameraKeeps
<1>2. CASE TapStop \/ StopConnections \/ Handle \/ Install \/ StartBridge
  BY <1>2, TapStopKeeps, StopConnectionsKeeps, HandleKeeps, InstallKeeps, StartBridgeKeeps
<1>3. CASE NewClient \/ Owns \/ Detaches \/ CameraStep \/ CameraFails
  BY <1>3, NewClientKeeps, OwnsKeeps, DetachesKeeps, CameraStepKeeps, CameraFailsKeeps
<1>4. ASSUME NEW s \in DOMAIN act.sess,
             \/ Authenticates(s) \/ ClaimSlot(s) \/ LookAgain(s) \/ StartSession(s)
             \/ HandshakeDeadline(s)
      PROVE  IInv'
  BY <1>4, AuthenticatesKeeps, ClaimSlotKeeps, LookAgainKeeps, StartSessionKeeps,
     HandshakeDeadlineKeeps
<1>5. ASSUME NEW s \in DOMAIN act.sess, EndStep(s) \/ ReaderStops(s) \/ Grants(s) \/ Denies(s)
      PROVE  IInv'
  BY <1>5, EndStepKeeps, ReaderStopsKeeps, GrantsKeeps, DeniesKeeps
<1>6. ASSUME NEW s \in DOMAIN act.sess, NEW by \in {"reader", "other"}, Lose(s, by)
      PROVE  IInv'
  BY <1>6, LoseKeeps
<1>7. ASSUME NEW s \in DOMAIN act.sess, NEW why \in {"lost", "refused"}, OwnerEnds(s, why)
      PROVE  IInv'
  BY <1>7, OwnerEndsKeeps
<1>8. CASE UNCHANGED act
  BY <1>8 DEF IInv
<1> QED
  BY <1>1, <1>2, <1>3, <1>4, <1>5, <1>6, <1>7, <1>8 DEF ConnectionNext

\* Sessions, servers, captures and messages are where the code expects them.
THEOREM Invariance == ConnectionSpec => []IInv
<1>1. ConnectionInit => IInv
  BY InitSound
<1>2. IInv /\ [ConnectionNext]_act => IInv'
  BY NextSound
<1> QED
  BY <1>1, <1>2, PTL DEF ConnectionSpec

LEMMA OneSession ==
    ASSUME IInv
    PROVE  OneSessionAtATime
<1>1. OwnerOK(act)
  BY SoundPlaced DEF IInv
<1>2. SUFFICES ASSUME NEW s \in DOMAIN act.sess, NEW t \in DOMAIN act.sess, s # t
               PROVE  /\ ~ \A x \in {s, t} : act.sess[x].running = "yes" /\ act.sess[x].open
                      /\ ~ \A x \in {s, t} : act.sess[x].kind = "usb" /\ act.sess[x].reader = "reading"
  BY DEF OneSessionAtATime
<1>3. /\ SessionOK(act, s) /\ HasPlace(act, s) /\ SessionOK(act, t) /\ HasPlace(act, t)
      /\ s # 0 /\ t # 0 /\ act.sess[s] \in Sessions /\ act.sess[t] \in Sessions
  BY SoundPlaced DEF IInv
<1>4. ASSUME \A x \in {s, t} : act.sess[x].running = "yes" /\ act.sess[x].open
      PROVE  FALSE
  <2>1. ASSUME NEW x \in {s, t}
        PROVE  \/ act.sess[x].kind = "usb" /\ act.shown = x /\ act.mode = "usb"
               \/ /\ act.sess[x].kind = "lan" /\ act.mode = "lan"
                  /\ act.servers[act.server].active = x
    <3>1. /\ SessionOK(act, x) /\ HasPlace(act, x) /\ act.sess[x].running = "yes"
          /\ act.sess[x].open /\ act.sess[x] \in Sessions /\ x # 0
      BY <1>3, <1>4
    <3>2. CASE act.sess[x].kind = "usb"
      BY <1>1, <3>1, <3>2 DEF HasPlace, OwnerOK
    <3>3. CASE act.sess[x].kind = "lan"
      <4>1. act.sess[x].start \in Late
        BY <3>1 DEF SessionOK, Sessions
      <4>2. /\ act.sess[x].server = act.server /\ act.servers[act.server].active = x
            /\ act.server \in DOMAIN act.servers
        BY <3>1, <3>3, <4>1 DEF HasPlace, SessionOK
      <4>3. act.server # 0
        BY <4>2, SoundPlaced DEF IInv, Processes
      <4> QED
        BY <1>1, <3>3, <4>2, <4>3 DEF OwnerOK
    <3> QED
      BY <3>1, <3>2, <3>3 DEF Sessions
  <2> QED
    BY <1>2, <2>1
<1>5. ASSUME \A x \in {s, t} : act.sess[x].kind = "usb" /\ act.sess[x].reader = "reading"
      PROVE  FALSE
  <2>1. /\ s = act.shown \/ s = act.reading
        /\ t = act.shown \/ t = act.reading
    BY <1>3, <1>5 DEF HasPlace
  <2>2. act.shown # 0 /\ act.reading # 0 /\ act.sess[act.shown].kind = "usb"
    BY <1>2, <1>3, <1>5, <2>1
  <2> QED
    BY <1>1, <2>2 DEF OwnerOK
<1> QED
  BY <1>4, <1>5

\* At most one session of either transport runs on an open socket, and at most
\* one reader is on the accessory's endpoint, however many clients connect while
\* modes change (completeHandshake, LanSession.start, openAccessory).
THEOREM OneSessionIsUp == ConnectionSpec => []OneSessionAtATime
<1>1. IInv => OneSessionAtATime
  BY OneSession
<1> QED
  BY <1>1, Invariance, PTL

\* While a capture streams for a session that has ended, its teardown is queued
\* or in the hands of the cancellation's thread (closeMedia, CaptureCancellation).
THEOREM CaptureIsTornDown == ConnectionSpec => []TeardownIsUnderWay
<1>1. IInv => TeardownIsUnderWay
  <2>1. SUFFICES ASSUME IInv, StreamsForNobody
                 PROVE  \/ act.owned
                        \/ \E i \in DOMAIN act.jobs : /\ act.jobs[i] = act.bridge.session
                                                      /\ act.shown = act.jobs[i]
    BY DEF TeardownIsUnderWay
  <2>2. act.bridge # NoCapture /\ act.bridge.live /\ act.sess[act.bridge.session].running = "no"
    BY <2>1 DEF StreamsForNobody, NoCapture
  <2> QED
    BY <2>1, <2>2 DEF IInv, Sound, CaptureOK
<1> QED
  BY <1>1, Invariance, PTL

\* A capture that starts by itself continues one that somebody started: its
\* history is the button, the notification or a refusal that came later, never
\* nothing (resumeCaptureWhenAuthorized).
THEOREM ResumptionIsEarned == ConnectionSpec => ResumesWhatWasStarted
<1>1. IInv /\ [ConnectionNext]_act => [Resumes => act.wish \in {"start", "notice", "refused"}]_act
  <2>1. SUFFICES ASSUME IInv, act.resume
                 PROVE  act.wish \in {"start", "notice", "refused"}
    BY DEF Resumes
  <2>2. act.wish \in {"no", "start", "notice", "refused"} /\ WishOK(act)
    BY <2>1, SoundPlaced DEF IInv, Sound, Processes
  <2> QED
    BY <2>1, <2>2 DEF WishOK
<1> QED
  BY <1>1, Invariance, PTL DEF ConnectionSpec, ResumesWhatWasStarted
=============================================================================
