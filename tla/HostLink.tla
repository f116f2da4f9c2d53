------------------------------ MODULE HostLink ------------------------------
(***************************************************************************)
(* The worker's way to an authorized phone: it dials over Wi-Fi or aligns  *)
(* itself on the accessory's endpoint, runs the authorization exchange     *)
(* (client_auth.rs), and over USB repeats it once after a HOST_HELLO       *)
(* (video.rs); the USB probe (usb_probe.rs) goes on to count PINGs.        *)
(*                                                                         *)
(* A frame is written as two transfers, its header and its payload.  AOA   *)
(* has no session boundary: a new worker finds what the phone wrote for    *)
(* an older one, from the middle of a frame on.  Times are not compared; a *)
(* deadline that has been armed may pass at any moment.                    *)
(*                                                                         *)
(* The phone is the environment: PhoneAuthorization models its side.       *)
(***************************************************************************)
EXTENDS Integers, Sequences

CONSTANTS
    None,
    Frames,         \* the PINGs the probe is asked for
    MaxSeams,       \* the 8 of end_to_end()
    MaxSessions     \* bound: sessions of the phone

ASSUME HostLinkAssumption ==
    Frames \in Nat \ {0} /\ MaxSeams \in Nat /\ MaxSessions \in Nat \ {0}

Kinds  == {"challenge", "auth", "result", "hello", "ping", "pong", "media"}
Values == Nat \union {None, "authorized", "rejected", "pending"}
LinkOutcomes == {"authorized", "rejected", "failed", "unplug", "report"}
(* A reader that holds no frame and a worker that has not ended show it.   *)
ASSUME NoneAssumption == None \notin [kind : Kinds, value : Values] \union LinkOutcomes

VARIABLES
    link,       \* the worker in receive(), or the probe in end_to_end()
    report,     \* the probe's Report
    toPc,       \* the transfers the PC can read
    toPhone,    \* the messages the phone has not read
    phone       \* the phone's session on this connection

linkVars == <<link, report, toPc, toPhone, phone>>

Message(kind, value) == [kind |-> kind, value |-> value]
Transfers(message) == <<[head |-> TRUE, of |-> message],
                        [head |-> FALSE, of |-> message]>>

(* The error texts a_hello_would_help() looks for.                         *)
AHelloWouldHelp == {"deadline expired", "incomplete frame", "unsupported",
                    "expected outcome"}

(* run() sends "target" PINGs, numbered from 1; "had" is what was echoed   *)
(* in the runs before it.                                                  *)
NewReport == [sent |-> 0, echoed |-> 0, mismatched |-> 0, timedOut |-> 0,
              seams |-> 0, index |-> 0, target |-> Frames, had |-> 0]

-----------------------------------------------------------------------------
(* How the worker ends, and its one retry. *)

End(l, outcome) == [l EXCEPT !.step = "ended", !.outcome = outcome,
                             !.deadline = "none"]
Ended(outcome) == link' = End(link, outcome)
(* receive() after a failed attempt: a phone that is still an accessory    *)
(* has to be unplugged, and the text says so; it may also have gone.       *)
GaveUp == IF link.route = "usb" /\ ~link.probing THEN {"unplug", "failed"} ELSE {"failed"}

Awaiting(step) == [link EXCEPT !.step = step, !.deadline = "armed"]

(* What becomes of l, the worker after what it has just read, when its     *)
(* attempt fails.                                                          *)
Failed(l, error) ==
    IF /\ l.route = "usb" /\ l.attempt = 1 /\ error \in AHelloWouldHelp
       /\ l.step \in {"challenge", "result"}
    THEN {[l EXCEPT !.step = "hello", !.deadline = "none"]}
    ELSE {End(l, outcome) : outcome \in GaveUp}
Fail(error) == link' \in Failed(link, error)

-----------------------------------------------------------------------------
(* The stream: align_stream() and the frame reader. *)

(* Transfers are dropped until one is a header; silence is a guess, and    *)
(* after a read error or 64 transfers the exchange begins all the same.    *)
Align ==
    /\ link.step = "align"
    /\ \/ link' = Awaiting("challenge") /\ UNCHANGED toPc
       \/ /\ toPc # <<>> /\ ~Head(toPc).head
          /\ toPc' = Tail(toPc) /\ UNCHANGED link
    /\ UNCHANGED <<report, toPhone, phone>>

Reading == /\ link.step \in {"challenge", "result", "pong"}
           /\ link.deadline # "expired" /\ ~link.stop

(* A header is kept while its payload is on the way.                       *)
ReadHeader ==
    /\ Reading /\ link.half = None
    /\ toPc # <<>> /\ Head(toPc).head
    /\ link' = [link EXCEPT !.half = Head(toPc).of]
    /\ toPc' = Tail(toPc)
    /\ UNCHANGED <<report, toPhone, phone>>

(* A payload read as a header is no AMB1 frame.                            *)
ReadGarbage ==
    /\ Reading /\ link.half = None
    /\ toPc # <<>> /\ ~Head(toPc).head
    /\ Fail("invalid header")
    /\ toPc' = Tail(toPc)
    /\ UNCHANGED <<report, toPhone, phone>>

(* The rest of a frame arrives, and leaves the reader empty.               *)
FrameArrives == /\ Reading /\ link.half # None
                /\ toPc # <<>> /\ ~Head(toPc).head
                /\ toPc' = Tail(toPc)
Taken == [link EXCEPT !.half = None]

(* The lifetime of a partial frame has passed; over TLS the peer has gone, *)
(* over USB libusb reports an error, such as a cable that was pulled.      *)
ReaderFails ==
    /\ Reading
    /\ \/ link.half # None /\ Fail("incomplete frame")
       \/ link.route = "usb" /\ Fail("read")
       \/ /\ link.route = "lan" /\ phone.state = "off" /\ toPc = <<>>
          /\ Fail("peer disconnected")
    /\ UNCHANGED <<report, toPc, toPhone, phone>>

-----------------------------------------------------------------------------
(* Wi-Fi: dial() tries each address within one deadline. *)

Addresses == {"refused", "silent", "other", "unpaired", "phone"}

(* "other" has another certificate, "unpaired" closes at the credential.   *)
Dial ==
    /\ link.step = "dial" /\ link.deadline = "armed"
    /\ IF link.addresses = <<>> THEN Ended("failed")
       ELSE /\ Head(link.addresses) # "silent"
            /\ link' = IF Head(link.addresses) = "phone" THEN Awaiting("challenge")
                       ELSE [link EXCEPT !.addresses = Tail(@)]
    /\ UNCHANGED <<report, toPc, toPhone, phone>>

(* The next address finds the shared deadline passed.                      *)
DialTimesOut ==
    /\ link.step = "dial" /\ link.deadline = "expired" /\ Ended("failed")
    /\ UNCHANGED <<report, toPc, toPhone, phone>>

-----------------------------------------------------------------------------
(* exchange() *)

Challenged ==
    /\ link.step = "challenge" /\ FrameArrives
    /\ LET bad(error) == link' \in Failed(Taken, error) /\ UNCHANGED toPhone IN
       IF link.half.kind # "challenge" THEN bad("unsupported")
       ELSE IF ~phone.bound THEN bad("binding mismatch")
       ELSE \/ /\ link' = [Taken EXCEPT !.step = "result", !.nonce = link.half.value]
               /\ toPhone' = Append(toPhone, Message("auth", link.half.value))
            \/ bad("write")
            \/ bad("deadline expired")      \* since the challenge was read
    /\ UNCHANGED <<report, phone>>

Authorized == IF link.probing
              THEN [Taken EXCEPT !.step = "ping", !.attempt = 2, !.deadline = "none"]
              ELSE End(Taken, "authorized")

\* Mutant: the wait for the user of the phone has no end.
Pending_Unbounded == [Taken EXCEPT !.pending = TRUE, !.deadline = "none"]
(* PENDING starts one interval of sixty seconds for the user.              *)
Pending == [Taken EXCEPT !.pending = TRUE, !.deadline = "armed"]

Answered ==
    /\ link.step = "result" /\ FrameArrives
    /\ LET status == link.half.value IN
       IF link.half.kind # "result" THEN link' \in Failed(Taken, "expected outcome")
       ELSE \/ status = "authorized" /\ link' = Authorized
            \/ status = "rejected"   /\ link' = End(Taken, "rejected")
            \/ /\ status = "pending"
               /\ link' \in IF link.pending THEN Failed(Taken, "repeated")
                           ELSE {Pending} \union Failed(Taken, "write")
    /\ UNCHANGED <<report, toPhone, phone>>

Expires ==
    /\ link.step \in {"challenge", "result"} /\ link.deadline = "expired" /\ ~link.stop
    /\ Fail("deadline expired")
    /\ UNCHANGED <<report, toPc, toPhone, phone>>

Stops ==
    /\ link.step \in {"challenge", "result"} /\ link.stop
    /\ \E outcome \in GaveUp : Ended(outcome)
    /\ UNCHANGED <<report, toPc, toPhone, phone>>

\* Mutant: the second attempt goes on waiting for the answer to the first.
SaysHello_Resumes ==
    /\ link.step = "hello"
    /\ link' = [Awaiting(IF link.nonce = None THEN "challenge" ELSE "result")
                EXCEPT !.attempt = 2, !.half = None]
    /\ toPhone' = Append(toPhone, Message("hello", None))
    /\ UNCHANGED <<report, toPc, phone>>
(* reset_exchange() and the second attempt: the probe aligns the stream    *)
(* again, the shipping path keeps the reader as it is.                     *)
SaysHello ==
    /\ link.step = "hello"
    /\ \/ /\ link' = IF link.probing
                     THEN [link EXCEPT !.step = "align", !.attempt = 2,
                                       !.pending = FALSE, !.half = None]
                     ELSE [Awaiting("challenge") EXCEPT !.attempt = 2, !.pending = FALSE]
          /\ toPhone' = Append(toPhone, Message("hello", None))
       \/ Ended("failed") /\ UNCHANGED toPhone
    /\ UNCHANGED <<report, toPc, phone>>

-----------------------------------------------------------------------------
(* end_to_end() and run() of the probe. *)

SendsPing ==
    /\ link.step = "ping"
    /\ IF report.index = report.target
       THEN Ended("report") /\ UNCHANGED <<report, toPhone>>
       ELSE \/ /\ link' = Awaiting("pong")
               /\ report' = [report EXCEPT !.index = @ + 1, !.sent = @ + 1]
               /\ toPhone' = Append(toPhone, Message("ping", report.index + 1))
            \/ Ended("failed") /\ UNCHANGED <<report, toPhone>>
    /\ UNCHANGED <<toPc, phone>>

Counted == [Taken EXCEPT !.step = "ping", !.deadline = "none"]
Pong ==
    /\ link.step = "pong" /\ FrameArrives /\ link.half.kind = "pong"
    /\ link' = Counted
    /\ report' = IF link.half.value = report.index
                 THEN [report EXCEPT !.echoed = @ + 1]
                 ELSE [report EXCEPT !.mismatched = @ + 1]
    /\ UNCHANGED <<toPhone, phone>>
PongTimesOut ==
    /\ link.step = "pong" /\ link.deadline = "expired"
    /\ link' = [link EXCEPT !.step = "ping", !.deadline = "none"]
    /\ report' = [report EXCEPT !.timedOut = @ + 1]
    /\ UNCHANGED <<toPc, toPhone, phone>>
Skips ==
    /\ link.step = "pong" /\ FrameArrives /\ link.half.kind \notin {"pong", "challenge"}
    /\ link' = Taken
    /\ UNCHANGED <<report, toPhone, phone>>

\* Mutant: the PING the new session will never answer stays counted.
Uncounted_Kept == [report EXCEPT !.index = 0, !.had = report.echoed,
                                 !.target = @ - (report.echoed - report.had)]
(* The interrupted PING does not count; what is left starts at 1 again.    *)
Uncounted == [report EXCEPT !.sent = @ - 1, !.index = 0, !.had = report.echoed,
                            !.target = @ - (report.echoed - report.had)]

(* A challenge ends run(), which has read it; authorize() waits for one.   *)
Rechallenged ==
    /\ link.step = "pong" /\ FrameArrives /\ link.half.kind = "challenge"
    /\ report' = [Uncounted EXCEPT !.seams = IF Uncounted.target = 0 THEN @ ELSE @ + 1]
    /\ link' = IF Uncounted.target = 0 \/ report.seams = MaxSeams
               THEN End(Taken, "report")
               ELSE [Taken EXCEPT !.step = "challenge", !.deadline = "armed",
                                     !.pending = FALSE]
    /\ UNCHANGED <<toPhone, phone>>

-----------------------------------------------------------------------------
(* Time, the window's Stop, and the phone. *)

DeadlinePasses ==
    /\ link.deadline = "armed" /\ link' = [link EXCEPT !.deadline = "expired"]
    /\ UNCHANGED <<report, toPc, toPhone, phone>>
PressesStop ==
    /\ link.step # "ended" /\ ~link.stop /\ ~link.probing
    /\ link' = [link EXCEPT !.stop = TRUE]
    /\ UNCHANGED <<report, toPc, toPhone, phone>>

Sends(p, message) == [p EXCEPT !.out = @ \o Transfers(message)]

(* The session ends.  An accessory goes on with a new one, whose writer    *)
(* follows what the old one has written.                                   *)
Renewed(p) ==
    IF link.route = "lan" \/ p.session = MaxSessions THEN [p EXCEPT !.state = "off"]
    ELSE Sends([p EXCEPT !.state = "challenged", !.session = @ + 1, !.spoke = FALSE],
                Message("challenge", p.session + 1))

Granted(p) == Sends([p EXCEPT !.state = "granted", !.grants = @ \union {p.session}],
                     Message("result", "authorized"))

PhoneReads ==
    /\ toPhone # <<>> /\ phone.state # "off"
    /\ toPhone' = Tail(toPhone)
    /\ LET message == Head(toPhone) IN
       CASE message.kind = "auth" /\ phone.state = "challenged" ->
              phone' \in {Renewed(Sends(phone, Message("result", "rejected")))} \union
                        IF message.value # phone.session THEN {}
                        ELSE {Granted(phone),
                              Sends([phone EXCEPT !.state = "pending"],
                                     Message("result", "pending"))}
         [] message.kind = "ping" /\ phone.state = "granted" ->
              phone' = Sends([phone EXCEPT !.pongs = @ + 1],
                              Message("pong", message.value))
         [] message.kind = "hello" /\ phone.state = "granted" ->
              phone' = Renewed([phone EXCEPT !.left = @ \union {phone.session}])
         [] OTHER -> phone' = Renewed(phone)
    /\ UNCHANGED <<link, report, toPc>>

PhoneDecides ==
    /\ phone.state = "pending"
    /\ phone' \in {Granted(phone), Renewed(Sends(phone, Message("result", "rejected")))}
    /\ UNCHANGED <<link, report, toPc, toPhone>>
PhoneEnds ==
    /\ phone.state # "off" /\ phone' = Renewed(phone)
    /\ UNCHANGED <<link, report, toPc, toPhone>>
(* Capabilities and video follow a grant.                                  *)
PhoneSpeaks ==
    /\ phone.state = "granted" /\ ~phone.spoke
    /\ phone' = Sends([phone EXCEPT !.spoke = TRUE], Message("media", None))
    /\ UNCHANGED <<link, report, toPc, toPhone>>
PhoneWrites ==
    /\ phone.out # <<>>
    /\ toPc' = Append(toPc, Head(phone.out))
    /\ phone' = [phone EXCEPT !.out = Tail(@)]
    /\ UNCHANGED <<link, report, toPhone>>

-----------------------------------------------------------------------------
(* What a worker can find. *)

NewLink(route, probing, addresses) ==
    [step |-> IF route = "lan" THEN "dial" ELSE "align", route |-> route,
     probing |-> probing, addresses |-> addresses, attempt |-> 1, stop |-> FALSE,
     deadline |-> IF route = "lan" THEN "armed" ELSE "none",
     pending |-> FALSE, nonce |-> None, half |-> None, outcome |-> None]
NewPhone(state, bound, out) ==
    [session |-> 1, state |-> state, bound |-> bound, out |-> out,
     spoke |-> state = "granted", pongs |-> 0, left |-> {},
     grants |-> IF state = "granted" THEN {1} ELSE {}]

(* Of an older connection the accessory keeps the session, and the rest    *)
(* of a frame that is in the endpoint or still to be written to it.        *)
Challenge == Transfers(Message("challenge", 1))
Media     == Transfers(Message("media", None))
Leftovers == {<<"challenged", <<>>, Challenge>>, <<"challenged", Tail(Challenge), <<>>>>,
              <<"pending", <<>>, <<>>>>, <<"granted", Tail(Media) \o Media, <<>>>>,
              <<"granted", <<>>, Tail(Media)>>}
LinkInit ==
    /\ report = NewReport /\ toPhone = <<>>
    /\ \/ \E addresses \in {<<>>} \union [1..1 -> Addresses]
                            \union [1..2 -> Addresses], bound \in BOOLEAN :
            /\ link = NewLink("lan", FALSE, addresses)
            /\ phone = NewPhone("challenged", bound, Challenge) /\ toPc = <<>>
       \/ \E probing \in BOOLEAN, left \in Leftovers :
            /\ link = NewLink("usb", probing, <<>>)
            /\ phone = NewPhone(left[1], TRUE, left[3]) /\ toPc = left[2]

Worker == \/ Align \/ ReadHeader \/ ReadGarbage \/ ReaderFails \/ Dial \/ DialTimesOut
          \/ Challenged \/ Answered \/ Expires \/ Stops \/ SaysHello
          \/ SendsPing \/ Pong \/ PongTimesOut \/ Skips \/ Rechallenged
Phone == PhoneReads \/ PhoneDecides \/ PhoneEnds \/ PhoneSpeaks \/ PhoneWrites
LinkNext == Worker \/ DeadlinePasses \/ PressesStop \/ Phone
LinkSpec == LinkInit /\ [][LinkNext]_linkVars
(* The worker is a thread of its own and time passes; the phone may keep   *)
(* silent for ever.                                                        *)
LinkFairness == WF_linkVars(Worker) /\ WF_linkVars(DeadlinePasses)

-----------------------------------------------------------------------------
(* Properties *)

(* The worker opens the camera's stream for the session that the phone has *)
(* granted it: not for one that its own HOST_HELLO has ended, whose        *)
(* outcome may still be in the endpoint.                                   *)
FreshGrant ==
    link.outcome = "authorized" => link.nonce \in phone.grants \ phone.left

(* The probe's totals add up across the seams between sessions, and a PASS *)
(* means that the phone has answered every PING it was asked for.          *)
ProbeCounts ==
    link.outcome = "report" =>
        /\ report.sent = report.echoed + report.mismatched + report.timedOut
        /\ report.echoed = Frames => phone.pongs >= Frames

(* What the worker ends with is true of the phone, whatever was left in    *)
(* the endpoint: a grant, or the counts of the probe.                      *)
EndsTruly == FreshGrant /\ ProbeCounts

(* Whatever the phone leaves unanswered or writes, the way to it ends.     *)
LinkEnds == <>(link.step = "ended")
=============================================================================
