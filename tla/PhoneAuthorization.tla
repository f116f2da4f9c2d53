------------------------- MODULE PhoneAuthorization -------------------------
(***************************************************************************)
(* The phone's session slot and its list of authorized PCs:                *)
(* PhoneAuthorization.kt over ClientRepository.kt, with the taps of         *)
(* ClientApprovalUi.kt.  Three kinds of thread act on it.                   *)
(*                                                                          *)
(*   transport   opens a session, starts it, reads the peer's frames,       *)
(*               closes it                                                  *)
(*   timer       ticks every 250 ms                                         *)
(*   UI          approves, rejects, revokes and renews; a durable write     *)
(*               happens inside the tap, outside the owner's monitor        *)
(*                                                                          *)
(* One action is one critical section of that monitor, or one step of the   *)
(* repository's write, which the other threads interleave with.             *)
(*                                                                          *)
(* A PC is its client ID: the ID is the hash of the key, so "same ID,       *)
(* another key" does not arise.  A stored record is its approval time; it   *)
(* expires EXPIRY_SECONDS later.  Monotonic deadlines are kept as the time  *)
(* left until them: now >= deadline is deadline = 0.                        *)
(***************************************************************************)
EXTENDS Integers, FiniteSets, Sequences

CONSTANTS
  Pc,                 \* the PCs that may connect
  SessionId,          \* identities of Session objects, reused once unreferenced
  None,               \* no session, no candidate, no record
  MAX_CLIENTS,        \* capacity of the authorized list
  EXPIRY_SECONDS,     \* lifetime of an approval, wall-clock seconds
  MAX_UNIX_SECONDS,   \* largest time a record can hold
  PROOF_TIMEOUT,      \* monotonic ticks a session waits for its proof
  APPROVAL_TIMEOUT,   \* ticks a prompt waits for the user
  UNKNOWN_COOLDOWN,   \* ticks without prompts after one ended unanswered
  REJECTION_FLUSH     \* ticks left to deliver a rejection

ASSUME TimeoutsAssumption ==
  /\ PROOF_TIMEOUT \in Nat \ {0}
  /\ APPROVAL_TIMEOUT \in Nat \ {0}
  /\ UNKNOWN_COOLDOWN \in Nat \ {0}
  /\ REJECTION_FLUSH \in Nat \ {0}

ASSUME RecordsAssumption ==
  /\ MAX_CLIENTS \in Nat \ {0}
  /\ EXPIRY_SECONDS \in Nat \ {0}
  /\ MAX_UNIX_SECONDS \in Nat

ASSUME NoneAssumption ==
  /\ None \notin SessionId
  /\ None \notin Pc
  /\ None \notin Nat

Unix == 0 .. MAX_UNIX_SECONDS

VARIABLES
  disk,        \* what the encrypted preferences hold: Pc -> approval time
  clients,     \* the repository's published snapshot
  healthy,     \* no write of the repository has failed
  failed,      \* the owner latched a storage failure
  closed,      \* the owner was closed
  revokedIds,  \* revocations that took effect before they were stored
  cooldown,    \* ticks until unknownCooldownUntil
  active,      \* the Session object in the slot
  phase,       \* its Phase
  deadline,    \* ticks until its deadline
  candidate,   \* the PC whose proof it accepted
  sent,        \* the authorization frames it sent to the PC
  wall,        \* System.currentTimeMillis() / 1000
  ui,          \* the tap the UI thread is executing
  dialogs,     \* the PCs offered by "Authorized PCs" dialogs on screen
  consent,     \* history: PCs allowed by a tap and not revoked since
  quiet        \* history: ticks since a prompt last ended unanswered

storage == <<disk, clients, healthy>>
session == <<active, phase, deadline, candidate, sent>>
owner   == <<failed, closed, revokedIds, cooldown>>
screen  == <<ui, dialogs>>
history == <<consent, quiet>>
vars    == <<storage, session, owner, screen, wall, history>>

Unauthorized == {"NEW", "PROOF", "PENDING", "DENIED"}
Phases       == Unauthorized \cup {"AUTHORIZED", "CLOSED"}

-----------------------------------------------------------------------------
(***************************************************************************)
(* The list of authorized PCs (ClientAuthorization.kt).                    *)
(***************************************************************************)
Registered(list) == {p \in Pc : list[p] # None}

Valid(p) == /\ clients[p] # None
            /\ clients[p] <= wall
            /\ wall < clients[p] + EXPIRY_SECONDS

Full(list) == Cardinality(Registered(list)) >= MAX_CLIENTS

\* The decision on a proof, from the snapshot the handler reads.
Decision(p, genuine) ==
  IF ~genuine THEN "REJECTED"
  ELSE IF clients[p] = None
       THEN IF Full(clients) THEN "REJECTED" ELSE "PENDING"
       ELSE IF Valid(p) THEN "AUTHORIZED" ELSE "REJECTED"

\* Mutant: the stamp fits, its expiry may not.
StampOk_ExpiryUnchecked == wall <= MAX_UNIX_SECONDS

StampOk == wall <= MAX_UNIX_SECONDS - EXPIRY_SECONDS

\* Mutant: capacity is checked when the prompt opens only.
CanStore_NoCapacity(op, p) ==
  /\ op \in {"approve", "renew"} => StampOk
  /\ op = "renew" => clients[p] # None

CanStore(op, p) ==
  /\ op \in {"approve", "renew"} => StampOk
  /\ op = "approve" => clients[p] # None \/ ~Full(clients)
  /\ op = "renew"   => clients[p] # None

Stored(op, p) ==
  [clients EXCEPT ![p] = IF op = "revoke" THEN None ELSE wall]

-----------------------------------------------------------------------------
(***************************************************************************)
(* The session slot.                                                       *)
(***************************************************************************)
EmptySlot ==
  /\ active' = None
  /\ phase' = "CLOSED"
  /\ deadline' = 0
  /\ candidate' = None
  /\ sent' = <<>>

\* Mutant: abandoning a prompt resets its rate limit.
Finish_NoCooldown == EmptySlot /\ UNCHANGED cooldown

\* A prompt that is abandoned cannot be asked again at once.
Finish ==
  /\ EmptySlot
  /\ cooldown' = IF phase = "PENDING" THEN UNKNOWN_COOLDOWN ELSE cooldown

\* checkAuthorized() of a session that would carry p, with the revocations rev.
Passes(p, rev) == p \notin rev /\ healthy /\ Valid(p)

\* Reading an unhealthy repository latches the failure.
LatchesOn(p, rev) == p \notin rev /\ ~healthy

Deny == /\ phase' = "DENIED"
        /\ deadline' = REJECTION_FLUSH
        /\ sent' = Append(sent, "REJECTED")

\* The grant is sent, then onChanged re-checks it in the same critical section.
Grant(p, rev) ==
  /\ IF Passes(p, rev)
     THEN /\ phase' = "AUTHORIZED"
          /\ deadline' = deadline
          /\ candidate' = p
          /\ sent' = Append(sent, "AUTHORIZED")
          /\ active' = active
     ELSE EmptySlot
  /\ failed' = (failed \/ LatchesOn(p, rev))
  /\ UNCHANGED cooldown

-----------------------------------------------------------------------------
(***************************************************************************)
(* Transport threads.                                                      *)
(***************************************************************************)
OpenSession(s) ==
  /\ ~failed /\ ~closed
  /\ active = None
  /\ s # ui.session
  /\ active' = s
  /\ phase' = "NEW"
  /\ deadline' = PROOF_TIMEOUT
  /\ UNCHANGED <<storage, candidate, sent, owner, screen, wall>>

\* Mutant: a started session may be started again.
StartSession_Again ==
  /\ phase \in {"NEW", "PROOF"}
  /\ phase' = "PROOF"
  /\ deadline' = PROOF_TIMEOUT
  /\ sent' = Append(sent, "CHALLENGE")
  /\ UNCHANGED <<storage, active, candidate, owner, screen, wall>>

StartSession ==
  /\ phase = "NEW"
  /\ phase' = "PROOF"
  /\ deadline' = PROOF_TIMEOUT
  /\ sent' = Append(sent, "CHALLENGE")
  /\ UNCHANGED <<storage, active, candidate, owner, screen, wall>>

\* A CLIENT_AUTH of PC p answers the challenge, in time.
ReceiveProof(p, genuine) ==
  /\ phase = "PROOF" /\ deadline > 0
  /\ healthy
  /\ \/ /\ Decision(p, genuine) = "AUTHORIZED"
        /\ Grant(p, revokedIds)
     \/ /\ \/ Decision(p, genuine) = "REJECTED"
           \/ Decision(p, genuine) = "PENDING" /\ cooldown > 0
        /\ Deny
        /\ candidate' = p
        /\ UNCHANGED <<active, cooldown, failed>>
     \/ /\ Decision(p, genuine) = "PENDING" /\ cooldown = 0
        /\ phase' = "PENDING"
        /\ deadline' = APPROVAL_TIMEOUT
        /\ candidate' = p
        /\ sent' = Append(sent, "PENDING")
        /\ UNCHANGED <<active, cooldown, failed>>
  /\ UNCHANGED <<storage, closed, revokedIds, screen, wall>>

\* The snapshot cannot be read: the failure is latched, the session ends.
ReceiveProofUnreadable ==
  /\ phase = "PROOF" /\ deadline > 0
  /\ ~healthy
  /\ Finish
  /\ failed' = TRUE
  /\ UNCHANGED <<storage, closed, revokedIds, screen, wall>>

\* Mutant: a hello before the proof renews the proof's deadline.
ReceiveUnexpected_Renews ==
  /\ phase = "PROOF"
  /\ deadline' = PROOF_TIMEOUT
  /\ UNCHANGED <<storage, active, phase, candidate, sent, owner, screen, wall>>

\* Any other frame before authorization, or a proof out of turn or too late.
ReceiveUnexpected ==
  /\ phase \in Unauthorized \ {"NEW"}
  /\ Finish
  /\ UNCHANGED <<storage, failed, closed, revokedIds, screen, wall>>

\* A frame of an authorized PC passes the gate, unless the grant is gone.
CheckFrame ==
  /\ phase = "AUTHORIZED"
  /\ ~Passes(candidate, revokedIds)
  /\ Finish
  /\ failed' = (failed \/ LatchesOn(candidate, revokedIds))
  /\ UNCHANGED <<storage, closed, revokedIds, screen, wall>>

\* HOST_HELLO behind the gate: the peer is a new host, the session is spent.
OnHostHello ==
  /\ phase = "AUTHORIZED"
  /\ Passes(candidate, revokedIds)
  /\ Finish
  /\ UNCHANGED <<storage, failed, closed, revokedIds, screen, wall>>

Disconnect ==
  /\ active # None
  /\ Finish
  /\ UNCHANGED <<storage, failed, closed, revokedIds, screen, wall>>

-----------------------------------------------------------------------------
(***************************************************************************)
(* The timer thread.                                                       *)
(***************************************************************************)
\* Mutant: durable writes hold the monitor, so the timer waits for them.
Tick_BehindWrite ==
  /\ ui.step \notin {"store", "written"}
  /\ ~failed /\ ~closed
  /\ \/ phase \in Unauthorized /\ deadline = 0 /\ UNCHANGED failed
     \/ /\ phase = "AUTHORIZED"
        /\ ~Passes(candidate, revokedIds)
        /\ failed' = LatchesOn(candidate, revokedIds)
  /\ Finish
  /\ UNCHANGED <<storage, closed, revokedIds, screen, wall>>

Tick ==
  /\ ~failed /\ ~closed
  /\ \/ phase \in Unauthorized /\ deadline = 0 /\ UNCHANGED failed
     \/ /\ phase = "AUTHORIZED"
        /\ ~Passes(candidate, revokedIds)
        /\ failed' = LatchesOn(candidate, revokedIds)
  /\ Finish
  /\ UNCHANGED <<storage, closed, revokedIds, screen, wall>>

-----------------------------------------------------------------------------
(***************************************************************************)
(* The UI thread.  A tap runs to its end before the next one: ui holds the *)
(* operation and how far it got.                                           *)
(*                                                                          *)
(*   store -> written -> published -> idle         the write succeeds       *)
(*   store -> failing -> idle                      it is refused or fails   *)
(***************************************************************************)
Idle == [op |-> "idle", step |-> "idle", pc |-> None, session |-> None]
Tapped(op, p, s) == [op |-> op, step |-> "store", pc |-> p, session |-> s]

\* Mutant: any prompt on screen will do.
LiveApproval_Any(s) == phase = "PENDING" /\ deadline > 0

\* requireLiveApproval(): the button's own session still shows its prompt.
LiveApproval(s) == active = s /\ phase = "PENDING" /\ deadline > 0

Approve ==
  /\ ui = Idle
  /\ LiveApproval(active)
  /\ ui' = Tapped("approve", candidate, active)
  /\ UNCHANGED <<storage, session, owner, dialogs, wall>>

Reject ==
  /\ ui = Idle
  /\ LiveApproval(active)
  /\ cooldown' = UNKNOWN_COOLDOWN
  /\ Deny
  /\ UNCHANGED <<storage, active, candidate, failed, closed, revokedIds,
                 screen, wall>>

\* A tap on a prompt past its deadline ends the session instead.
TapTooLate ==
  /\ ui = Idle
  /\ phase = "PENDING" /\ deadline = 0
  /\ Finish
  /\ UNCHANGED <<storage, failed, closed, revokedIds, screen, wall>>

ShowClients ==
  /\ ui = Idle
  /\ ~failed /\ ~closed
  /\ dialogs' = dialogs \cup Registered(clients)
  /\ UNCHANGED <<storage, session, owner, ui, wall>>

CloseDialogs ==
  /\ ui = Idle
  /\ dialogs' = {}
  /\ UNCHANGED <<storage, session, owner, ui, wall>>

\* Mutant: the revocation is stored first and takes effect afterwards.
Revoke_StoreFirst(p) ==
  /\ ui = Idle
  /\ p \in dialogs
  /\ ui' = Tapped("revoke", p, None)
  /\ UNCHANGED <<storage, session, owner, dialogs, wall>>

\* The revocation is recorded in memory, and the live session checked, first.
Revoke(p) ==
  /\ ui = Idle
  /\ p \in dialogs
  /\ ui' = Tapped("revoke", p, None)
  /\ revokedIds' = revokedIds \cup {p}
  /\ IF phase = "AUTHORIZED" /\ ~Passes(candidate, revokedIds')
     THEN /\ Finish
          /\ failed' = (failed \/ LatchesOn(candidate, revokedIds'))
     ELSE UNCHANGED <<session, cooldown, failed>>
  /\ UNCHANGED <<storage, closed, dialogs, wall>>

Renew(p) ==
  /\ ui = Idle
  /\ p \in dialogs
  /\ ui' = Tapped("renew", p, None)
  /\ UNCHANGED <<storage, session, owner, dialogs, wall>>

\* stored {} refuses at once when the owner already failed or closed.
StoreRefused ==
  /\ ui.step = "store"
  /\ failed \/ closed
  /\ ui' = Idle
  /\ UNCHANGED <<storage, session, owner, dialogs, wall>>

\* The repository refuses the change: full list, unknown PC, clock past range.
StoreInvalid ==
  /\ ui.step = "store"
  /\ ~failed /\ ~closed
  /\ ~CanStore(ui.op, ui.pc)
  /\ ui' = [ui EXCEPT !.step = "failing"]
  /\ UNCHANGED <<storage, session, owner, dialogs, wall>>

\* Mutant: the revocation of a listed PC is reported without a write.
StoreUnchanged_Listed ==
  /\ ui.step = "store" /\ ui.op = "revoke"
  /\ ~failed /\ ~closed
  /\ ui' = [ui EXCEPT !.step = "published"]
  /\ UNCHANGED <<storage, session, owner, dialogs, wall>>

\* Revoking a PC that is not listed writes nothing.
StoreUnchanged ==
  /\ ui.step = "store" /\ ui.op = "revoke"
  /\ ~failed /\ ~closed
  /\ clients[ui.pc] = None
  /\ ui' = [ui EXCEPT !.step = "published"]
  /\ UNCHANGED <<storage, session, owner, dialogs, wall>>

Changes == /\ ui.step = "store"
           /\ ~failed /\ ~closed
           /\ CanStore(ui.op, ui.pc)
           /\ ui.op = "revoke" => clients[ui.pc] # None

\* The new list reaches the disk; the snapshot still shows the old one.
Write ==
  /\ Changes
  /\ disk' = Stored(ui.op, ui.pc)
  /\ ui' = [ui EXCEPT !.step = "written"]
  /\ UNCHANGED <<clients, healthy, session, owner, dialogs, wall>>

\* Mutant: a failed commit is taken for a saved one.
WriteFails_Ignored ==
  /\ Changes
  /\ disk' \in {disk, Stored(ui.op, ui.pc)}
  /\ clients' = Stored(ui.op, ui.pc)
  /\ ui' = [ui EXCEPT !.step = "published"]
  /\ UNCHANGED <<healthy, session, owner, dialogs, wall>>

\* The write throws, before or after it reached the disk.
WriteFails ==
  /\ Changes
  /\ disk' \in {disk, Stored(ui.op, ui.pc)}
  /\ healthy' = FALSE
  /\ ui' = [ui EXCEPT !.step = "failing"]
  /\ UNCHANGED <<clients, session, owner, dialogs, wall>>

Publish ==
  /\ ui.step = "written"
  /\ clients' = disk
  /\ ui' = [ui EXCEPT !.step = "published"]
  /\ UNCHANGED <<disk, healthy, session, owner, dialogs, wall>>

\* The catch block of stored {}: latch the failure, end the session.
StorageFails ==
  /\ ui.step = "failing"
  /\ failed' = TRUE
  /\ Finish
  /\ ui' = Idle
  /\ UNCHANGED <<storage, closed, revokedIds, dialogs, wall>>

\* approve() resumes with its session still waiting: the PC is granted.
ApproveGrants ==
  /\ ui.op = "approve" /\ ui.step = "published"
  /\ LiveApproval(ui.session)
  /\ ~failed /\ ~closed
  /\ revokedIds' = revokedIds \ {ui.pc}
  /\ Grant(ui.pc, revokedIds')
  /\ ui' = Idle
  /\ UNCHANGED <<storage, closed, dialogs, wall>>

\* approve() resumes after its session ended, or on its deadline: RequestEnded.
ApproveEnded ==
  /\ ui.op = "approve" /\ ui.step = "published"
  /\ ~LiveApproval(ui.session)
  /\ IF phase \in Unauthorized /\ active = ui.session /\ deadline = 0
     THEN Finish
     ELSE UNCHANGED <<session, cooldown>>
  /\ ui' = Idle
  /\ UNCHANGED <<storage, failed, closed, revokedIds, dialogs, wall>>

\* revoke() and renew() end by checking the live session again.
RecheckSession ==
  /\ ui.op \in {"revoke", "renew"} /\ ui.step = "published"
  /\ IF phase = "AUTHORIZED" /\ ~Passes(candidate, revokedIds)
     THEN /\ Finish
          /\ failed' = (failed \/ LatchesOn(candidate, revokedIds))
     ELSE UNCHANGED <<session, cooldown, failed>>
  /\ ui' = Idle
  /\ UNCHANGED <<storage, closed, revokedIds, dialogs, wall>>

CloseOwner ==
  /\ ui = Idle
  /\ ~closed
  /\ closed' = TRUE
  /\ Finish
  /\ UNCHANGED <<storage, failed, revokedIds, screen, wall>>

-----------------------------------------------------------------------------
(***************************************************************************)
(* The environment: two clocks and the end of the process.                 *)
(***************************************************************************)
Less(n) == IF n = 0 THEN 0 ELSE n - 1

AdvanceClock ==
  /\ deadline > 0 \/ cooldown > 0 \/ quiet < UNKNOWN_COOLDOWN
  /\ deadline' = Less(deadline)
  /\ cooldown' = Less(cooldown)
  /\ quiet' = IF quiet < UNKNOWN_COOLDOWN THEN quiet + 1 ELSE quiet
  /\ UNCHANGED <<storage, active, phase, candidate, sent, failed, closed,
                 revokedIds, screen, wall, consent>>

\* The user or the network sets the device's clock, either way.
SetWallClock ==
  /\ wall' \in Unix \ {wall}
  /\ UNCHANGED <<storage, session, owner, screen>>

\* The process dies at any point; a new owner reads the disk.  The user was
\* never told that a revocation cut short had succeeded.
Restart ==
  /\ clients' = disk
  /\ healthy' = TRUE
  /\ failed' = FALSE
  /\ closed' = FALSE
  /\ revokedIds' = {}
  /\ cooldown' = 0
  /\ EmptySlot
  /\ ui' = Idle
  /\ dialogs' = {}
  /\ consent' = IF ui.op = "revoke" THEN consent \cup {ui.pc} ELSE consent
  /\ quiet' = UNKNOWN_COOLDOWN
  /\ UNCHANGED <<disk, wall>>

-----------------------------------------------------------------------------
(***************************************************************************)
(* What the user has decided, recorded beside every step above.            *)
(***************************************************************************)
Observe ==
  /\ consent' = CASE ui = Idle /\ ui'.op = "approve" -> consent \cup {ui'.pc}
                  [] ui = Idle /\ ui'.op = "revoke"  -> consent \ {ui'.pc}
                  [] /\ ui.op = "revoke" /\ ui.step # "published"
                     /\ ui' = Idle                   -> consent \cup {ui.pc}
                  [] OTHER                           -> consent
  /\ quiet' = IF /\ phase = "PENDING"
                 /\ phase' \notin {"PENDING", "AUTHORIZED"}
                 /\ clients[candidate] = None
              THEN 0 ELSE quiet

TransportStep ==
  \/ \E s \in SessionId : OpenSession(s)
  \/ StartSession
  \/ \E p \in Pc, genuine \in BOOLEAN : ReceiveProof(p, genuine)
  \/ ReceiveProofUnreadable
  \/ ReceiveUnexpected
  \/ CheckFrame
  \/ OnHostHello
  \/ Disconnect

UiStep ==
  \/ Approve
  \/ Reject
  \/ TapTooLate
  \/ ShowClients
  \/ CloseDialogs
  \/ \E p \in Pc : Revoke(p) \/ Renew(p)
  \/ StoreRefused
  \/ StoreInvalid
  \/ StoreUnchanged
  \/ Write
  \/ WriteFails
  \/ Publish
  \/ StorageFails
  \/ ApproveGrants
  \/ ApproveEnded
  \/ RecheckSession
  \/ CloseOwner

Next ==
  \/ (TransportStep \/ Tick \/ UiStep \/ SetWallClock) /\ Observe
  \/ AdvanceClock
  \/ Restart

Init ==
  /\ disk = [p \in Pc |-> None]
  /\ clients = disk
  /\ healthy = TRUE
  /\ failed = FALSE
  /\ closed = FALSE
  /\ revokedIds = {}
  /\ cooldown = 0
  /\ active = None
  /\ phase = "CLOSED"
  /\ deadline = 0
  /\ candidate = None
  /\ sent = <<>>
  /\ wall \in Unix
  /\ ui = Idle
  /\ dialogs = {}
  /\ consent = {}
  /\ quiet = UNKNOWN_COOLDOWN

Spec == Init /\ [][Next]_vars

\* Only the timer and the clock are fair: no write, tap or peer need ever move.
TimerSpec == /\ Spec
             /\ WF_vars(Tick /\ Observe)
             /\ WF_vars(AdvanceClock)
-----------------------------------------------------------------------------
(***************************************************************************)
(* Properties.                                                             *)
(***************************************************************************)
Records == [Pc -> 0 .. (MAX_UNIX_SECONDS - EXPIRY_SECONDS) \cup {None}]

UiState ==
  {Idle} \cup [op : {"approve", "revoke", "renew"},
               step : {"store", "written", "published", "failing"},
               pc : Pc, session : SessionId \cup {None}]

\* Every variable has its type; no record expires past what 32 bits hold
\* (ClientAuthorization.approve and renew bound the approval time).
TypeOK ==
  /\ disk \in Records /\ clients \in Records
  /\ healthy \in BOOLEAN /\ failed \in BOOLEAN /\ closed \in BOOLEAN
  /\ revokedIds \subseteq Pc /\ consent \subseteq Pc /\ dialogs \subseteq Pc
  /\ cooldown \in 0 .. UNKNOWN_COOLDOWN /\ quiet \in 0 .. UNKNOWN_COOLDOWN
  /\ active \in SessionId \cup {None} /\ phase \in Phases
  /\ deadline \in Nat
  /\ candidate \in Pc \cup {None}
  /\ wall \in Unix
  /\ ui \in UiState

\* Whatever interleaves with a write, an authorized session belongs to a PC the
\* user allowed and has not revoked, even while the revocation's own write
\* stalls (revoke marks revokedIds before it stores).
ConsentBehindEveryGrant == phase = "AUTHORIZED" => candidate \in consent

\* A grant never outruns its record: the PC is on disk and in the snapshot, and
\* no revocation shadows it (approve publishes durably before it grants).
GrantIsDurable ==
  phase = "AUTHORIZED" => /\ disk[candidate] # None
                          /\ clients[candidate] # None
                          /\ candidate \notin revokedIds

\* What a crash would bring back: the disk lists only PCs the user allowed,
\* except the one whose revocation has not reported its end.
DiskHoldsConsent ==
  \A p \in Pc : disk[p] # None => \/ p \in consent
                                  \/ ui.op = "revoke" /\ ui.pc = p

\* The list never outgrows its capacity, although a prompt is decided against
\* an older list than the one its approval is stored into.
ListWithinCapacity == /\ Cardinality(Registered(disk)) <= MAX_CLIENTS
                      /\ Cardinality(Registered(clients)) <= MAX_CLIENTS

\* The PC sees one challenge, at most one Pending and at most one outcome, and
\* the phone is in the phase its last frame announced (the host's exchange in
\* client_auth.rs refuses anything else).
ExchangeFollowsPhase ==
  /\ phase \in {"CLOSED", "NEW"} => sent = <<>>
  /\ phase = "PROOF"      => sent = <<"CHALLENGE">>
  /\ phase = "PENDING"    => sent = <<"CHALLENGE", "PENDING">>
  /\ phase = "AUTHORIZED" => sent \in {<<"CHALLENGE", "AUTHORIZED">>,
                                       <<"CHALLENGE", "PENDING", "AUTHORIZED">>}
  /\ phase = "DENIED"     => sent \in {<<"CHALLENGE", "REJECTED">>,
                                       <<"CHALLENGE", "PENDING", "REJECTED">>}

\* A latched storage failure or a closed owner leaves no session behind, and
\* none can open (stored, close, openSession).
FailClosed == /\ failed \/ closed => active = None
              /\ active = None <=> phase = "CLOSED"

\* A prompt becomes a grant only by the tap on that prompt: a late tap never
\* approves the connection that replaced it (requireLiveApproval).
LateTapStaysOnItsPrompt ==
  [][phase = "PENDING" /\ phase' = "AUTHORIZED"
     => /\ ui.op = "approve" /\ ui.session = active
        /\ candidate' = ui.pc /\ candidate' = candidate]_vars

\* After a prompt ended unanswered or refused, the next prompt waits the whole
\* cooldown, however its session ended (finish, reject).
PromptRateLimit ==
  [][phase # "PENDING" /\ phase' = "PENDING" => quiet = UNKNOWN_COOLDOWN]_vars

\* No peer holds the slot without authorization: the timer ends every wait,
\* even while a write stalls for ever (tickLocked; absolute deadlines).
UnauthorizedEnds == (phase \in Unauthorized) ~> (phase \notin Unauthorized)

\* A grant that expired is withdrawn by the timer, without a frame from the
\* peer and even while a write stalls (tickLocked, checkAuthorized).
InvalidGrantEnds ==
  (phase = "AUTHORIZED" /\ ~Valid(candidate))
    ~> (phase # "AUTHORIZED" \/ Valid(candidate))

\* PhoneAuthorization.kt:227 says a fresh approval supersedes an earlier
\* in-memory revocation of the same PC: once no tap is under way, no stored PC
\* is shadowed by one.
ApprovalSupersedesRevocation ==
  ui = Idle /\ ~failed /\ ~closed => \A p \in revokedIds : clients[p] = None

\* ClientApprovalUi.kt:85 says a stale gesture is not a storage failure: unless
\* the device's clock is out of range, no tap is refused as one by a repository
\* that works.
StaleTapIsNoStorageFailure ==
  [][ui.step = "store" /\ ui'.step = "failing" /\ healthy' => ~StampOk]_vars
=============================================================================
