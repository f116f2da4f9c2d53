---------------------- MODULE PhoneAuthorizationProofs ----------------------
(***************************************************************************)
(* Safety of PhoneAuthorization for every set of PCs and sessions, every    *)
(* capacity and every timeout.                                              *)
(***************************************************************************)
EXTENDS PhoneAuthorization, TLAPS, FiniteSetTheorems, SequenceTheorems

-----------------------------------------------------------------------------
(***************************************************************************)
(* The inductive invariant, in named parts.                                *)
(***************************************************************************)
\* A waiting or granted session has a PC and an identity.
SlotInv ==
  /\ phase \in {"PENDING", "AUTHORIZED"} => candidate \in Pc
  /\ phase # "CLOSED" => active \in SessionId

\* What the tap in progress knows about the list and about its session.
TapInv ==
  /\ ui.op = "approve" => /\ ui.session # None
                          /\ ui.pc \in consent
                          /\ active = ui.session
                             => phase = "PENDING" /\ candidate = ui.pc
  /\ ui.op = "revoke" => ui.pc \in revokedIds
  /\ ui.op \in {"approve", "renew"} /\ ui.step = "published"
     => clients[ui.pc] # None

\* How far the snapshot may lag behind the disk.
LagInv ==
  /\ healthy /\ ui.step # "written" => clients = disk
  /\ ui.step = "written" =>
       /\ healthy
       /\ \A p \in Pc : p # ui.pc => disk[p] = clients[p]
       /\ ui.op \in {"approve", "renew"} => disk[ui.pc] # None
  /\ ui.op = "revoke" /\ ui.step \in {"written", "published"}
     => disk[ui.pc] = None
  /\ ~healthy => failed \/ ui.step = "failing"

\* The cooldown covers the whole quiet time.
CooldownInv == UNKNOWN_COOLDOWN <= cooldown + quiet

\* The lists are finite, and within their capacity.
CapacityInv == /\ IsFiniteSet(Registered(disk))
               /\ IsFiniteSet(Registered(clients))
               /\ ListWithinCapacity

IInv == /\ TypeOK /\ SlotInv /\ TapInv /\ LagInv /\ CooldownInv
        /\ CapacityInv /\ FailClosed /\ ExchangeFollowsPhase
        /\ ConsentBehindEveryGrant /\ GrantIsDurable /\ DiskHoldsConsent

-----------------------------------------------------------------------------
\* What the wire shows after one more frame, spelled out for the prover.
LEMMA AppendToOne ==
  ASSUME NEW a, NEW b
  PROVE  Append(<<a>>, b) = <<a, b>>
<1> DEFINE S == {a, b}
           t == Append(<<a>>, b)
           u == <<a, b>>
<1>1. u \in Seq(S) /\ Len(u) = 2 /\ u[1] = a /\ u[2] = b
  OBVIOUS
<1>2. <<a>> \in Seq(S) /\ Len(<<a>>) = 1 /\ <<a>>[1] = a
  OBVIOUS
<1>3. t \in Seq(S) /\ Len(t) = 2 /\ t[1] = a /\ t[2] = b
  BY <1>2, AppendProperties
<1> HIDE DEF t, u, S
<1>4. \A i \in 1 .. Len(t) : t[i] = u[i]
  BY <1>1, <1>3
<1>5. t = u
  BY <1>1, <1>3, <1>4, SeqEqual
<1> QED
  BY <1>5 DEF t, u

\* The same after two frames.
LEMMA AppendToTwo ==
  ASSUME NEW a, NEW b, NEW c
  PROVE  Append(<<a, b>>, c) = <<a, b, c>>
<1> DEFINE S == {a, b, c}
           t == Append(<<a, b>>, c)
           u == <<a, b, c>>
<1>1. u \in Seq(S) /\ Len(u) = 3 /\ u[1] = a /\ u[2] = b /\ u[3] = c
  OBVIOUS
<1>2. <<a, b>> \in Seq(S) /\ Len(<<a, b>>) = 2 /\ <<a, b>>[1] = a /\ <<a, b>>[2] = b
  OBVIOUS
<1>3. t \in Seq(S) /\ Len(t) = 3 /\ t[1] = a /\ t[2] = b /\ t[3] = c
  BY <1>2, AppendProperties
<1> HIDE DEF t, u, S
<1>4. \A i \in 1 .. Len(t) : t[i] = u[i]
  BY <1>1, <1>3
<1>5. t = u
  BY <1>1, <1>3, <1>4, SeqEqual
<1> QED
  BY <1>5 DEF t, u
-----------------------------------------------------------------------------
(***************************************************************************)
(* Type correctness.                                                       *)
(***************************************************************************)
LEMMA StoredInRecords ==
  ASSUME TypeOK, ui # Idle, CanStore(ui.op, ui.pc)
  PROVE  Stored(ui.op, ui.pc) \in Records
<1>1. ui.op \in {"approve", "renew", "revoke"} /\ ui.pc \in Pc
  BY DEF TypeOK, UiState
<1>2. ui.op # "revoke" => wall \in 0 .. (MAX_UNIX_SECONDS - EXPIRY_SECONDS)
  BY <1>1, RecordsAssumption DEF CanStore, StampOk, TypeOK, Unix
<1> QED
  BY <1>1, <1>2 DEF Stored, TypeOK, Records

LEMMA TypeStep ==
  ASSUME TypeOK, SlotInv, [Next]_vars
  PROVE  TypeOK'
<1> USE TimeoutsAssumption, RecordsAssumption, NoneAssumption DEF
      TypeOK, SlotInv, Records, UiState, Unix, Unauthorized, Phases,
      storage, session, owner, screen
<1>1. CASE (\E s \in SessionId : OpenSession(s)) /\ Observe
  BY <1>1 DEF Observe, OpenSession, Idle
<1>2. CASE StartSession /\ Observe
  BY <1>2 DEF Observe, StartSession, Idle
<1>3. CASE (\E p \in Pc, genuine \in BOOLEAN : ReceiveProof(p, genuine)) /\ Observe
  BY <1>3, SMTT(60) DEF Observe, ReceiveProof, Grant, EmptySlot, Deny, LatchesOn, Idle
<1>4. CASE ReceiveProofUnreadable /\ Observe
  BY <1>4 DEF Observe, ReceiveProofUnreadable, Finish, EmptySlot, Idle
<1>5. CASE ReceiveUnexpected /\ Observe
  BY <1>5 DEF Observe, ReceiveUnexpected, Finish, EmptySlot, Idle
<1>6. CASE CheckFrame /\ Observe
  BY <1>6 DEF Observe, CheckFrame, Finish, EmptySlot, LatchesOn, Idle
<1>7. CASE OnHostHello /\ Observe
  BY <1>7 DEF Observe, OnHostHello, Finish, EmptySlot, Idle
<1>8. CASE Disconnect /\ Observe
  BY <1>8 DEF Observe, Disconnect, Finish, EmptySlot, Idle
<1>9. CASE Tick /\ Observe
  <2>1. failed' \in BOOLEAN
    BY <1>9 DEF Tick, LatchesOn
  <2> QED
    BY <1>9, <2>1 DEF Observe, Tick, Finish, EmptySlot, Idle
<1>10. CASE Approve /\ Observe
  BY <1>10 DEF Observe, Approve, Idle, Tapped, LiveApproval
<1>11. CASE Reject /\ Observe
  BY <1>11, SMTT(60) DEF Observe, Reject, Deny, Idle
<1>12. CASE TapTooLate /\ Observe
  BY <1>12 DEF Observe, TapTooLate, Finish, EmptySlot, Idle
<1>13. CASE ShowClients /\ Observe
  BY <1>13 DEF Observe, ShowClients, Registered, Idle
<1>14. CASE CloseDialogs /\ Observe
  BY <1>14 DEF Observe, CloseDialogs, Idle
<1>15. CASE (\E p \in Pc : Revoke(p)) /\ Observe
  <2>1. PICK p \in Pc : Revoke(p)
    BY <1>15
  <2>2. failed' \in BOOLEAN /\ ui' = Tapped("revoke", p, None)
    BY <2>1 DEF Revoke, LatchesOn
  <2>3. consent' \subseteq Pc /\ ui' \in UiState
    BY <1>15, <2>2 DEF Observe, Tapped, Idle
  <2> QED
    BY <1>15, <2>1, <2>2, <2>3, SMTT(60) DEF Observe, Revoke, Finish, EmptySlot
<1>16. CASE (\E p \in Pc : Renew(p)) /\ Observe
  BY <1>16 DEF Observe, Renew, Idle, Tapped
<1>17. CASE StoreRefused /\ Observe
  BY <1>17 DEF Observe, StoreRefused, Idle
<1>18. CASE StoreInvalid /\ Observe
  BY <1>18 DEF Observe, StoreInvalid, Idle
<1>19. CASE StoreUnchanged /\ Observe
  BY <1>19 DEF Observe, StoreUnchanged, Idle
<1>20. CASE Write /\ Observe
  <2>1. ui \in UiState \ {Idle} /\ ui' = [ui EXCEPT !.step = "written"]
    BY <1>20 DEF Write, Changes, Idle
  <2>2. disk' \in Records
    BY <1>20, <2>1, StoredInRecords DEF Write, Changes
  <2> QED
    BY <1>20, <2>1, <2>2 DEF Observe, Write, Idle
<1>21. CASE WriteFails /\ Observe
  <2>1. ui \in UiState \ {Idle} /\ ui' = [ui EXCEPT !.step = "failing"]
    BY <1>21 DEF WriteFails, Changes, Idle
  <2>2. disk' \in Records
    BY <1>21, <2>1, StoredInRecords DEF WriteFails, Changes
  <2> QED
    BY <1>21, <2>1, <2>2 DEF Observe, WriteFails, Idle
<1>22. CASE Publish /\ Observe
  BY <1>22 DEF Observe, Publish, Idle
<1>23. CASE StorageFails /\ Observe
  BY <1>23, SMTT(60) DEF Observe, StorageFails, Idle, Finish, EmptySlot
<1>24. CASE ApproveGrants /\ Observe
  BY <1>24, SMTT(60) DEF Observe, ApproveGrants, Idle, LiveApproval, Grant, EmptySlot, LatchesOn
<1>25. CASE ApproveEnded /\ Observe
  BY <1>25, SMTT(60) DEF Observe, ApproveEnded, Idle, Finish, EmptySlot
<1>26. CASE RecheckSession /\ Observe
  <2>1. failed' \in BOOLEAN
    BY <1>26 DEF RecheckSession, LatchesOn
  <2> QED
    BY <1>26, <2>1 DEF Observe, RecheckSession, Idle, Finish, EmptySlot
<1>27. CASE CloseOwner /\ Observe
  BY <1>27 DEF Observe, CloseOwner, Finish, EmptySlot, Idle
<1>28. CASE SetWallClock /\ Observe
  BY <1>28 DEF Observe, SetWallClock, Idle
<1>29. CASE AdvanceClock
  BY <1>29 DEF AdvanceClock, Less
<1>30. CASE Restart
  <2>1. consent' \subseteq Pc
    BY <1>30 DEF Restart, Idle
  <2>2. ui' \in UiState /\ healthy' \in BOOLEAN
    BY <1>30 DEF Restart
  <2>3. failed' \in BOOLEAN /\ closed' \in BOOLEAN /\ wall' \in Unix
    BY <1>30 DEF Restart
  <2>4. /\ disk' \in Records /\ clients' \in Records
        /\ revokedIds' \subseteq Pc /\ dialogs' \subseteq Pc
    BY <1>30 DEF Restart
  <2>5. /\ cooldown' \in 0 .. UNKNOWN_COOLDOWN /\ quiet' \in 0 .. UNKNOWN_COOLDOWN
        /\ active' \in SessionId \cup {None} /\ phase' \in Phases
        /\ deadline' \in Nat /\ candidate' \in Pc \cup {None}
    BY <1>30 DEF Restart, EmptySlot
  <2> QED
    BY <1>30, <2>1, <2>2, <2>3, <2>4, <2>5
<1>31. CASE UNCHANGED vars
  BY <1>31 DEF vars, history
<1> QED
  BY <1>1, <1>2, <1>3, <1>4, <1>5, <1>6, <1>7, <1>8, <1>9, <1>10, <1>11, <1>12, <1>13, <1>14, <1>15, <1>16, <1>17, <1>18, <1>19, <1>20, <1>21, <1>22, <1>23, <1>24, <1>25, <1>26, <1>27, <1>28, <1>29, <1>30, <1>31 DEF Next, TransportStep, UiStep

-----------------------------------------------------------------------------
(***************************************************************************)
(* The slot.                                                               *)
(***************************************************************************)
\* The slot is empty exactly when its phase says so, and after a failure.
LEMMA SlotStep ==
  ASSUME TypeOK, SlotInv, TapInv, FailClosed, [Next]_vars
  PROVE  SlotInv' /\ FailClosed'
<1> USE NoneAssumption DEF TypeOK, SlotInv, FailClosed, session, owner
<1>1. CASE \/ (Approve \/ ShowClients \/ CloseDialogs \/ (\E p \in Pc :
            Renew(p)) \/ StoreRefused \/ StoreInvalid \/ StoreUnchanged \/
            Write \/ WriteFails \/ Publish \/ SetWallClock) /\ Observe
          \/ AdvanceClock
          \/ UNCHANGED vars
  BY <1>1 DEF Approve, ShowClients, CloseDialogs, Renew, StoreRefused,
    StoreInvalid, StoreUnchanged, Write, Changes, WriteFails, Publish,
    SetWallClock, AdvanceClock, Less, vars, storage, screen, history
<1>2. CASE \/ (ReceiveProofUnreadable \/ ReceiveUnexpected \/ CheckFrame \/
            OnHostHello \/ Disconnect \/ Tick \/ TapTooLate \/ StorageFails
            \/ CloseOwner) /\ Observe
  BY <1>2 DEF ReceiveProofUnreadable, Finish, EmptySlot, ReceiveUnexpected,
    CheckFrame, OnHostHello, Disconnect, Tick, TapTooLate, StorageFails,
    CloseOwner
<1>3. CASE (\E s \in SessionId : OpenSession(s)) /\ Observe
  BY <1>3 DEF OpenSession
<1>4. CASE StartSession /\ Observe
  BY <1>4 DEF StartSession
<1>5. CASE (\E p \in Pc, genuine \in BOOLEAN : ReceiveProof(p, genuine)) /\
            Observe
  BY <1>5 DEF ReceiveProof, Grant, EmptySlot, Deny, LatchesOn
<1>6. CASE Reject /\ Observe
  BY <1>6 DEF Reject, Deny, LiveApproval
<1>7. CASE (\E p \in Pc : Revoke(p)) /\ Observe
  BY <1>7 DEF Revoke, Finish, EmptySlot
<1>8. CASE ApproveGrants /\ Observe
  <2>1. ui.pc \in Pc
    BY <1>8 DEF ApproveGrants, UiState, Idle
  <2> QED
    BY <1>8, <2>1 DEF ApproveGrants, Grant, EmptySlot, Passes, LatchesOn,
    LiveApproval
<1>9. CASE ApproveEnded /\ Observe
  BY <1>9 DEF ApproveEnded, Finish, EmptySlot
<1>10. CASE RecheckSession /\ Observe
  BY <1>10 DEF RecheckSession, Finish, EmptySlot
<1>11. CASE Restart
  BY <1>11 DEF Restart, EmptySlot
<1> QED
  BY <1>1, <1>2, <1>3, <1>4, <1>5, <1>6, <1>7, <1>8, <1>9, <1>10, <1>11 DEF
    Next, TransportStep, UiStep


\* Each frame is sent on a transition to the phase that allows it.
LEMMA ExchangeStep ==
  ASSUME TypeOK, FailClosed, ExchangeFollowsPhase, [Next]_vars
  PROVE  ExchangeFollowsPhase'
<1> USE AppendToOne, AppendToTwo DEF ExchangeFollowsPhase, FailClosed, session
<1>1. CASE \/ (Approve \/ ShowClients \/ CloseDialogs \/ (\E p \in Pc :
            Renew(p)) \/ StoreRefused \/ StoreInvalid \/ StoreUnchanged \/
            Write \/ WriteFails \/ Publish \/ SetWallClock) /\ Observe
          \/ AdvanceClock
          \/ UNCHANGED vars
  BY <1>1 DEF Approve, ShowClients, CloseDialogs, Renew, StoreRefused,
    StoreInvalid, StoreUnchanged, Write, Changes, WriteFails, Publish,
    SetWallClock, AdvanceClock, Less, vars, storage, owner, screen, history
<1>2. CASE \/ (ReceiveProofUnreadable \/ ReceiveUnexpected \/ CheckFrame \/
            OnHostHello \/ Disconnect \/ Tick \/ TapTooLate \/ StorageFails
            \/ CloseOwner) /\ Observe
  BY <1>2 DEF ReceiveProofUnreadable, Finish, EmptySlot, ReceiveUnexpected,
    CheckFrame, OnHostHello, Disconnect, Tick, TapTooLate, StorageFails,
    CloseOwner
<1>3. CASE (\E s \in SessionId : OpenSession(s)) /\ Observe
  BY <1>3 DEF OpenSession
<1>4. CASE StartSession /\ Observe
  BY <1>4 DEF StartSession
<1>5. CASE (\E p \in Pc, genuine \in BOOLEAN : ReceiveProof(p, genuine)) /\
            Observe
  BY <1>5 DEF ReceiveProof, Grant, EmptySlot, Deny
<1>6. CASE Reject /\ Observe
  BY <1>6 DEF Reject, Deny, LiveApproval
<1>7. CASE (\E p \in Pc : Revoke(p)) /\ Observe
  BY <1>7 DEF Revoke, Finish, EmptySlot
<1>8. CASE ApproveGrants /\ Observe
  BY <1>8, ZenonT(80) DEF ApproveGrants, Grant, EmptySlot, LiveApproval
<1>9. CASE ApproveEnded /\ Observe
  BY <1>9 DEF ApproveEnded, Finish, EmptySlot
<1>10. CASE RecheckSession /\ Observe
  BY <1>10 DEF RecheckSession, Finish, EmptySlot
<1>11. CASE Restart
  BY <1>11 DEF Restart, EmptySlot
<1> QED
  BY <1>1, <1>2, <1>3, <1>4, <1>5, <1>6, <1>7, <1>8, <1>9, <1>10, <1>11 DEF
    Next, TransportStep, UiStep

-----------------------------------------------------------------------------
(***************************************************************************)
(* The tap in progress, and the list behind its snapshot.                  *)
(***************************************************************************)
\* A tap keeps its session, its PC and its record until it ends.
LEMMA TapStep ==
  ASSUME TypeOK, SlotInv, FailClosed, LagInv, TapInv, [Next]_vars
  PROVE  TapInv'
<1> USE NoneAssumption DEF TypeOK, TapInv, storage, session, owner, screen
<1>1. CASE (\E s \in SessionId : OpenSession(s)) /\ Observe
  BY <1>1 DEF OpenSession, Observe, Idle
<1>2. CASE StartSession /\ Observe
  BY <1>2 DEF StartSession, Observe, Idle
<1>3. CASE (\E p \in Pc, genuine \in BOOLEAN : ReceiveProof(p, genuine)) /\
                 Observe
  BY <1>3 DEF ReceiveProof, Grant, EmptySlot, Deny, Observe, Idle
<1>4. CASE \/ (ReceiveProofUnreadable \/ ReceiveUnexpected \/ CheckFrame \/
                 OnHostHello \/ Disconnect \/ Tick) /\ Observe
  BY <1>4 DEF ReceiveProofUnreadable, Finish, EmptySlot, ReceiveUnexpected,
    CheckFrame, OnHostHello, Disconnect, Tick, Observe, Idle
<1>5. CASE Approve /\ Observe
  BY <1>5 DEF Approve, Observe, Tapped, Idle, LiveApproval, SlotInv
<1>6. CASE Reject /\ Observe
  BY <1>6 DEF Reject, Deny, Idle
<1>7. CASE \/ (TapTooLate \/ CloseOwner) /\ Observe
  BY <1>7 DEF TapTooLate, Finish, EmptySlot, CloseOwner, Idle
<1>8. CASE \/ (ShowClients \/ CloseDialogs \/ SetWallClock) /\ Observe
  BY <1>8 DEF ShowClients, CloseDialogs, SetWallClock, Observe, Idle
<1>9. CASE (\E p \in Pc : Revoke(p)) /\ Observe
  BY <1>9 DEF Revoke, Finish, EmptySlot, Idle, Tapped
<1>10. CASE (\E p \in Pc : Renew(p)) /\ Observe
  BY <1>10 DEF Renew, Idle, Tapped
<1>11. CASE StoreRefused /\ Observe
  BY <1>11 DEF StoreRefused, Idle
<1>12. CASE StoreInvalid /\ Observe
  BY <1>12 DEF StoreInvalid, Idle, UiState, Observe
<1>13. CASE StoreUnchanged /\ Observe
  BY <1>13 DEF StoreUnchanged, Idle, UiState, Observe
<1>14. CASE \/ (Write \/ WriteFails) /\ Observe
  BY <1>14 DEF Write, Changes, WriteFails, Idle, UiState, Observe
<1>15. CASE Publish /\ Observe
  BY <1>15 DEF Publish, Idle, UiState, Observe, LagInv
<1>16. CASE \/ (StorageFails \/ ApproveGrants \/ ApproveEnded \/
                 RecheckSession) /\ Observe
  BY <1>16 DEF StorageFails, Finish, EmptySlot, ApproveGrants, Grant,
    ApproveEnded, RecheckSession, Idle
<1>17. CASE \/ AdvanceClock
          \/ UNCHANGED vars
  BY <1>17 DEF AdvanceClock, Less, vars, history
<1>18. CASE Restart
  BY <1>18 DEF Restart, EmptySlot, Idle
<1> QED
  BY <1>1, <1>2, <1>3, <1>4, <1>5, <1>6, <1>7, <1>8, <1>9, <1>10, <1>11,
    <1>12, <1>13, <1>14, <1>15, <1>16, <1>17, <1>18 DEF Next, TransportStep,
    UiStep


\* The snapshot and the disk differ only by the write in progress.
LEMMA LagStep ==
  ASSUME TypeOK, LagInv, [Next]_vars
  PROVE  LagInv'
<1> USE NoneAssumption, RecordsAssumption DEF TypeOK, LagInv, Records, storage, screen
<1>1. CASE \/ ((\E s \in SessionId : OpenSession(s)) \/ StartSession \/
                 Approve \/ Reject \/ TapTooLate \/ ShowClients \/
                 CloseDialogs \/ (\E p \in Pc : Renew(p)) \/ CloseOwner \/
                 SetWallClock) /\ Observe
          \/ AdvanceClock
          \/ UNCHANGED vars
  BY <1>1 DEF OpenSession, StartSession, Approve, Reject, Deny, TapTooLate,
    Finish, EmptySlot, ShowClients, CloseDialogs, Renew, CloseOwner,
    SetWallClock, AdvanceClock, Less, vars, session, owner, history, Idle,
    Tapped
<1>2. CASE (\E p \in Pc, genuine \in BOOLEAN : ReceiveProof(p, genuine)) /\
                 Observe
  BY <1>2 DEF ReceiveProof, Grant, EmptySlot, Deny, LatchesOn
<1>3. CASE \/ (ReceiveProofUnreadable \/ ReceiveUnexpected \/ CheckFrame \/
                 OnHostHello \/ Disconnect \/ Tick) /\ Observe
  BY <1>3 DEF ReceiveProofUnreadable, Finish, EmptySlot, ReceiveUnexpected,
    CheckFrame, OnHostHello, Disconnect, Tick, owner
<1>4. CASE (\E p \in Pc : Revoke(p)) /\ Observe
  BY <1>4 DEF Revoke, Finish, EmptySlot, Idle, Tapped
<1>5. CASE StoreRefused /\ Observe
  BY <1>5 DEF StoreRefused, Idle, owner
<1>6. CASE \/ (StoreInvalid \/ StoreUnchanged) /\ Observe
  BY <1>6 DEF StoreInvalid, StoreUnchanged, UiState, Idle, owner
<1>7. CASE Write /\ Observe
  BY <1>7 DEF Write, Changes, Stored, UiState, Idle, Unix
<1>8. CASE WriteFails /\ Observe
  BY <1>8 DEF WriteFails, Changes, UiState, Idle
<1>9. CASE Publish /\ Observe
  BY <1>9 DEF Publish, UiState, Idle, owner
<1>10. CASE \/ (StorageFails \/ ApproveGrants \/ ApproveEnded \/
                 RecheckSession) /\ Observe
  BY <1>10 DEF StorageFails, Finish, EmptySlot, ApproveGrants, Grant,
    ApproveEnded, RecheckSession, Idle, UiState
<1>11. CASE Restart
  BY <1>11 DEF Restart, EmptySlot, Idle
<1> QED
  BY <1>1, <1>2, <1>3, <1>4, <1>5, <1>6, <1>7, <1>8, <1>9, <1>10, <1>11 DEF
    Next, TransportStep, UiStep

-----------------------------------------------------------------------------
(***************************************************************************)
(* Consent, durability and the rate limit.                                 *)
(***************************************************************************)
\* A grant needs a record, and a record needs a tap.
LEMMA GrantStep ==
  ASSUME TypeOK, SlotInv, TapInv, LagInv, FailClosed,
         ConsentBehindEveryGrant, GrantIsDurable, DiskHoldsConsent, [Next]_vars
  PROVE  ConsentBehindEveryGrant' /\ GrantIsDurable'
<1> USE NoneAssumption DEF TypeOK, ConsentBehindEveryGrant, GrantIsDurable, storage, session, owner, screen
<1>1. CASE \/ ((\E s \in SessionId : OpenSession(s)) \/ StartSession \/
                 Reject \/ TapTooLate \/ CloseOwner \/ StorageFails) /\
                 Observe
  BY <1>1 DEF OpenSession, StartSession, Reject, Deny, TapTooLate, Finish,
    EmptySlot, CloseOwner, StorageFails
<1>2. CASE (\E p \in Pc, genuine \in BOOLEAN : ReceiveProof(p, genuine)) /\
                 Observe
  <2>1. PICK p \in Pc, genuine \in BOOLEAN : ReceiveProof(p, genuine)
    BY <1>2
  <2>2. consent' = consent /\ disk' = disk /\ clients' = clients
    BY <1>2 DEF ReceiveProof, Observe, Idle
  <2>3. SUFFICES ASSUME phase' = "AUTHORIZED"
                 PROVE  candidate' \in consent /\ disk[candidate'] # None
                        /\ clients[candidate'] # None
                        /\ candidate' \notin revokedIds'
    BY <2>2
  <2>4. candidate' = p /\ p \notin revokedIds /\ clients[p] # None
        /\ revokedIds' = revokedIds /\ healthy
    BY <2>1, <2>3 DEF ReceiveProof, Grant, EmptySlot, Deny, Passes, Valid
  <2>5. disk[p] # None /\ p \in consent
    BY <2>4 DEF LagInv, TapInv, DiskHoldsConsent, UiState, Idle
  <2> QED
    BY <2>4, <2>5
<1>3. CASE \/ (ReceiveProofUnreadable \/ ReceiveUnexpected \/ CheckFrame \/
                 OnHostHello \/ Disconnect \/ Tick) /\ Observe
  BY <1>3 DEF ReceiveProofUnreadable, Finish, EmptySlot, ReceiveUnexpected,
    CheckFrame, OnHostHello, Disconnect, Tick
<1>4. CASE Approve /\ Observe
  BY <1>4 DEF Approve, Observe, Idle, Tapped
<1>5. CASE \/ (ShowClients \/ CloseDialogs \/ SetWallClock) /\ Observe
  BY <1>5 DEF ShowClients, CloseDialogs, SetWallClock, Observe, Idle
<1>6. CASE (\E p \in Pc : Revoke(p)) /\ Observe
  BY <1>6 DEF Revoke, Finish, EmptySlot, Observe, Idle, Tapped, Passes
<1>7. CASE (\E p \in Pc : Renew(p)) /\ Observe
  BY <1>7 DEF Renew, Observe, Idle, Tapped
<1>8. CASE \/ (StoreRefused \/ StoreInvalid \/ StoreUnchanged) /\ Observe
  BY <1>8 DEF StoreRefused, StoreInvalid, StoreUnchanged, Observe, Idle
<1>9. CASE Write /\ Observe
  BY <1>9 DEF Write, Changes, Observe, Idle, Stored, TapInv, UiState, Unix
<1>10. CASE WriteFails /\ Observe
  BY <1>10 DEF WriteFails, Changes, Observe, Idle, Stored, TapInv, UiState,
    Unix, Records
<1>11. CASE Publish /\ Observe
  BY <1>11 DEF Publish, Observe, Idle
<1>12. CASE ApproveGrants /\ Observe
  BY <1>12 DEF ApproveGrants, Grant, EmptySlot, Observe, Idle, Passes, Valid,
    LiveApproval, TapInv, LagInv
<1>13. CASE ApproveEnded /\ Observe
  BY <1>13 DEF ApproveEnded, Finish, EmptySlot, Observe, Idle
<1>14. CASE RecheckSession /\ Observe
  BY <1>14 DEF RecheckSession, Finish, EmptySlot, Observe, Idle
<1>15. CASE \/ AdvanceClock
          \/ UNCHANGED vars
  BY <1>15 DEF AdvanceClock, Less, vars, history
<1>16. CASE Restart
  BY <1>16 DEF Restart, EmptySlot
<1> QED
  BY <1>1, <1>2, <1>3, <1>4, <1>5, <1>6, <1>7, <1>8, <1>9, <1>10, <1>11,
    <1>12, <1>13, <1>14, <1>15, <1>16 DEF Next, TransportStep, UiStep


\* Every write is a tap's, so the disk follows the user's decisions.
LEMMA DiskStep ==
  ASSUME TypeOK, TapInv, LagInv, DiskHoldsConsent, [Next]_vars
  PROVE  DiskHoldsConsent'
<1> USE NoneAssumption DEF TypeOK, DiskHoldsConsent, storage, screen
<1>1. CASE \/ ((\E s \in SessionId : OpenSession(s)) \/ StartSession \/ (\E p
                 \in Pc, genuine \in BOOLEAN : ReceiveProof(p, genuine)) \/
                 ReceiveProofUnreadable \/ ReceiveUnexpected \/ CheckFrame \/
                 OnHostHello \/ Disconnect \/ Tick \/ Reject \/ TapTooLate \/
                 CloseOwner \/ SetWallClock) /\ Observe
  BY <1>1 DEF OpenSession, StartSession, ReceiveProof, Grant, EmptySlot,
    Deny, ReceiveProofUnreadable, Finish, ReceiveUnexpected, CheckFrame,
    OnHostHello, Disconnect, Tick, Reject, TapTooLate, CloseOwner,
    SetWallClock, Observe, Idle
<1>2. CASE \/ (ShowClients \/ CloseDialogs) /\ Observe
  BY <1>2 DEF ShowClients, CloseDialogs, Observe, Idle
<1>3. CASE Approve /\ Observe
  BY <1>3 DEF Approve, Observe, Idle, Tapped
<1>4. CASE (\E p \in Pc : Revoke(p)) /\ Observe
  BY <1>4 DEF Revoke, Finish, EmptySlot, Observe, Idle, Tapped
<1>5. CASE (\E p \in Pc : Renew(p)) /\ Observe
  BY <1>5 DEF Renew, Observe, Idle, Tapped
<1>6. CASE StoreRefused /\ Observe
  BY <1>6 DEF StoreRefused, Observe, Idle
<1>7. CASE \/ (StoreInvalid \/ StoreUnchanged) /\ Observe
  BY <1>7 DEF StoreInvalid, StoreUnchanged, Observe, Idle, UiState
<1>8. CASE Write /\ Observe
  BY <1>8 DEF Write, Changes, Observe, Idle, UiState, Stored, CanStore,
    TapInv, LagInv
<1>9. CASE WriteFails /\ Observe
  <2>1. ui.step = "store" /\ ui # Idle /\ ui.pc \in Pc /\ healthy
    BY <1>9 DEF WriteFails, Changes, Idle, UiState, LagInv
  <2>2. clients = disk /\ consent' = consent /\ ui'.op = ui.op /\ ui'.pc =
    ui.pc
    BY <1>9, <2>1 DEF WriteFails, Observe, Idle, LagInv, UiState
  <2>3. \A p \in Pc : p # ui.pc => disk'[p] = disk[p]
    BY <1>9, <2>1, <2>2 DEF WriteFails, Stored, Records
  <2>4. ui.op # "revoke" => ui.pc \in consent
    BY <1>9, <2>1, <2>2 DEF WriteFails, Changes, CanStore, TapInv, UiState,
    Idle
  <2> QED
    BY <2>1, <2>2, <2>3, <2>4
<1>10. CASE Publish /\ Observe
  BY <1>10 DEF Publish, Observe, Idle
<1>11. CASE StorageFails /\ Observe
  BY <1>11 DEF StorageFails, Finish, EmptySlot, Observe, Idle, UiState
<1>12. CASE \/ (ApproveGrants \/ ApproveEnded) /\ Observe
  BY <1>12 DEF ApproveGrants, Grant, EmptySlot, ApproveEnded, Finish,
    Observe, Idle
<1>13. CASE RecheckSession /\ Observe
  BY <1>13 DEF RecheckSession, Finish, EmptySlot, Observe, Idle, UiState,
    LagInv
<1>14. CASE \/ AdvanceClock
          \/ UNCHANGED vars
  BY <1>14 DEF AdvanceClock, Less, vars, session, owner, history
<1>15. CASE Restart
  BY <1>15 DEF Restart, EmptySlot
<1> QED
  BY <1>1, <1>2, <1>3, <1>4, <1>5, <1>6, <1>7, <1>8, <1>9, <1>10, <1>11,
    <1>12, <1>13, <1>14, <1>15 DEF Next, TransportStep, UiStep


\* Whatever ends a prompt without a record starts the cooldown.
LEMMA CooldownStep ==
  ASSUME TypeOK, SlotInv, TapInv, FailClosed, CooldownInv, [Next]_vars
  PROVE  CooldownInv'
<1> USE TimeoutsAssumption DEF TypeOK, CooldownInv, session, owner
<1>1. CASE \/ ((\E s \in SessionId : OpenSession(s)) \/ StartSession) /\
                 Observe
  BY <1>1 DEF OpenSession, StartSession, Observe, FailClosed
<1>2. CASE (\E p \in Pc, genuine \in BOOLEAN : ReceiveProof(p, genuine)) /\
                 Observe
  BY <1>2 DEF ReceiveProof, Grant, EmptySlot, Deny, Observe
<1>3. CASE \/ (ReceiveProofUnreadable \/ ReceiveUnexpected \/ CheckFrame \/
                 OnHostHello \/ Disconnect \/ Tick \/ TapTooLate \/
                 CloseOwner \/ StorageFails) /\ Observe
  BY <1>3 DEF ReceiveProofUnreadable, Finish, EmptySlot, ReceiveUnexpected,
    CheckFrame, OnHostHello, Disconnect, Tick, TapTooLate, CloseOwner,
    StorageFails, Observe
<1>4. CASE Reject /\ Observe
  BY <1>4 DEF Reject, Deny, Observe
<1>5. CASE \/ (Approve \/ ShowClients \/ CloseDialogs \/ (\E p \in Pc :
                 Renew(p)) \/ StoreRefused \/ StoreInvalid \/ StoreUnchanged
                 \/ Write \/ WriteFails \/ Publish \/ SetWallClock) /\ Observe
  BY <1>5 DEF Approve, ShowClients, CloseDialogs, Renew, StoreRefused,
    StoreInvalid, StoreUnchanged, Write, Changes, WriteFails, Publish,
    SetWallClock, Observe
<1>6. CASE (\E p \in Pc : Revoke(p)) /\ Observe
  BY <1>6 DEF Revoke, Finish, EmptySlot, Observe
<1>7. CASE ApproveGrants /\ Observe
  BY <1>7 DEF ApproveGrants, Grant, EmptySlot, Observe, LiveApproval, TapInv,
    UiState, Idle
<1>8. CASE ApproveEnded /\ Observe
  BY <1>8 DEF ApproveEnded, Finish, EmptySlot, Observe
<1>9. CASE RecheckSession /\ Observe
  BY <1>9 DEF RecheckSession, Finish, EmptySlot, Observe
<1>10. CASE AdvanceClock
  BY <1>10 DEF AdvanceClock, Less
<1>11. CASE UNCHANGED vars
  BY <1>11 DEF vars, storage, screen, history
<1>12. CASE Restart
  BY <1>12 DEF Restart, EmptySlot
<1> QED
  BY <1>1, <1>2, <1>3, <1>4, <1>5, <1>6, <1>7, <1>8, <1>9, <1>10, <1>11,
    <1>12 DEF Next, TransportStep, UiStep

\* A record added below capacity, replaced or removed keeps the list within it.
LEMMA StoredWithinCapacity ==
  ASSUME TypeOK, CapacityInv, ui # Idle, CanStore(ui.op, ui.pc)
  PROVE  /\ IsFiniteSet(Registered(Stored(ui.op, ui.pc)))
         /\ Cardinality(Registered(Stored(ui.op, ui.pc))) <= MAX_CLIENTS
<1> DEFINE next == Stored(ui.op, ui.pc)
           old  == Registered(clients)
<1>1. ui.op \in {"approve", "renew", "revoke"} /\ ui.pc \in Pc
  BY DEF TypeOK, UiState
<1>2. wall # None
  BY NoneAssumption DEF TypeOK, Unix
<1>3. IsFiniteSet(old) /\ Cardinality(old) \in Nat /\ Cardinality(old) <= MAX_CLIENTS
  BY FS_CardinalityType DEF CapacityInv, ListWithinCapacity
<1>4. CASE ui.op = "revoke"
  <2>1. Registered(next) = old \ {ui.pc}
    BY <1>1, <1>4 DEF Registered, Stored, TypeOK, Records
  <2>2. IsFiniteSet(Registered(next)) /\ Cardinality(Registered(next)) <= Cardinality(old)
    BY <1>3, <2>1, FS_RemoveElement, FS_Subset
  <2> QED
    BY <1>3, <2>2, FS_CardinalityType, RecordsAssumption
<1>5. CASE ui.op # "revoke" /\ clients[ui.pc] # None
  <2>1. Registered(next) = old
    BY <1>1, <1>2, <1>5 DEF Registered, Stored, TypeOK, Records
  <2> QED
    BY <1>3, <2>1
<1>6. CASE ui.op # "revoke" /\ clients[ui.pc] = None
  <2>1. Cardinality(old) + 1 <= MAX_CLIENTS
    BY <1>1, <1>3, <1>6, RecordsAssumption DEF CanStore, Full
  <2>2. Registered(next) = old \cup {ui.pc} /\ ui.pc \notin old
    BY <1>1, <1>2, <1>6 DEF Registered, Stored, TypeOK, Records
  <2>3. IsFiniteSet(Registered(next)) /\ Cardinality(Registered(next)) = Cardinality(old) + 1
    BY <1>3, <2>2, FS_AddElement
  <2> QED
    BY <2>1, <2>3
<1> QED
  BY <1>4, <1>5, <1>6

\* Whatever the prompt was decided against, the store decides again.
LEMMA CapacityStep ==
  ASSUME TypeOK, CapacityInv, [Next]_vars
  PROVE  CapacityInv'
<1> USE DEF CapacityInv, ListWithinCapacity, storage
<1>1. CASE \/ ((\E s \in SessionId : OpenSession(s)) \/ StartSession \/ (\E p
                 \in Pc, genuine \in BOOLEAN : ReceiveProof(p, genuine)) \/
                 ReceiveProofUnreadable \/ ReceiveUnexpected \/ CheckFrame \/
                 OnHostHello \/ Disconnect \/ Tick \/ Reject \/ TapTooLate \/
                 CloseOwner \/ SetWallClock \/ Approve \/ ShowClients \/
                 CloseDialogs \/ (\E p \in Pc : Revoke(p)) \/ (\E p \in Pc :
                 Renew(p)) \/ StoreRefused \/ StoreInvalid \/ StoreUnchanged
                 \/ StorageFails \/ ApproveGrants \/ ApproveEnded \/
                 RecheckSession) /\ Observe
          \/ AdvanceClock
          \/ UNCHANGED vars
  BY <1>1 DEF OpenSession, StartSession, ReceiveProof, Grant, EmptySlot,
    Deny, ReceiveProofUnreadable, Finish, ReceiveUnexpected, CheckFrame,
    OnHostHello, Disconnect, Tick, Reject, TapTooLate, CloseOwner,
    SetWallClock, Approve, ShowClients, CloseDialogs, Revoke, Renew,
    StoreRefused, StoreInvalid, StoreUnchanged, StorageFails, ApproveGrants,
    ApproveEnded, RecheckSession, AdvanceClock, Less, vars, session, owner,
    screen, history
<1>2. CASE Write /\ Observe
  <2>1. ui # Idle /\ CanStore(ui.op, ui.pc)
    BY <1>2 DEF Write, Changes, Idle
  <2> QED
    BY <1>2, <2>1, StoredWithinCapacity DEF Write
<1>3. CASE WriteFails /\ Observe
  <2>1. ui # Idle /\ CanStore(ui.op, ui.pc)
    BY <1>3 DEF WriteFails, Changes, Idle
  <2> QED
    BY <1>3, <2>1, StoredWithinCapacity DEF WriteFails
<1>4. CASE \/ (Publish) /\ Observe
          \/ Restart
  BY <1>4 DEF Publish, Restart, EmptySlot
<1> QED
  BY <1>1, <1>2, <1>3, <1>4 DEF Next, TransportStep, UiStep

-----------------------------------------------------------------------------
(***************************************************************************)
(* The theorems.                                                           *)
(***************************************************************************)
\* A new owner over an empty list satisfies the invariant.
LEMMA InitInv ==
  ASSUME Init
  PROVE  IInv
<1> USE TimeoutsAssumption, RecordsAssumption, NoneAssumption
<1>1. TypeOK
  <2>1. disk \in Records /\ clients \in Records
    BY DEF Init, Records
  <2>2. healthy \in BOOLEAN /\ failed \in BOOLEAN /\ closed \in BOOLEAN
    BY DEF Init
  <2>3. ui \in UiState /\ phase \in Phases /\ wall \in Unix
    BY DEF Init, UiState, Phases
  <2> QED
    BY <2>1, <2>2, <2>3 DEF Init, TypeOK
<1>2. Registered(disk) = {} /\ Registered(clients) = {}
  BY DEF Init, Registered
<1>3. CapacityInv
  BY <1>2, FS_EmptySet DEF CapacityInv, ListWithinCapacity
<1> QED
  BY <1>1, <1>3 DEF Init, IInv, SlotInv, TapInv, LagInv, CooldownInv, Idle,
     FailClosed, ExchangeFollowsPhase, ConsentBehindEveryGrant, GrantIsDurable,
     DiskHoldsConsent

\* Every step of every thread preserves it.
LEMMA NextInv ==
  ASSUME IInv, [Next]_vars
  PROVE  IInv'
<1> USE DEF IInv
<1>1. TypeOK'
  BY TypeStep
<1>2. SlotInv' /\ FailClosed'
  BY SlotStep
<1>3. ExchangeFollowsPhase'
  BY ExchangeStep
<1>4. TapInv' /\ LagInv'
  BY TapStep, LagStep
<1>5. ConsentBehindEveryGrant' /\ GrantIsDurable' /\ DiskHoldsConsent'
  BY GrantStep, DiskStep
<1>6. CooldownInv' /\ CapacityInv'
  BY CooldownStep, CapacityStep
<1> QED
  BY <1>1, <1>2, <1>3, <1>4, <1>5, <1>6

\* The inductive invariant holds in every reachable state.
THEOREM Inductive == Spec => []IInv
<1>1. Init => IInv
  BY InitInv
<1>2. IInv /\ [Next]_vars => IInv'
  BY NextInv
<1> QED
  BY <1>1, <1>2, PTL DEF Spec

\* Every variable keeps its type, and every record an expiry within 32 bits,
\* whatever the threads interleave and the clocks read.
THEOREM TypeCorrectness == Spec => []TypeOK
<1>1. IInv => TypeOK
  BY DEF IInv
<1> QED
  BY <1>1, Inductive, PTL

\* An authorized session always has the user's consent behind it: a revocation
\* counts from the tap, before its write (PhoneAuthorization.revoke).
THEOREM Consent == Spec => []ConsentBehindEveryGrant
<1>1. IInv => ConsentBehindEveryGrant
  BY DEF IInv
<1> QED
  BY <1>1, Inductive, PTL

\* A grant is never ahead of the disk, nor shadowed by a revocation
\* (PhoneAuthorization.approve, ClientRepository.publish).
THEOREM DurableGrants == Spec => []GrantIsDurable
<1>1. IInv => GrantIsDurable
  BY DEF IInv
<1> QED
  BY <1>1, Inductive, PTL

\* The disk never holds a PC that the user has not allowed, so neither a crash
\* between the record and the snapshot nor a restart brings one back
\* (ClientRepository.publish, load).
THEOREM DiskConsent == Spec => []DiskHoldsConsent
<1>1. IInv => DiskHoldsConsent
  BY DEF IInv
<1> QED
  BY <1>1, Inductive, PTL

\* The list holds at most MAX_CLIENTS records on disk and in memory, for every
\* number of PCs (ClientAuthorization.approve).
THEOREM Capacity == Spec => []ListWithinCapacity
<1>1. IInv => ListWithinCapacity
  BY DEF IInv, CapacityInv
<1> QED
  BY <1>1, Inductive, PTL

\* The frames of a session follow its phase, and no session outlives a failure
\* of the storage or the closing of the owner.
THEOREM Exchange == Spec => [](ExchangeFollowsPhase /\ FailClosed)
<1>1. IInv => ExchangeFollowsPhase /\ FailClosed
  BY DEF IInv
<1> QED
  BY <1>1, Inductive, PTL

\* No prompt appears before the whole cooldown has passed since one ended
\* unanswered, whoever ended it (PhoneAuthorization.finish, reject).
THEOREM RateLimit == Spec => PromptRateLimit
<1>1. ASSUME IInv, [Next]_vars, phase # "PENDING", phase' = "PENDING"
      PROVE  quiet = UNKNOWN_COOLDOWN
  <2>1. cooldown = 0
    BY <1>1 DEF Next, TransportStep, UiStep, OpenSession, StartSession,
       ReceiveProof, Grant, EmptySlot, Deny, ReceiveProofUnreadable, Finish,
       ReceiveUnexpected, CheckFrame, OnHostHello, Disconnect, Tick, Approve,
       Reject, TapTooLate, ShowClients, CloseDialogs, Revoke, Renew,
       StoreRefused, StoreInvalid, StoreUnchanged, Write, WriteFails, Publish,
       StorageFails, ApproveGrants, ApproveEnded, RecheckSession, CloseOwner,
       SetWallClock, AdvanceClock, Restart, vars, session
  <2> QED
    BY <1>1, <2>1, TimeoutsAssumption DEF IInv, CooldownInv, TypeOK
<1>2. IInv /\ [Next]_vars
      => [phase # "PENDING" /\ phase' = "PENDING" => quiet = UNKNOWN_COOLDOWN]_vars
  BY <1>1
<1> QED
  BY <1>2, Inductive, PTL DEF Spec, PromptRateLimit

\* Only the tap on a prompt turns it into a grant (requireLiveApproval).
THEOREM LateTaps == Spec => LateTapStaysOnItsPrompt
<1> DEFINE Tapped1 == /\ ui.op = "approve" /\ ui.session = active
                      /\ candidate' = ui.pc /\ candidate' = candidate
<1>1. ASSUME IInv, [Next]_vars, phase = "PENDING", phase' = "AUTHORIZED"
      PROVE  Tapped1
  <2>1. ApproveGrants
    BY <1>1 DEF Next, TransportStep, UiStep, OpenSession, StartSession,
       ReceiveProof, ReceiveProofUnreadable, Finish, EmptySlot, Deny,
       ReceiveUnexpected, CheckFrame, OnHostHello, Disconnect, Tick, Approve,
       Reject, TapTooLate, ShowClients, CloseDialogs, Revoke, Renew,
       StoreRefused, StoreInvalid, StoreUnchanged, Write, WriteFails, Publish,
       StorageFails, ApproveEnded, RecheckSession, CloseOwner,
       SetWallClock, AdvanceClock, Restart, vars, session
  <2> QED
    BY <1>1, <2>1 DEF ApproveGrants, Grant, EmptySlot, LiveApproval, IInv, TapInv
<1>2. IInv /\ [Next]_vars
      => [phase = "PENDING" /\ phase' = "AUTHORIZED" => Tapped1]_vars
  BY <1>1
<1> QED
  BY <1>2, Inductive, PTL DEF Spec, LateTapStaysOnItsPrompt
=============================================================================
