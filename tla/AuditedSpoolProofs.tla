------------------------- MODULE AuditedSpoolProofs -------------------------
(***************************************************************************)
(* Proofs about AuditedSpool for every set of requests and every choice of *)
(* which of them carry the same bytes.                                     *)
(***************************************************************************)
EXTENDS AuditedSpool, SpoolProofs

USE RequestsAssumption, DigestAssumption, AuditSettingsAssumption
USE DEF diskVars, requestVars, spoolVars, forwardVars, worldVars,
        memoryVars, vars, auditVars

\* Seen from the spool, a step is one of a call, one of the forwarder, one of the
\* process, or none.
LEMMA AuditStepKinds ==
    ASSUME [AuditNext]_<<vars, auditVars>>
    PROVE  \/ \E r \in Requests : EnqueueRuns(r)
           \/ Forwarder \/ ForwarderFaults
           \/ Cancel \/ Exit \/ Crash \/ PowerLoss \/ Restart
           \/ UNCHANGED vars
<1>1. CASE Deliver \/ SkipDelivery
  BY <1>1 DEF Deliver, SkipDelivery
<1>2. CASE DeliverFails \/ AuditWrite \/ AuditWriteFails \/ OnDead
  BY <1>2 DEF DeliverFails, AuditWrite, AuditWriteFails, OnDead, Forwarder
<1>3. CASE OtherForwarderSteps
  BY <1>3 DEF OtherForwarderSteps, Forwarder
<1>4. CASE ProcessEnds \/ ProcessSteps
  BY <1>4 DEF ProcessEnds, ProcessSteps
<1>5. CASE UNCHANGED <<vars, auditVars>>
  BY <1>5
<1> QED
  BY <1>1, <1>2, <1>3, <1>4, <1>5 DEF AuditNext

\* The callback never takes the spool where a plain forward callback could not.
LEMMA AuditStepIsSpoolStep ==
    ASSUME [AuditNext]_<<vars, auditVars>>
    PROVE  [Next]_vars
BY AuditStepKinds DEF EnqueueRuns, Next

\* The audited forwarder implements the spool, so that everything proved of the
\* spool for an arbitrary forward callback holds of the one main installs.
THEOREM AuditRefinesSpool == AuditSpec => ImplementsSpool
<1>1. AuditInit => Init
  BY DEF AuditInit
<1> QED
  BY <1>1, AuditStepIsSpoolStep, PTL DEF AuditSpec, ImplementsSpool, Spec

\* In particular, a signal whose Enqueue returned nil is not lost by the audit
\* bookkeeping, the skipped redeliveries included.
THEOREM AuditedNeverLost ==
    ASSUME Durable
    PROVE  AuditSpec => []AckedNeverLost
BY AuditRefinesSpool, AcceptedNeverLost, PTL DEF ImplementsSpool

-----------------------------------------------------------------------------
(* Type correctness *)

LEMMA HeadDigest ==
    ASSUME TypeOK, fpc \in WithHead
    PROVE  head \in Requests /\ Digest[head] \in Digests
BY DEF TypeOK, Digests

LEMMA AuditStepTypes ==
    ASSUME TypeOK, AuditTypeOK, [AuditNext]_<<vars, auditVars>>
    PROVE  AuditTypeOK'
<1> USE DEF AuditTypeOK
<1>1. CASE \E r \in Requests : EnqueueRuns(r)
  <2>1. UNCHANGED <<fpc, head, auditVars>>
    BY <1>1 DEF EnqueueRuns, Enqueue, EnqueueSteps, EnqueueFaults, Reserve, RejectFull,
       CreateTemp, FillTemp, Commit, Undo, Nudge, SyncDir, RecordDirFsyncSuccess,
       RecordDirFsyncFailure, WriteTempFails, CommitFails, SyncDirFails, Passes, Call
  <2> QED
    BY <2>1 DEF Digests
<1>2. CASE Deliver
  <2>1. head \in Requests /\ Digest[head] \in Digests
    BY <1>2, HeadDigest DEF Deliver, AtDelivery, WithHead
  <2> QED
    BY <1>2, <2>1 DEF Deliver, AtDelivery, Digests
<1>3. CASE SkipDelivery
  BY <1>3 DEF SkipDelivery, AtDelivery, Matches, Digests
<1>4. CASE DeliverFails
  BY <1>4 DEF DeliverFails, AtDelivery, ForwardRetryable, ForwardPermanent, Moves, Forwards,
     Digests
<1>5. CASE AuditWrite
  <2>1. head \in Requests /\ Digest[head] \in Digests
    BY <1>5, HeadDigest DEF AuditWrite, AtAudit, WithHead
  <2>2. records' \in [Digests' -> Nat]
    BY <1>5, <2>1 DEF AuditWrite, Digests
  <2>3. auditing' = FALSE /\ auditing' \in BOOLEAN
    BY <1>5 DEF AuditWrite
  <2> QED
    BY <1>5, <2>2, <2>3 DEF AuditWrite, Digests
<1>6. CASE AuditWriteFails
  <2>1. auditing' = FALSE /\ auditing' \in BOOLEAN
    BY <1>6 DEF AuditWriteFails
  <2>2. auditFailures' \in 0 .. MaxAuditCount
    BY <1>6 DEF AuditWriteFails
  <2> QED
    BY <1>6, <2>1, <2>2 DEF AuditWriteFails, Digests
<1>7. CASE OnDead
  BY <1>7 DEF OnDead, FinishDead, Forwards, Digests
<1>8. CASE OtherForwarderSteps
  <2>1. fpc # "forward"
    BY <1>8 DEF OtherForwarderSteps, ListPending, ListEmpty, ReadFile, Bury, Remove,
       FinishDelivered, WakeUp, TimerFires, Stop, ForwarderFaults, ListFails, ReadFails,
       BuryFails, RemoveFails, Moves, Forwards
  <2> QED
    BY <1>8, <2>1 DEF OtherForwarderSteps, Digests
<1>9. CASE ProcessEnds
  <2>1. auditing' = FALSE /\ auditing' \in BOOLEAN
    BY <1>9 DEF ProcessEnds
  <2> QED
    BY <1>9, <2>1 DEF ProcessEnds, Digests
<1>10. CASE ProcessSteps
  BY <1>10 DEF ProcessSteps, Cancel, Restart, Digests
<1>11. CASE UNCHANGED <<vars, auditVars>>
  BY <1>11 DEF Digests
<1> QED
  BY <1>1, <1>2, <1>3, <1>4, <1>5, <1>6, <1>7, <1>8, <1>9, <1>10, <1>11 DEF AuditNext

\* The types of the audit bookkeeping; past a confirmed delivery the guard holds
\* the digest of the signal at hand.
THEOREM AuditTypeCorrect == AuditSpec => []AuditTypeOK
<1>1. ASSUME AuditInit PROVE AuditTypeOK
  <2>1. auditing = FALSE /\ auditing \in BOOLEAN
    BY <1>1 DEF AuditInit
  <2>2. confirmed \in [Requests -> Nat] /\ records \in [Digests -> Nat]
    BY <1>1 DEF AuditInit
  <2> QED
    BY <1>1, <2>1, <2>2 DEF AuditInit, AuditTypeOK
<1>2. AuditSpec => []TypeOK
  BY AuditRefinesSpool, TypeCorrect, PTL DEF ImplementsSpool
<1> QED
  BY <1>1, <1>2, AuditStepTypes, PTL DEF AuditSpec

-----------------------------------------------------------------------------
(* The audit trail *)

\* A set Cardinality of which is compared with the lines of the audit log.
DeliveredWith(d) == {r \in delivered : Digest[r] = d}

LEMMA OneMoreDelivered ==
    ASSUME TypeOK, NEW h \in Requests, NEW n \in Nat,
           Cardinality(DeliveredWith(Digest[h])) <= n
    PROVE  Cardinality({r \in delivered \cup {h} : Digest[r] = Digest[h]}) <= n + 1
<1> DEFINE D == DeliveredWith(Digest[h])
<1>1. IsFiniteSet(D) /\ Cardinality(D) \in Nat
  <2>1. D \subseteq Requests
    BY DEF TypeOK, DeliveredWith
  <2> QED
    BY <2>1, FS_Subset, FS_CardinalityType
<1>2. {r \in delivered \cup {h} : Digest[r] = Digest[h]} = D \cup {h}
  BY DEF DeliveredWith
<1> HIDE DEF D
<1>3. Cardinality(D \cup {h}) <= Cardinality(D) + 1
  <2>1. Cardinality(D \cup {h}) = IF h \in D THEN Cardinality(D) ELSE Cardinality(D) + 1
    BY <1>1, FS_AddElement
  <2> QED
    BY <1>1, <2>1
<1>4. Cardinality(D) <= n
  BY DEF D
<1>5. Cardinality(D \cup {h}) \in Nat
  BY <1>1, FS_AddElement, FS_CardinalityType
<1> QED
  BY <1>1, <1>2, <1>3, <1>4, <1>5

\* Only the audit write settles a signal as delivered.
LEMMA DeliveredByAuditWrite ==
    ASSUME [AuditNext]_<<vars, auditVars>>
    PROVE  UNCHANGED <<delivered, records>> \/ AuditWrite
<1>1. CASE \E r \in Requests : EnqueueRuns(r)
  BY <1>1 DEF EnqueueRuns, Enqueue, EnqueueSteps, EnqueueFaults, Reserve, RejectFull,
     CreateTemp, FillTemp, Commit, Undo, Nudge, SyncDir, RecordDirFsyncSuccess,
     RecordDirFsyncFailure, WriteTempFails, CommitFails, SyncDirFails, Passes, Call
<1>2. CASE Deliver \/ SkipDelivery \/ DeliverFails \/ AuditWriteFails \/ OnDead
  BY <1>2 DEF Deliver, SkipDelivery, DeliverFails, AuditWriteFails, OnDead, FinishDead,
     ForwardRetryable, ForwardPermanent, Moves
<1>3. CASE OtherForwarderSteps
  BY <1>3 DEF OtherForwarderSteps, ListPending, ListEmpty, ReadFile, Bury, Remove,
     FinishDelivered, WakeUp, TimerFires, Stop, ForwarderFaults, ListFails, ReadFails,
     BuryFails, RemoveFails, Moves
<1>4. CASE ProcessEnds \/ ProcessSteps
  BY <1>4 DEF ProcessEnds, ProcessSteps, Exit, Crash, PowerLoss, ProcessGone, Cancel, Restart
<1> QED
  BY <1>1, <1>2, <1>3, <1>4 DEF AuditNext

\* Every signal the spool counts as delivered has an audit record of its own,
\* however many requests carry the same bytes and whatever crashes in between.
THEOREM EveryDeliveryRecorded == AuditSpec => []DeliveredIsRecorded
<1>1. ASSUME AuditInit PROVE DeliveredIsRecorded
  <2>1. \A d \in Digests : {r \in delivered : Digest[r] = d} = {}
    BY <1>1 DEF AuditInit, Init
  <2> QED
    BY <1>1, <2>1, FS_EmptySet DEF AuditInit, DeliveredIsRecorded
<1>2. ASSUME TypeOK, AuditTypeOK, DeliveredIsRecorded, [AuditNext]_<<vars, auditVars>>
      PROVE  DeliveredIsRecorded'
  <2>1. CASE UNCHANGED <<delivered, records>>
    BY <1>2, <2>1 DEF DeliveredIsRecorded, Digests
  <2>2. CASE AuditWrite
    <3>1. head \in Requests /\ Digest[head] \in Digests
      BY <1>2, <2>2, HeadDigest DEF AuditWrite, AtAudit, WithHead
    <3>2. delivered' = delivered \cup {head}
      BY <2>2 DEF AuditWrite, ForwardOk
    <3>3. records' = [records EXCEPT ![Digest[head]] = @ + 1]
      BY <2>2 DEF AuditWrite
    <3>4. ASSUME NEW d \in Digests
          PROVE  Cardinality({r \in delivered' : Digest[r] = d}) <= records'[d]
      <4>1. CASE d = Digest[head]
        <5>1. records[d] \in Nat /\ records'[d] = records[d] + 1
          BY <1>2, <3>1, <3>3, <4>1 DEF AuditTypeOK
        <5>2. Cardinality(DeliveredWith(Digest[head])) <= records[d]
          BY <1>2, <3>1, <4>1 DEF DeliveredIsRecorded, DeliveredWith
        <5>3. Cardinality({r \in delivered \cup {head} : Digest[r] = Digest[head]})
                  <= records[d] + 1
          BY <1>2, <3>1, <5>1, <5>2, OneMoreDelivered
        <5> QED
          BY <3>2, <4>1, <5>1, <5>3
      <4>2. CASE d # Digest[head]
        <5>1. {r \in delivered' : Digest[r] = d} = {r \in delivered : Digest[r] = d}
          BY <3>2, <4>2
        <5>2. records'[d] = records[d]
          BY <1>2, <3>3, <4>2 DEF AuditTypeOK
        <5> QED
          BY <1>2, <5>1, <5>2 DEF DeliveredIsRecorded
      <4> QED
        BY <4>1, <4>2
    <3> QED
      BY <3>4 DEF DeliveredIsRecorded, Digests
  <2> QED
    BY <1>2, <2>1, <2>2, DeliveredByAuditWrite
<1>3. AuditSpec => []TypeOK
  BY AuditRefinesSpool, TypeCorrect, PTL DEF ImplementsSpool
<1> QED
  BY <1>1, <1>2, <1>3, AuditTypeCorrect, PTL DEF AuditSpec

-----------------------------------------------------------------------------
(* Records and confirmations.  A confirmation that the guard stands for, and  *)
(* that has no record yet, is set aside: the next record is backed by it.     *)

SetAside(d) == IF guard = d THEN 1 ELSE 0

BackedInv ==
    \A d \in Digests :
        /\ IsFiniteSet(Confirmations(d))
        /\ records[d] + SetAside(d) <= Cardinality(Confirmations(d))

\* A delivery is one confirmation more of its bytes, and none of other bytes.
LEMMA OneConfirmationMore ==
    ASSUME AuditTypeOK, NEW h \in Requests, NEW d \in Digests,
           IsFiniteSet(Confirmations(d)),
           confirmed' = [confirmed EXCEPT ![h] = @ + 1]
    PROVE  /\ IsFiniteSet(Confirmations(d)')
           /\ Cardinality(Confirmations(d)') =
                Cardinality(Confirmations(d)) + (IF Digest[h] = d THEN 1 ELSE 0)
<1> DEFINE new == <<h, confirmed[h] + 1>>
<1>1. /\ \A r \in Requests : confirmed[r] \in Nat
      /\ confirmed'[h] = confirmed[h] + 1
      /\ \A r \in Requests \ {h} : confirmed'[r] = confirmed[r]
  BY DEF AuditTypeOK
<1>2. CASE Digest[h] # d
  <2>1. Confirmations(d)' = Confirmations(d)
    BY <1>1, <1>2 DEF Confirmations
  <2> QED
    BY <1>2, <2>1, FS_CardinalityType
<1>3. CASE Digest[h] = d
  <2>1. new \notin Confirmations(d)
    BY <1>1 DEF Confirmations
  <2>2. Confirmations(d)' = Confirmations(d) \cup {new}
    <3>1. 1 .. confirmed'[h] = (1 .. confirmed[h]) \cup {confirmed[h] + 1}
      BY <1>1
    <3>2. ASSUME NEW p PROVE p \in Confirmations(d)' <=> p \in Confirmations(d) \/ p = new
      <4>1. p \in Confirmations(d)' <=>
              \E r \in Requests : Digest[r] = d /\ \E k \in 1 .. confirmed'[r] : p = <<r, k>>
        BY DEF Confirmations
      <4>2. p \in Confirmations(d) <=>
              \E r \in Requests : Digest[r] = d /\ \E k \in 1 .. confirmed[r] : p = <<r, k>>
        BY DEF Confirmations
      <4> QED
        BY <1>1, <1>3, <3>1, <4>1, <4>2
    <3> QED
      BY <3>2
  <2> HIDE DEF new
  <2>3. /\ IsFiniteSet(Confirmations(d) \cup {new})
        /\ Cardinality(Confirmations(d) \cup {new}) = Cardinality(Confirmations(d)) + 1
    BY <2>1, FS_AddElement
  <2> QED
    BY <1>3, <2>2, <2>3
<1> QED
  BY <1>2, <1>3

\* No step but a delivery and an audit write adds to what is compared.
LEMMA BackedKept ==
    ASSUME AuditTypeOK, BackedInv, UNCHANGED <<confirmed, records>>,
           guard' = guard \/ guard' = None
    PROVE  BackedInv'
<1>1. \A d \in Digests : /\ Confirmations(d)' = Confirmations(d) /\ records'[d] = records[d]
                         /\ records[d] \in Nat /\ d # None
  BY DEF Confirmations, AuditTypeOK, Digests
<1>2. \A d \in Digests : SetAside(d)' = SetAside(d) \/ SetAside(d)' = 0
  BY <1>1 DEF SetAside
<1>3. \A d \in Digests : Cardinality(Confirmations(d)) \in Nat
  BY FS_CardinalityType DEF BackedInv
<1> QED
  BY <1>1, <1>2, <1>3 DEF BackedInv, Digests, SetAside

\* Every audit record is backed by a confirmed delivery of its own of those
\* bytes: with any number of callers, on any clock, whatever fails or restarts.
THEOREM EveryRecordBacked == AuditSpec => []RecordsAreBacked
<1>1. ASSUME AuditInit PROVE BackedInv
  <2>1. \A d \in Digests : Confirmations(d) = {} /\ records[d] = 0 /\ SetAside(d) = 0
    BY <1>1 DEF AuditInit, Confirmations, SetAside, Digests
  <2> QED
    BY <2>1, FS_EmptySet DEF BackedInv
<1>2. ASSUME TypeOK, AuditTypeOK, BackedInv, [AuditNext]_<<vars, auditVars>>
      PROVE  BackedInv'
  <2>1. ASSUME NEW d \in Digests
        PROVE  records[d] \in Nat /\ Cardinality(Confirmations(d)) \in Nat /\ d # None
    BY <1>2, FS_CardinalityType DEF AuditTypeOK, BackedInv, Digests
  <2>2. CASE Deliver
    <3>1. head \in Requests /\ Digest[head] \in Digests
      BY <1>2, <2>2, HeadDigest DEF Deliver, AtDelivery, WithHead
    <3>2. /\ confirmed' = [confirmed EXCEPT ![head] = @ + 1] /\ UNCHANGED records
          /\ guard # Digest[head] /\ guard' = Digest[head]
      BY <2>2 DEF Deliver, Matches
    <3>3. ASSUME NEW d \in Digests
          PROVE  /\ IsFiniteSet(Confirmations(d)')
                 /\ records'[d] + SetAside(d)' <= Cardinality(Confirmations(d)')
      <4>1. /\ IsFiniteSet(Confirmations(d)')
            /\ Cardinality(Confirmations(d)') =
                 Cardinality(Confirmations(d)) + (IF Digest[head] = d THEN 1 ELSE 0)
        BY <1>2, <3>1, <3>2, OneConfirmationMore DEF BackedInv
      <4>2. records'[d] = records[d] /\ records[d] + SetAside(d) <= Cardinality(Confirmations(d))
        BY <1>2, <3>2 DEF BackedInv
      <4>3. SetAside(d)' <= SetAside(d) + (IF Digest[head] = d THEN 1 ELSE 0)
            /\ SetAside(d) \in Nat /\ SetAside(d)' \in Nat
        BY <3>2 DEF SetAside
      <4> QED
        BY <2>1, <4>1, <4>2, <4>3
    <3> QED
      BY <3>3 DEF BackedInv, Digests
  <2>3. CASE AuditWrite
    <3>1. guard = Digest[head] /\ guard' = None /\ UNCHANGED confirmed
          /\ records' = [records EXCEPT ![Digest[head]] = @ + 1]
      BY <1>2, <2>3 DEF AuditWrite, AtAudit, AuditTypeOK
    <3>2. ASSUME NEW d \in Digests
          PROVE  /\ IsFiniteSet(Confirmations(d)')
                 /\ records'[d] + SetAside(d)' <= Cardinality(Confirmations(d)')
      <4>1. Confirmations(d)' = Confirmations(d)
        BY <3>1 DEF Confirmations
      <4>2. records'[d] + SetAside(d)' <= records[d] + SetAside(d)
        BY <1>2, <2>1, <3>1 DEF SetAside, AuditTypeOK
      <4>3. records'[d] \in Nat /\ SetAside(d) \in Nat /\ SetAside(d)' \in Nat
        BY <1>2, <2>1, <3>1 DEF SetAside, AuditTypeOK
      <4> QED
        BY <1>2, <2>1, <4>1, <4>2, <4>3 DEF BackedInv
    <3> QED
      BY <3>2 DEF BackedInv, Digests
  <2>4. CASE UNCHANGED <<confirmed, records>> /\ (guard' = guard \/ guard' = None)
    BY <1>2, <2>4, BackedKept
  <2> QED
    BY <1>2, <2>2, <2>3, <2>4 DEF AuditNext, EnqueueRuns, SkipDelivery, DeliverFails,
       AuditWriteFails, OnDead, OtherForwarderSteps, ProcessEnds, ProcessSteps
<1>3. ASSUME AuditTypeOK, BackedInv PROVE RecordsAreBacked
  <2>1. ASSUME NEW d \in Digests
        PROVE  records[d] \in Nat /\ Cardinality(Confirmations(d)) \in Nat /\ SetAside(d) \in Nat
    BY <1>3, FS_CardinalityType DEF AuditTypeOK, BackedInv, SetAside
  <2> QED
    BY <1>3, <2>1 DEF BackedInv, RecordsAreBacked
<1>4. AuditSpec => []TypeOK
  BY AuditRefinesSpool, TypeCorrect, PTL DEF ImplementsSpool
<1> QED
  BY <1>1, <1>2, <1>3, <1>4, AuditTypeCorrect, PTL DEF AuditSpec

-----------------------------------------------------------------------------
(* Readiness.  StuckAuditIsVisible speaks of a resting forwarder only; what   *)
(* every step keeps is said of the guard and the callback.                   *)

GuardHasFailed == guard # None /\ ~auditing => auditFailures > 0

\* While a confirmed delivery waits for its audit record, /readyz has a failure
\* to show, whatever else is tried, dead-lettered or restarted meanwhile.
THEOREM StuckAuditVisible == AuditSpec => []StuckAuditIsVisible
<1>1. AuditInit => GuardHasFailed
  BY DEF AuditInit, GuardHasFailed
<1>2. ASSUME AuditTypeOK, GuardHasFailed, [AuditNext]_<<vars, auditVars>>
      PROVE  GuardHasFailed'
  <2> USE <1>2 DEF GuardHasFailed
  <2>1. CASE \E r \in Requests : EnqueueRuns(r)
    BY <2>1 DEF EnqueueRuns
  <2>2. CASE Deliver \/ SkipDelivery
    BY <2>2 DEF Deliver, SkipDelivery
  <2>3. CASE DeliverFails \/ OtherForwarderSteps \/ ProcessSteps
    BY <2>3 DEF DeliverFails, OtherForwarderSteps, ProcessSteps
  <2>4. CASE AuditWrite \/ OnDead \/ ProcessEnds
    BY <2>4 DEF AuditWrite, OnDead, ProcessEnds
  <2>5. CASE AuditWriteFails
    BY <2>5 DEF AuditWriteFails, AuditTypeOK
  <2>6. CASE UNCHANGED <<vars, auditVars>>
    BY <2>6
  <2> QED
    BY <2>1, <2>2, <2>3, <2>4, <2>5, <2>6 DEF AuditNext
<1>3. AuditTypeOK /\ GuardHasFailed => StuckAuditIsVisible
  BY DEF AuditTypeOK, GuardHasFailed, StuckAuditIsVisible
<1> QED
  BY <1>1, <1>2, <1>3, AuditTypeCorrect, PTL DEF AuditSpec

-----------------------------------------------------------------------------
(* One caller, and a clock that does not step back: the signal the guard      *)
(* stands for is the next one to be offered.                                 *)

\* Calls that may still put a file into the queue.
NextToCommit == {"create", "fill", "rename"}

OneAtATime ==
    \A q, r \in Requests : pc[q] \in InFlight /\ pc[r] \in InFlight => q = r

\* Whatever is queued was queued before the call that may still commit began.
NothingOvertakes == \A r \in Requests : pc[r] \in NextToCommit => Pending \subseteq earlier[r]

HeadIsOldest == fpc \in {"read", "forward", "bury", "remove"} => IsOldest(head)

CallerInv == OneAtATime /\ NothingOvertakes /\ HeadIsOldest

LEMMA OneOldest ==
    ASSUME TypeOK, NEW g \in Requests, NEW h \in Requests, IsOldest(g), IsOldest(h)
    PROVE  g = h
<1>1. \A r \in Requests : name[r][1] \in Nat /\ name[r][2] \in Nat
  BY DEF TypeOK
<1> QED
  BY <1>1 DEF IsOldest, Pending, Precedes

\* A call that commits comes after everything that is queued.
LEMMA OldestKept ==
    ASSUME OrderInv, CallerInv, NEW r \in Requests, Enqueue(r),
           NEW g \in Requests, IsOldest(g)
    PROVE  IsOldest(g)'
<1> USE DEF Call, NamesKept, Passes, MoveTo
<1>1. /\ loc \in [Requests -> Places] /\ name \in [Requests -> Nat \X Nat]
      /\ pc[r] \in NotCommitted => loc[r] # "pending"
  BY DEF OrderInv, TypeOK, QueueIsCommitted
<1>2. CASE Reserve(r)
  <2>1. /\ UNCHANGED loc /\ loc[r] # "pending"
        /\ \A q \in Requests \ {r} : name'[q] = name[q]
    BY <1>1, <1>2 DEF Reserve, Nameless, NotCommitted
  <2> QED
    BY <2>1 DEF IsOldest, Pending, Precedes
<1>3. CASE Commit(r)
  <2>1. UNCHANGED name /\ Pending' = Pending \cup {r}
    BY <1>1, <1>3 DEF Commit, Pending
  <2>2. g \in earlier[r]
    BY <1>3 DEF Commit, CallerInv, NothingOvertakes, NextToCommit, IsOldest
  <2>3. Precedes(g, r)
    BY <2>2 DEF OrderInv, EarlierPrecedes
  <2> QED
    BY <2>1, <2>3 DEF IsOldest, Precedes
<1>4. CASE ~Reserve(r) /\ ~Commit(r)
  <2>1. UNCHANGED name /\ Pending' = Pending
    BY <1>1, <1>4 DEF Enqueue, EnqueueSteps, EnqueueFaults, RejectFull, CreateTemp, FillTemp, Undo,
       Nudge, SyncDir, RecordDirFsyncSuccess, RecordDirFsyncFailure, WriteTempFails,
       CommitFails, SyncDirFails, Pending, Nameless, NotCommitted
  <2> QED
    BY <2>1 DEF IsOldest, Precedes
<1> QED
  BY <1>2, <1>3, <1>4

LEMMA CallKeepsCaller ==
    ASSUME OneCaller, OrderInv, CallerInv, NEW r \in Requests, EnqueueRuns(r)
    PROVE  CallerInv'
<1> USE DEF Call, NamesKept, Passes, MoveTo
<1>1. /\ loc \in [Requests -> Places] /\ earlier \in [Requests -> SUBSET Requests]
      /\ pc \in [Requests -> {"new"} \cup InFlight \cup Outcomes]
      /\ pc[r] \in NotCommitted => loc[r] # "pending"
  BY DEF OrderInv, TypeOK, QueueIsCommitted
<1>2. /\ UNCHANGED <<fpc, head>>
      /\ \A q \in Requests \ {r} : pc'[q] = pc[q] /\ earlier'[q] = earlier[q]
      /\ pc'[r] \in InFlight => pc[r] \in InFlight \cup {"new"}
      /\ pc'[r] \in NextToCommit => \/ pc[r] \in NextToCommit /\ earlier'[r] = earlier[r]
                                    \/ earlier'[r] = Pending
      /\ \/ Pending' = Pending
         \/ pc[r] \in NextToCommit /\ pc'[r] \notin NextToCommit
  BY <1>1 DEF EnqueueRuns, Enqueue, EnqueueSteps, EnqueueFaults, Reserve, RejectFull, CreateTemp,
     FillTemp, Commit, Undo, Nudge, SyncDir, RecordDirFsyncSuccess, RecordDirFsyncFailure,
     WriteTempFails, CommitFails, SyncDirFails, AfterNudge, InFlight, NextToCommit, Pending,
     Nameless, NotCommitted
<1>3. pc[r] = "new" => \A q \in Requests : pc[q] \notin InFlight
  BY DEF EnqueueRuns, NoCallRunning
<1>4. OneAtATime'
  BY <1>2, <1>3 DEF CallerInv, OneAtATime
<1>5. NothingOvertakes'
  BY <1>2 DEF CallerInv, OneAtATime, NothingOvertakes, NextToCommit, InFlight
<1>6. HeadIsOldest'
  <2>1. fpc \in {"read", "forward", "bury", "remove"} => head \in Requests /\ IsOldest(head)
    BY DEF CallerInv, HeadIsOldest, IsOldest, Pending
  <2>2. \A g \in Requests : IsOldest(g) => IsOldest(g)'
    BY OldestKept DEF EnqueueRuns
  <2>3. fpc \in {"read", "forward", "bury", "remove"} => IsOldest(head)'
    BY <2>1, <2>2, <1>2
  <2> QED
    BY <1>2, <2>3 DEF HeadIsOldest
<1> QED
  BY <1>4, <1>5, <1>6 DEF CallerInv

LEMMA ForwarderKeepsCaller ==
    ASSUME OrderInv, CallerInv, Forwarder \/ ForwarderFaults
    PROVE  CallerInv'
<1> USE DEF Forwards, Moves, HeadKept, HeadDone
<1>1. CASE Bury \/ Remove
  <2>1. /\ UNCHANGED <<pc, name, earlier>> /\ fpc' \in {"buried", "removed"}
        /\ \E place \in {"none", "dead"} : MoveTo(head, place)
    BY <1>1 DEF Bury, Remove
  <2>2. Pending' \subseteq Pending
    BY <2>1 DEF OrderInv, TypeOK, MoveTo, Pending
  <2> QED
    BY <2>1, <2>2 DEF CallerInv, OneAtATime, NothingOvertakes, HeadIsOldest
<1>2. CASE \E h \in Requests : ListPending(h)
  <2>1. UNCHANGED <<pc, name, earlier, loc>> /\ IsOldest(head')
    BY <1>2 DEF ListPending
  <2> QED
    BY <2>1 DEF CallerInv, OneAtATime, NothingOvertakes, HeadIsOldest, IsOldest, Pending, Precedes
<1>3. CASE \/ ListEmpty \/ ReadFile \/ ForwardOk \/ ForwardRetryable \/ ForwardPermanent
           \/ FinishDead \/ FinishDelivered \/ WakeUp \/ TimerFires \/ Stop \/ ForwarderFaults
  <2>1. /\ UNCHANGED <<pc, name, earlier, loc>>
        /\ fpc' \in {"read", "forward", "bury", "remove"} =>
              fpc \in {"read", "forward", "bury", "remove"} /\ head' = head
    BY <1>3 DEF ListEmpty, ReadFile, ForwardOk, ForwardRetryable, ForwardPermanent, FinishDead,
       FinishDelivered, WakeUp, TimerFires, Stop, ForwarderFaults, ListFails, ReadFails,
       BuryFails, RemoveFails
  <2> QED
    BY <2>1 DEF CallerInv, OneAtATime, NothingOvertakes, HeadIsOldest, IsOldest, Pending, Precedes
<1> QED
  BY <1>1, <1>2, <1>3 DEF Forwarder

LEMMA ProcessKeepsCaller ==
    ASSUME CallerInv, Cancel \/ Exit \/ Crash \/ PowerLoss \/ Restart
    PROVE  CallerInv'
<1>1. CASE Exit \/ Crash \/ PowerLoss
  <2>1. /\ fpc' = "down"
        /\ pc' = [r \in Requests |-> IF pc[r] \in InFlight THEN "lost" ELSE pc[r]]
    BY <1>1 DEF Exit, Crash, PowerLoss, ProcessGone
  <2>2. \A r \in Requests : pc'[r] \notin InFlight
    BY <2>1 DEF InFlight
  <2> QED
    BY <2>1, <2>2 DEF CallerInv, OneAtATime, NothingOvertakes, NextToCommit, InFlight, HeadIsOldest
<1>2. CASE Cancel \/ Restart
  <2>1. UNCHANGED <<pc, name, earlier, loc>> /\ (UNCHANGED <<fpc, head>> \/ fpc' = "top")
    BY <1>2 DEF Cancel, Restart
  <2> QED
    BY <2>1 DEF CallerInv, OneAtATime, NothingOvertakes, HeadIsOldest, IsOldest, Pending, Precedes
<1> QED
  BY <1>1, <1>2

LEMMA AuditedOrder ==
    ASSUME ~ClockMayStepBack
    PROVE  AuditSpec => []OrderInv
BY AuditRefinesSpool, OrderHolds, PTL DEF ImplementsSpool

LEMMA CallerHolds ==
    ASSUME OneCaller, ~ClockMayStepBack
    PROVE  AuditSpec => []CallerInv
<1>1. AuditInit => CallerInv
  BY DEF AuditInit, Init, CallerInv, OneAtATime, NothingOvertakes, NextToCommit, InFlight,
     HeadIsOldest
<1>2. ASSUME OrderInv, CallerInv, [AuditNext]_<<vars, auditVars>> PROVE CallerInv'
  <2>1. CASE UNCHANGED vars
    BY <1>2, <2>1 DEF CallerInv, OneAtATime, NothingOvertakes, HeadIsOldest, IsOldest, Pending,
       Precedes
  <2> QED
    BY <1>2, <2>1, AuditStepKinds, CallKeepsCaller, ForwarderKeepsCaller, ProcessKeepsCaller
<1> QED
  BY <1>1, <1>2, AuditedOrder, PTL DEF AuditSpec

\* The guard stands for the oldest signal, one that the vendor has confirmed.
GuardIsOldest ==
    guard # None /\ fpc # "buried" =>
        \E g \in Requests : IsOldest(g) /\ Digest[g] = guard /\ confirmed[g] > 0

GuardIsReset == fpc \in {"remove", "removed", "down"} => guard = None

GuardInv ==
    /\ GuardIsOldest /\ GuardIsReset
    /\ auditing => confirmed[head] > 0
    /\ NoFalseRecord

LEMMA InitGuard == AuditInit => GuardInv
BY DEF AuditInit, Init, GuardInv, GuardIsOldest, GuardIsReset, NoFalseRecord

\* A call leaves the forwarder and the callback alone.
LEMMA CallKeepsForwarder ==
    ASSUME NEW r \in Requests, EnqueueRuns(r)
    PROVE  UNCHANGED <<fpc, head, delivered, crashes, auditVars>>
BY DEF EnqueueRuns, Enqueue, EnqueueSteps, EnqueueFaults, Reserve, RejectFull, CreateTemp, FillTemp,
   Commit, Undo, Nudge, SyncDir, RecordDirFsyncSuccess, RecordDirFsyncFailure, WriteTempFails,
   CommitFails, SyncDirFails, Passes, Call

\* What the forwarder does between two offers, with a guard that may be set.
LEMMA OtherSteps ==
    ASSUME OtherForwarderSteps
    PROVE  /\ UNCHANGED <<pc, name, delivered, crashes, auditVars>>
           /\ fpc # "forward" /\ fpc' # "down" /\ fpc # "down"
           /\ \/ fpc = "bury" /\ fpc' = "buried" /\ MoveTo(head, "dead")
              \/ fpc = "remove" /\ fpc' = "removed" /\ MoveTo(head, "none")
              \/ RemoveFails
              \/ UNCHANGED loc /\ fpc = "removed" /\ fpc' = "top"
              \/ /\ UNCHANGED loc
                 /\ fpc \notin {"buried", "remove", "removed"}
                 /\ fpc' \notin {"buried", "remove", "removed"}
BY DEF OtherForwarderSteps, ListPending, ListEmpty, ReadFile, Bury, Remove, FinishDelivered, WakeUp,
   TimerFires, Stop, ForwarderFaults, ListFails, ReadFails, BuryFails, RemoveFails, Moves,
   Forwards

LEMMA GuardKept ==
    ASSUME OrderInv, AuditTypeOK, CallerInv, GuardInv, [AuditNext]_<<vars, auditVars>>
    PROVE  GuardInv'
<1> USE DEF GuardInv
<1>1. /\ confirmed \in [Requests -> Nat]
      /\ AtDelivery \/ AtAudit => head \in Requests /\ Digest[head] # None /\ IsOldest(head)
  BY HeadDigest DEF AuditTypeOK, CallerInv, HeadIsOldest, OrderInv, AtDelivery, AtAudit, WithHead
<1>2. ASSUME UNCHANGED <<loc, name>>, NEW g \in Requests, IsOldest(g) PROVE IsOldest(g)'
  BY <1>2 DEF IsOldest, Pending, Precedes
<1>3. ASSUME NEW r \in Requests, EnqueueRuns(r) PROVE GuardInv'
  <2>1. \A g \in Requests : IsOldest(g) => IsOldest(g)'
    BY <1>3, OldestKept DEF EnqueueRuns
  <2> QED
    BY <1>3, <2>1, CallKeepsForwarder DEF GuardIsOldest, GuardIsReset, NoFalseRecord
<1>4. CASE Deliver
  <2>1. /\ UNCHANGED <<loc, name, fpc, head, delivered>> /\ fpc = "forward"
        /\ guard' = Digest[head] /\ confirmed'[head] > 0
        /\ \A r \in Requests : confirmed[r] > 0 => confirmed'[r] > 0
    BY <1>1, <1>4 DEF Deliver, AtDelivery
  <2>2. IsOldest(head)' /\ head \in Requests
    BY <1>1, <1>2, <1>4, <2>1 DEF Deliver
  <2>3. GuardIsOldest'
    BY <2>1, <2>2 DEF GuardIsOldest
  <2>4. NoFalseRecord'
    BY <2>1 DEF NoFalseRecord, OrderInv, TypeOK
  <2> QED
    BY <2>1, <2>3, <2>4 DEF GuardIsReset
<1>5. CASE SkipDelivery
  <2>1. /\ UNCHANGED <<loc, name, fpc, head, delivered, guard, confirmed>>
        /\ fpc = "forward" /\ guard = Digest[head] /\ guard # None
    BY <1>1, <1>5 DEF SkipDelivery, AtDelivery, Matches
  <2>2. PICK g \in Requests : IsOldest(g) /\ confirmed[g] > 0
    BY <2>1 DEF GuardIsOldest
  <2>3. g = head
    BY <1>1, <1>5, <2>2, OneOldest DEF SkipDelivery, OrderInv
  <2> QED
    BY <1>2, <2>1, <2>2, <2>3 DEF GuardIsOldest, GuardIsReset, NoFalseRecord
<1>6. CASE DeliverFails \/ AuditWriteFails
  <2>1. /\ UNCHANGED <<loc, name, delivered, guard, confirmed>> /\ auditing' = FALSE
        /\ fpc = "forward" /\ fpc' \in {"backoff", "bury"}
    BY <1>6 DEF DeliverFails, AuditWriteFails, AtDelivery, AtAudit, ForwardRetryable,
       ForwardPermanent, Moves, Forwards, AuditTypeOK
  <2> QED
    BY <1>2, <2>1 DEF GuardIsOldest, GuardIsReset, NoFalseRecord
<1>7. CASE AuditWrite
  BY <1>1, <1>7 DEF AuditWrite, ForwardOk, AtAudit, GuardIsOldest, GuardIsReset, NoFalseRecord
<1>8. CASE OnDead
  <2>1. UNCHANGED delivered /\ fpc = "buried" /\ auditing = FALSE
    BY <1>8 DEF OnDead, FinishDead, Forwards, AuditTypeOK
  <2> QED
    BY <1>8, <2>1 DEF OnDead, GuardIsOldest, GuardIsReset, NoFalseRecord
<1>9. CASE OtherForwarderSteps
  <2>1. auditing' = FALSE
    BY <1>9, OtherSteps DEF AuditTypeOK
  <2>2. GuardIsReset'
    BY <1>9, OtherSteps DEF GuardIsReset, RemoveFails, Moves, Forwards
  <2>3. GuardIsOldest'
    BY <1>2, <1>9, <2>2, OtherSteps DEF GuardIsOldest, GuardIsReset, RemoveFails, Moves, Forwards
  <2> QED
    BY <1>9, <2>1, <2>2, <2>3, OtherSteps DEF NoFalseRecord
<1>10. CASE ProcessEnds
  BY <1>10 DEF ProcessEnds, Exit, Crash, PowerLoss, ProcessGone, GuardIsOldest, GuardIsReset,
     NoFalseRecord
<1>11. CASE ProcessSteps
  <2>1. /\ UNCHANGED <<loc, name, delivered, auditVars, head>>
        /\ UNCHANGED fpc \/ (fpc = "down" /\ fpc' = "top")
    BY <1>11 DEF ProcessSteps, Cancel, Restart
  <2>2. GuardIsReset'
    BY <2>1 DEF GuardIsReset
  <2>3. GuardIsOldest'
    <3>1. guard' # None /\ fpc' # "buried" => guard # None /\ fpc # "buried"
      BY <2>1 DEF GuardIsReset
    <3> QED
      BY <1>2, <2>1, <3>1 DEF GuardIsOldest
  <2>4. NoFalseRecord' /\ (auditing' => confirmed'[head'] > 0)
    BY <2>1 DEF NoFalseRecord
  <2> QED
    BY <2>2, <2>3, <2>4
<1>12. CASE UNCHANGED <<vars, auditVars>>
  BY <1>2, <1>12 DEF GuardIsOldest, GuardIsReset, NoFalseRecord
<1> QED
  BY <1>3, <1>4, <1>5, <1>6, <1>7, <1>8, <1>9, <1>10, <1>11, <1>12 DEF AuditNext

LEMMA GuardHolds ==
    ASSUME OneCaller, ~ClockMayStepBack
    PROVE  AuditSpec => []GuardInv
BY InitGuard, GuardKept, AuditTypeCorrect, AuditedOrder, CallerHolds, PTL DEF AuditSpec

\* If the core banking system waits for every answer and the clock does not step
\* back, the redelivery guard never settles a signal on the strength of another
\* one's delivery: each was confirmed itself, equal bytes or not, whatever fails,
\* is dead-lettered or restarts in between.
THEOREM NoFalseRecordEver ==
    ASSUME OneCaller, ~ClockMayStepBack
    PROVE  AuditSpec => []NoFalseRecord
<1>1. GuardInv => NoFalseRecord
  BY DEF GuardInv
<1> QED
  BY <1>1, GuardHolds, PTL

-----------------------------------------------------------------------------
(* How often the vendor confirms a signal, when os.Remove does not fail.      *)

\* What was confirmed since the last restart, and is still queued, is what the
\* guard stands for or what is about to be removed.
ConfirmedIsGuarded(r) ==
    loc[r] = "pending" /\ confirmed[r] > crashes =>
        \/ fpc # "buried" /\ guard = Digest[r] /\ IsOldest(r)
        \/ fpc = "remove" /\ head = r

BoundInv ==
    \A r \in Requests :
        /\ pc[r] \in NotCommitted => confirmed[r] = 0
        /\ confirmed[r] <= crashes + (IF fpc = "down" THEN 0 ELSE 1)
        /\ ConfirmedIsGuarded(r)

LEMMA InitBound == AuditInit => BoundInv
BY DEF AuditInit, Init, BoundInv, ConfirmedIsGuarded

\* A step in which nothing is confirmed and no process ends: only a call that
\* was not committed, and so was never confirmed, gets a file into the queue.
LEMMA BoundKeptBySteps ==
    ASSUME AuditTypeOK, BoundInv, UNCHANGED <<confirmed, crashes>>, fpc' # "down",
           crashes \in Nat,
           \A r \in Requests :
              /\ pc'[r] \in NotCommitted => pc[r] \in NotCommitted
              /\ loc'[r] = "pending" => loc[r] = "pending" \/ pc[r] \in NotCommitted
              /\ loc'[r] = "pending" /\ loc[r] = "pending" /\ confirmed[r] > crashes =>
                    ConfirmedIsGuarded(r)'
    PROVE  BoundInv'
<1>1. ASSUME NEW r \in Requests PROVE ConfirmedIsGuarded(r)'
  BY DEF BoundInv, ConfirmedIsGuarded
<1>2. \A r \in Requests : confirmed[r] \in Nat
  BY DEF AuditTypeOK
<1> QED
  BY <1>1, <1>2 DEF BoundInv

\* A delivery is tried only for a signal that was not confirmed since the last
\* restart.
LEMMA UnguardedIsNew ==
    ASSUME OrderInv, AuditTypeOK, CallerInv, BoundInv, AtDelivery, ~Matches
    PROVE  /\ head \in Requests /\ IsOldest(head) /\ confirmed[head] <= crashes
           /\ pc[head] \notin NotCommitted
<1>1. head \in Requests /\ loc[head] = "pending" /\ IsOldest(head)
  BY DEF AtDelivery, CallerInv, HeadIsOldest, IsOldest, Pending
<1>2. confirmed[head] \in Nat /\ crashes \in Nat
  BY <1>1 DEF AuditTypeOK, OrderInv, TypeOK
<1>3. ~(confirmed[head] > crashes)
  BY <1>1 DEF BoundInv, ConfirmedIsGuarded, Matches, AtDelivery
<1>4. pc[head] \notin NotCommitted
  BY DEF OrderInv, QueueIsCommitted, AtDelivery, WithHead
<1> QED
  BY <1>1, <1>2, <1>3, <1>4

LEMMA DeliverBound ==
    ASSUME OrderInv, AuditTypeOK, CallerInv, BoundInv, Deliver
    PROVE  BoundInv'
<1>1. /\ UNCHANGED <<loc, name, pc, fpc, head, crashes>> /\ fpc = "forward"
      /\ guard' = Digest[head] /\ confirmed' = [confirmed EXCEPT ![head] = @ + 1]
  BY DEF Deliver, AtDelivery
<1>2. /\ head \in Requests /\ IsOldest(head) /\ confirmed[head] <= crashes
      /\ pc[head] \notin NotCommitted
  BY UnguardedIsNew DEF Deliver
<1>3. confirmed \in [Requests -> Nat] /\ crashes \in Nat
  BY DEF AuditTypeOK, OrderInv, TypeOK
<1>4. IsOldest(head)'
  BY <1>1, <1>2 DEF IsOldest, Pending, Precedes
<1>5. ASSUME NEW r \in Requests
      PROVE  /\ pc'[r] \in NotCommitted => confirmed'[r] = 0
             /\ confirmed'[r] <= crashes' + (IF fpc' = "down" THEN 0 ELSE 1)
  BY <1>1, <1>2, <1>3 DEF BoundInv
<1>6. ASSUME NEW r \in Requests PROVE ConfirmedIsGuarded(r)'
  <2>1. CASE r = head
    BY <1>1, <1>4, <2>1 DEF ConfirmedIsGuarded
  <2>2. CASE r # head
    <3>1. confirmed'[r] = confirmed[r]
      BY <1>1, <1>3, <2>2
    <3>2. IsOldest(r) => r = head
      BY <1>2, OneOldest DEF OrderInv
    <3>. QED
      BY <1>1, <2>2, <3>1, <3>2 DEF BoundInv, ConfirmedIsGuarded
  <2>. QED
    BY <2>1, <2>2
<1> QED
  BY <1>5, <1>6 DEF BoundInv

LEMMA CallBound ==
    ASSUME OrderInv, AuditTypeOK, CallerInv, BoundInv, NEW r \in Requests, EnqueueRuns(r)
    PROVE  BoundInv'
<1>1. UNCHANGED <<fpc, head, crashes, guard, confirmed>> /\ fpc # "down" /\ crashes \in Nat
  BY CallKeepsForwarder DEF EnqueueRuns, Enqueue, EnqueueSteps, EnqueueFaults, Reserve, RejectFull,
     CreateTemp, FillTemp, Commit, Undo, Nudge, SyncDir, RecordDirFsyncSuccess,
     RecordDirFsyncFailure, WriteTempFails, CommitFails, SyncDirFails, Passes, Call, Up,
     OrderInv, TypeOK
<1>2. /\ loc \in [Requests -> Places]
      /\ pc \in [Requests -> {"new"} \cup InFlight \cup Outcomes]
  BY DEF OrderInv, TypeOK
<1>3. \A q \in Requests :
         /\ pc'[q] \in NotCommitted => pc[q] \in NotCommitted
         /\ loc'[q] = "pending" => loc[q] = "pending" \/ pc[q] \in NotCommitted
  BY <1>2 DEF EnqueueRuns, Enqueue, EnqueueSteps, EnqueueFaults, Reserve, RejectFull, CreateTemp,
     FillTemp, Commit, Undo, Nudge, SyncDir, RecordDirFsyncSuccess, RecordDirFsyncFailure,
     WriteTempFails, CommitFails, SyncDirFails, AfterNudge, Passes, Call, MoveTo, NamesKept,
     Nameless, NotCommitted
<1>4. \A g \in Requests : IsOldest(g) => IsOldest(g)'
  BY OldestKept DEF EnqueueRuns
<1>5. ASSUME NEW q \in Requests, loc[q] = "pending", confirmed[q] > crashes
      PROVE  ConfirmedIsGuarded(q)'
  BY <1>1, <1>4, <1>5 DEF BoundInv, ConfirmedIsGuarded
<1> QED
  BY <1>1, <1>3, <1>5, BoundKeptBySteps

\* The rest of the callback: only the audit write gives up the guard, and then
\* the signal it stood for is the one that will be removed.
LEMMA CallbackBound ==
    ASSUME OrderInv, AuditTypeOK, CallerInv, BoundInv,
           SkipDelivery \/ DeliverFails \/ AuditWrite \/ AuditWriteFails
    PROVE  BoundInv'
<1>1. /\ UNCHANGED <<loc, name, pc, crashes, confirmed>> /\ fpc = "forward" /\ crashes \in Nat
      /\ \/ UNCHANGED guard /\ fpc' \in {"forward", "backoff", "bury"}
         \/ fpc' = "remove" /\ head' = head
  BY DEF SkipDelivery, DeliverFails, AuditWrite, AuditWriteFails, AtDelivery, AtAudit,
     ForwardRetryable, ForwardPermanent, ForwardOk, Moves, Forwards, HeadKept, OrderInv, TypeOK
<1>2. head \in Requests /\ IsOldest(head)
  BY <1>1 DEF CallerInv, HeadIsOldest, IsOldest, Pending
<1>3. ASSUME NEW q \in Requests, loc[q] = "pending", confirmed[q] > crashes
      PROVE  ConfirmedIsGuarded(q)'
  <2>1. guard = Digest[q] /\ IsOldest(q)
    BY <1>1, <1>3 DEF BoundInv, ConfirmedIsGuarded
  <2>2. q = head /\ IsOldest(q)'
    BY <1>1, <1>2, <2>1, OneOldest DEF OrderInv, IsOldest, Pending, Precedes
  <2> QED
    BY <1>1, <2>1, <2>2 DEF ConfirmedIsGuarded
<1> QED
  BY <1>1, <1>3, BoundKeptBySteps

LEMMA OtherBound ==
    ASSUME "remove" \notin Faults, OrderInv, AuditTypeOK, CallerInv, BoundInv,
           OnDead \/ OtherForwarderSteps
    PROVE  BoundInv'
<1>1. /\ UNCHANGED <<name, pc, crashes, confirmed>> /\ crashes \in Nat /\ fpc' # "down"
      /\ loc \in [Requests -> Places]
  BY OtherSteps DEF OnDead, FinishDead, Forwards, OrderInv, TypeOK
<1>2. CASE fpc \in {"bury", "remove"}
  <2>1. \A q \in Requests : IsOldest(q) => q = head
    BY <1>2, OneOldest DEF CallerInv, HeadIsOldest, IsOldest, Pending, OrderInv
  <2>2. \/ MoveTo(head, "dead") \/ MoveTo(head, "none")
        \/ fpc = "bury" /\ fpc' # "buried" /\ UNCHANGED <<loc, guard>>
    BY <1>2, OtherSteps DEF OnDead, FinishDead, Forwards, RemoveFails
  <2>3. ASSUME NEW q \in Requests, loc'[q] = "pending", loc[q] = "pending",
               confirmed[q] > crashes
        PROVE  ConfirmedIsGuarded(q)'
    BY <1>1, <1>2, <2>1, <2>2, <2>3
       DEF MoveTo, BoundInv, ConfirmedIsGuarded, IsOldest, Pending, Precedes
  <2>4. \A q \in Requests : loc'[q] = "pending" => loc[q] = "pending"
    BY <1>1, <2>2 DEF MoveTo
  <2> QED
    BY <1>1, <2>3, <2>4, BoundKeptBySteps
<1>3. CASE fpc \notin {"bury", "remove"}
  <2>1. UNCHANGED loc /\ (fpc = "buried" \/ (UNCHANGED guard /\ fpc' # "buried"))
    BY <1>3, OtherSteps DEF OnDead, FinishDead, Forwards, RemoveFails, Moves, Forwards
  <2>2. ASSUME NEW q \in Requests, loc[q] = "pending", confirmed[q] > crashes
        PROVE  ConfirmedIsGuarded(q)'
    BY <1>1, <1>3, <2>1, <2>2
       DEF BoundInv, ConfirmedIsGuarded, IsOldest, Pending, Precedes
  <2> QED
    BY <1>1, <2>1, <2>2, BoundKeptBySteps
<1> QED
  BY <1>2, <1>3

\* The one more delivery that each restart allows.
LEMMA ProcessBound ==
    ASSUME OrderInv, AuditTypeOK, BoundInv, ProcessEnds \/ ProcessSteps
    PROVE  BoundInv'
<1>1. confirmed \in [Requests -> Nat] /\ crashes \in Nat
  BY DEF AuditTypeOK, OrderInv, TypeOK
<1>2. CASE ProcessEnds
  <2>1. /\ UNCHANGED confirmed /\ fpc' = "down" /\ crashes' = crashes + 1
        /\ pc' = [r \in Requests |-> IF pc[r] \in InFlight THEN "lost" ELSE pc[r]]
    BY <1>2 DEF ProcessEnds, Exit, Crash, PowerLoss, ProcessGone
  <2>2. \A r \in Requests : pc'[r] \in NotCommitted => pc[r] \in NotCommitted
    BY <2>1 DEF Nameless, NotCommitted
  <2>3. \A r \in Requests : confirmed'[r] <= crashes'
    BY <1>1, <2>1 DEF BoundInv
  <2>4. \A r \in Requests : ~(confirmed'[r] > crashes')
    BY <1>1, <2>1, <2>3
  <2> QED
    BY <1>1, <2>1, <2>2, <2>3, <2>4 DEF BoundInv, ConfirmedIsGuarded
<1>3. CASE ProcessSteps
  <2>1. /\ UNCHANGED <<loc, name, pc, head, crashes, guard, confirmed>> /\ fpc' # "down"
        /\ UNCHANGED fpc \/ (fpc = "down" /\ fpc' = "top")
    BY <1>3 DEF ProcessSteps, Cancel, Restart, Up
  <2>2. ASSUME NEW q \in Requests, loc[q] = "pending", confirmed[q] > crashes
        PROVE  ConfirmedIsGuarded(q)'
    BY <2>1, <2>2 DEF BoundInv, ConfirmedIsGuarded, IsOldest, Pending, Precedes
  <2> QED
    BY <1>1, <2>1, <2>2, BoundKeptBySteps
<1> QED
  BY <1>2, <1>3

LEMMA BoundHolds ==
    ASSUME OneCaller, ~ClockMayStepBack, "remove" \notin Faults
    PROVE  AuditSpec => []BoundInv
<1>1. ASSUME OrderInv, AuditTypeOK, CallerInv, BoundInv, [AuditNext]_<<vars, auditVars>>
      PROVE  BoundInv'
  <2>1. CASE UNCHANGED <<vars, auditVars>>
    BY <1>1, <2>1 DEF BoundInv, ConfirmedIsGuarded, IsOldest, Pending, Precedes
  <2> QED
    BY <1>1, <2>1, CallBound, DeliverBound, CallbackBound, OtherBound, ProcessBound DEF AuditNext
<1> QED
  BY <1>1, InitBound, AuditTypeCorrect, AuditedOrder, CallerHolds, PTL DEF AuditSpec

\* Under the same two assumptions, and as long as os.Remove takes away what was
\* delivered, the vendor confirms a signal once, and once more for each restart.
THEOREM OncePerRestart ==
    ASSUME OneCaller, ~ClockMayStepBack, "remove" \notin Faults
    PROVE  AuditSpec => []DuplicatesBounded
<1>1. AuditTypeOK /\ OrderInv /\ BoundInv => DuplicatesBounded
  <2> SUFFICES ASSUME AuditTypeOK, OrderInv, BoundInv, NEW r \in Requests
               PROVE  confirmed[r] <= 1 + crashes
    BY DEF DuplicatesBounded
  <2>1. confirmed[r] \in Nat /\ crashes \in Nat
    BY DEF AuditTypeOK, OrderInv, TypeOK
  <2> QED
    BY <2>1 DEF BoundInv
<1> QED
  BY <1>1, BoundHolds, AuditTypeCorrect, AuditedOrder, PTL

\* A signal that this process delivered is not dead-lettered for a rejection: it
\* is not offered again, however often its audit write fails.
THEOREM ConfirmedNotRejected ==
    ASSUME OneCaller, ~ClockMayStepBack, "remove" \notin Faults
    PROVE  AuditSpec => DeliveredNotRejected
<1>1. ASSUME OrderInv, AuditTypeOK, CallerInv, BoundInv, [AuditNext]_<<vars, auditVars>>,
             fpc = "forward", fpc' = "bury"
      PROVE  confirmed[head] = 0 \/ crashes > 0
  <2>1. DeliverFails
    <3>1. \A r \in Requests : ~EnqueueRuns(r)
      BY <1>1, CallKeepsForwarder
    <3>2. ~OtherForwarderSteps
      BY <1>1, OtherSteps
    <3> QED
      BY <1>1, <3>1, <3>2 DEF AuditNext, Deliver, SkipDelivery, AtDelivery, AuditWrite, ForwardOk,
         AuditWriteFails, ForwardRetryable, OnDead, FinishDead, Moves, Forwards, ProcessEnds,
         Exit, Crash, PowerLoss, ProcessGone, ProcessSteps, Cancel, Restart
  <2>2. head \in Requests /\ confirmed[head] <= crashes
    BY <1>1, <2>1, UnguardedIsNew DEF DeliverFails
  <2>3. confirmed[head] \in Nat /\ crashes \in Nat
    BY <1>1, <2>2 DEF AuditTypeOK, OrderInv, TypeOK
  <2> QED
    BY <2>2, <2>3
<1> QED
  BY <1>1, BoundHolds, AuditTypeCorrect, AuditedOrder, CallerHolds, PTL
     DEF AuditSpec, DeliveredNotRejected

=============================================================================
