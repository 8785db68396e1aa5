---------------------------- MODULE SpoolProofs ----------------------------
(***************************************************************************)
(* Proofs about Spool for every set of requests, every depth limit, every  *)
(* choice of faults and any number of crashes.                             *)
(***************************************************************************)
EXTENDS Spool, FiniteSetTheorems, TLAPS

USE RequestsAssumption, MaxDepthAssumption, SettingsAssumption

USE DEF diskVars, requestVars, spoolVars, forwardVars, worldVars,
        memoryVars, vars

\* The directory listing is finite, so its size is a depth.
LEMMA PendingFinite == IsFiniteSet(Pending) /\ Cardinality(Pending) \in Nat
<1>1. Pending \subseteq Requests
  BY DEF Pending
<1> QED
  BY <1>1, FS_Subset, FS_CardinalityType

-----------------------------------------------------------------------------
(* Type correctness *)

LEMMA EnqueueTypes ==
    ASSUME TypeOK, NEW r \in Requests, Enqueue(r)
    PROVE  TypeOK'
<1> USE DEF TypeOK, Call, NamesKept, Passes, MoveTo, Places, Contents, InFlight, Outcomes
<1>1. CASE Reserve(r)
  <2>1. PICK t \in Readings : name' = [name EXCEPT ![r] = <<t, seq + 1>>] /\ clock' = t
    BY <1>1 DEF Reserve
  <2>2. t \in Nat \ {0}
    BY DEF Readings
  <2> QED
    BY <1>1, <2>1, <2>2 DEF Reserve, Pending
<1>2. CASE RejectFull(r)
  BY <1>2 DEF RejectFull
<1>3. CASE CreateTemp(r)
  BY <1>3 DEF CreateTemp
<1>4. CASE FillTemp(r)
  BY <1>4 DEF FillTemp, SyncedContent
<1>5. CASE Commit(r)
  BY <1>5 DEF Commit
<1>6. CASE Undo(r)
  <2>1. depth' \in Nat
    BY <1>6 DEF Undo, decDepth
  <2>2. loc' \in [Requests -> Places] /\ disk' \in [Requests -> SUBSET Places]
    <3>1. CASE MoveTo(r, "none")
      BY <3>1
    <3>2. CASE UNCHANGED <<loc, disk>>
      BY <3>2
    <3> QED
      BY <1>6, <3>1, <3>2 DEF Undo
  <2> QED
    BY <1>6, <2>1, <2>2 DEF Undo
<1>7. CASE Nudge(r)
  BY <1>7 DEF Nudge, nudge, AfterNudge
<1>8. CASE SyncDir(r)
  BY <1>8 DEF SyncDir
<1>9. CASE RecordDirFsyncSuccess(r)
  BY <1>9 DEF RecordDirFsyncSuccess
<1>10. CASE RecordDirFsyncFailure(r)
  BY <1>10 DEF RecordDirFsyncFailure
<1>11. CASE WriteTempFails(r)
  <2>1. PICK from \in {"create", "fill"} : Passes(r, from, "undo")
    BY <1>11 DEF WriteTempFails
  <2> QED
    BY <2>1
<1>12. CASE CommitFails(r)
  BY <1>12 DEF CommitFails
<1>13. CASE SyncDirFails(r)
  BY <1>13 DEF SyncDirFails
<1> QED
  BY <1>1, <1>2, <1>3, <1>4, <1>5, <1>6, <1>7, <1>8, <1>9, <1>10, <1>11,
     <1>12, <1>13
  DEF Enqueue, EnqueueSteps, EnqueueFaults

LEMMA ForwarderTypes ==
    ASSUME TypeOK, Forwarder \/ ForwarderFaults
    PROVE  TypeOK'
<1> USE DEF TypeOK, Forwards, Moves, HeadKept, HeadDone, MoveTo, Places, WithHead, ForwarderSteps
<1>1. CASE \E h \in Requests : ListPending(h)
  BY <1>1 DEF ListPending, updateOldestPending
<1>2. CASE ListEmpty
  BY <1>2 DEF ListEmpty, updateOldestPending
<1>3. CASE ReadFile \/ ForwardRetryable \/ ForwardPermanent \/ TimerFires \/ Stop
  BY <1>3 DEF ReadFile, ForwardRetryable, ForwardPermanent, TimerFires, Stop
<1>4. CASE ForwardOk
  <2>1. head \in Requests
    BY <1>4 DEF ForwardOk
  <2> QED
    BY <1>4, <2>1 DEF ForwardOk
<1>5. CASE Bury \/ Remove
  BY <1>5 DEF Bury, Remove
<1>6. CASE FinishDead \/ FinishDelivered
  BY <1>6 DEF FinishDead, FinishDelivered, decDepth
<1>7. CASE WakeUp
  BY <1>7 DEF WakeUp
<1>8. CASE ForwarderFaults
  BY <1>8 DEF ForwarderFaults, ListFails, ReadFails, BuryFails, RemoveFails
<1> QED
  BY <1>1, <1>2, <1>3, <1>4, <1>5, <1>6, <1>7, <1>8 DEF Forwarder

LEMMA ProcessTypes ==
    ASSUME TypeOK, Cancel \/ Exit \/ Crash \/ PowerLoss \/ Restart
    PROVE  TypeOK'
<1> USE DEF TypeOK, WithHead, ForwarderSteps
<1>1. CASE Cancel
  BY <1>1 DEF Cancel
<1>2. ASSUME ProcessGone, loc' \in [Requests -> Places],
             disk' \in [Requests -> SUBSET Places], content' \in [Requests -> Contents]
      PROVE  TypeOK'
  <2>1. pc' \in [Requests -> {"new"} \cup InFlight \cup Outcomes]
    BY <1>2 DEF ProcessGone, Outcomes
  <2>2. fpc' = "down" /\ head' = None
    BY <1>2 DEF ProcessGone
  <2>3. wake' \in BOOLEAN /\ ctxDone' \in BOOLEAN
    BY <1>2 DEF ProcessGone
  <2> QED
    BY <1>2, <2>1, <2>2, <2>3 DEF ProcessGone, NamesKept
<1>3. CASE Exit \/ Crash
  BY <1>2, <1>3 DEF Exit, Crash
<1>4. CASE PowerLoss
  <2>1. content' \in [Requests -> Contents]
    <3>1. PICK torn \in SUBSET {r \in Requests : content[r] = "cached"} :
             content' = [r \in Requests |->
                            IF r \in torn THEN "torn"
                            ELSE IF content[r] = "cached" THEN "durable" ELSE content[r]]
      BY <1>4 DEF PowerLoss
    <3> QED
      BY <3>1 DEF Contents
  <2>2. loc' \in [Requests -> Places] /\ disk' \in [Requests -> SUBSET Places]
    BY <1>4 DEF PowerLoss
  <2> QED
    BY <1>2, <1>4, <2>1, <2>2 DEF PowerLoss
<1>5. CASE Restart
  <2>1. oldestPendingAt' \in Nat
    BY <1>5 DEF Restart, updateOldestPending, IsOldest, Pending
  <2>2. depth' \in Nat
    BY <1>5, PendingFinite DEF Restart
  <2> QED
    BY <1>5, <2>1, <2>2 DEF Restart
<1> QED
  BY <1>1, <1>3, <1>4, <1>5

LEMMA InitTypes ==
    ASSUME Init
    PROVE  TypeOK
<1>1. /\ loc \in [Requests -> Places] /\ disk \in [Requests -> SUBSET Places]
      /\ content \in [Requests -> Contents]
  BY DEF Init, Places, Contents
<1>2. /\ pc \in [Requests -> {"new"} \cup InFlight \cup Outcomes]
      /\ name \in [Requests -> Nat \X Nat]
      /\ earlier \in [Requests -> SUBSET Requests]
  BY DEF Init
<1>3. fpc \in ForwarderSteps /\ head \in IF fpc \in WithHead THEN Requests ELSE {None}
  BY DEF Init, WithHead, ForwarderSteps
<1>4. wake \in BOOLEAN /\ ctxDone \in BOOLEAN
  BY DEF Init
<1> QED
  BY <1>1, <1>2, <1>3, <1>4 DEF Init, TypeOK

LEMMA StepTypes ==
    ASSUME TypeOK, [Next]_vars
    PROVE  TypeOK'
<1>1. CASE Next
  BY <1>1, EnqueueTypes, ForwarderTypes, ProcessTypes DEF Next
<1>2. CASE UNCHANGED vars
  BY <1>2 DEF TypeOK
<1> QED
  BY <1>1, <1>2

\* The types hold in every reachable state.
THEOREM TypeCorrect == Spec => []TypeOK
  BY InitTypes, StepTypes, PTL DEF Spec

-----------------------------------------------------------------------------
(* Accepted signals are never lost.  AckedNeverLost is not inductive: it says *)
(* nothing of where the call of an accepted signal came from, nor of what a  *)
(* power loss would make of its file.  The three parts below do.             *)

\* Power losses come with SPOOL_FSYNC on; without it only the process crashes.
Durable == FsyncEnabled \/ ~HostMayFail

\* The forwarder holds a file that is in the directory, and removes it only
\* after the destination confirmed it.
HeadQueued ==
    /\ fpc \in {"read", "forward", "bury", "remove"} => loc[head] = "pending"
    /\ fpc \in {"remove", "removed"} => head \in delivered

\* Nobody but the call itself touches its file before the rename, and only the
\* forwarder after it.
CallOwnsFile(r) ==
    /\ pc[r] \in {"new", "create"} => loc[r] = "none" /\ disk[r] = {"none"}
    /\ pc[r] \in {"fill", "rename"} => loc[r] = "tmp"
    /\ pc[r] = "undo" => loc[r] \in {"none", "tmp"}
    /\ pc[r] = "rename" => content[r] = SyncedContent
    /\ pc[r] \in {"fill", "rename", "undo"} => disk[r] \subseteq {"none", "tmp"}
    /\ pc[r] \in {"nudge", "sync", "synced", "unsynced", "accepted"} =>
            r \in delivered \/ loc[r] \in {"pending", "dead"}

\* A power loss finds every committed file whole, and finds it at all once the
\* directory was fsynced.
DiskKeepsFile(r) ==
    /\ loc[r] \in disk[r]
    /\ disk[r] \cap {"pending", "dead"} # {} => content[r] = SyncedContent
    /\ FsyncEnabled /\ pc[r] \in {"synced", "accepted"} =>
            r \in delivered \/ disk[r] \subseteq {"pending", "dead"}

SafetyInv ==
    /\ TypeOK
    /\ HeadQueued
    /\ \A r \in Requests : CallOwnsFile(r) /\ DiskKeepsFile(r)

FilesSafe(r) == CallOwnsFile(r) /\ DiskKeepsFile(r)

LEMMA EnqueueSafe ==
    ASSUME SafetyInv, NEW r \in Requests, Enqueue(r)
    PROVE  HeadQueued' /\ \A q \in Requests : FilesSafe(q)'
<1> USE DEF SafetyInv, TypeOK, WithHead, HeadQueued, FilesSafe, CallOwnsFile, DiskKeepsFile,
            Call, NamesKept, Passes, MoveTo
<1>1. CASE Reserve(r)
  BY <1>1 DEF Reserve
<1>2. CASE RejectFull(r)
  BY <1>2 DEF RejectFull
<1>3. CASE CreateTemp(r)
  BY <1>3 DEF CreateTemp
<1>4. CASE FillTemp(r)
  BY <1>4 DEF FillTemp
<1>5. CASE Commit(r)
  BY <1>5 DEF Commit
<1>6. CASE Undo(r)
  <2>1. CASE MoveTo(r, "none")
    BY <1>6, <2>1 DEF Undo
  <2>2. CASE UNCHANGED <<loc, disk>>
    BY <1>6, <2>2 DEF Undo
  <2> QED
    BY <1>6, <2>1, <2>2 DEF Undo
<1>7. CASE Nudge(r)
  BY <1>7 DEF Nudge, AfterNudge
<1>8. CASE SyncDir(r)
  BY <1>8 DEF SyncDir
<1>9. CASE RecordDirFsyncSuccess(r)
  BY <1>9 DEF RecordDirFsyncSuccess
<1>10. CASE RecordDirFsyncFailure(r)
  BY <1>10 DEF RecordDirFsyncFailure
<1>11. CASE WriteTempFails(r)
  <2>1. CASE Passes(r, "create", "undo")
    BY <2>1
  <2>2. CASE Passes(r, "fill", "undo")
    BY <2>2
  <2> QED
    BY <1>11, <2>1, <2>2 DEF WriteTempFails
<1>12. CASE CommitFails(r)
  BY <1>12 DEF CommitFails
<1>13. CASE SyncDirFails(r)
  BY <1>13 DEF SyncDirFails
<1> QED
  BY <1>1, <1>2, <1>3, <1>4, <1>5, <1>6, <1>7, <1>8, <1>9, <1>10, <1>11,
     <1>12, <1>13
  DEF Enqueue, EnqueueSteps, EnqueueFaults

LEMMA ForwarderSafe ==
    ASSUME SafetyInv, Forwarder \/ ForwarderFaults
    PROVE  HeadQueued' /\ \A q \in Requests : FilesSafe(q)'
<1> USE DEF SafetyInv, TypeOK, WithHead, HeadQueued, FilesSafe, CallOwnsFile, DiskKeepsFile,
            Forwards, Moves, HeadKept, HeadDone, MoveTo
<1>1. CASE \E h \in Requests : ListPending(h)
  BY <1>1 DEF ListPending, IsOldest, Pending
<1>2. CASE ListEmpty
  BY <1>2 DEF ListEmpty
<1>3. CASE ReadFile \/ ForwardRetryable \/ ForwardPermanent \/ TimerFires \/ Stop
  BY <1>3 DEF ReadFile, ForwardRetryable, ForwardPermanent, TimerFires, Stop
<1>4. CASE ForwardOk
  BY <1>4 DEF ForwardOk
<1>5. CASE Bury
  BY <1>5 DEF Bury
<1>6. CASE Remove
  BY <1>6 DEF Remove
<1>7. CASE FinishDead \/ FinishDelivered
  BY <1>7 DEF FinishDead, FinishDelivered
<1>8. CASE WakeUp
  BY <1>8 DEF WakeUp
<1>9. CASE ListFails \/ ReadFails \/ BuryFails \/ RemoveFails
  BY <1>9 DEF ListFails, ReadFails, BuryFails, RemoveFails
<1> QED
  BY <1>1, <1>2, <1>3, <1>4, <1>5, <1>6, <1>7, <1>8, <1>9 DEF Forwarder, ForwarderFaults

LEMMA ProcessSafe ==
    ASSUME SafetyInv, Durable, Cancel \/ Exit \/ Crash \/ PowerLoss \/ Restart
    PROVE  HeadQueued' /\ \A q \in Requests : FilesSafe(q)'
<1> USE DEF SafetyInv, TypeOK, WithHead, HeadQueued, FilesSafe, CallOwnsFile, DiskKeepsFile
<1>1. CASE Cancel
  BY <1>1 DEF Cancel
<1>2. CASE Exit \/ Crash
  BY <1>2 DEF Exit, Crash, ProcessGone, InFlight
<1>3. CASE PowerLoss
  <2>1. HeadQueued'
    BY <1>3 DEF PowerLoss, ProcessGone
  <2>2. ASSUME NEW q \in Requests PROVE FilesSafe(q)'
    <3>1. pc'[q] = (IF pc[q] \in InFlight THEN "lost" ELSE pc[q]) /\ delivered' = delivered
      BY <1>3 DEF PowerLoss, ProcessGone
    <3>2. loc'[q] \in disk[q] /\ disk'[q] = {loc'[q]}
      BY <1>3 DEF PowerLoss
    \* A file that survives at a committed place was fsynced before it got there.
    <3>3. disk[q] \cap {"pending", "dead"} # {} => content'[q] = SyncedContent
      <4>1. SyncedContent = "durable"
        BY <1>3 DEF Durable, PowerLoss, SyncedContent
      <4>2. PICK torn \in SUBSET {r \in Requests : content[r] = "cached"} :
               content' = [r \in Requests |->
                              IF r \in torn THEN "torn"
                              ELSE IF content[r] = "cached" THEN "durable" ELSE content[r]]
        BY <1>3 DEF PowerLoss
      <4> QED
        BY <4>1, <4>2
    <3>4. pc'[q] = "accepted" => q \in delivered \/ disk[q] \subseteq {"pending", "dead"}
      BY <1>3, <3>1 DEF Durable, PowerLoss
    <3> QED
      BY <3>1, <3>2, <3>3, <3>4 DEF InFlight
  <2> QED
    BY <2>1, <2>2
<1>4. CASE Restart
  BY <1>4 DEF Restart
<1> QED
  BY <1>1, <1>2, <1>3, <1>4

\* SafetyInv is inductive.
THEOREM SpoolSafe ==
    ASSUME Durable
    PROVE  Spec => []SafetyInv
<1>1. ASSUME Init PROVE SafetyInv
  <2>1. TypeOK
    BY <1>1, InitTypes
  <2>2. HeadQueued
    BY <1>1 DEF Init, HeadQueued
  <2>3. ASSUME NEW r \in Requests PROVE CallOwnsFile(r) /\ DiskKeepsFile(r)
    BY <1>1 DEF Init, CallOwnsFile, DiskKeepsFile
  <2> QED
    BY <2>1, <2>2, <2>3 DEF SafetyInv
<1>2. ASSUME SafetyInv, [Next]_vars PROVE SafetyInv'
  <2>1. TypeOK'
    BY <1>2, StepTypes DEF SafetyInv
  <2>2. CASE Next
    <3>1. HeadQueued' /\ \A q \in Requests : FilesSafe(q)'
      BY <1>2, <2>2, EnqueueSafe, ForwarderSafe, ProcessSafe DEF Next
    <3> QED
      BY <2>1, <3>1 DEF SafetyInv, FilesSafe
  <2>3. CASE UNCHANGED vars
    BY <1>2, <2>3 DEF SafetyInv, TypeOK, HeadQueued, CallOwnsFile, DiskKeepsFile, Pending
  <2> QED
    BY <1>2, <2>2, <2>3
<1> QED
  BY <1>1, <1>2, PTL DEF Spec

\* A signal whose Enqueue returned nil is never lost, for any number of calls,
\* faults, crashes and, with SPOOL_FSYNC on, power losses.
THEOREM AcceptedNeverLost ==
    ASSUME Durable
    PROVE  Spec => []AckedNeverLost
<1>1. SafetyInv => AckedNeverLost
  BY DEF SafetyInv, CallOwnsFile, AckedNeverLost
<1> QED
  BY <1>1, SpoolSafe, PTL

\* The forwarder and an operator at the dead letters only ever meet whole
\* signals: every crash in the middle of a write leaves a .tmp.
THEOREM OnlyWholeSignals ==
    ASSUME Durable
    PROVE  Spec => []WholeSignalsOnly
<1>1. SafetyInv => WholeSignalsOnly
  BY DEF SafetyInv, DiskKeepsFile, WholeSignalsOnly, SyncedContent
<1> QED
  BY <1>1, SpoolSafe, PTL

-----------------------------------------------------------------------------
(* Wake-ups *)

\* Whatever the order of a commit, its nudge and the forwarder's listing, an
\* idle forwarder with a backlog has a wake-up waiting or coming.
THEOREM WakeupNeverLost == Spec => []NoLostWakeup
<1>1. Init => NoLostWakeup
  BY DEF Init, NoLostWakeup
<1>2. ASSUME TypeOK, NoLostWakeup, [Next]_vars PROVE NoLostWakeup'
  <2> USE DEF TypeOK, WithHead, ForwarderSteps, NoLostWakeup, Pending
  <2>1. ASSUME NEW r \in Requests, Enqueue(r) PROVE NoLostWakeup'
    <3> USE DEF Call, NamesKept, Passes, MoveTo
    <3>1. CASE Reserve(r) \/ RejectFull(r) \/ FillTemp(r)
      BY <1>2, <3>1 DEF Reserve, RejectFull, FillTemp
    <3>2. CASE CreateTemp(r)
      BY <1>2, <3>2 DEF CreateTemp
    <3>3. CASE Commit(r)
      BY <1>2, <3>3 DEF Commit
    <3>4. CASE Undo(r)
      <4>1. Pending' \subseteq Pending
        <5>1. CASE MoveTo(r, "none")
          BY <3>4, <5>1
        <5>2. CASE UNCHANGED <<loc, disk>>
          BY <5>2
        <5> QED
          BY <3>4, <5>1, <5>2 DEF Undo
      <4> QED
        BY <1>2, <3>4, <4>1 DEF Undo
    <3>5. CASE Nudge(r)
      BY <1>2, <3>5 DEF Nudge, nudge
    <3>6. CASE SyncDir(r) \/ SyncDirFails(r)
      BY <1>2, <3>6 DEF SyncDir, SyncDirFails
    <3>7. CASE RecordDirFsyncSuccess(r) \/ RecordDirFsyncFailure(r)
      BY <1>2, <3>7 DEF RecordDirFsyncSuccess, RecordDirFsyncFailure
    <3>8. CASE WriteTempFails(r)
      <4>1. PICK from \in {"create", "fill"} : Passes(r, from, "undo")
        BY <3>8 DEF WriteTempFails
      <4> QED
        BY <1>2, <4>1
    <3>9. CASE CommitFails(r)
      BY <1>2, <3>9 DEF CommitFails
    <3> QED
      BY <2>1, <3>1, <3>2, <3>3, <3>4, <3>5, <3>6, <3>7, <3>8, <3>9
      DEF Enqueue, EnqueueSteps, EnqueueFaults
  \* The forwarder goes idle over an empty directory only.
  <2>2. CASE Forwarder \/ ForwarderFaults
    <3>1. CASE ListEmpty
      BY <3>1 DEF ListEmpty, Forwards
    <3>2. fpc' = "idle" => ListEmpty
      BY <2>2 DEF Forwarder, ForwarderFaults, ListPending, ReadFile, ForwardOk,
         ForwardRetryable, ForwardPermanent, Bury, FinishDead, Remove, FinishDelivered,
         WakeUp, TimerFires, Stop, ListFails, ReadFails, BuryFails, RemoveFails,
         Moves, Forwards
    <3> QED
      BY <3>1, <3>2
  <2>3. CASE Exit \/ Crash \/ PowerLoss \/ Restart
    BY <2>3 DEF Exit, Crash, PowerLoss, ProcessGone, Restart
  <2>4. CASE Cancel
    BY <1>2, <2>4 DEF Cancel
  <2>5. CASE UNCHANGED vars
    BY <1>2, <2>5
  <2> QED
    BY <1>2, <2>1, <2>2, <2>3, <2>4, <2>5 DEF Next
<1> QED
  BY <1>1, <1>2, TypeCorrect, PTL DEF Spec

-----------------------------------------------------------------------------
(* The spool implements DeliveryQueue                                        *)

QueueStep == Queue!Next \/ UNCHANGED Queue!vars

\* A step that leaves the places of the files, the outcomes of the calls and
\* the deliveries alone is invisible to the queue.
LEMMA InvisibleStep ==
    ASSUME TypeOK, UNCHANGED <<loc, delivered>>,
           \A r \in Requests : pc[r] = "accepted" <=> pc'[r] = "accepted"
    PROVE  QueueStep
BY DEF QueueStep, Queue!vars, Pending

LEMMA EnqueueRefines ==
    ASSUME SafetyInv, NEW r \in Requests, Enqueue(r)
    PROVE  QueueStep
<1> USE DEF SafetyInv, TypeOK, Call, NamesKept, Passes, MoveTo, FilesSafe, CallOwnsFile
<1> DEFINE Same == /\ UNCHANGED <<loc, delivered>>
                   /\ \A q \in Requests : pc[q] = "accepted" <=> pc'[q] = "accepted"
<1>1. CASE Reserve(r) \/ RejectFull(r) \/ FillTemp(r)
  <2>1. Same
    BY <1>1 DEF Reserve, RejectFull, FillTemp
  <2> QED
    BY <2>1, InvisibleStep
<1>2. CASE CreateTemp(r)
  BY <1>2 DEF CreateTemp, QueueStep, Queue!vars, Pending
<1>3. CASE Commit(r)
  <2>1. Queue!Take(r)
    BY <1>3 DEF Commit, Queue!Take, Pending
  <2> QED
    BY <2>1 DEF QueueStep, Queue!Next
<1>4. CASE Undo(r)
  <2>1. CASE MoveTo(r, "none")
    BY <1>4, <2>1 DEF Undo, QueueStep, Queue!vars, Pending
  <2>2. CASE UNCHANGED <<loc, disk>>
    <3>1. Same
      BY <1>4, <2>2 DEF Undo
    <3> QED
      BY <3>1, InvisibleStep
  <2> QED
    BY <1>4, <2>1, <2>2 DEF Undo
\* The promise: without SPOOL_FSYNC right after the nudge ...
<1>5. CASE Nudge(r)
  <2>1. CASE FsyncEnabled
    <3>1. Same
      BY <1>5, <2>1 DEF Nudge, AfterNudge
    <3> QED
      BY <3>1, InvisibleStep
  <2>2. CASE ~FsyncEnabled
    <3>1. Queue!Promise(r)
      BY <1>5, <2>2 DEF Nudge, AfterNudge, Queue!Promise, Pending
    <3> QED
      BY <3>1 DEF QueueStep, Queue!Next
  <2> QED
    BY <2>1, <2>2
<1>6. CASE SyncDir(r) \/ SyncDirFails(r)
  <2>1. Same
    BY <1>6 DEF SyncDir, SyncDirFails
  <2> QED
    BY <2>1, InvisibleStep
\* ... otherwise after the fsync of the directory.
<1>7. CASE RecordDirFsyncSuccess(r)
  <2>1. Queue!Promise(r)
    BY <1>7 DEF RecordDirFsyncSuccess, Queue!Promise, Pending
  <2> QED
    BY <2>1 DEF QueueStep, Queue!Next
<1>8. CASE RecordDirFsyncFailure(r)
  <2>1. Same
    BY <1>8 DEF RecordDirFsyncFailure
  <2> QED
    BY <2>1, InvisibleStep
<1>9. CASE WriteTempFails(r) \/ CommitFails(r)
  <2>1. PICK from \in {"create", "fill", "rename"} : Passes(r, from, "undo")
    BY <1>9 DEF WriteTempFails, CommitFails
  <2>2. Same
    BY <2>1
  <2> QED
    BY <2>2, InvisibleStep
<1> QED
  BY <1>1, <1>2, <1>3, <1>4, <1>5, <1>6, <1>7, <1>8, <1>9
  DEF Enqueue, EnqueueSteps, EnqueueFaults

LEMMA ForwarderRefines ==
    ASSUME SafetyInv, Forwarder \/ ForwarderFaults
    PROVE  QueueStep
<1> USE DEF SafetyInv, TypeOK, WithHead, HeadQueued, Forwards, Moves, HeadKept, MoveTo
<1>1. CASE ForwardOk
  <2>1. Queue!HandOver(head) /\ head \in Requests
    BY <1>1 DEF ForwardOk, Queue!HandOver, Pending
  <2> QED
    BY <2>1 DEF QueueStep, Queue!Next
<1>2. CASE Bury
  <2>1. head \in Requests
    BY <1>2 DEF Bury
  <2> QED
    BY <1>2, <2>1 DEF Bury, Queue!SetAside, Pending, QueueStep, Queue!Next
<1>3. CASE Remove
  <2>1. Queue!Discharge(head) /\ head \in Requests
    BY <1>3 DEF Remove, Queue!Discharge, Pending
  <2> QED
    BY <2>1 DEF QueueStep, Queue!Next
<1>4. CASE ~ForwardOk /\ ~Bury /\ ~Remove
  <2>1. UNCHANGED <<loc, delivered, pc>>
    BY <1>4 DEF Forwarder, ForwarderFaults, ListPending, ListEmpty, ReadFile,
       ForwardRetryable, ForwardPermanent, FinishDead, FinishDelivered,
       WakeUp, TimerFires, Stop, ListFails, ReadFails, BuryFails, RemoveFails
  <2> QED
    BY <2>1, InvisibleStep
<1> QED
  BY <1>1, <1>2, <1>3, <1>4

LEMMA ProcessRefines ==
    ASSUME SafetyInv, SafetyInv', Cancel \/ Exit \/ Crash \/ PowerLoss \/ Restart
    PROVE  QueueStep
<1> USE DEF SafetyInv, TypeOK
<1>1. CASE Cancel \/ Restart
  BY <1>1, InvisibleStep DEF Cancel, Restart
<1>2. CASE Exit \/ Crash
  <2>1. /\ UNCHANGED <<loc, delivered>>
        /\ \A q \in Requests : pc[q] = "accepted" <=> pc'[q] = "accepted"
    BY <1>2 DEF Exit, Crash, ProcessGone, InFlight
  <2> QED
    BY <2>1, InvisibleStep
<1>3. CASE PowerLoss
  <2>1. /\ UNCHANGED delivered
        /\ \A q \in Requests : pc[q] = "accepted" <=> pc'[q] = "accepted"
    BY <1>3 DEF PowerLoss, ProcessGone, InFlight
  <2>2. \A q \in Requests : pc[q] = "accepted" => q \in delivered \/ loc'[q] \in {"pending", "dead"}
    BY <2>1 DEF CallOwnsFile
  <2>3. {q \in Requests : pc[q] = "accepted"}' = {q \in Requests : pc[q] = "accepted"}
    BY <2>1
  <2>4. Queue!HostFails
    BY <2>1, <2>2, <2>3 DEF Queue!HostFails, Pending
  <2> QED
    BY <2>4 DEF QueueStep, Queue!Next
<1> QED
  BY <1>1, <1>2, <1>3

\* The spool is an at-least-once queue with a dead-letter store: every step of
\* the code is one of the queue's or does not show.
THEOREM SpoolIsQueue ==
    ASSUME Durable
    PROVE  Spec => ImplementsQueue
<1>1. Init => Queue!Init
  BY DEF Init, Queue!Init, Pending
<1>2. ASSUME SafetyInv, SafetyInv', [Next]_vars PROVE QueueStep
  <2>1. CASE UNCHANGED vars
    BY <1>2, <2>1, InvisibleStep DEF SafetyInv
  <2> QED
    BY <1>2, <2>1, EnqueueRefines, ForwarderRefines, ProcessRefines DEF Next
<1>3. Spec => []SafetyInv
  BY SpoolSafe
<1> QED
  BY <1>1, <1>2, <1>3, PTL DEF Spec, ImplementsQueue, Queue!Spec, QueueStep

-----------------------------------------------------------------------------
(* Submission order, when the clock does not step back.  A call reserves its  *)
(* name long before its file appears, so names, not files, carry the order.   *)

\* Calls that have no name yet or get none; calls without a file in the queue
\* that may still get one.
Nameless     == {"new", "full"}
NotCommitted == Nameless \cup {"create", "fill", "rename", "undo"}

\* What waits in the queue, and what the forwarder works on, was committed.
QueueIsCommitted ==
    /\ \A r \in Requests :
          /\ pc[r] \in Nameless => loc[r] = "none" /\ disk[r] = {"none"}
          /\ pc[r] \in NotCommitted => loc[r] # "pending"
    /\ fpc \in WithHead => pc[head] \notin NotCommitted

\* The next name will come after every name there is: a restart, which resets
\* the sequence number, lets the clock go on.
NamesArePast(r) ==
    pc[r] \notin Nameless =>
        /\ name[r][1] <= clock
        /\ Up /\ name[r][1] = clock => name[r][2] <= seq

\* What was pending when a call reserved its name was committed and has an
\* earlier name.
EarlierPrecedes(r) == \A q \in earlier[r] : pc[q] \notin NotCommitted /\ Precedes(q, r)

HeadIsNext ==
    fpc \in {"read", "forward"} => \A q \in earlier[head] : loc[q] # "pending"

OrderInv ==
    /\ TypeOK
    /\ QueueIsCommitted
    /\ \A r \in Requests : NamesArePast(r) /\ EarlierPrecedes(r)
    /\ HeadIsNext

LEMMA InitOrder == Init => OrderInv
<1>. SUFFICES ASSUME Init PROVE OrderInv
  OBVIOUS
<1>1. TypeOK
  BY InitTypes
<1>2. ASSUME NEW r \in Requests PROVE NamesArePast(r) /\ EarlierPrecedes(r)
  BY DEF Init, NamesArePast, EarlierPrecedes, Nameless
<1>. QED
  BY <1>1, <1>2 DEF Init, OrderInv, QueueIsCommitted, HeadIsNext, WithHead

LEMMA ReserveOrder ==
    ASSUME ~ClockMayStepBack, OrderInv, TypeOK', NEW r \in Requests, Reserve(r)
    PROVE  OrderInv'
<1>1. PICK t \in Readings : name' = [name EXCEPT ![r] = <<t, seq + 1>>] /\ clock' = t
  BY DEF Reserve
<1>2. t \in Nat /\ clock \in Nat /\ clock <= t /\ seq \in Nat
  BY <1>1 DEF Readings, OrderInv, TypeOK
<1>3. /\ pc[r] = "new" /\ pc'[r] = "create" /\ Up /\ seq' = seq + 1
      /\ name'[r][1] = t /\ name'[r][2] = seq + 1 /\ earlier'[r] = Pending
      /\ UNCHANGED <<fpc, head, loc, disk>>
      /\ \A q \in Requests : q # r => /\ pc'[q] = pc[q] /\ name'[q] = name[q]
                                      /\ earlier'[q] = earlier[q]
  BY <1>1 DEF Reserve, Call, OrderInv, TypeOK
<1>4. \A q \in Requests : name[q][1] \in Nat /\ name[q][2] \in Nat /\ earlier[q] \subseteq Requests
  BY DEF OrderInv, TypeOK
<1>5. QueueIsCommitted'
  <2>1. fpc \in WithHead => head \in Requests
    BY DEF OrderInv, TypeOK
  <2>2. \A q \in Requests : /\ pc'[q] \in Nameless => loc[q] = "none" /\ disk[q] = {"none"}
                            /\ pc'[q] \in NotCommitted => loc[q] # "pending"
    BY <1>3 DEF OrderInv, QueueIsCommitted, Nameless, NotCommitted
  <2>3. fpc \in WithHead => pc'[head] \notin NotCommitted
    BY <1>3, <2>1 DEF OrderInv, QueueIsCommitted, Nameless, NotCommitted
  <2>. QED
    BY <1>3, <2>2, <2>3 DEF QueueIsCommitted
<1>6. ASSUME NEW q \in Requests PROVE NamesArePast(q)'
  BY <1>1, <1>2, <1>3, <1>4 DEF OrderInv, NamesArePast, Up
<1>7. ASSUME NEW q \in Requests PROVE EarlierPrecedes(q)'
  <2>1. CASE q = r
    <3>1. ASSUME NEW p \in Pending PROVE pc'[p] \notin NotCommitted /\ Precedes(p, r)'
      <4>1. p \in Requests /\ p # r /\ pc[p] \notin NotCommitted
        BY <1>3 DEF Pending, OrderInv, QueueIsCommitted, Nameless, NotCommitted
      <4>2. name[p][1] <= clock /\ (name[p][1] = clock => name[p][2] <= seq)
        BY <1>3, <4>1 DEF OrderInv, NamesArePast, NotCommitted
      <4>. QED
        BY <1>2, <1>3, <1>4, <4>1, <4>2 DEF Precedes
    <3>. QED
      BY <1>3, <2>1, <3>1 DEF EarlierPrecedes
  <2>2. CASE q # r
    <3>1. ASSUME NEW p \in earlier[q] PROVE pc'[p] \notin NotCommitted /\ Precedes(p, q)'
      <4>1. p \in Requests /\ pc[p] \notin NotCommitted /\ Precedes(p, q)
        BY <1>4 DEF OrderInv, EarlierPrecedes
      <4>2. p # r
        BY <1>3, <4>1 DEF Nameless, NotCommitted
      <4>. QED
        BY <1>3, <2>2, <4>1, <4>2 DEF Precedes
    <3>. QED
      BY <1>3, <2>2, <3>1 DEF EarlierPrecedes
  <2>. QED
    BY <2>1, <2>2
<1>8. HeadIsNext'
  <2>1. fpc \in {"read", "forward"} => head \in Requests /\ head # r
    BY <1>3 DEF OrderInv, TypeOK, QueueIsCommitted, WithHead, Nameless, NotCommitted
  <2>. QED
    BY <1>3, <2>1 DEF OrderInv, HeadIsNext
<1>. QED
  BY <1>5, <1>6, <1>7, <1>8 DEF OrderInv

\* A step that gives no names: no call comes back to where it has no file, and
\* only one that was about to commit gets a file into the queue.
LEMMA NamesKeptOrder ==
    ASSUME OrderInv, TypeOK', UNCHANGED <<name, earlier, clock, seq, fpc, head>>,
           NEW r \in Requests,
           \A q \in Requests \ {r} : pc'[q] = pc[q] /\ loc'[q] = loc[q],
           \A q \in Requests \ {r} : disk'[q] = disk[q] \/ disk'[q] = {loc[q]},
           pc'[r] \in NotCommitted => pc[r] \in NotCommitted /\ loc'[r] # "pending",
           pc[r] \in Nameless \/ pc'[r] \in Nameless =>
               pc[r] \in Nameless /\ pc'[r] \in Nameless /\ UNCHANGED <<loc, disk>>,
           loc'[r] = "pending" => loc[r] = "pending" \/ pc[r] \in NotCommitted
    PROVE  OrderInv'
<1>1. \A q \in Requests : pc[q] \notin NotCommitted => pc'[q] \notin NotCommitted
  OBVIOUS
<1>2. QueueIsCommitted'
  <2>1. fpc \in WithHead => head \in Requests
    BY DEF OrderInv, TypeOK
  <2>. QED
    BY <1>1, <2>1 DEF OrderInv, QueueIsCommitted, Nameless, NotCommitted
<1>3. ASSUME NEW q \in Requests PROVE NamesArePast(q)'
  BY DEF OrderInv, NamesArePast, Up
<1>4. ASSUME NEW q \in Requests PROVE EarlierPrecedes(q)'
  <2>1. earlier[q] \subseteq Requests
    BY DEF OrderInv, TypeOK
  <2>. QED
    BY <1>1, <2>1 DEF OrderInv, EarlierPrecedes, Precedes
<1>5. HeadIsNext'
  <2>. SUFFICES ASSUME fpc \in {"read", "forward"}, NEW q \in earlier[head]
                PROVE  loc'[q] # "pending"
    BY DEF HeadIsNext
  <2>1. head \in Requests /\ q \in Requests
    BY DEF OrderInv, TypeOK, WithHead
  <2>2. loc[q] # "pending" /\ pc[q] \notin NotCommitted
    BY <2>1 DEF OrderInv, HeadIsNext, EarlierPrecedes
  <2>. QED
    BY <2>1, <2>2
<1>. QED
  BY <1>2, <1>3, <1>4, <1>5 DEF OrderInv

LEMMA EnqueueOrder ==
    ASSUME ~ClockMayStepBack, OrderInv, TypeOK', NEW r \in Requests, Enqueue(r)
    PROVE  OrderInv'
<1>. DEFINE Kept ==
       /\ UNCHANGED <<name, earlier, clock, seq, fpc, head>>
       /\ \A q \in Requests \ {r} : pc'[q] = pc[q] /\ loc'[q] = loc[q]
       /\ \A q \in Requests \ {r} : disk'[q] = disk[q] \/ disk'[q] = {loc[q]}
       /\ pc'[r] \in NotCommitted => pc[r] \in NotCommitted /\ loc'[r] # "pending"
       /\ pc[r] \in Nameless \/ pc'[r] \in Nameless =>
             pc[r] \in Nameless /\ pc'[r] \in Nameless /\ UNCHANGED <<loc, disk>>
       /\ loc'[r] = "pending" => loc[r] = "pending" \/ pc[r] \in NotCommitted
<1>1. Kept => OrderInv'
  BY NamesKeptOrder
<1>2. /\ pc \in [Requests -> {"new"} \cup InFlight \cup Outcomes]
      /\ loc \in [Requests -> Places] /\ disk \in [Requests -> SUBSET Places]
      /\ pc[r] \in NotCommitted => loc[r] # "pending"
  BY DEF OrderInv, TypeOK, QueueIsCommitted
<1>. USE DEF Call, NamesKept, Passes, MoveTo, Nameless, NotCommitted
<1>3. CASE CreateTemp(r) \/ FillTemp(r)
  <2>1. Kept
    BY <1>2, <1>3 DEF CreateTemp, FillTemp
  <2>. QED
    BY <1>1, <2>1
<1>4. CASE Commit(r)
  <2>1. Kept
    BY <1>2, <1>4 DEF Commit
  <2>. QED
    BY <1>1, <2>1
<1>5. CASE Undo(r)
  <2>1. Kept
    BY <1>2, <1>5 DEF Undo
  <2>. QED
    BY <1>1, <2>1
<1>6. CASE Nudge(r) \/ RejectFull(r)
  <2>1. Kept
    BY <1>2, <1>6 DEF Nudge, AfterNudge, RejectFull
  <2>. QED
    BY <1>1, <2>1
<1>7. CASE SyncDir(r) \/ RecordDirFsyncSuccess(r) \/ RecordDirFsyncFailure(r)
  <2>1. Kept
    BY <1>2, <1>7 DEF SyncDir, RecordDirFsyncSuccess, RecordDirFsyncFailure
  <2>. QED
    BY <1>1, <2>1
<1>8. CASE EnqueueFaults(r)
  <2>1. Kept
    BY <1>2, <1>8 DEF EnqueueFaults, WriteTempFails, CommitFails, SyncDirFails
  <2>. QED
    BY <1>1, <2>1
<1>. QED
  BY <1>3, <1>4, <1>5, <1>6, <1>7, <1>8, ReserveOrder DEF Enqueue, EnqueueSteps

\* A step of the forwarder that takes nothing into the queue and no new head.
LEMMA HeadKeptOrder ==
    ASSUME OrderInv, TypeOK', UNCHANGED <<name, earlier, clock, seq, pc>>,
           fpc # "down", fpc' # "down",
           fpc' \in WithHead => fpc \in WithHead /\ head' = head,
           fpc' \in {"read", "forward"} => fpc \in {"read", "forward"},
           \A r \in Requests : loc'[r] = "pending" => loc[r] = "pending",
           \A r \in Requests : pc[r] \in Nameless => loc'[r] = loc[r] /\ disk'[r] = disk[r]
    PROVE  OrderInv'
<1>1. QueueIsCommitted'
  BY DEF OrderInv, QueueIsCommitted
<1>2. ASSUME NEW q \in Requests PROVE NamesArePast(q)' /\ EarlierPrecedes(q)'
  BY DEF OrderInv, NamesArePast, EarlierPrecedes, Precedes, Up
<1>3. HeadIsNext'
  <2>1. fpc \in {"read", "forward"} => head \in Requests /\ earlier[head] \subseteq Requests
    BY DEF OrderInv, TypeOK, WithHead
  <2>. QED
    BY <2>1 DEF OrderInv, HeadIsNext, WithHead
<1>. QED
  BY <1>1, <1>2, <1>3 DEF OrderInv

\* The oldest name in the directory has none of its elders there.
LEMMA ListOrder ==
    ASSUME OrderInv, TypeOK', NEW h \in Requests, ListPending(h)
    PROVE  OrderInv'
<1>1. /\ UNCHANGED <<name, earlier, clock, seq, pc, loc, disk>>
      /\ fpc = "top" /\ fpc' = "read" /\ head' = h /\ IsOldest(h)
  BY DEF ListPending, Forwards
<1>2. QueueIsCommitted'
  BY <1>1 DEF OrderInv, QueueIsCommitted, IsOldest, Pending
<1>3. ASSUME NEW q \in Requests PROVE NamesArePast(q)' /\ EarlierPrecedes(q)'
  BY <1>1 DEF OrderInv, NamesArePast, EarlierPrecedes, Precedes, Up
<1>4. ASSUME NEW q \in earlier[h], loc[q] = "pending" PROVE FALSE
  <2>1. q \in Requests /\ Precedes(q, h)
    BY DEF OrderInv, TypeOK, EarlierPrecedes
  <2>2. /\ name[q][1] \in Nat /\ name[q][2] \in Nat /\ name[h][1] \in Nat /\ name[h][2] \in Nat
    BY <2>1 DEF OrderInv, TypeOK
  <2>3. q # h => Precedes(h, q)
    BY <1>1, <1>4, <2>1 DEF IsOldest, Pending
  <2>. QED
    BY <2>1, <2>2, <2>3 DEF Precedes
<1>5. HeadIsNext'
  BY <1>1, <1>4 DEF HeadIsNext
<1>. QED
  BY <1>2, <1>3, <1>5 DEF OrderInv

LEMMA ForwarderOrder ==
    ASSUME OrderInv, TypeOK', Forwarder \/ ForwarderFaults
    PROVE  OrderInv'
<1>. USE DEF Forwards, Moves, HeadKept, HeadDone
<1>1. CASE Bury \/ Remove
  <2>1. /\ UNCHANGED <<name, earlier, clock, seq, pc>>
        /\ fpc # "down" /\ fpc' \in WithHead \ {"read", "forward"} /\ fpc \in WithHead
        /\ head' = head /\ \E place \in {"none", "dead"} : MoveTo(head, place)
    BY <1>1 DEF Bury, Remove, WithHead
  <2>2. head \in Requests /\ pc[head] \notin Nameless
    BY <2>1 DEF OrderInv, TypeOK, QueueIsCommitted, NotCommitted
  <2>3. \A r \in Requests : /\ loc'[r] = "pending" => loc[r] = "pending"
                            /\ r # head => loc'[r] = loc[r] /\ disk'[r] = disk[r]
    BY <2>1 DEF MoveTo, OrderInv, TypeOK
  <2>4. fpc' # "down"
    BY <1>1 DEF Bury, Remove
  <2>. QED
    BY <2>1, <2>2, <2>3, <2>4, HeadKeptOrder
<1>2. CASE \/ ListEmpty \/ ReadFile \/ ForwardOk \/ ForwardRetryable \/ ForwardPermanent
           \/ FinishDead \/ FinishDelivered \/ WakeUp \/ TimerFires \/ Stop \/ ForwarderFaults
  <2>1. /\ UNCHANGED <<name, earlier, clock, seq, pc, loc, disk>>
        /\ fpc # "down" /\ fpc' # "down"
        /\ fpc' \in WithHead => fpc \in WithHead /\ head' = head
        /\ fpc' \in {"read", "forward"} => fpc \in {"read", "forward"}
    BY <1>2 DEF ListEmpty, ReadFile, ForwardOk, ForwardRetryable, ForwardPermanent, FinishDead,
                FinishDelivered, WakeUp, TimerFires, Stop, ForwarderFaults, ListFails, ReadFails,
                BuryFails, RemoveFails, WithHead
  <2>. QED
    BY <2>1, HeadKeptOrder
<1>. QED
  BY <1>1, <1>2, ListOrder DEF Forwarder

LEMMA ProcessOrder ==
    ASSUME OrderInv, TypeOK', Cancel \/ Exit \/ Crash \/ PowerLoss \/ Restart
    PROVE  OrderInv'
<1>1. CASE Cancel
  BY <1>1 DEF Cancel, OrderInv, QueueIsCommitted, NamesArePast, EarlierPrecedes, Precedes,
              HeadIsNext, Up
<1>2. CASE Exit \/ Crash \/ PowerLoss
  <2>1. /\ UNCHANGED <<name, earlier, clock>> /\ fpc' = "down"
        /\ pc' = [r \in Requests |-> IF pc[r] \in InFlight THEN "lost" ELSE pc[r]]
    BY <1>2 DEF Exit, Crash, PowerLoss, ProcessGone, NamesKept
  <2>2. \A r \in Requests :
           pc[r] \in Nameless => loc'[r] = loc[r] /\ disk'[r] = disk[r]
    BY <1>2 DEF Exit, Crash, PowerLoss, OrderInv, QueueIsCommitted
  <2>3. \A r \in Requests : /\ pc'[r] \in NotCommitted => pc[r] \in Nameless /\ pc'[r] = pc[r]
                            /\ pc[r] \in Nameless => pc'[r] = pc[r]
    BY <2>1 DEF InFlight, Nameless, NotCommitted
  <2>4. \A r \in Requests : pc'[r] \in Nameless => pc[r] \in Nameless
    BY <2>3 DEF NotCommitted
  <2>5. QueueIsCommitted'
    BY <2>1, <2>2, <2>3, <2>4 DEF OrderInv, QueueIsCommitted, WithHead
  <2>6. ASSUME NEW q \in Requests PROVE NamesArePast(q)'
    BY <2>1, <2>3 DEF OrderInv, NamesArePast, Up
  <2>7. ASSUME NEW q \in Requests PROVE EarlierPrecedes(q)'
    <3>1. earlier[q] \subseteq Requests
      BY DEF OrderInv, TypeOK
    <3>. QED
      BY <2>1, <2>3, <3>1 DEF OrderInv, EarlierPrecedes, Precedes, NotCommitted
  <2>8. HeadIsNext'
    BY <2>1 DEF HeadIsNext
  <2>. QED
    BY <2>5, <2>6, <2>7, <2>8 DEF OrderInv
<1>3. CASE Restart
  <2>1. /\ UNCHANGED <<name, earlier, pc, loc, disk>> /\ fpc' = "top" /\ clock' = clock + 1
    BY <1>3 DEF Restart
  <2>2. QueueIsCommitted' /\ HeadIsNext'
    BY <2>1 DEF OrderInv, QueueIsCommitted, HeadIsNext, WithHead
  <2>3. ASSUME NEW q \in Requests PROVE NamesArePast(q)' /\ EarlierPrecedes(q)'
    <3>1. name[q][1] \in Nat /\ clock \in Nat
      BY DEF OrderInv, TypeOK
    <3>. QED
      BY <2>1, <3>1 DEF OrderInv, NamesArePast, EarlierPrecedes, Precedes
  <2>. QED
    BY <2>2, <2>3 DEF OrderInv
<1>. QED
  BY <1>1, <1>2, <1>3

LEMMA OrderHolds ==
    ASSUME ~ClockMayStepBack
    PROVE  Spec => []OrderInv
<1>1. Init => OrderInv
  BY InitOrder
<1>2. OrderInv /\ [Next]_vars => OrderInv'
  <2>. SUFFICES ASSUME OrderInv, [Next]_vars PROVE OrderInv'
    OBVIOUS
  <2>1. TypeOK'
    BY StepTypes DEF OrderInv
  <2>2. CASE UNCHANGED vars
    BY <2>2 DEF OrderInv, TypeOK, QueueIsCommitted, NamesArePast, EarlierPrecedes, Precedes,
                HeadIsNext, Up
  <2>. QED
    BY <2>1, <2>2, EnqueueOrder, ForwarderOrder, ProcessOrder DEF Next
<1>. QED
  BY <1>1, <1>2, PTL DEF Spec

\* If the clock does not step back, delivery follows submission: through any
\* race of the calls, restarts that reset the sequence number, and power losses
\* that bring files back.
THEOREM OldestGoesFirst ==
    ASSUME ~ClockMayStepBack
    PROVE  Spec => []SubmissionOrder
<1>1. OrderInv => SubmissionOrder
  BY DEF OrderInv, HeadIsNext, SubmissionOrder
<1>. QED
  BY <1>1, OrderHolds, PTL

-----------------------------------------------------------------------------
(* The depth counter and its limit, for any number of concurrent calls.       *)
(* Both need that a delivered file does not stay when os.Remove fails, since  *)
(* the code gives its place back all the same; the limit also needs that no   *)
(* power loss brings removed files back.                                      *)

Reserved == {"create", "fill", "rename", "undo"}

RemoveWorks == "remove" \notin Faults

\* A call that has not committed has no file in the queue.
Uncommitted(r) ==
    /\ pc[r] \in {"new"} \cup Reserved => loc[r] # "pending"
    /\ pc[r] = "new" => loc[r] = "none" /\ disk[r] = {"none"}

\* The forwarder's file is in the queue until it has just been taken out.
HeadCounted ==
    /\ fpc \in {"read", "forward", "bury", "remove"} => loc[head] = "pending"
    /\ fpc \in {"removed", "buried"} => loc[head] # "pending" /\ pc[head] \notin {"new"} \cup Reserved

\* No call survives its process.
NoOrphans == fpc = "down" => \A r \in Requests : pc[r] \notin Reserved

DepthInv ==
    /\ TypeOK
    /\ NoOrphans
    /\ \A r \in Requests : Uncommitted(r)
    /\ HeadCounted
    /\ DepthAccounting

-----------------------------------------------------------------------------
LEMMA CountedFinite == Counted \subseteq Requests /\ IsFiniteSet(Counted) /\ Cardinality(Counted) \in Nat
<1>1. Counted \subseteq Requests
  BY DEF Counted, Pending
<1>. QED
  BY <1>1, FS_Subset, FS_CardinalityType

\* What the two sides of DepthAccounting do in a step.
LEMMA CountKept ==
    ASSUME DepthInv, Counted' = Counted, depth' = depth, fpc # "down"
    PROVE  DepthAccounting'
BY DEF DepthInv, DepthAccounting, Up

LEMMA CountGrows ==
    ASSUME DepthInv, NEW r \in Requests, r \notin Counted, Counted' = Counted \cup {r},
           depth' = depth + 1, fpc # "down"
    PROVE  DepthAccounting'
<1>1. Cardinality(Counted \cup {r}) = Cardinality(Counted) + 1
  BY CountedFinite, FS_AddElement
<1>. QED
  BY <1>1 DEF DepthInv, DepthAccounting, Up

LEMMA CountShrinks ==
    ASSUME DepthInv, NEW r \in Counted, Counted' = Counted \ {r}, decDepth, fpc # "down"
    PROVE  DepthAccounting'
<1>1. Cardinality(Counted \ {r}) = Cardinality(Counted) - 1
  BY CountedFinite, FS_RemoveElement
<1>2. Cardinality(Counted) > 0
  BY CountedFinite, FS_EmptySet
<1>. QED
  BY <1>1, <1>2, CountedFinite DEF DepthInv, DepthAccounting, Up, decDepth

-----------------------------------------------------------------------------
LEMMA EnqueuePlaces ==
    ASSUME DepthInv, NEW r \in Requests, Enqueue(r)
    PROVE  (\A q \in Requests : Uncommitted(q)') /\ HeadCounted'
<1> USE DEF DepthInv, TypeOK, WithHead, Uncommitted, HeadCounted, Reserved, Call, NamesKept,
            Passes, MoveTo
<1>1. CASE Reserve(r) \/ RejectFull(r) \/ FillTemp(r) \/ Nudge(r) \/ SyncDir(r)
  BY <1>1 DEF Reserve, RejectFull, FillTemp, Nudge, AfterNudge, SyncDir
<1>2. CASE CreateTemp(r)
  BY <1>2 DEF CreateTemp
<1>3. CASE Commit(r)
  BY <1>3 DEF Commit
<1>4. CASE Undo(r)
  <2>1. CASE MoveTo(r, "none")
    BY <1>4, <2>1 DEF Undo
  <2>2. CASE UNCHANGED <<loc, disk>>
    BY <1>4, <2>2 DEF Undo
  <2> QED
    BY <1>4, <2>1, <2>2 DEF Undo
<1>5. CASE RecordDirFsyncSuccess(r) \/ RecordDirFsyncFailure(r)
  BY <1>5 DEF RecordDirFsyncSuccess, RecordDirFsyncFailure
<1>6. CASE EnqueueFaults(r)
  <2>1. PICK from \in {"create", "fill", "rename", "sync"}, to \in {"undo", "unsynced"} :
            Passes(r, from, to) /\ (from = "sync" <=> to = "unsynced")
    BY <1>6 DEF EnqueueFaults, WriteTempFails, CommitFails, SyncDirFails
  <2> QED
    BY <2>1
<1> QED
  BY <1>1, <1>2, <1>3, <1>4, <1>5, <1>6 DEF Enqueue, EnqueueSteps

LEMMA EnqueueCounts ==
    ASSUME DepthInv, NEW r \in Requests, Enqueue(r)
    PROVE  DepthAccounting'
<1> USE DEF DepthInv, TypeOK, WithHead, Uncommitted, HeadCounted, Reserved, Call, NamesKept,
            Passes, MoveTo
<1>1. fpc # "down"
  BY DEF Enqueue, EnqueueSteps, EnqueueFaults, Reserve, RejectFull, CreateTemp, FillTemp,
         Commit, Undo, Nudge, SyncDir, RecordDirFsyncSuccess, RecordDirFsyncFailure,
         WriteTempFails, CommitFails, SyncDirFails, Up
<1>2. CASE Reserve(r)
  <2>1. r \notin Counted /\ Counted' = Counted \cup {r} /\ depth' = depth + 1
    BY <1>2 DEF Reserve, Counted, Pending
  <2> QED
    BY <1>1, <2>1, CountGrows
<1>3. CASE Undo(r)
  <2>1. Pending' = Pending
    <3>1. CASE MoveTo(r, "none")
      BY <1>3, <3>1 DEF Undo, Pending
    <3>2. CASE UNCHANGED <<loc, disk>>
      BY <3>2 DEF Pending
    <3> QED
      BY <1>3, <3>1, <3>2 DEF Undo
  <2>2. r \in Counted /\ Counted' = Counted \ {r} /\ decDepth
    BY <1>3, <2>1 DEF Undo, Counted, Pending
  <2> QED
    BY <1>1, <2>2, CountShrinks
<1>4. CASE Commit(r)
  <2>1. Counted' = Counted /\ depth' = depth
    BY <1>4 DEF Commit, Counted, Pending
  <2> QED
    BY <1>1, <2>1, CountKept
<1>5. CASE CreateTemp(r)
  <2>1. Counted' = Counted /\ depth' = depth
    BY <1>5 DEF CreateTemp, Counted, Pending
  <2> QED
    BY <1>1, <2>1, CountKept
\* The other steps move neither a file nor the call across its commit.
<1>6. CASE RejectFull(r) \/ FillTemp(r) \/ Nudge(r) \/ SyncDir(r) \/ RecordDirFsyncSuccess(r)
           \/ RecordDirFsyncFailure(r) \/ EnqueueFaults(r)
  <2>1. UNCHANGED <<loc, depth, fpc, head>>
    BY <1>6 DEF RejectFull, FillTemp, Nudge, SyncDir, RecordDirFsyncSuccess,
       RecordDirFsyncFailure, EnqueueFaults, WriteTempFails, CommitFails, SyncDirFails
  <2>2. \A q \in Requests : pc[q] \in Reserved <=> pc'[q] \in Reserved
    BY <1>6 DEF RejectFull, FillTemp, Nudge, AfterNudge, SyncDir, RecordDirFsyncSuccess,
       RecordDirFsyncFailure, EnqueueFaults, WriteTempFails, CommitFails, SyncDirFails
  <2>3. Counted' = Counted
    BY <2>1, <2>2 DEF Counted, Pending
  <2> QED
    BY <1>1, <2>1, <2>3, CountKept
<1> QED
  BY <1>2, <1>3, <1>4, <1>5, <1>6 DEF Enqueue, EnqueueSteps

LEMMA ForwarderPlaces ==
    ASSUME DepthInv, RemoveWorks, Forwarder \/ ForwarderFaults
    PROVE  (\A q \in Requests : Uncommitted(q)') /\ HeadCounted'
<1> USE DEF DepthInv, TypeOK, WithHead, Uncommitted, HeadCounted, Reserved, Forwards, Moves,
            HeadKept, HeadDone, MoveTo
<1>1. CASE \E h \in Requests : ListPending(h)
  BY <1>1 DEF ListPending, IsOldest, Pending
<1>2. CASE Bury \/ Remove
  BY <1>2 DEF Bury, Remove
<1>3. CASE ~Bury /\ ~Remove /\ ~(\E h \in Requests : ListPending(h))
  BY <1>3 DEF RemoveWorks, Forwarder, ForwarderFaults, ListEmpty, ReadFile, ForwardOk,
     ForwardRetryable, ForwardPermanent, FinishDead, FinishDelivered, WakeUp, TimerFires, Stop,
     ListFails, ReadFails, BuryFails, RemoveFails
<1> QED
  BY <1>1, <1>2, <1>3

LEMMA ForwarderCounts ==
    ASSUME DepthInv, RemoveWorks, Forwarder \/ ForwarderFaults
    PROVE  DepthAccounting'
<1> USE DEF DepthInv, TypeOK, WithHead, Uncommitted, HeadCounted, Reserved, Forwards, Moves,
            HeadKept, HeadDone, MoveTo
<1>1. fpc # "down"
  BY DEF Forwarder, ForwarderFaults, ListPending, ListEmpty, ReadFile, ForwardOk,
     ForwardRetryable, ForwardPermanent, Bury, FinishDead, Remove, FinishDelivered, WakeUp,
     TimerFires, Stop, ListFails, ReadFails, BuryFails, RemoveFails
\* The file leaves the queue, and the head is counted in its stead ...
<1>2. CASE Bury \/ Remove
  <2>1. Counted' = Counted /\ depth' = depth
    BY <1>2 DEF Bury, Remove, Counted, Pending
  <2> QED
    BY <1>1, <2>1, CountKept
\* ... until decDepth.
<1>3. CASE FinishDead \/ FinishDelivered
  <2>1. head \in Counted /\ Counted' = Counted \ {head} /\ decDepth
    BY <1>3 DEF FinishDead, FinishDelivered, Counted, Pending
  <2> QED
    BY <1>1, <2>1, CountShrinks
<1>4. CASE ~(Bury \/ Remove) /\ ~(FinishDead \/ FinishDelivered)
  <2>1. /\ UNCHANGED <<loc, pc, depth>>
        /\ fpc \notin {"removed", "buried"} /\ fpc' \notin {"removed", "buried"}
    BY <1>4 DEF RemoveWorks, Forwarder, ForwarderFaults, ListPending, ListEmpty, ReadFile,
       ForwardOk, ForwardRetryable, ForwardPermanent, WakeUp, TimerFires, Stop, ListFails,
       ReadFails, BuryFails, RemoveFails
  <2>2. Counted' = Counted
    BY <2>1 DEF Counted, Pending
  <2> QED
    BY <1>1, <2>1, <2>2, CountKept
<1> QED
  BY <1>2, <1>3, <1>4

LEMMA ProcessDepth ==
    ASSUME DepthInv, TypeOK', Cancel \/ Exit \/ Crash \/ PowerLoss \/ Restart
    PROVE  DepthInv'
<1> USE DEF DepthInv, TypeOK, NoOrphans, WithHead, Uncommitted, HeadCounted, Reserved
<1>1. CASE Cancel
  BY <1>1 DEF Cancel, DepthAccounting, Counted, Pending, Up
<1>2. CASE Exit \/ Crash \/ PowerLoss
  <2>1. fpc' = "down" /\ \A q \in Requests : pc'[q] = (IF pc[q] \in InFlight THEN "lost" ELSE pc[q])
    BY <1>2 DEF Exit, Crash, PowerLoss, ProcessGone
  <2>2. \A q \in Requests : pc[q] = "new" => loc'[q] = "none" \/ loc'[q] = loc[q]
    BY <1>2 DEF Exit, Crash, PowerLoss
  <2>3. \A q \in Requests : pc[q] = "new" => disk'[q] = {"none"}
    BY <1>2 DEF Exit, Crash, PowerLoss
  <2>. QED
    BY <2>1, <2>2, <2>3 DEF InFlight, DepthAccounting, Up
<1>3. CASE Restart
  <2>1. /\ fpc = "down" /\ fpc' = "top" /\ UNCHANGED <<loc, disk, pc, head>>
        /\ depth' = Cardinality(Pending)
    BY <1>3 DEF Restart
  <2>2. Counted' = Pending
    BY <2>1 DEF Counted, Pending
  <2>. QED
    BY <2>1, <2>2 DEF DepthAccounting
<1> QED
  BY <1>1, <1>2, <1>3

\* No interleaving of the error paths of Enqueue with the forwarder lets the
\* depth drift from the directory, if os.Remove works.
THEOREM DepthIsExact ==
    ASSUME RemoveWorks
    PROVE  Spec => []DepthInv
<1>1. ASSUME Init PROVE DepthInv
  <2>1. Counted = {} /\ Cardinality(Counted) = 0
    BY <1>1, FS_EmptySet DEF Init, Counted, Pending
  <2> QED
    BY <1>1, <2>1, InitTypes
       DEF Init, DepthInv, NoOrphans, Uncommitted, HeadCounted, DepthAccounting, Up
<1>2. ASSUME DepthInv, [Next]_vars PROVE DepthInv'
  <2>1. TypeOK'
    BY <1>2, StepTypes DEF DepthInv
  <2>2. ASSUME NEW r \in Requests, Enqueue(r) PROVE DepthInv'
    <3>1. fpc' # "down"
      BY <2>2 DEF Enqueue, EnqueueSteps, EnqueueFaults, Reserve, RejectFull, CreateTemp, FillTemp,
         Commit, Undo, Nudge, SyncDir, RecordDirFsyncSuccess, RecordDirFsyncFailure,
         WriteTempFails, CommitFails, SyncDirFails, Call, Passes, Up
    <3> QED
      BY <1>2, <2>1, <2>2, <3>1, EnqueuePlaces, EnqueueCounts DEF DepthInv, NoOrphans
  <2>3. CASE Forwarder \/ ForwarderFaults
    <3>1. fpc' # "down"
      BY <2>3 DEF Forwarder, ForwarderFaults, ListPending, ListEmpty, ReadFile, ForwardOk,
         ForwardRetryable, ForwardPermanent, Bury, FinishDead, Remove, FinishDelivered, WakeUp,
         TimerFires, Stop, ListFails, ReadFails, BuryFails, RemoveFails, Moves, Forwards
    <3> QED
      BY <1>2, <2>1, <2>3, <3>1, ForwarderPlaces, ForwarderCounts DEF DepthInv, NoOrphans
  <2>4. CASE Cancel \/ Exit \/ Crash \/ PowerLoss \/ Restart
    BY <1>2, <2>1, <2>4, ProcessDepth
  <2>5. CASE UNCHANGED vars
    BY <1>2, <2>1, <2>5
       DEF DepthInv, NoOrphans, Uncommitted, HeadCounted, DepthAccounting, Counted, Pending, Up
  <2> QED
    BY <1>2, <2>2, <2>3, <2>4, <2>5 DEF Next
<1> QED
  BY <1>1, <1>2, PTL DEF Spec

\* The counter of the spool stands for the signals in the directory and the
\* calls that reserved a place, in every state with a process.
THEOREM DepthAccounted ==
    ASSUME RemoveWorks
    PROVE  Spec => []DepthAccounting
<1>1. DepthInv => DepthAccounting
  BY DEF DepthInv
<1> QED
  BY <1>1, DepthIsExact, PTL

\* The reservation keeps the queue within SPOOL_MAX_DEPTH for any number of
\* concurrent calls, restarts and crashes.
THEOREM QueueWithinLimit ==
    ASSUME RemoveWorks, ~HostMayFail
    PROVE  Spec => []QueueBounded
<1> DEFINE Bound == QueueBounded /\ (Up => depth <= MaxDepth)
<1>1. ASSUME Init PROVE Bound
  BY <1>1, FS_EmptySet DEF Init, QueueBounded, Pending
<1>2. ASSUME DepthInv, DepthInv', Bound, [Next]_vars PROVE Bound'
  <2>1. CASE fpc' = "down"
    <3>1. UNCHANGED loc
      <4>1. CASE Exit \/ Crash
        BY <4>1 DEF Exit, Crash
      <4>2. CASE UNCHANGED vars
        BY <4>2
      <4>3. CASE ~(Exit \/ Crash) /\ ~UNCHANGED vars
        BY <1>2, <2>1, <4>3
           DEF Next, PowerLoss, Restart, Cancel, Up, Enqueue, EnqueueSteps, EnqueueFaults, Reserve,
               RejectFull, CreateTemp, FillTemp, Commit, Undo, Nudge, SyncDir,
               RecordDirFsyncSuccess, RecordDirFsyncFailure, WriteTempFails, CommitFails,
               SyncDirFails, Call, Passes, Forwarder, ForwarderFaults, ListPending, ListEmpty,
               ReadFile, ForwardOk, ForwardRetryable, ForwardPermanent, Bury, FinishDead, Remove,
               FinishDelivered, WakeUp, TimerFires, Stop, ListFails, ReadFails, BuryFails,
               RemoveFails, Moves, Forwards
      <4> QED
        BY <4>1, <4>2, <4>3
    <3> QED
      BY <1>2, <2>1, <3>1 DEF QueueBounded, Pending, Up
  <2>2. CASE fpc' # "down"
    <3>1. depth' <= MaxDepth
      <4>1. CASE Restart
        BY <1>2, <4>1 DEF Restart, QueueBounded
      <4>2. CASE \E r \in Requests : Reserve(r)
        BY <1>2, <4>2 DEF Reserve, HasRoom, DepthInv, TypeOK
      <4>3. CASE ~Restart /\ ~(\E r \in Requests : Reserve(r))
        <5>1. fpc # "down" /\ (depth' = depth \/ decDepth)
          BY <1>2, <2>2, <4>3
             DEF Next, Exit, Crash, PowerLoss, ProcessGone, Cancel, Up, Enqueue, EnqueueSteps,
                 EnqueueFaults, RejectFull, CreateTemp, FillTemp, Commit, Undo, Nudge, SyncDir,
                 RecordDirFsyncSuccess, RecordDirFsyncFailure, WriteTempFails, CommitFails,
                 SyncDirFails, Call, Passes, Forwarder, ForwarderFaults, ListPending, ListEmpty,
                 ReadFile, ForwardOk, ForwardRetryable, ForwardPermanent, Bury, FinishDead, Remove,
                 FinishDelivered, WakeUp, TimerFires, Stop, ListFails, ReadFails, BuryFails,
                 RemoveFails, Moves, Forwards
        <5> QED
          BY <1>2, <5>1 DEF decDepth, DepthInv, TypeOK, Up
      <4> QED
        BY <4>1, <4>2, <4>3
    <3>2. Cardinality(Pending') <= Cardinality(Counted') /\ Cardinality(Counted') = depth'
      <4>1. Pending' \subseteq Counted' /\ Counted' \subseteq Requests
        BY DEF Counted, Pending
      <4>2. IsFiniteSet(Counted')
        BY <4>1, FS_Subset
      <4> QED
        BY <1>2, <2>2, <4>1, <4>2, FS_Subset DEF DepthInv, DepthAccounting, Up
    <3>3. Cardinality(Pending') \in Nat
      BY FS_Subset, FS_CardinalityType DEF Pending
    <3> QED
      BY <1>2, <3>1, <3>2, <3>3 DEF QueueBounded, DepthInv, TypeOK
  <2> QED
    BY <2>1, <2>2
<1>3. Bound => QueueBounded
  OBVIOUS
<1> QED
  BY <1>1, <1>2, <1>3, DepthIsExact, PTL DEF Spec

=============================================================================
