-------------------------- MODULE ReadinessProofs --------------------------
(***************************************************************************)
(* What an answer of /readyz says of the spool, for any number of          *)
(* requests, any depth limit, any number of crashes and power losses.      *)
(*                                                                         *)
(* First, that it never hides an overdue signal, under all faults but one: *)
(* when the directory cannot be read, forwardOldest looks at no file, and  *)
(* the cached age may be older or newer than what waits there.  The        *)
(* argument needs no knowledge of what the forwarder is doing, only of     *)
(* what it had seen when it last set the cached age: whatever is overdue   *)
(* was already in the directory at that time.                              *)
(*                                                                         *)
(* Second, that it does not speak of signals that are gone, nor of an      *)
(* empty queue while one waits.  Both rest on the exactness of the depth,  *)
(* so os.Remove must work; every other fault is allowed.                   *)
(***************************************************************************)
EXTENDS Readiness, SpoolProofs

USE RequestsAssumption, MaxDepthAssumption, SettingsAssumption, ReadinessAssumption

USE DEF diskVars, requestVars, spoolVars, forwardVars, worldVars,
        memoryVars, vars

DirectoryReadable == ~ClockMayStepBack /\ "readdir" \notin Faults

\* A call that has not committed has no file in the queue and never had one; a
\* name is a reading of the clock, not earlier than the limit as long as its
\* call goes on.
Placed(r) ==
    /\ pc[r] \in Nameless => loc[r] = "none" /\ disk[r] = {"none"}
    /\ pc[r] \in NotCommitted => loc[r] # "pending" /\ r \notin seen
    /\ pc[r] \notin Nameless => name[r][1] >= 1
    /\ pc[r] \in InFlight => name[r][1] >= overdue

\* The cached age covers every waiting signal that is overdue or was there when
\* the forwarder last looked.
Aged(r) ==
    Up /\ loc[r] = "pending" /\ (r \in seen \/ name[r][1] < overdue) =>
        1 <= oldestPendingAt /\ oldestPendingAt <= name[r][1]

HeadCommitted == fpc \in WithHead => pc[head] \notin NotCommitted

SpoolAge ==
    /\ TypeOK
    /\ overdue \in Nat /\ overdue <= clock
    /\ seen \subseteq Requests
    /\ HeadCommitted
    /\ \A r \in Requests : Placed(r) /\ Aged(r)

PollTypeOK ==
    poll \in [at : {"idle", "age", "depth", "answer"}, pending : BOOLEAN, depth : Nat,
             reasons : SUBSET Reasons]

USE DEF PollTypeOK

PollSound ==
    /\ PollTypeOK
    /\ poll.at # "idle" /\ late # {} => "stale" \in poll.reasons

AgeInv == SpoolAge /\ PollSound

-----------------------------------------------------------------------------
(* The spool *)

LEMMA InitAge == ReadyInit => AgeInv
<1>. SUFFICES ASSUME ReadyInit PROVE AgeInv
  OBVIOUS
<1>1. TypeOK
  BY InitTypes DEF ReadyInit
<1>2. ASSUME NEW r \in Requests PROVE Placed(r) /\ Aged(r)
  BY DEF ReadyInit, Init, Placed, Aged, InFlight, Nameless, NotCommitted
<1>3. PollSound
  BY DEF ReadyInit, NoPoll, PollSound, Reasons
<1>. QED
  BY <1>1, <1>2, <1>3 DEF ReadyInit, Init, AgeInv, SpoolAge, HeadCommitted, WithHead

\* A step of Enqueue that leaves the names alone: only Commit puts a file into
\* the queue, and its signal is too young to be overdue.
CallStep(r, from, to) ==
    /\ Call(r, from, to)
    /\ from \in InFlight /\ to \in InFlight \cup {"accepted", "failed"}
    /\ to \in NotCommitted => from \in NotCommitted
    /\ loc'[r] = "pending" => loc[r] = "pending" \/ (from = "rename" /\ to = "nudge")
    /\ \A q \in Requests \ {r} : loc'[q] = loc[q]
    /\ \A q \in Requests : disk'[q] = disk[q] \/ disk'[q] = {loc[q]} \/ q = r
    /\ UNCHANGED <<name, clock, oldestPendingAt, overdue, seen>>

LEMMA CallStepAges ==
    ASSUME SpoolAge, TypeOK', NEW r \in Requests, NEW from, NEW to, CallStep(r, from, to)
    PROVE  SpoolAge'
<1>. USE DEF CallStep
<1>1. /\ pc[r] = from /\ pc'[r] = to /\ \A q \in Requests : q # r => pc'[q] = pc[q]
      /\ UNCHANGED <<fpc, head>> /\ fpc # "down"
  BY DEF Call, SpoolAge, TypeOK, Up
<1>2. Placed(r) /\ Aged(r)
  BY DEF SpoolAge
<1>3. /\ name[r][1] \in Nat /\ overdue \in Nat /\ clock \in Nat
  BY DEF SpoolAge, TypeOK
<1>4. Placed(r)'
  BY <1>1, <1>2, <1>3 DEF Placed, InFlight, Nameless, NotCommitted
<1>5. Aged(r)'
  BY <1>1, <1>2, <1>3 DEF Placed, Aged, InFlight, Nameless, NotCommitted, Up
<1>6. ASSUME NEW q \in Requests, q # r PROVE Placed(q)' /\ Aged(q)'
  BY <1>1, <1>6 DEF SpoolAge, Placed, Aged, Up
<1>7. HeadCommitted'
  BY <1>1 DEF SpoolAge, HeadCommitted, TypeOK, Nameless, NotCommitted
<1>. QED
  BY <1>4, <1>5, <1>6, <1>7 DEF SpoolAge

\* A new signal has the time of the clock, which no limit has passed.
LEMMA ReserveAges ==
    ASSUME DirectoryReadable, SpoolAge, TypeOK', NEW r \in Requests, Reserve(r),
           UNCHANGED <<overdue, seen>>
    PROVE  SpoolAge'
<1>1. PICK t \in Readings : name' = [name EXCEPT ![r] = <<t, seq + 1>>] /\ clock' = t
  BY DEF Reserve
<1>2. t \in Nat /\ clock \in Nat \ {0} /\ clock <= t /\ overdue \in Nat /\ overdue <= t
  BY <1>1 DEF Readings, DirectoryReadable, SpoolAge, TypeOK
<1>3. /\ pc[r] = "new" /\ pc'[r] = "create" /\ name'[r][1] = t
      /\ UNCHANGED <<fpc, head, loc, disk, oldestPendingAt>>
      /\ \A q \in Requests : q # r => pc'[q] = pc[q] /\ name'[q] = name[q]
  BY <1>1 DEF Reserve, Call, SpoolAge, TypeOK
<1>4. Placed(r)' /\ Aged(r)'
  BY <1>2, <1>3 DEF SpoolAge, Placed, Aged, Nameless, NotCommitted
<1>5. ASSUME NEW q \in Requests, q # r PROVE Placed(q)' /\ Aged(q)'
  BY <1>3, <1>5 DEF SpoolAge, Placed, Aged, Up
<1>6. HeadCommitted'
  BY <1>3 DEF SpoolAge, HeadCommitted, TypeOK, Nameless, NotCommitted
<1>. QED
  BY <1>1, <1>2, <1>4, <1>5, <1>6 DEF SpoolAge

LEMMA RejectFullAges ==
    ASSUME SpoolAge, TypeOK', NEW r \in Requests, RejectFull(r), UNCHANGED <<overdue, seen>>
    PROVE  SpoolAge'
<1>1. /\ pc[r] = "new" /\ pc'[r] = "full"
      /\ UNCHANGED <<fpc, head, loc, disk, name, clock, oldestPendingAt>>
      /\ \A q \in Requests : q # r => pc'[q] = pc[q]
  BY DEF RejectFull, Passes, Call, NamesKept, SpoolAge, TypeOK
<1>2. Placed(r)' /\ Aged(r)'
  BY <1>1 DEF SpoolAge, Placed, Aged, Nameless, NotCommitted, InFlight, Up
<1>3. ASSUME NEW q \in Requests, q # r PROVE Placed(q)' /\ Aged(q)'
  BY <1>1, <1>3 DEF SpoolAge, Placed, Aged, Up
<1>4. HeadCommitted'
  BY <1>1 DEF SpoolAge, HeadCommitted, TypeOK, Nameless, NotCommitted
<1>. QED
  BY <1>1, <1>2, <1>3, <1>4 DEF SpoolAge

LEMMA OtherCallSteps ==
    ASSUME SpoolAge, NEW r \in Requests, UNCHANGED <<overdue, seen>>,
           Enqueue(r), ~Reserve(r), ~RejectFull(r)
    PROVE  \E from, to : CallStep(r, from, to)
<1>. USE DEF CallStep, Passes, NamesKept, MoveTo, InFlight, Nameless, NotCommitted
<1>0. loc \in [Requests -> Places] /\ disk \in [Requests -> SUBSET Places]
  BY DEF SpoolAge, TypeOK
<1>1. CASE CreateTemp(r)
  <2>1. CallStep(r, "create", "fill")
    BY <1>0, <1>1 DEF CreateTemp
  <2>. QED
    BY <2>1
<1>2. CASE FillTemp(r)
  <2>1. CallStep(r, "fill", "rename")
    BY <1>0, <1>2 DEF FillTemp
  <2>. QED
    BY <2>1
<1>3. CASE Commit(r)
  <2>1. CallStep(r, "rename", "nudge")
    BY <1>0, <1>3 DEF Commit
  <2>. QED
    BY <2>1
<1>4. CASE Undo(r)
  <2>1. CallStep(r, "undo", "failed")
    BY <1>0, <1>4 DEF Undo
  <2>. QED
    BY <2>1
<1>5. CASE Nudge(r)
  <2>1. CallStep(r, "nudge", AfterNudge)
    BY <1>0, <1>5 DEF Nudge, AfterNudge
  <2>. QED
    BY <2>1
<1>6. CASE SyncDir(r)
  <2>1. CallStep(r, "sync", "synced")
    BY <1>0, <1>6 DEF SyncDir
  <2>. QED
    BY <2>1
<1>7. CASE RecordDirFsyncSuccess(r)
  <2>1. CallStep(r, "synced", "accepted")
    BY <1>0, <1>7 DEF RecordDirFsyncSuccess
  <2>. QED
    BY <2>1
<1>8. CASE RecordDirFsyncFailure(r)
  <2>1. CallStep(r, "unsynced", "failed")
    BY <1>0, <1>8 DEF RecordDirFsyncFailure
  <2>. QED
    BY <2>1
<1>9. CASE EnqueueFaults(r)
  <2>1. PICK from \in {"create", "fill", "rename"} :
            Passes(r, from, "undo") \/ Passes(r, "sync", "unsynced")
    BY <1>9 DEF EnqueueFaults, WriteTempFails, CommitFails, SyncDirFails
  <2>2. CallStep(r, from, "undo") \/ CallStep(r, "sync", "unsynced")
    BY <1>0, <2>1
  <2>. QED
    BY <2>2
<1>. QED
  BY <1>1, <1>2, <1>3, <1>4, <1>5, <1>6, <1>7, <1>8, <1>9 DEF Enqueue, EnqueueSteps

LEMMA EnqueueAges ==
    ASSUME DirectoryReadable, SpoolAge, TypeOK', NEW r \in Requests, Enqueue(r),
           UNCHANGED <<overdue, seen>>
    PROVE  SpoolAge'
<1>1. CASE Reserve(r) \/ RejectFull(r)
  BY <1>1, ReserveAges, RejectFullAges
<1>2. CASE ~Reserve(r) /\ ~RejectFull(r)
  <2>1. PICK from, to : CallStep(r, from, to)
    BY <1>2, OtherCallSteps
  <2>. QED
    BY <2>1, CallStepAges
<1>. QED
  BY <1>1, <1>2

-----------------------------------------------------------------------------
(* The forwarder and the process *)

\* A step that brings no file into the queue, and after which nothing new has
\* been seen; the cached age stays, or there is no process.
LEMMA QueueShrinks ==
    ASSUME SpoolAge, TypeOK', UNCHANGED <<overdue, seen, name, pc>>,
           overdue <= clock', HeadCommitted',
           \A r \in Requests : loc'[r] = "pending" => loc[r] = "pending",
           \A r \in Requests : pc[r] \in Nameless => loc'[r] = loc[r] /\ disk'[r] = disk[r],
           oldestPendingAt' = oldestPendingAt /\ (fpc' # "down" => fpc # "down")
    PROVE  SpoolAge'
<1>1. ASSUME NEW r \in Requests PROVE Placed(r)' /\ Aged(r)'
  BY DEF SpoolAge, Placed, Aged, Up
<1>. QED
  BY <1>1 DEF SpoolAge

\* What Run's listing leaves: every waiting signal has been seen.
LEMMA ListingAges ==
    ASSUME SpoolAge, TypeOK', UNCHANGED <<overdue, name, pc, loc, disk>>,
           overdue <= clock', HeadCommitted', seen' = Pending,
           \A r \in Pending : 1 <= oldestPendingAt' /\ oldestPendingAt' <= name[r][1]
    PROVE  SpoolAge'
<1>1. ASSUME NEW r \in Requests PROVE Placed(r)' /\ Aged(r)'
  BY DEF SpoolAge, Placed, Aged, Pending
<1>. QED
  BY <1>1 DEF SpoolAge, Pending

\* The head's time bounds that of everything that waits behind it.
LEMMA OldestIsLeast ==
    ASSUME SpoolAge, NEW h \in Pending, IsOldest(h)
    PROVE  \A r \in Pending : 1 <= name[h][1] /\ name[h][1] <= name[r][1]
<1>1. \A r \in Requests : name[r][1] \in Nat /\ name[r][2] \in Nat
  BY DEF SpoolAge, TypeOK
<1>2. h \in Requests /\ name[h][1] >= 1
  BY DEF SpoolAge, Placed, Pending, Nameless, NotCommitted
<1>. QED
  BY <1>1, <1>2 DEF IsOldest, Precedes, Pending

LEMMA ForwarderAges ==
    ASSUME DirectoryReadable, SpoolAge, TypeOK', Forwarder \/ ForwarderFaults,
           UNCHANGED overdue, seen' = IF Lists THEN Pending ELSE seen
    PROVE  SpoolAge'
<1>. USE DEF Forwards, Moves, HeadKept, HeadDone
<1>1. /\ UNCHANGED <<pc, name, clock>> /\ overdue <= clock' /\ overdue \in Nat
      /\ fpc # "down" /\ fpc' # "down"
  BY DEF Forwarder, ForwarderFaults, ListPending, ListEmpty, ReadFile, ForwardOk,
         ForwardRetryable, ForwardPermanent, Bury, FinishDead, Remove, FinishDelivered, WakeUp,
         TimerFires, Stop, ListFails, ReadFails, BuryFails, RemoveFails, SpoolAge
<1>2. CASE \E h \in Requests : ListPending(h)
  <2>1. PICK h \in Requests : ListPending(h)
    BY <1>2
  <2>2. /\ h \in Pending /\ IsOldest(h) /\ oldestPendingAt' = name[h][1] /\ Lists
        /\ UNCHANGED <<loc, disk>> /\ head' = h
    BY <2>1 DEF ListPending, updateOldestPending, IsOldest, Lists
  <2>3. HeadCommitted'
    BY <1>1, <2>2 DEF HeadCommitted, SpoolAge, Placed, Pending
  <2>. QED
    BY <1>1, <2>2, <2>3, OldestIsLeast, ListingAges
<1>3. CASE ListEmpty
  <2>1. Pending = {} /\ Lists /\ UNCHANGED <<loc, disk>> /\ fpc' = "idle"
    BY <1>3 DEF ListEmpty, Lists
  <2>. QED
    BY <1>1, <2>1, ListingAges DEF HeadCommitted, WithHead
<1>4. CASE Bury \/ Remove
  <2>1. /\ head \in Requests /\ pc[head] \notin NotCommitted /\ fpc' \in WithHead /\ head' = head
        /\ \E place \in {"none", "dead"} : MoveTo(head, place)
        /\ UNCHANGED oldestPendingAt /\ ~Lists
    BY <1>4 DEF Bury, Remove, SpoolAge, TypeOK, HeadCommitted, WithHead, Lists
  <2>2. HeadCommitted'
    BY <1>1, <2>1 DEF HeadCommitted
  <2>3. \A r \in Requests : /\ loc'[r] = "pending" => loc[r] = "pending"
                            /\ r # head => loc'[r] = loc[r] /\ disk'[r] = disk[r]
    BY <2>1 DEF MoveTo, SpoolAge, TypeOK
  <2>. QED
    BY <1>1, <2>1, <2>2, <2>3, QueueShrinks DEF NotCommitted
<1>5. CASE \/ ReadFile \/ ForwardOk \/ ForwardRetryable \/ ForwardPermanent \/ FinishDead
           \/ FinishDelivered \/ WakeUp \/ TimerFires \/ Stop
           \/ ReadFails \/ BuryFails \/ RemoveFails
  <2>1. /\ UNCHANGED <<loc, disk, oldestPendingAt>> /\ ~Lists
        /\ fpc' \in WithHead => fpc \in WithHead /\ head' = head
    BY <1>5 DEF ReadFile, ForwardOk, ForwardRetryable, ForwardPermanent, FinishDead,
                FinishDelivered, WakeUp, TimerFires, Stop, ReadFails, BuryFails, RemoveFails,
                Lists, WithHead
  <2>2. HeadCommitted'
    BY <1>1, <2>1 DEF HeadCommitted, SpoolAge
  <2>. QED
    BY <1>1, <2>1, <2>2, QueueShrinks
<1>6. ~ListFails
  BY DEF ListFails, DirectoryReadable
<1>. QED
  BY <1>2, <1>3, <1>4, <1>5, <1>6 DEF Forwarder, ForwarderFaults

LEMMA ProcessAges ==
    ASSUME SpoolAge, TypeOK', Cancel \/ Exit \/ Crash \/ PowerLoss \/ Restart,
           UNCHANGED overdue, seen' = IF Lists THEN Pending ELSE seen
    PROVE  SpoolAge'
<1>1. CASE Cancel
  <2>1. /\ UNCHANGED <<loc, disk, pc, name, clock, oldestPendingAt, fpc, head>> /\ ~Lists
    BY <1>1 DEF Cancel, Lists
  <2>2. HeadCommitted' /\ overdue <= clock'
    BY <2>1 DEF HeadCommitted, SpoolAge
  <2>. QED
    BY <2>1, <2>2, QueueShrinks
<1>2. CASE Exit \/ Crash \/ PowerLoss
  <2>1. /\ UNCHANGED <<name, clock>> /\ fpc' = "down" /\ ~Lists
        /\ pc' = [r \in Requests |-> IF pc[r] \in InFlight THEN "lost" ELSE pc[r]]
    BY <1>2 DEF Exit, Crash, PowerLoss, ProcessGone, NamesKept, Lists
  <2>2. \A r \in Requests :
           pc[r] \in Nameless => loc'[r] = loc[r] /\ disk'[r] = disk[r]
    BY <1>2 DEF Exit, Crash, PowerLoss, SpoolAge, Placed
  <2>3. ASSUME NEW r \in Requests PROVE Placed(r)' /\ Aged(r)'
    <3>1. Placed(r) /\ (pc'[r] = pc[r] \/ (pc[r] \in InFlight /\ pc'[r] = "lost"))
          /\ pc'[r] \notin InFlight
      BY <2>1 DEF SpoolAge, InFlight
    <3>2. Aged(r)'
      BY <2>1 DEF Aged, Up
    <3>3. UNCHANGED <<seen, overdue, name>>
      BY <2>1
    <3>4. CASE pc[r] \in Nameless
      BY <2>2, <3>1, <3>2, <3>3, <3>4 DEF Placed, InFlight, Nameless, NotCommitted
    <3>5. CASE pc[r] \notin Nameless
      BY <3>1, <3>2, <3>3, <3>5 DEF Placed, InFlight, Nameless, NotCommitted
    <3>. QED
      BY <3>4, <3>5
  <2>4. HeadCommitted'
    BY <2>1 DEF HeadCommitted, WithHead
  <2>. QED
    BY <2>1, <2>3, <2>4 DEF SpoolAge
<1>3. CASE Restart
  <2>1. /\ UNCHANGED <<loc, disk, pc, name>> /\ clock' = clock + 1 /\ fpc' = "top" /\ Lists
    BY <1>3 DEF Restart, Lists
  <2>2. HeadCommitted' /\ overdue <= clock'
    BY <2>1 DEF HeadCommitted, WithHead, SpoolAge, TypeOK
  <2>3. \A r \in Pending : 1 <= oldestPendingAt' /\ oldestPendingAt' <= name[r][1]
    BY <1>3, OldestIsLeast DEF Restart, updateOldestPending
  <2>. QED
    BY <2>1, <2>2, <2>3, ListingAges
<1>. QED
  BY <1>1, <1>2, <1>3

-----------------------------------------------------------------------------
(* The handler, and time *)

LEMMA SpoolStepAges ==
    ASSUME DirectoryReadable, AgeInv, SpoolStep
    PROVE  AgeInv'
<1>1. Next /\ UNCHANGED overdue /\ seen' = IF Lists THEN Pending ELSE seen
  BY DEF SpoolStep
<1>2. TypeOK'
  BY <1>1, StepTypes DEF AgeInv, SpoolAge
<1>3. ASSUME NEW r \in Requests, Enqueue(r) PROVE SpoolAge'
  <2>1. UNCHANGED fpc
    BY <1>3 DEF Enqueue, EnqueueSteps, EnqueueFaults, Reserve, RejectFull, CreateTemp, FillTemp,
                Commit, Undo, Nudge, SyncDir, RecordDirFsyncSuccess, RecordDirFsyncFailure,
                WriteTempFails, CommitFails, SyncDirFails, Passes, Call
  <2>. QED
    BY <1>1, <1>2, <1>3, <2>1, EnqueueAges DEF AgeInv, Lists
<1>4. SpoolAge'
  BY <1>1, <1>2, <1>3, ForwarderAges, ProcessAges DEF Next, AgeInv
<1>5. PollSound'
  BY DEF SpoolStep, AgeInv, PollSound, NoPoll
<1>. QED
  BY <1>4, <1>5 DEF AgeInv

\* What becomes overdue has been seen, or there is no process to answer.
LEMMA TimeAges ==
    ASSUME AgeInv, TimePasses
    PROVE  AgeInv'
<1>1. /\ UNCHANGED vars /\ UNCHANGED <<poll, seen, late>>
      /\ overdue' = overdue + 1 /\ overdue < clock
  BY DEF TimePasses, historyVars
<1>2. overdue \in Nat /\ clock \in Nat /\ TypeOK /\ TypeOK'
  BY <1>1 DEF AgeInv, SpoolAge, TypeOK
<1>3. ASSUME NEW r \in Requests PROVE Placed(r)' /\ Aged(r)'
  <2>1. Placed(r) /\ Aged(r) /\ name[r][1] \in Nat
    BY DEF AgeInv, SpoolAge, TypeOK
  <2>2. Placed(r)'
    BY <1>1, <1>2, <2>1 DEF TimePasses, Placed
  <2>3. Aged(r)'
    BY <1>1, <1>2, <2>1 DEF TimePasses, Aged, Pending, Up
  <2>. QED
    BY <2>2, <2>3
<1>4. SpoolAge'
  BY <1>1, <1>2, <1>3 DEF AgeInv, SpoolAge, HeadCommitted
<1>5. PollSound'
  BY <1>1 DEF AgeInv, PollSound
<1>. QED
  BY <1>4, <1>5 DEF AgeInv

LEMMA HandlerAges ==
    ASSUME AgeInv, ReadinessCheckHandler
    PROVE  AgeInv'
<1>1. UNCHANGED vars /\ UNCHANGED <<overdue, seen>>
  BY DEF ReadinessCheckHandler, ReadAge, ReadDepth, ReadFsyncFailures, Answer, HandlerOnly
<1>2. SpoolAge'
  BY <1>1 DEF AgeInv, SpoolAge, TypeOK, HeadCommitted, Placed, Aged, Up
<1>3. PollSound'
  <2>. USE DEF PollSound, NoPoll, Because, Reasons
  <2>1. CASE ReadAge
    <3>1. ASSUME late' # {} PROVE oldestPendingAt > 0 /\ oldestPendingAt < overdue
      <4>1. PICK r \in Pending : name[r][1] < overdue
        BY <2>1, <3>1 DEF ReadAge
      <4>2. Aged(r) /\ name[r][1] \in Nat /\ overdue \in Nat /\ oldestPendingAt \in Nat
        BY DEF AgeInv, SpoolAge, TypeOK, Pending
      <4>. QED
        BY <2>1, <4>1, <4>2 DEF Aged, Pending, ReadAge
    <3>2. (oldestPendingAt > 0) \in BOOLEAN
      OBVIOUS
    <3>3. Because(oldestPendingAt > 0 /\ oldestPendingAt < overdue, "stale") \subseteq Reasons
      OBVIOUS
    <3>4. poll' = [at |-> "age", pending |-> oldestPendingAt > 0, depth |-> 0,
                   reasons |-> Because(oldestPendingAt > 0 /\ oldestPendingAt < overdue, "stale")]
      BY <2>1 DEF ReadAge
    <3>. QED
      BY <3>1, <3>2, <3>3, <3>4
  <2>2. CASE ReadDepth
    BY <2>2 DEF ReadDepth, AgeInv, SpoolAge, TypeOK
  <2>3. CASE ReadFsyncFailures
    BY <2>3 DEF ReadFsyncFailures, AgeInv
  <2>4. CASE Answer
    BY <2>4 DEF Answer
  <2>. QED
    BY <2>1, <2>2, <2>3, <2>4 DEF ReadinessCheckHandler
<1>. QED
  BY <1>2, <1>3 DEF AgeInv

\* While a signal that was overdue when the handler began still waits, the
\* answer is 503: across crashes, power losses and restarts, and although the
\* forwarder sets the cached age only when it looks at the directory.
THEOREM OverdueIsReported ==
    ASSUME DirectoryReadable
    PROVE  ReadySpec => []StaleBacklogIsRed
<1>1. ReadyInit => AgeInv
  BY InitAge
<1>2. AgeInv /\ [ReadyNext]_<<vars, readyVars>> => AgeInv'
  <2>. SUFFICES ASSUME AgeInv, [ReadyNext]_<<vars, readyVars>> PROVE AgeInv'
    OBVIOUS
  <2>1. CASE UNCHANGED <<vars, readyVars>>
    BY <2>1 DEF AgeInv, SpoolAge, PollSound, TypeOK, HeadCommitted, Placed, Aged, Up, readyVars,
                historyVars
  <2>. QED
    BY <2>1, SpoolStepAges, TimeAges, HandlerAges DEF ReadyNext
<1>3. AgeInv => StaleBacklogIsRed
  BY DEF AgeInv, PollSound, StaleBacklogIsRed, Answered
<1>. QED
  BY <1>1, <1>2, <1>3, PTL DEF ReadySpec

-----------------------------------------------------------------------------
(* What is gone is not reported, and what waits is not denied.                *)

\* Beside the spool the handler and the clock of the age limit change nothing,
\* so every theorem about the spool holds of it here.
LEMMA ReadySpoolIsSpool == ReadySpec => Spec
<1>1. ReadyInit => Init
  BY DEF ReadyInit
<1>2. [ReadyNext]_<<vars, readyVars>> => [Next]_vars
  BY DEF ReadyNext, SpoolStep, TimePasses, ReadinessCheckHandler, ReadAge, ReadDepth,
         ReadFsyncFailures, Answer, HandlerOnly
<1>. QED
  BY <1>1, <1>2, PTL DEF ReadySpec, Spec

\* No poll outlives its process, the backlog of a poll waits as long as it is
\* remembered, and a depth of 0 was read when nothing did.
EmptyInv ==
    /\ PollTypeOK
    /\ fpc = "down" => poll.at = "idle"
    /\ backlog \subseteq Pending
    /\ poll.at \in {"depth", "answer"} /\ poll.depth = 0 => backlog = {}

LEMMA NoDepthNoPending ==
    ASSUME DepthInv, Up
    PROVE  depth = 0 <=> Counted = {}
<1>1. depth = Cardinality(Counted)
  BY DEF DepthInv, DepthAccounting
<1>. QED
  BY <1>1, CountedFinite, FS_EmptySet

LEMMA EmptyStep ==
    ASSUME DepthInv, EmptyInv, [ReadyNext]_<<vars, readyVars>>
    PROVE  EmptyInv'
<1>. USE DEF EmptyInv, NoPoll, Because, Reasons
<1>1. CASE SpoolStep
  BY <1>1 DEF SpoolStep
<1>2. CASE TimePasses \/ UNCHANGED <<vars, readyVars>>
  BY <1>2 DEF TimePasses, historyVars, readyVars, Pending
<1>3. CASE ReadAge
  <2>1. (oldestPendingAt > 0) \in BOOLEAN /\ UNCHANGED <<fpc, loc>>
    BY <1>3 DEF ReadAge, HandlerOnly
  <2>2. Because(oldestPendingAt > 0 /\ oldestPendingAt < overdue, "stale") \subseteq Reasons
    OBVIOUS
  <2>3. PollTypeOK' /\ poll'.at = "age"
    BY <1>3, <2>1, <2>2 DEF ReadAge
  <2>. QED
    BY <1>3, <2>1, <2>3 DEF ReadAge, Pending, Up
<1>4. CASE ReadDepth
  <2>1. /\ UNCHANGED <<fpc, loc, backlog>> /\ PollTypeOK' /\ Up
        /\ poll'.at = "depth" /\ poll'.depth = depth
    BY <1>4 DEF ReadDepth, HandlerOnly, DepthInv, TypeOK, Up
  <2>2. depth = 0 => Pending = {}
    BY <2>1, NoDepthNoPending DEF Counted
  <2>. QED
    BY <2>1, <2>2 DEF Pending, Up
<1>5. CASE ReadFsyncFailures
  BY <1>5 DEF ReadFsyncFailures, HandlerOnly, Pending
<1>6. CASE Answer
  BY <1>6 DEF Answer, HandlerOnly
<1>. QED
  BY <1>1, <1>2, <1>3, <1>4, <1>5, <1>6 DEF ReadyNext, ReadinessCheckHandler

\* An answer without a pending signal and without depth is given only if the
\* queue was empty at some time since the handler began, although the age and
\* the depth are read under the lock one after the other.
THEOREM EmptyMeansEmpty ==
    ASSUME RemoveWorks
    PROVE  ReadySpec => []EmptyAnswerIsTrue
<1>1. ReadyInit => EmptyInv
  BY DEF ReadyInit, EmptyInv, NoPoll, Reasons
<1>2. DepthInv /\ EmptyInv /\ [ReadyNext]_<<vars, readyVars>> => EmptyInv'
  BY EmptyStep
<1>3. EmptyInv => EmptyAnswerIsTrue
  BY DEF EmptyInv, EmptyAnswerIsTrue, Answered
<1>4. ReadySpec => []DepthInv
  BY ReadySpoolIsSpool, DepthIsExact, PTL
<1>. QED
  BY <1>1, <1>2, <1>3, <1>4, PTL DEF ReadySpec

\* Once the forwarder has found the directory empty, and as long as it stays so,
\* it has no file at hand and the handler has found nothing to complain of.
CalmInv ==
    /\ PollTypeOK
    /\ fpc = "idle" => oldestPendingAt = 0
    /\ calm => Drained /\ fpc \notin WithHead
    /\ calm /\ poll.at # "idle" => poll.reasons = {}

\* The cached age is 0 from the listing that found nothing to the next listing.
LEMMA IdleHasNoAge ==
    ASSUME fpc = "idle" => oldestPendingAt = 0, Next
    PROVE  (fpc = "idle" => oldestPendingAt = 0)'
BY DEF Next, Restart, Cancel, Exit, Crash, PowerLoss, ProcessGone, Enqueue, EnqueueSteps,
       EnqueueFaults, Reserve, RejectFull, CreateTemp, FillTemp, Commit, Undo, Nudge, SyncDir,
       RecordDirFsyncSuccess, RecordDirFsyncFailure, WriteTempFails, CommitFails, SyncDirFails,
       Call, Passes, Forwarder, ForwarderFaults, ListPending, ListEmpty, ReadFile, ForwardOk,
       ForwardRetryable, ForwardPermanent, Bury, FinishDead, Remove, FinishDelivered, WakeUp,
       TimerFires, Stop, ListFails, ReadFails, BuryFails, RemoveFails, Moves, Forwards,
       updateOldestPending

\* The forwarder takes up a file only when there is one.
LEMMA DrainedHasNoHead ==
    ASSUME Drained, fpc \notin WithHead, Next
    PROVE  fpc' \notin WithHead
BY DEF Drained, WithHead, Up, Next, Restart, Cancel, Exit, Crash, PowerLoss, ProcessGone,
       Enqueue, EnqueueSteps, EnqueueFaults, Reserve, RejectFull, CreateTemp, FillTemp, Commit,
       Undo, Nudge, SyncDir, RecordDirFsyncSuccess, RecordDirFsyncFailure, WriteTempFails,
       CommitFails, SyncDirFails, Call, Passes, Forwarder, ForwarderFaults, ListPending,
       IsOldest, ListEmpty, ReadFile, ForwardOk, ForwardRetryable, ForwardPermanent, Bury,
       FinishDead, Remove, FinishDelivered, WakeUp, TimerFires, Stop, ListFails, ReadFails,
       BuryFails, RemoveFails, Moves, Forwards

LEMMA DrainedHasNoDepth ==
    ASSUME DepthInv, Drained, fpc \notin WithHead
    PROVE  depth = 0 /\ ~(100 * depth >= DepthRatio * MaxDepth)
<1>1. Counted = {}
  BY DEF Drained, Counted, WithHead, InFlight
<1>2. depth = 0
  BY <1>1, NoDepthNoPending DEF Drained
<1>3. DepthRatio \in Nat /\ DepthRatio >= 1 /\ MaxDepth \in Nat /\ MaxDepth >= 1
  OBVIOUS
<1>4. \A a, b \in Nat : a >= 1 /\ b >= 1 => a * b >= 1
  OBVIOUS
<1>. QED
  BY <1>2, <1>3, <1>4

LEMMA CalmStep ==
    ASSUME DepthInv, CalmInv, [ReadyNext]_<<vars, readyVars>>
    PROVE  CalmInv'
<1>1. CASE SpoolStep
  <2>1. Next /\ calm' = (calm /\ Drained') /\ (fpc' # "down" => UNCHANGED poll)
    BY <1>1 DEF SpoolStep
  <2>2. (fpc = "idle" => oldestPendingAt = 0)'
    BY <2>1, IdleHasNoAge DEF CalmInv
  <2>3. PollTypeOK'
    BY <1>1 DEF SpoolStep, CalmInv, NoPoll
  <2>. QED
    BY <2>1, <2>2, <2>3, DrainedHasNoHead DEF CalmInv, Drained, Up
<1>2. CASE TimePasses \/ UNCHANGED <<vars, readyVars>>
  BY <1>2 DEF CalmInv, TimePasses, historyVars, readyVars, Drained, Pending, Up
<1>3. CASE ReadinessCheckHandler
  <2>1. UNCHANGED vars /\ Drained' = Drained
    BY <1>3 DEF ReadinessCheckHandler, ReadAge, ReadDepth, ReadFsyncFailures, Answer, HandlerOnly,
                Drained, Pending, Up
  <2>2. CASE ReadAge
    <3>1. (oldestPendingAt > 0) \in BOOLEAN
      OBVIOUS
    <3>2. Because(oldestPendingAt > 0 /\ oldestPendingAt < overdue, "stale") \subseteq Reasons
      BY DEF Because, Reasons
    <3>3. PollTypeOK'
      BY <2>2, <3>1, <3>2 DEF ReadAge, NoPoll
    <3>4. fpc = "idle" => Because(oldestPendingAt > 0 /\ oldestPendingAt < overdue, "stale") = {}
      BY DEF CalmInv, Because
    <3>5. calm' => Drained /\ fpc = "idle" /\ poll'.reasons = {}
      BY <2>2, <3>4 DEF ReadAge, NoPoll
    <3>. QED
      BY <2>1, <3>3, <3>5 DEF CalmInv, WithHead
  <2>3. CASE ReadDepth
    BY <2>1, <2>3, DrainedHasNoDepth DEF ReadDepth, Because, Reasons, CalmInv, DepthInv, TypeOK
  <2>4. CASE ReadFsyncFailures
    <3>1. calm => ~(dirFsyncFailures >= MaxSpoolFsyncFailures)
      BY DEF CalmInv, Drained, DepthInv, TypeOK
    <3>2. /\ poll.at = "depth" /\ UNCHANGED calm
          /\ poll' = [poll EXCEPT !.at = "answer",
                        !.reasons = @ \cup Because(dirFsyncFailures >= MaxSpoolFsyncFailures, "fsync")]
      BY <2>4 DEF ReadFsyncFailures
    <3>3. PollTypeOK' /\ (calm => poll'.reasons = {})
      BY <3>1, <3>2 DEF CalmInv, Because, Reasons
    <3>. QED
      BY <2>1, <3>2, <3>3 DEF CalmInv
  <2>5. CASE Answer
    BY <2>1, <2>5 DEF Answer, NoPoll, CalmInv
  <2>. QED
    BY <1>3, <2>2, <2>3, <2>4, <2>5 DEF ReadinessCheckHandler
<1>. QED
  BY <1>1, <1>2, <1>3 DEF ReadyNext

\* Once the queue is drained and the forwarder has seen it, every answer is
\* healthy: neither the depth nor the cached age keeps anything of what is gone.
THEOREM DrainedIsHealthy ==
    ASSUME RemoveWorks
    PROVE  ReadySpec => []DrainedIsGreen
<1>1. ReadyInit => CalmInv
  BY DEF ReadyInit, Init, CalmInv, NoPoll, Reasons
<1>2. DepthInv /\ CalmInv /\ [ReadyNext]_<<vars, readyVars>> => CalmInv'
  BY CalmStep
<1>3. CalmInv => DrainedIsGreen
  BY DEF CalmInv, DrainedIsGreen, Answered
<1>4. ReadySpec => []DepthInv
  BY ReadySpoolIsSpool, DepthIsExact, PTL
<1>. QED
  BY <1>1, <1>2, <1>3, <1>4, PTL DEF ReadySpec

=============================================================================
