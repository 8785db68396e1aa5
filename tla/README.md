# EdgeGW in TLA+

The edge gateway (Go, `src/`) takes a bank's transactions over HTTP, replaces
the personal data in them by keyed hashes and coarse features, and delivers the
result, a *signal*, to a fraud-detection vendor or, standalone, to files of its
own. What makes it hard is what happens between the HTTP request and the
vendor's confirmation: a durable spool with a background forwarder, an egress
audit log that has to agree with the deliveries, and crashes, retries and
failing file-system calls at every step. These modules model that part, the
process around it from its first line to its return, what `/readyz` and
`/metrics` tell of it, and the anonymization itself, from the code.

## 1. Inventory

| Component | Source | State | Operations | Interacts with |
|---|---|---|---|---|
| Durable spool | `internal/spool/spool.go` | directory of `.json`/`.tmp`/dead-letter files; `depth`, `seq`, `wake`, `oldestPendingAt`, `dirFsyncFailures` | `New`, `Enqueue`, `Run`/`forwardOldest`, `deadLetter`, getters | called by every `/process` request; calls the forward function and the `OnDead` hook; read by `/readyz` |
| Audited forwarding | `cmd/gateway/audit.go` | `redeliveryGuard.digest`, `auditHealth.failures` | `auditingForward`, `auditingSyncForward`, guard and health methods | wraps the vendor call (or the sink), writes the audit log, read by `/readyz` |
| Egress audit log | `internal/auditlog/auditlog.go` | one open file, its day | `New`, `Record`, `Close` | `dirsync` |
| Standalone sink | `cmd/gateway/sink.go` | one open file, its day | `Forward`, `Close` | `dirsync`; replaces the vendor |
| Directory fsyncs | `internal/dirsync/dirsync.go` | none | `Sync`, `OpenAppendFile` | used by the three above |
| Outbound adapter | `internal/adapters/outbound.go` | HTTP client | `ForwardPayload`, `forwardWithRetry` | vendor, metrics |
| Request handler | `cmd/gateway/main.go` | none of its own | `processTransaction` | anonymizer, then spool or synchronous delivery |
| Anonymizer | `internal/processor/anonymizer.go` | none (pure) | `Validate`, `AnonymizeSignal` and its helpers | handler |
| Readiness | `internal/adapters/inbound.go` | registered status functions, thresholds | `ReadinessCheckHandler` | spool, audit health |
| Metrics | `internal/adapters/metrics.go` | counters and gauges registered on first use, time of the last delivery, latency EWMA | `RecordMetric`, `SetGauge`, `RecordDelivery`, `MetricsHandler` | handlers, forwarder, scraper |
| Configuration | `internal/config/config.go`, `validateStartup` | one global | `Load`, `Reload`, `Get` | everything, at startup |
| HTTP middleware | `internal/middleware/middleware.go` | none | API key, body limit, request log | handler |
| Lifecycle | `cmd/gateway/main.go` | server, forwarder context, open files | start, signal, `server.Shutdown`, `stopForwarder`, closes | everything |

Hard behaviours, and the properties that make each component correct:

- *Spool.* Many `Enqueue` calls race with one forwarder; the limit check and the
  rename are far apart; the wake-up is a one-slot channel; every step can be the
  last one before a power loss. Correct means: what was answered with 202 is
  never lost, only whole signals are visible, the depth agrees with the
  directory, the forwarder never sleeps over work, delivery is oldest first, and
  every committed signal is settled in the end.
- *Audited forwarding.* Delivery and audit write are two steps that cannot be
  atomic. Correct means: no delivery without a record that is not at least
  visible as stuck, no record without a delivery, and duplicates only where the
  comments admit them.
- *Day files.* A line that was reported written survives a power loss and is in
  the file of its day.
- *Synchronous delivery.* The answer, the deliveries, the records and the
  counters agree, the retries fit inside the server's `WriteTimeout`, and every
  call ends.
- *Readiness.* A backlog that is too old is reported although the age is a
  cached one, an answer assembled from separate reads is not a fiction, and the
  endpoint turns green again when the cause is gone.
- *Metrics.* No update is lost when several goroutines use a counter for the
  first time, and what one response shows agrees although it is read piece by
  piece.
- *Configuration and lifecycle.* What startup accepts is enough for what runs
  later; on SIGTERM the requests in flight finish, the forwarder is not cut in a
  delivery, the files are closed last, and the process does end.
- *Anonymizer.* Mosaics are equal exactly for the same person where the scope
  allows a comparison and never otherwise, `signal_id` is an idempotency key,
  zones and time buckets contain what they stand for.

`PROJECT.json` lists every hazard at its line with the properties aimed at it.

## 2. Modules

| Module | Models | Extended or instantiated by |
|---|---|---|
| `DeliveryQueue` | the abstract promise of the spool: an at-least-once queue with dead letters and a host that may fail | `Spool` (`Queue`) |
| `Spool` | `internal/spool`, one action per system call or critical section of `Enqueue` and `Run` | `AuditedSpool`, `Readiness`, `SpoolProofs`, `MCSpool` |
| `AuditedSpool` | `auditingForward`, guard, health and `OnDead` composed with `Spool` | `AuditedSpoolProofs`, `MCAuditedSpool` |
| `DayFile` | `Logger.Record` and `localSink.Forward`, which are the same code, over `dirsync` | `DayFileProofs`, `MCDayFile` |
| `SyncDelivery` | `/process` without a spool: retries, audit write, counters, answer | `SyncDeliveryProofs`, `MCSyncDelivery` |
| `Readiness` | `/readyz` composed with `Spool`: the handler's three reads between any steps of the spool | `ReadinessProofs`, `MCReadiness` |
| `Metrics` | the metrics store, the goroutines that write it, and the `/metrics` handler | `MetricsProofs`, `MCMetrics` |
| `Config` | `config.Load`, `validateStartup`, and what later code reads of the environment by itself (operators only) | `Lifecycle` |
| `Lifecycle` | `main`: startup, signal goroutine, forwarder, requests, shutdown, closes | `LifecycleProofs`, `MCLifecycle` |
| `Anonymizer` | `Validate` and `AnonymizeSignal`, and the vendor's view of their output | `AnonymizerProofs`, `MCAnonymizer` |
| `SpoolProofs`, `AuditedSpoolProofs`, `DayFileProofs`, `SyncDeliveryProofs`, `ReadinessProofs`, `MetricsProofs`, `LifecycleProofs`, `AnonymizerProofs` | theorems | `SpoolProofs` by `AuditedSpoolProofs` and `ReadinessProofs` |
| `MC*` | the instances that TLC checks | |

An operator whose comment begins with "variant" is not part of the model. It is
a deliberately wrong form of the definition after it (a dropped guard, an
off-by-one, a missing reset); `PROJECT.json` says which property it breaks, so
that each property is known to be able to fail.

### Spool

A request is one call of `Enqueue`; its file is identified with it. `loc` is
where the running system sees the file (`none`, `tmp`, `pending`, `dead`),
`disk` the places a power loss may leave it in, `content` whether the bytes are
incomplete, in the page cache or fsynced. A rename or unlink adds a place to
`disk`, and the fsync of the directory (`SyncDir`) reduces it to the visible one.
`pc` walks through `Enqueue`:

    new -> create -> fill -> rename -> nudge -> sync -> synced -> accepted
     |        \        \        \                 \
     full      `-------- undo -> failed            `-> unsynced -> failed

`Reserve` is the first critical section (depth check, depth, sequence number,
name); the directory fsync and the count of its outcome are two steps, because
`mu` is not held in between. A `failed` call after `unsynced` leaves a committed
file behind, as the code does. The forwarder's `fpc` is

    top -> read -> forward -> remove -> removed -> top
     |        \        |  \-> bury -> buried -> top
     idle      bury    backoff -> top
     stopped -> (Exit) down -> (Restart) top

with the listing, the read, the answer of the destination, the unlink or rename,
and `decDepth` as separate steps, so that calls of `Enqueue` interleave with each
of them. Each of the seven fault kinds (`write`, `rename`, `dirsync`, `readdir`,
`read`, `remove`, `deadletter`) is an action of its own, enabled by `Faults`.

### AuditedSpool

Every step is a step of `Spool`, refined inside `forward`: `Deliver` is the
vendor's confirmation with `markDelivered`, `AuditWrite` the durable record and
nil, `AuditWriteFails` the plain, hence retryable, error, `SkipDelivery` a retry
that the guard recognizes, `OnDead` the hook that clears it. `Digest` says which
requests carry the same bytes: `signal_id` and the bucketed timestamp are
deterministic, so a caller's retry does. `OneCaller` is an assumption about the
environment, not the gateway: the core banking system sends its next request
when the last one was answered.

### DayFile, SyncDelivery, Anonymizer

`DayFile`: one call runs from `Acquire` to `Unlocks` under its gateway's mutex;
between its steps come only crashes, power losses and other gateways on the same
directory. `SyncDelivery`: time is per call, in ticks of 250 ms from the end of
the header, which is when Go arms `WriteTimeout`. `Anonymizer`: the only state
is what the vendor has received; texts are sequences over `Alphabet`,
HMAC-SHA256 is ideal (equal results mean equal key and message), and each input
carries the person it is about, which the code never sees. The loops that copy a
text without some of its characters are `Keep`; `NormalizeName`, where `Fields` and
`Join` go by words, keeps the words and the first space after each but the last.
The loop of `Geohash` is `Cuts`,
one coordinate at a time and one `Half` per turn.

### Readiness

Every step of the spool is one of `Spool`'s; beside it stands one poll:

    idle -ReadAge-> age -ReadDepth-> depth -ReadFsyncFailures-> answer -Answer-> idle

each read under the spool's mutex, and nothing held between them, as in the
status function that `main` registers. An age is turned into a limit on the
enqueue time: what was enqueued before `overdue` is too old. `TimePasses` moves
the limit, but not past a call of `Enqueue` that is under way nor past a file
that the forwarder has had no turn to see: the threshold is minutes, those take
milliseconds. The histories `backlog`, `late` and `calm` say what was true when
the handler began.

### Metrics

What a goroutine does is a program, a sequence of operations: the handler's
`Enqueue` and counter, the forwarder's `decDepth`, `RecordDelivery` and its
EWMA. An operation on a counter is three steps as in `RecordMetric`: the look
under the read lock, a second look (and the registration) under the write lock
if there was nothing, and the atomic add to the cell that was found. A
*cell* is identified with the goroutine that allocated it, so a lost cell would
show. `reportDepth` is a read and a store. The scrape holds the read lock from
`BeginScrape` to `Respond`, which keeps out registrations but not adds; counters
come in any order (a Go map), then the gauges.

### Config and Lifecycle

`Config` has what the merge does: file, then environment, then trimming and
lower case, then the default; a blank variable counts as set, a number that does
not parse does not. A text that is only tested for presence is a name in
`given`; one that is compared is a word and whether it is spelled plainly.
`Lifecycle` runs one process:

    load -> validate -> open -> listen -> serve -> drain -> join
      -> closeSink -> closeAudit -> return -> gone

beside the `watcher` (`started -> watching -> draining -> done`, the goroutine
around `signal.Notify` and `server.Shutdown`), the forwarder, and the requests,
each a connection with one call. A signal before `Notify` kills the process
(`DieOfSignal`); `ListenAndServe` returns when `Shutdown` begins; `Shutdown`
returns when all connections are closed (`Drained`) or after 15 s (`GraceOver`,
which records who was `late`); `open` is the set of day files that are open, and
a late handler opens a closed one again. `Kill` may come at any time.

## 3. What TLC checks

| Run | Instance | Shows |
|---|---|---|
| `spool_power_loss` | 2 requests, limit 2, all faults, fsync on, 2 crashes or power losses | `AckedNeverLost`, `WholeSignalsOnly`, and that the spool implements `DeliveryQueue` |
| `spool_crash` | 3 requests, limit 2, fsync off, 1 process crash or exit | order, wake-ups, and the depth against the directory |
| `spool_liveness` | 2 requests, limit 1, forwarder faults, stepping clock, 1 exit or crash | settled in the end; shutdown completes |
| `audited_spool` | 2 requests with one digest, concurrent; read and dead-letter faults, 1 crash or power loss | records and deliveries agree; stuck audit log visible; still a `Spool` |
| `audited_one_caller` | 3 requests, two with one digest, one caller, 1 restart | no false record; duplicates and rejections of delivered signals need a restart |
| `dayfile` | 2 lines, 2 tries each, 2 gateways, 2 days, all faults, 2 crashes or power losses | what was reported written is durable, in its day's file |
| `sync_delivery` | 2 calls with the same bytes, 3 attempts each, answered at once or timing out | answers, records, counters, time budget, termination |
| `anonymizer` | every pair of inputs to 4 gateways (2 bank, 2 regional keying, one pepper) | who can be joined with whom; zones; buckets; keys |
| `readiness` | 2 requests, limit 2, failing reads and directory fsyncs, 1 crash or exit, ratio 95 %, one fsync failure is enough | a stale backlog is red, an empty answer was true, a drained queue is green |
| `metrics` | 2 handlers, the forwarder, queue times of 0, 0.5 and 25 microseconds, scrapes at any moment | no update lost; deliveries are dated; the EWMA is shown and in range; the gauge is exact unless two stores raced |
| `lifecycle` | 2 requests; some thousand pairs of environment and file | only late requests are cut, an orderly end, accepted settings suffice, SIGTERM ends the process |
| `dayfile_dirsync_retry` | 2 lines of one gateway, only directory fsyncs fail | a counterexample, see section 5 |

*Why the bounds are enough to be interesting.* Two requests give every
interleaving of one call with another and with the forwarder; the third one in
`spool_crash` is what lets a full queue (limit 2) refuse a call while a place is
given back, and in `audited_one_caller` separates two equal payloads by a
different one. A second crash in `spool_power_loss` hits what the first one
left. `MaxDepth = 1` in `spool_liveness` makes a full queue the normal case.
Two days and two calls give a call that read the clock before midnight and gets
the mutex after one that read it later; `MaxTries = 2` is one retry. A pair of
signals is all that the anonymizer's properties relate. `MaxAuditCount` lets the
failure count saturate at 2: the properties only compare it with 0.
`Precision = 1` gives 8 by 4 cells, with inputs on their edges and outside ones.
In `metrics` two handlers and the forwarder are three goroutines that use four
names, so that every pair of them meets at a first use, and a third one can
stand between; a queue time of 0.5 microseconds is what rounds to a sample of
zero. In `readiness`, limit 2 with 95 % makes one signal healthy and two not,
and one crash lets the cached age come from a restart. The environments of
`lifecycle` set, omit or spoil each thing that `validateStartup` or a later
reader looks at, alone and together.
Nothing else grows without bound: a request is one call and its file name is
taken once, so `clock`, `seq` and `depth` are bounded by the number of calls and
crashes, and every state is finite without a further constraint.

*Symmetry* over the requests (spool safety runs and `readiness`), over calls and
gateways (`dayfile`) and over handlers (`metrics`) is sound because no constant
or action tells them apart and no liveness is checked there. The audited runs
have none, since `Digest` tells requests apart. `readiness` also has a `VIEW`
that leaves out `disk`, `content`, `earlier` and `delivered`: without power
losses no guard reads the first two, and no property of that run reads any.

*Deadlock* is checked in the spool runs, `readiness` and `metrics`: something
can always go on. In `DayFile`, `SyncDelivery` and `Anonymizer` the environment
simply stops calling, and a `Lifecycle` ends.

*Fairness* (`FairSpec` of `Spool`). Weak fairness of each `Enqueue` call, of the
forwarder and of exit: the Go scheduler runs every runnable goroutine, and the
HTTP client's timeout ends every delivery. Weak fairness of `Restart`:
`deployments/docker-compose.yml:7` (`restart: always`). Strong fairness of
reading the directory and the file, of a definite answer (confirmed or
rejected), of the rename and of the unlink: no fault lasts forever. That is an
assumption about the disk and the vendor, and without it a signal does wait
forever behind an undeliverable head, by design (head-of-line blocking). Faults
and crashes themselves have no fairness. `SyncDelivery` needs only that every
handler goroutine keeps running once it is admitted; a vendor that never
answers is the attempt that times out. `Lifecycle` has weak fairness of `main`,
of the signal goroutine (the grace period does end), of the forwarder (its
deliveries have a deadline) and of the death by an uncaught signal. The
handlers have none: `SignalEndsProcess` holds even if a request never ends.

## 4. What is proved

For every value of the constants (any number of requests, calls, gateways and
goroutines, any limits, times, choice of faults and number of crashes), under
the named `ASSUME`s and the condition stated, TLAPS proves:

| Theorem | Statement |
|---|---|
| `SpoolProofs!TypeCorrect` | `Spec => []TypeOK` |
| `SpoolProofs!AcceptedNeverLost` | if `Durable`, `Spec => []AckedNeverLost` |
| `SpoolProofs!OnlyWholeSignals` | if `Durable`, `Spec => []WholeSignalsOnly` |
| `SpoolProofs!WakeupNeverLost` | `Spec => []NoLostWakeup`, with or without fsync |
| `SpoolProofs!SpoolIsQueue` | if `Durable`, `Spec => ImplementsQueue` |
| `SpoolProofs!OldestGoesFirst` | if the clock does not step back, `Spec => []SubmissionOrder` |
| `SpoolProofs!DepthIsExact`, `DepthAccounted` | if unlink works, the depth is the number of places held |
| `SpoolProofs!QueueWithinLimit` | if unlink works and the host does not fail, the directory stays within `SPOOL_MAX_DEPTH` |
| `AuditedSpoolProofs!AuditRefinesSpool` | `AuditSpec => ImplementsSpool` |
| `AuditedSpoolProofs!AuditedNeverLost` | the 202 promise with the auditing callback |
| `AuditedSpoolProofs!AuditTypeCorrect` | `AuditSpec => []AuditTypeOK` |
| `AuditedSpoolProofs!EveryDeliveryRecorded` | `AuditSpec => []DeliveredIsRecorded` |
| `AuditedSpoolProofs!StuckAuditVisible` | `AuditSpec => []StuckAuditIsVisible` |
| `AuditedSpoolProofs!NoFalseRecordEver` | if `OneCaller` and the clock does not step back, `AuditSpec => []NoFalseRecord` |
| `AuditedSpoolProofs!OncePerRestart`, `ConfirmedNotRejected` | if moreover unlink works, `AuditSpec => []DuplicatesBounded`, `AuditSpec => DeliveredNotRejected` |
| `AuditedSpoolProofs!EveryRecordBacked` | `AuditSpec => []RecordsAreBacked`, with any number of callers |
| `DayFileProofs!DayTypeCorrect`, `ReportedIsDurable`, `RightDay` | `Spec => []TypeOK`, `[]AckedIsDurable`, `[]OnlyOfItsDay` |
| `SyncDeliveryProofs!OkHasRecord` | `Spec => []OkIsRecorded` |
| `SyncDeliveryProofs!ConfirmedOncePerCall` | confirmations of a transaction never exceed the calls made with it |
| `SyncDeliveryProofs!GapsAreCounted`, `CallDeliversOnce` | `Spec => []UnrecordedIsCounted`, `[]OneDeliveryPerCall` |
| `SyncDeliveryProofs!ClientsAreAnswered` | if the retry budget fits (`BudgetFits`), `Spec => []AnsweredInTime` |
| `SyncDeliveryProofs!MainAnswers` | the same for the numbers in `main`, with body and audit write within 1.75 s |
| `ReadinessProofs!OverdueIsReported` | if `DirectoryReadable`, `ReadySpec => []StaleBacklogIsRed` |
| `ReadinessProofs!EmptyMeansEmpty`, `DrainedIsHealthy` | if unlink works, `ReadySpec => []EmptyAnswerIsTrue`, `[]DrainedIsGreen` |
| `MetricsProofs!NoUpdateLost` | `Spec => []CountersExact` |
| `MetricsProofs!ForwardedHasDate`, `LatencyHasAverage` | `Spec => []ForwardedIsDated`, `[]RecentLatencyShown` |
| `MetricsProofs!GaugeExact` | `Spec => []GaugeExactUnlessRaced` |
| `LifecycleProofs!InFlightFinish`, `EndIsOrderly` | `Spec => []OnlyLateAreCut`, `[]OrderlyEnd` |
| `LifecycleProofs!AcceptedCanRun` | `Spec => []AcceptedIsUsable`, for all environments and files |
| `AnonymizerProofs!MosaicsJoin`, `RoutesJoin` | if `IDsNamePeople`, `Spec => []MosaicsJoinPeople`, `[]RoutesCanBeFollowed` |
| `AnonymizerProofs!BankScopeStays` | if `SecretsApart`, `Spec => []BankScopeStaysInBank` |
| `AnonymizerProofs!SignalIDsKey` | `Spec => []SignalIDsAreKeys` |
| `AnonymizerProofs!ZonesAreCells`, `BucketsHoldInstants` | `Spec => []ZoneIsCell`, `[]BucketHoldsInstant` |
| `AnonymizerProofs!FallbacksTell` | if `CustomersAreTold`, `Spec => []FallbackUnambiguous` |
| `AnonymizerProofs!IDsReadAlike`, `NamesReadAlike` | normal forms are equal exactly for texts that people read alike |

With these every safety property and action property of the passing runs is
stated by a theorem.

`Durable == FsyncEnabled \/ ~HostMayFail`: with `SPOOL_FSYNC=false` and a power
loss the promise is not made, and TLC agrees that it does not hold.
`DirectoryReadable`: the clock does not step back and the directory can be
listed. "Unlink works": `remove` is not among the faults (section 5 says why).
`BudgetFits` is met by `main` (`MainFits` in `MCSyncDelivery`), and the three
hypotheses about the anonymizer's inputs and secrets by the instance that TLC
checks (`HypothesesHold`).

*Spool.* `AckedNeverLost` is not inductive: it says nothing about where the
*disk* may hold a file. `SafetyInv` adds what every step relies on.
`HeadQueued`: while the forwarder works on a head, the file is where the step
expects it, so that only it takes files out. `CallOwnsFile`: before its rename a
call's file is its own, incomplete or complete according to `pc`. `DiskKeepsFile`:
once an accepted signal's directory entry has been fsynced, every place the disk
may hold it is the queue, the dead letters or, after a confirmed delivery,
nowhere. Each is preserved by one lemma per part of `Next` (`EnqueueSafe`,
`ForwarderSafe`, `ProcessSafe`) with a case per action, and the refinement maps
each of those steps to one of `DeliveryQueue` or to a stutter; the power loss,
the interesting one, maps to `HostFails`.

*Submission order.* A call takes its name long before its file appears, so the
order has to be carried by names. `NamesArePast`: every name there is comes
before the next one to be given; a restart resets the sequence number but lets
the clock go on. `EarlierPrecedes`: what was pending at a reservation has been
committed, never returns to the calls that are not, and has the earlier name. The
head is the smallest name, so none of its elders is in the queue when it is
chosen (`HeadIsNext`), and none can come back while it is worked on.

*Depth.* `DepthAccounting` equates a counter with the size of a set, so each step
has to be shown to change both alike: `DepthInv` adds that no call outlives its
process (`NoOrphans`), that an uncommitted call has no file in the queue, and
where the head's file is, which makes the element that `Counted` gains or loses
a definite one. The limit follows since a place is only reserved below it.

*Audited forwarding.* Every step is a step of `Spool` (`AuditStepIsSpoolStep`),
so the spool's invariants come for free. `EveryDeliveryRecorded` counts: a
delivered set grows only in `AuditWrite`, by at most one request of the digest
whose record count grows by one. `StuckAuditVisible` drops "the
forwarder rests" from the property: a guard that is held outside the callback has
failed at least once (`GuardHasFailed`), which every step keeps.

`EveryRecordBacked` has to say which confirmation the next record will use. While
the guard holds a digest, one confirmation of those bytes is *set aside* for it:
`BackedInv` says that records and what is set aside never exceed the
confirmations. `Deliver` adds to both sides, `AuditWrite` turns what is set aside
into a record, and a guard that is overwritten or cleared only gives something
up. This needs no assumption on callers, clock or restarts.

*False records and duplicates.* With one caller, a call that commits comes after
everything in the queue (`NothingOvertakes`, from `EarlierPrecedes` of the
spool), so the oldest signal stays the oldest until the forwarder takes it out
(`OldestKept`). `GuardIsOldest`: the guard stands for that signal, and the vendor
confirmed it; two oldest signals are one, so a match is a match of the signal
itself and not of equal bytes. `BoundInv` counts: a queued signal confirmed more
often than there were restarts is the guarded one or about to be removed, so
`Deliver`, which needs a guard that does not match, finds one that was not. Without
`OneCaller` the argument fails at `NothingOvertakes` (section 5).

*Day files.* `DayInv`: a line has one gateway (`OneHolder`), a gateway past the
opening has the file of its line's day (`HandleIsDay`, which is nearly
`OnlyOfItsDay`), a file whose directory entry is not durable has a creator who
is about to fsync it, died, or was told of a failure (`EntryAccounted`), and
what an fsync is about to cover is in the file (`LineWritten`).

*Synchronous delivery.* `CountInv` compares the counters of a transaction with
the sizes of sets of its calls: those with a record of their own, those about to
write one, those that may still deliver. A step moves one call from one set to
the next and one counter with it. `UnrecordedIsCounted` sums over the
transactions; as the size of a set of pairs (`Counted`) the sum needs no
induction. For `OneDeliveryPerCall` the payloads that the vendor received are
compared with the set of attempts that were made (`Tries`). `AnsweredInTime` is a
matter of numbers: `worst[k]` bounds the time at the end of attempt `k`, and
`BudgetFits` says that each attempt, its pause and the last audit write stay
within it. `MainAnswers` then does the arithmetic for `main`.

*Readiness.* `StaleBacklogIsRed` says nothing of the cached age. `AgeInv` does:
the age covers every waiting signal that is overdue *or was in the directory
when the forwarder last looked* (`Aged`), and a call that has not committed is
too young to be overdue (`Placed`). Time may then pass, commits may add younger
signals, and the forwarder may take the head away, in any order.

`EmptyAnswerIsTrue` relates three reads: `EmptyInv` carries what waits since the
handler began (`backlog`), and a depth of 0 that was read empties it, because the
depth is exact (`DepthIsExact`). `DrainedIsGreen`: from the listing that found
nothing until a signal is committed, the forwarder holds no head and the cached
age is 0 (`CalmInv`); so neither reason can be given.

*Metrics.* `StoreInv`: whoever is about to add points to the registered cell,
which a registration never replaces, and an unregistered cell is zero, so that
registering it keeps the sum. What one response shows together depends on the
order of the operations in a program, which `GoodPlan` states of what is left of
it: a time is stored before a delivery is counted, a latency that is counted is
folded after, a change of the depth is followed by a report. `DatedInv` and
`LatencyInv` relate that to what has been read so far. `GaugeInv`: the gauge is
the depth, or some goroutine has still to read or to store it, unless the last
store was of a depth read before one that had been stored already.

*Lifecycle.* `EndInv`: past `drain` the signal goroutine has returned, past
`join` the forwarder has, who is connected when `Shutdown` has returned is late,
and a closed file is reopened only by such a request. `BootInv` is a chain: the
settings come from an environment and a file, past `validate` they are what
`Load` makes of these, past `open` what `validateStartup` accepts.

*Anonymizer.* The state is a set of signals, and `SentInv` says only that each is
what `AnonymizeSignal` makes of an accepted request, and that fallbacks are drawn
once. The work is in the functions. `KeepIsText` shows that what is kept of a text
is a text of its characters (a set of numbers has a member of every rank), so
that normalization never brings in a delimiter; `DelimiterSplits`, that the
first delimiter ends the first field, so that joined texts and keys are equal only
if their parts are. `IDsReadAlike` and `NamesReadAlike` say what the normal forms
are good for: they are equal exactly when one text can be read for the other,
where `SameID` and `SameName` say without the code what that means (a match of
the characters that count, in their order and but for their case, and for names
one that parts the same words). The proof is that a match in order keeps ranks
(`MatchKeepsRank`) and, for names, that a space is kept exactly where a word ends
and is not the last (`SpaceIsKept`, `KeptSpace`). `Geohash` is a loop: `CutsLocate` is its invariant (the
interval holds the point, begins at the edge of a cell and has the width that is
left), `SameCellSameBits` and `SameBitsSameCell` follow turn by turn. This is
induction over data, done with sets: the library's induction theorems take a
predicate as a parameter, which the provers cannot instantiate, but a set of
numbers that is not empty has a least member (`NatHasLeast`), and that is enough
to unfold a recursive function and to follow a loop.

The hypotheses are what the code has to rely on. `IDsNamePeople` and
`CustomersAreTold`: identifiers name people, as people read them. They are stated
with `SameID` and `SameName`, not with the code's normal forms, so that a wrong
`NormalizeID` breaks the property and not the hypothesis. `SecretsApart`: without it a salt
that contains `|` can equal another gateway's salt, delimiter and pepper
together, or one gateway's salt another's pepper, and a mosaic of scope `bank`
would be found elsewhere; nothing in the code checks that.

*Only model-checked:* liveness (`EventuallySettled`, `ShutdownCompletes`,
`EveryCallEnds`, `SignalEndsProcess`): fairness and `ENABLED` are outside the
prover's reach. That the hypotheses of the theorems can be met is TLC's part too:
the instances of section 3 meet them.

## 5. Where the code and its comments differ

With a run that shows the counterexample (`PROJECT.json`, findings):

- `dayfile_dirsync_retry`: after a failed directory fsync the file stays open as
  the day's file; the retry writes to it and returns nil without the fsync that
  `auditlog.go:244-246` means the retry to repeat. `sink.go` is the same.

Seen while modelling, without a run of their own; the model has the step in
question:

- A call that reserved the earlier name and renames later becomes the head while
  the guard holds another signal's digest. The guard is overwritten and the
  first signal delivered twice without a restart; `cmd/gateway/audit.go:183`
  admits duplicates only for restarts. When the overtaking call carries the
  same bytes, it is the one that is recorded without a delivery of its own, and
  the first signal is delivered again afterwards, so the totals still agree
  (`RecordsAreBacked`). `NoFalseRecord` and `DuplicatesBounded` are therefore
  stated for one caller at a time (`OneCaller`), where they hold.
- Delivered, not recorded, restarted, delivered again and now rejected with a
  4xx: the signal is dead-lettered and never recorded, the gap that
  `audit.go:160-162` rules out (`DeliveredNotRejected` excepts restarts).
- `WriteTimeout` also covers reading the body, so three attempts that time out
  after a 2 s body miss it (`outbound.go:118-119`); `AnsweredInTime` is checked
  with a body that takes no time.
- Synchronous mode never calls `RecordDelivery` (`outbound.go:164`), so
  `seconds_since_last_delivery` stays null there, against `metrics.go:115-119`;
  with the standalone sink in synchronous mode `signals_forwarded` is not
  counted either.
- Two racing calls of `reportDepth` may leave the older value in the
  `spool_depth` gauge until the next change (`metrics.go:96`); hence the
  exception in `GaugeExactUnlessRaced`.
- When the directory cannot be listed the cached age keeps its last value, or
  none after a restart (`spool.go:404`), and `/readyz` may be green over an
  overdue signal: the condition of `OverdueIsReported`.
- A listener that fails after the forwarder was started exits without stopping
  it (`main.go:357-359`): for the spool a crash, which may repeat a delivery.
- A blank `GATEWAY_MODE` hides the file's value. `NaN` as a threshold passes
  every check (`config.go:170`, `203`). `Reload` says "Call on SIGHUP"
  (`config.go:178`), but nothing handles SIGHUP or calls it.
- `docker-compose.yml` sets no `stop_grace_period`, whose default of 10 s is
  shorter than the 15 s that `main` gives its requests (`src/README.md:359`).
- `os.Remove`'s error is ignored at `spool.go:435`, so the depth is given back
  although the file stays (`RemoveFails`); `spool.go:147` says `Depth` is the
  number waiting. `DepthAccounting` is checked without this fault.
- `deadLetter` returns early when its rename fails and `forwardOldest` still
  reports progress (`BuryFails`), against `spool.go:402`.
- File names carry wall-clock time (`spool.go:217`); after a step back, a later
  submission sorts first. `docs/signal-schema-v2.md:395-396` promises submission
  order. `SubmissionOrder` is checked for a clock that never steps back.
- A success counted late erases a newer failure in `dirFsyncFailures`
  (`spool.go:286-316`), and likewise in `auditHealth` in synchronous mode
  (`audit.go:257-262`); both are documented as consecutive counts.
- A second writer of a day file may report success before the creator's
  directory fsync (`BeingCreated` in `AckedIsDurable`), although
  `dirsync.go:116-119` says the window is closed entirely. It is outside the
  documented one-gateway topology.
- After a torn line the next record is appended to it (`auditlog.go:255`), and a
  line whose fsync failed becomes durable with the next one (`auditlog.go:258`,
  against `181-182`).
- `NormalizeID` and `NormalizeName` keep `|`, so the fallback's delimiter
  (`anonymizer.go:609`) separates only texts without one.

## 6. Not modelled, and why

- The fourth reason of `/readyz`, the egress audit log's failure count: it is
  written in `AuditedSpool` and `SyncDelivery`, and read exactly as the third
  one. The handler's body, and the setters that `main` calls once at startup.
- `RequireAPIKey`, `MaxBodySize`, `RequestLogger` and the page: no state. Their
  refusals are `Refuse` and `ReplyError`.
- `Reload` (no caller), `INTERNAL_ADAPTER_CONFIG` (no reader), `NaN` (numbers
  are integers here), uptime.
- Names of metrics that are used as the ones in `Metrics` are; that `RWMutex`
  lets a waiting writer go before new readers, which only removes behaviours.
- Wording, JSON and HTTP encoding, the signature header, back-off durations in
  the spool, floating-point amounts, the fields that are copied unchanged, and
  the ip fields (as the device fields).
- The startup probes of the directories: they precede every modelled state, and
  their failure is `OpenFails`.

## 7. State and plan

Every part of the gateway with state of its own is modelled. What could follow,
in this order:

1. A smaller set of assumptions where a theorem excludes a fault (`RemoveWorks`):
   what remains true of the depth when unlink fails.
2. The audit failure count as a fourth reason: `Readiness` over `AuditedSpool`
   in place of `Spool`.
3. `Lifecycle` over `Spool` itself, in place of the files that it opens.
