----------------------------- MODULE Readiness -----------------------------
(***************************************************************************)
(* /readyz over the spool: ReadinessCheckHandler of                        *)
(* internal/adapters/inbound.go with the status function that main         *)
(* registers.  It reads the cached age of the oldest signal, the depth and *)
(* the count of failed directory fsyncs, each under a lock of its own,     *)
(* while the spool goes on.  Every step of the spool is one of Spool.      *)
(*                                                                         *)
(* Age is a limit on the enqueue time: what was enqueued before overdue is *)
(* older than the staleness threshold.  Left out: the count of the egress  *)
(* audit log, which AuditedSpool has, and the body of the answer.          *)
(***************************************************************************)
EXTENDS Spool

CONSTANTS
    DepthRatio,            \* readinessMaxDepthRatio, in percent
    MaxSpoolFsyncFailures  \* readinessMaxSpoolFsyncFailures

ASSUME ReadinessAssumption ==
    DepthRatio \in 1 .. 100 /\ MaxSpoolFsyncFailures \in Nat \ {0}

VARIABLES
    overdue,  \* enqueue times before this one exceed READINESS_MAX_STALENESS_SECONDS
    poll,     \* the handler: its step, what it has read, the reasons it found
    seen,     \* history: what was pending when the forwarder last listed or tried to
    backlog,  \* history: the signals in the queue since it began
    late,     \* history: those that were overdue when it began
    calm      \* history: the queue has been drained since, and known to be

historyVars == <<seen, backlog, late, calm>>
readyVars == <<overdue, poll, historyVars>>

Reasons == {"capacity", "stale", "fsync"}
NoPoll  == [at |-> "idle", pending |-> FALSE, depth |-> 0, reasons |-> {}]

ReadyTypeOK ==
    /\ TypeOK
    /\ overdue \in Nat
    /\ poll \in [at : {"idle", "age", "depth", "answer"}, pending : BOOLEAN, depth : Nat,
                 reasons : SUBSET Reasons]
    /\ {seen, backlog, late} \subseteq SUBSET Requests /\ calm \in BOOLEAN

ReadyInit ==
    /\ Init /\ overdue = 1 /\ poll = NoPoll
    /\ seen = {} /\ backlog = {} /\ late = {} /\ calm = FALSE

\* New or forwardOldest has read the directory, or could not.
Lists == fpc # fpc' /\ fpc \in {"top", "down"} /\ fpc' \in {"top", "read", "idle", "backoff"}

Drained ==
    /\ Up /\ Pending = {}
    /\ \A r \in Requests : pc[r] \notin InFlight
    /\ dirFsyncFailures < MaxSpoolFsyncFailures

\* A step of the spool, beside the handler.  When the process goes, so does
\* the connection of whoever polled it.
SpoolStep ==
    /\ Next
    /\ poll' = IF fpc' = "down" THEN NoPoll ELSE poll
    /\ seen' = IF Lists THEN Pending ELSE seen
    /\ backlog' = IF fpc' = "down" THEN {} ELSE backlog \cap Pending'
    /\ late' = late \cap backlog'
    /\ calm' = (calm /\ Drained')
    /\ UNCHANGED overdue

\* The threshold is minutes and more, far longer than a call of Enqueue or a
\* turn of the forwarder: what gets that old has been in the directory when the
\* forwarder last looked, unless there is no process.
TimePasses ==
    /\ fpc = "down" \/ Pending \subseteq seen
    /\ \A r \in Requests : pc[r] \in InFlight => name[r][1] > overdue
    /\ overdue < clock /\ overdue' = overdue + 1
    /\ UNCHANGED <<vars, poll, historyVars>>

HandlerOnly == UNCHANGED <<vars, overdue, seen>>

Because(condition, reason) == IF condition THEN {reason} ELSE {}

\* OldestPendingAge, under mu.
ReadAge ==
    /\ Up /\ poll.at = "idle"
    /\ poll' = [NoPoll EXCEPT !.at = "age",
                   !.pending = oldestPendingAt > 0,
                   !.reasons = Because(oldestPendingAt > 0 /\ oldestPendingAt < overdue, "stale")]
    /\ backlog' = Pending
    /\ late' = {r \in Pending : name[r][1] < overdue}
    /\ calm' = (Drained /\ fpc = "idle")
    /\ HandlerOnly

\* Depth, under mu again.
ReadDepth ==
    /\ poll.at = "age"
    /\ poll' = [poll EXCEPT !.at = "depth", !.depth = depth,
                   !.reasons = @ \cup Because(100 * depth >= DepthRatio * MaxDepth, "capacity")]
    /\ UNCHANGED <<backlog, late, calm>> /\ HandlerOnly

\* DirFsyncFailures, under mu once more, and the verdict.
ReadFsyncFailures ==
    /\ poll.at = "depth"
    /\ poll' = [poll EXCEPT !.at = "answer",
                   !.reasons = @ \cup Because(dirFsyncFailures >= MaxSpoolFsyncFailures, "fsync")]
    /\ UNCHANGED <<backlog, late, calm>> /\ HandlerOnly

Answer == poll.at = "answer" /\ poll' = NoPoll /\ backlog' = {} /\ late' = {} /\ calm' = FALSE
          /\ HandlerOnly

ReadinessCheckHandler == ReadAge \/ ReadDepth \/ ReadFsyncFailures \/ Answer

ReadyNext == SpoolStep \/ TimePasses \/ ReadinessCheckHandler

ReadySpec == ReadyInit /\ [][ReadyNext]_<<vars, readyVars>>

-----------------------------------------------------------------------------
(* Properties *)

Answered == poll.at = "answer"

\* While a signal older than the threshold waits, every answer is 503, across
\* restarts and whatever the forwarder does to the cached age meanwhile.
StaleBacklogIsRed == Answered /\ late # {} => "stale" \in poll.reasons

\* An answer that reports neither a pending signal nor any depth is right: the
\* queue was empty at some time since the handler began, although the two are
\* read apart.
EmptyAnswerIsTrue == Answered /\ ~poll.pending /\ poll.depth = 0 => backlog = {}

\* Once the queue is drained and the forwarder has seen it, /readyz is healthy:
\* neither the depth nor the cached age keeps anything of what is gone.
DrainedIsGreen == Answered /\ calm => poll.reasons = {}

=============================================================================
