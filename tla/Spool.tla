------------------------------- MODULE Spool -------------------------------
(***************************************************************************)
(* The durable spool of internal/spool/spool.go: request goroutines call   *)
(* Enqueue concurrently, one background goroutine (Run) forwards pending   *)
(* files oldest first, and everything in memory is lost when the process   *)
(* exits or crashes.  A request is one call of Enqueue with one payload;   *)
(* its spool file is identified with it.                                   *)
(*                                                                         *)
(* Left out: the durations of the back-offs, the metrics hooks, and the    *)
(* wording of errors.  The forward callback is an answer chosen by the     *)
(* environment here; AuditedSpool opens it up.                             *)
(***************************************************************************)
EXTENDS Naturals, FiniteSets

CONSTANTS
    Requests,          \* calls of Enqueue, each with its own payload
    MaxDepth,          \* SPOOL_MAX_DEPTH
    FsyncEnabled,      \* SPOOL_FSYNC
    Faults,            \* operations the file system may fail, see FaultKinds
    ClockMayStepBack,  \* TRUE: time.Now() may read earlier than before
    HostMayFail,       \* TRUE: power losses as well as process crashes
    MaxCrashes,        \* bound: exits, crashes and power losses together
    None               \* no file is at hand

FaultKinds == {"write", "rename", "dirsync", "readdir", "read", "remove", "deadletter"}

ASSUME RequestsAssumption == IsFiniteSet(Requests) /\ None \notin Requests
ASSUME MaxDepthAssumption == MaxDepth \in Nat \ {0}
ASSUME SettingsAssumption ==
    /\ {FsyncEnabled, ClockMayStepBack, HostMayFail} \subseteq BOOLEAN
    /\ Faults \subseteq FaultKinds
    /\ MaxCrashes \in Nat

VARIABLES
    \* The spool directory.
    loc,         \* where the request's file is seen by the running system
    disk,        \* the places where a power loss could leave it
    content,     \* what the file holds
    \* Enqueue, per request.
    pc,          \* next step of the call, or its outcome
    name,        \* <<timestamp, sequence number>>, the file's base name
    earlier,     \* history: the requests already pending when it reserved
    \* The fields of struct Spool.
    depth, seq, wake, oldestPendingAt, dirFsyncFailures,
    \* Run and forwardOldest.
    fpc,         \* next step of the forwarder; "down" when there is no process
    head,        \* the file being forwarded
    ctxDone,     \* the forwarder's context was cancelled
    \* The environment.
    clock,       \* the last reading of time.Now()
    delivered,   \* history: requests for which forward returned nil
    crashes      \* exits, crashes and power losses so far

diskVars    == <<loc, disk, content>>
requestVars == <<pc, name, earlier>>
spoolVars   == <<depth, seq, wake, oldestPendingAt>>
forwardVars == <<fpc, head, ctxDone>>
worldVars   == <<clock, delivered, crashes>>
memoryVars  == <<spoolVars, dirFsyncFailures>>
vars == <<diskVars, requestVars, memoryVars, forwardVars, worldVars>>

Places   == {"none", "tmp", "pending", "dead"}
Contents == {"none", "torn", "cached", "durable"}
InFlight == {"create", "fill", "rename", "undo", "nudge", "sync", "synced", "unsynced"}
Outcomes == {"accepted", "full", "failed", "lost"}
WithHead == {"read", "forward", "bury", "buried", "remove", "removed"}
ForwarderSteps == WithHead \cup {"top", "idle", "backoff", "stopped", "down"}

TypeOK ==
    /\ loc \in [Requests -> Places]
    /\ disk \in [Requests -> SUBSET Places]
    /\ content \in [Requests -> Contents]
    /\ pc \in [Requests -> {"new"} \cup InFlight \cup Outcomes]
    /\ name \in [Requests -> Nat \X Nat]
    /\ earlier \in [Requests -> SUBSET Requests]
    /\ depth \in Nat /\ seq \in Nat /\ wake \in BOOLEAN
    /\ oldestPendingAt \in Nat /\ dirFsyncFailures \in Nat
    /\ fpc \in ForwarderSteps
    /\ head \in IF fpc \in WithHead THEN Requests ELSE {None}
    /\ ctxDone \in BOOLEAN
    /\ clock \in Nat \ {0}
    /\ delivered \subseteq Requests
    /\ crashes \in Nat

Up == fpc # "down"

\* The .json files of the spool directory, what listPending returns.
Pending == {r \in Requests : loc[r] = "pending"}

\* The reservation of Enqueue keeps depth within MaxDepth.
HasRoom == depth < MaxDepth

\* Variant: the sequence number, which a restart resets, comes first.
PrecedesBySequence(q, r) == \/ name[q][2] < name[r][2]
                            \/ name[q][2] = name[r][2] /\ name[q][1] < name[r][1]

\* Names are zero-padded, so sort.Strings orders them by time, then sequence.
Precedes(q, r) == \/ name[q][1] < name[r][1]
                  \/ name[q][1] = name[r][1] /\ name[q][2] < name[r][2]

IsOldest(h) == h \in Pending /\ \A r \in Pending \ {h} : Precedes(h, r)

\* time.Now(): the same instant again, a later one, or, after a step of the
\* wall clock, an earlier one.
Readings == (IF ClockMayStepBack THEN 1 ELSE clock) .. (clock + 1)

KeepOldestPending(t) == UNCHANGED oldestPendingAt  \* variant: set by New only

\* The cached enqueue time of the head, 0 for Go's zero time.
updateOldestPending(t) == oldestPendingAt' = t

decDepth == depth' = IF depth > 0 THEN depth - 1 ELSE 0

NudgeIfFirst == wake' = (wake \/ depth = 1)  \* variant: not for a queue that has others

\* The non-blocking send on wake, a channel with room for one.
nudge == wake' = TRUE

UnsyncedContent == "cached"  \* variant: syncFile is not called

\* What writeTempFile leaves: fsynced unless SPOOL_FSYNC=false.
SyncedContent == IF FsyncEnabled THEN "durable" ELSE "cached"

AcceptAtOnce == "accepted"  \* variant: the directory is not fsynced

\* What Enqueue does after the nudge.
AfterNudge == IF FsyncEnabled THEN "sync" ELSE "accepted"

\* rename and remove reach the disk at the latest with the next fsync of the
\* directory: until then a power loss may leave the file at either end.
MoveTo(r, place) ==
    /\ loc' = [loc EXCEPT ![r] = place]
    /\ disk' = [disk EXCEPT ![r] = @ \cup {place}]

Init ==
    /\ loc = [r \in Requests |-> "none"]
    /\ disk = [r \in Requests |-> {"none"}]
    /\ content = [r \in Requests |-> "none"]
    /\ pc = [r \in Requests |-> "new"]
    /\ name = [r \in Requests |-> <<0, 0>>]
    /\ earlier = [r \in Requests |-> {}]
    /\ depth = 0 /\ seq = 0 /\ wake = FALSE
    /\ oldestPendingAt = 0 /\ dirFsyncFailures = 0
    /\ fpc = "top" /\ head = None /\ ctxDone = FALSE
    /\ clock = 1 /\ delivered = {} /\ crashes = 0

-----------------------------------------------------------------------------
(* Enqueue.  Call(r, from, to) is one step of the call r; what the step does *)
(* to the directory and to the struct is said beside it.                     *)

Call(r, from, to) ==
    /\ Up /\ pc[r] = from
    /\ pc' = [pc EXCEPT ![r] = to]
    /\ UNCHANGED <<forwardVars, delivered, crashes>>

NamesKept == UNCHANGED <<name, earlier, clock>>

\* A step that changes nothing but where the call is.
Passes(r, from, to) ==
    Call(r, from, to) /\ NamesKept /\ UNCHANGED <<diskVars, memoryVars>>

\* Under mu: the depth check, the reservation and the name.  Two files never
\* get one name: a nanosecond reading does not recur with the same sequence
\* number, not even across a restart.
Reserve(r) ==
    /\ Call(r, "new", "create")
    /\ HasRoom
    /\ \E t \in Readings :
          /\ \A q \in Requests : name[q] # <<t, seq + 1>>
          /\ name' = [name EXCEPT ![r] = <<t, seq + 1>>]
          /\ clock' = t
    /\ depth' = depth + 1
    /\ seq' = seq + 1
    /\ earlier' = [earlier EXCEPT ![r] = Pending]
    /\ UNCHANGED <<diskVars, wake, oldestPendingAt, dirFsyncFailures>>

RejectFull(r) == ~HasRoom /\ Passes(r, "new", "full")

\* writeTempFile: O_CREATE makes an empty file ...
CreateTemp(r) ==
    /\ Call(r, "create", "fill")
    /\ MoveTo(r, "tmp")
    /\ content' = [content EXCEPT ![r] = "torn"]
    /\ NamesKept /\ UNCHANGED memoryVars

\* ... then Write, Sync and Close.
FillTemp(r) ==
    /\ Call(r, "fill", "rename")
    /\ content' = [content EXCEPT ![r] = SyncedContent]
    /\ NamesKept /\ UNCHANGED <<loc, disk, memoryVars>>

WriteTempFails(r) ==
    /\ "write" \in Faults
    /\ Passes(r, "create", "undo") \/ Passes(r, "fill", "undo")

Commit(r) ==
    /\ Call(r, "rename", "nudge")
    /\ MoveTo(r, "pending")
    /\ NamesKept /\ UNCHANGED <<content, memoryVars>>

CommitFails(r) == "rename" \in Faults /\ Passes(r, "rename", "undo")

\* os.Remove(tmp), whose error is ignored, then decDepth and the error return.
Undo(r) ==
    /\ Call(r, "undo", "failed")
    /\ MoveTo(r, "none") \/ ("remove" \in Faults /\ UNCHANGED <<loc, disk>>)
    /\ decDepth
    /\ NamesKept /\ UNCHANGED <<content, seq, wake, oldestPendingAt, dirFsyncFailures>>

Nudge(r) ==
    /\ Call(r, "nudge", AfterNudge)
    /\ nudge
    /\ NamesKept /\ UNCHANGED <<diskVars, depth, seq, oldestPendingAt, dirFsyncFailures>>

\* fsync of the directory: every entry of it is now where it is seen.
SyncDir(r) ==
    /\ Call(r, "sync", "synced")
    /\ disk' = [q \in Requests |-> {loc[q]}]
    /\ NamesKept /\ UNCHANGED <<loc, content, memoryVars>>

SyncDirFails(r) == "dirsync" \in Faults /\ Passes(r, "sync", "unsynced")

\* mu is taken again after the fsync: the count is a step of its own.
RecordDirFsyncSuccess(r) ==
    /\ Call(r, "synced", "accepted")
    /\ dirFsyncFailures' = 0
    /\ NamesKept /\ UNCHANGED <<diskVars, spoolVars>>

\* Variant: the failed call gives its place back.
RecordDirFsyncFailureUndone(r) ==
    /\ Call(r, "unsynced", "failed")
    /\ dirFsyncFailures' = dirFsyncFailures + 1
    /\ decDepth
    /\ NamesKept /\ UNCHANGED <<diskVars, seq, wake, oldestPendingAt>>

\* The signal stays committed; the caller is told that it failed.
RecordDirFsyncFailure(r) ==
    /\ Call(r, "unsynced", "failed")
    /\ dirFsyncFailures' = dirFsyncFailures + 1
    /\ NamesKept /\ UNCHANGED <<diskVars, spoolVars>>

EnqueueSteps(r) ==
    \/ Reserve(r) \/ RejectFull(r) \/ CreateTemp(r) \/ FillTemp(r) \/ Commit(r)
    \/ Undo(r) \/ Nudge(r) \/ SyncDir(r)
    \/ RecordDirFsyncSuccess(r) \/ RecordDirFsyncFailure(r)

EnqueueFaults(r) == WriteTempFails(r) \/ CommitFails(r) \/ SyncDirFails(r)

Enqueue(r) == EnqueueSteps(r) \/ EnqueueFaults(r)

-----------------------------------------------------------------------------
(* Run and forwardOldest.  Forwards(from, to) is one step of the forwarder;  *)
(* the head is forgotten when it returns to Run.                             *)

Forwards(from, to) ==
    /\ fpc = from
    /\ fpc' = to
    /\ UNCHANGED <<requestVars, dirFsyncFailures, ctxDone, clock, crashes>>

HeadKept == UNCHANGED head
HeadDone == head' = None

\* A step that changes nothing but where the forwarder is.
Moves(from, to) == Forwards(from, to) /\ UNCHANGED <<diskVars, spoolVars, delivered>>

\* One turn of Run's loop up to the choice of the head.
ListPending(h) ==
    /\ Forwards("top", "read") /\ ~ctxDone
    /\ IsOldest(h)
    /\ head' = h
    /\ updateOldestPending(name[h][1])
    /\ UNCHANGED <<diskVars, depth, seq, wake, delivered>>

\* Variant: an empty directory does not reset the age.
ListEmptyKeepsAge ==
    /\ Forwards("top", "idle") /\ ~ctxDone /\ HeadDone
    /\ Pending = {}
    /\ UNCHANGED <<diskVars, spoolVars, delivered>>

\* "idle" begins with the listing that found nothing: a nudge that comes before
\* the select stays in the channel.
ListEmpty ==
    /\ Forwards("top", "idle") /\ ~ctxDone /\ HeadDone
    /\ Pending = {}
    /\ updateOldestPending(0)
    /\ UNCHANGED <<diskVars, depth, seq, wake, delivered>>

ListFails == "readdir" \in Faults /\ ~ctxDone /\ Moves("top", "backoff") /\ HeadDone

ReadFile == Moves("read", "forward") /\ HeadKept

\* Variant: an unreadable file is thrown away.
DropUnreadable == "read" \in Faults /\ Moves("read", "remove") /\ HeadKept

\* An unreadable file is dead-lettered without asking forward.
ReadFails == "read" \in Faults /\ Moves("read", "bury") /\ HeadKept

ForwardOk ==
    /\ Forwards("forward", "remove") /\ HeadKept
    /\ delivered' = delivered \cup {head}
    /\ UNCHANGED <<diskVars, spoolVars>>

ForwardRetryable == Moves("forward", "backoff") /\ HeadDone

ForwardPermanent == Moves("forward", "bury") /\ HeadKept

\* deadLetter: the rename, then decDepth and the OnDead hook.
Bury ==
    /\ Forwards("bury", "buried") /\ HeadKept
    /\ MoveTo(head, "dead")
    /\ UNCHANGED <<content, spoolVars, delivered>>

\* Variant: the depth is given up although the file stays.
BuryFailsCounted ==
    /\ "deadletter" \in Faults
    /\ Forwards("bury", "top") /\ HeadDone
    /\ decDepth
    /\ UNCHANGED <<diskVars, seq, wake, oldestPendingAt, delivered>>

\* deadLetter returns early, but forwardOldest reports progress all the same.
BuryFails == "deadletter" \in Faults /\ Moves("bury", "top") /\ HeadDone

FinishDead ==
    /\ Forwards("buried", "top") /\ HeadDone
    /\ decDepth
    /\ UNCHANGED <<diskVars, seq, wake, oldestPendingAt, delivered>>

Remove ==
    /\ Forwards("remove", "removed") /\ HeadKept
    /\ MoveTo(head, "none")
    /\ UNCHANGED <<content, spoolVars, delivered>>

\* The error of os.Remove is ignored.
RemoveFails == "remove" \in Faults /\ Moves("remove", "removed") /\ HeadKept

FinishDelivered ==
    /\ Forwards("removed", "top") /\ HeadDone
    /\ decDepth
    /\ UNCHANGED <<diskVars, seq, wake, oldestPendingAt, delivered>>

WakeUp ==
    /\ Forwards("idle", "top") /\ HeadDone
    /\ wake /\ wake' = FALSE
    /\ UNCHANGED <<diskVars, depth, seq, oldestPendingAt, delivered>>

\* time.After: the 2 s of an idle forwarder or the end of a back-off.
TimerFires == (Moves("idle", "top") \/ Moves("backoff", "top")) /\ HeadDone

Stop ==
    /\ ctxDone
    /\ \E from \in {"top", "idle", "backoff"} : Moves(from, "stopped")
    /\ HeadDone

Forwarder ==
    \/ (\E h \in Requests : ListPending(h)) \/ ListEmpty \/ ReadFile
    \/ ForwardOk \/ ForwardRetryable \/ ForwardPermanent
    \/ Bury \/ FinishDead \/ Remove \/ FinishDelivered
    \/ WakeUp \/ TimerFires \/ Stop

ForwarderFaults == ListFails \/ ReadFails \/ BuryFails \/ RemoveFails

-----------------------------------------------------------------------------
(* The process and its host *)

\* main calls stopForwarder when the server has shut down or its grace period
\* ran out, so calls of Enqueue may still be running.
Cancel ==
    /\ Up /\ ~ctxDone /\ crashes < MaxCrashes
    /\ ctxDone' = TRUE
    /\ UNCHANGED <<diskVars, requestVars, memoryVars, fpc, head, worldVars>>

\* Everything in memory is gone; callers in flight get no answer.
ProcessGone ==
    /\ pc' = [r \in Requests |-> IF pc[r] \in InFlight THEN "lost" ELSE pc[r]]
    /\ depth' = 0 /\ seq' = 0 /\ wake' = FALSE
    /\ oldestPendingAt' = 0 /\ dirFsyncFailures' = 0
    /\ fpc' = "down" /\ head' = None /\ ctxDone' = FALSE
    /\ crashes' = crashes + 1
    /\ NamesKept /\ UNCHANGED delivered

Exit == fpc = "stopped" /\ ProcessGone /\ UNCHANGED diskVars

Crash == Up /\ crashes < MaxCrashes /\ ProcessGone /\ UNCHANGED diskVars

\* Each file comes back at one of the places the disk may hold for it; what
\* was only cached may be torn.
PowerLoss ==
    /\ HostMayFail /\ Up /\ crashes < MaxCrashes
    /\ ProcessGone
    /\ loc' \in [Requests -> Places] /\ \A r \in Requests : loc'[r] \in disk[r]
    /\ disk' = [r \in Requests |-> {loc'[r]}]
    /\ \E torn \in SUBSET {r \in Requests : content[r] = "cached"} :
          content' = [r \in Requests |->
                         IF r \in torn THEN "torn"
                         ELSE IF content[r] = "cached" THEN "durable" ELSE content[r]]

\* New: the depth and the oldest age come from what the directory holds.
Restart ==
    /\ fpc = "down" /\ fpc' = "top"
    /\ depth' = Cardinality(Pending)
    /\ \/ Pending = {} /\ updateOldestPending(0)
       \/ \E h \in Pending : IsOldest(h) /\ updateOldestPending(name[h][1])
    /\ clock' = clock + 1
    /\ UNCHANGED <<diskVars, requestVars, seq, wake, dirFsyncFailures, head, ctxDone,
                   delivered, crashes>>

Next ==
    \/ \E r \in Requests : Enqueue(r)
    \/ Forwarder \/ ForwarderFaults
    \/ Cancel \/ Exit \/ Crash \/ PowerLoss \/ Restart

Spec == Init /\ [][Next]_vars

-----------------------------------------------------------------------------
(* Fairness.  The Go scheduler runs every goroutine, the HTTP client gives   *)
(* every delivery a deadline, docker-compose.yml restarts a process that     *)
(* exits, and no fault is permanent: the directory becomes readable and      *)
(* writable again, and the destination takes or rejects a signal that is     *)
(* offered over and over.                                                    *)

Fairness ==
    /\ \A r \in Requests : WF_vars(EnqueueSteps(r))
    /\ WF_vars(Forwarder) /\ WF_vars(Exit) /\ WF_vars(Restart)
    /\ SF_vars(\E h \in Requests : ListPending(h))
    /\ SF_vars(ReadFile)
    /\ SF_vars(ForwardOk \/ ForwardPermanent)
    /\ SF_vars(Bury)
    /\ SF_vars(Remove)

FairSpec == Spec /\ Fairness

-----------------------------------------------------------------------------
(* Safety *)

\* A signal whose Enqueue returned nil is delivered, still queued, or kept for
\* inspection in the dead-letter directory, whatever crashed in between (the
\* 202 promise in the comment of Enqueue).
AckedNeverLost ==
    \A r \in Requests : pc[r] = "accepted" =>
        r \in delivered \/ loc[r] \in {"pending", "dead"}

\* What the forwarder can pick up, or an operator find among the dead letters,
\* is a whole signal: a crash in the middle of a write leaves only a .tmp.
WholeSignalsOnly ==
    \A r \in Requests :
        loc[r] \in {"pending", "dead"} => content[r] \in {"cached", "durable"}

\* The requests that depth stands for: those that reserved a place and have
\* not committed or rolled back, the pending ones, and the one that has just
\* left the directory.
Counted ==
    {r \in Requests : pc[r] \in {"create", "fill", "rename", "undo"}}
        \cup Pending
        \cup {r \in Requests : r = head /\ fpc \in {"removed", "buried"}}

\* No interleaving of Enqueue's error paths with the forwarder lets the depth
\* counter drift from the directory: no reservation leaks, none is given back
\* twice.
DepthAccounting == Up => depth = Cardinality(Counted)

\* Concurrent calls of Enqueue never put more than MaxDepth signals in the
\* queue, although the check and the rename are far apart.
QueueBounded == Cardinality(Pending) <= MaxDepth

\* The forwarder never goes idle over a committed signal without a wake-up in
\* the channel or on its way: the 2 s timer of Run is only a fallback.
NoLostWakeup ==
    fpc = "idle" /\ Pending # {} =>
        wake \/ \E r \in Requests : pc[r] = "nudge"

\* A signal is not offered to the destination while one that was already
\* pending when it reserved its name still waits ("oldest-first").
SubmissionOrder ==
    fpc = "forward" => \A r \in earlier[head] : loc[r] # "pending"

(* Liveness *)

\* Every committed signal is delivered or dead-lettered in the end.
EventuallySettled ==
    \A r \in Requests : loc[r] = "pending" ~> r \in delivered \/ loc[r] = "dead"

\* A cancelled forwarder stops, whatever it was doing, and the process exits.
ShutdownCompletes == ctxDone ~> ~Up

-----------------------------------------------------------------------------
(* The spool is a DeliveryQueue.                                             *)

Queue == INSTANCE DeliveryQueue WITH
    Signals  <- Requests,
    held     <- Pending,
    promised <- {r \in Requests : pc[r] = "accepted"},
    handed   <- delivered,
    buried   <- {r \in Requests : loc[r] = "dead"}

\* Every step of the spool is a step of the abstract queue or invisible to it:
\* no code path takes a signal out of the directory that was neither confirmed
\* by forward nor dead-lettered, and no caller is promised one that is not there.
ImplementsQueue == Queue!Spec

=============================================================================
