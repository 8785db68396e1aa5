------------------------------ MODULE DayFile ------------------------------
(***************************************************************************)
(* The append-only newline-delimited file per UTC day that two components  *)
(* keep with the same code: Logger.Record of internal/auditlog (the egress *)
(* audit log) and localSink.Forward of cmd/gateway (the standalone sink),  *)
(* both on top of OpenAppendFile and Sync of internal/dirsync.             *)
(*                                                                         *)
(* A call runs under its gateway's mutex from the choice of the file to    *)
(* its return; only a crash, or another gateway on the same directory, can *)
(* come between its steps.  Record takes its day from deliveredAt, read    *)
(* before the mutex is taken; Forward reads the clock under the mutex,     *)
(* which is the case where Begin and Acquire follow each other.            *)
(***************************************************************************)
EXTENDS Naturals, Sequences, FiniteSets

CONSTANTS
    Calls,       \* lines to append, each retried by its caller until it is told nil
    Gateways,    \* processes sharing the directory: one in the documented topology
    LastDay,     \* bound: the days are 1 .. LastDay
    Faults,      \* operations that may fail: "open", "dirsync", "write", "fsync"
    MaxTries,    \* bound: attempts per line
    MaxCrashes,  \* bound: process crashes and power losses together
    HostMayFail, \* TRUE: power losses as well as process crashes
    None

ASSUME CallsAssumption == IsFiniteSet(Calls) /\ IsFiniteSet(Gateways) /\ None \notin Calls
ASSUME BoundsAssumption ==
    /\ {LastDay, MaxTries, MaxCrashes} \subseteq Nat /\ LastDay > 0
    /\ Faults \subseteq {"open", "dirsync", "write", "fsync"}
    /\ HostMayFail \in BOOLEAN

Days == 1 .. LastDay

VARIABLES
    \* The directory.
    lines,     \* per day: the lines of its file, whole or torn, in order
    flushed,   \* per day: how many of them an fsync has made durable
    exists,    \* the days that have a file
    linked,    \* the days whose directory entry has been fsynced
    \* Each gateway's sink or logger.
    handle,    \* the day of its open file, 0 for nil
    busy,      \* the call that holds its mutex
    \* The calls.
    pc, day, tries,
    \* The environment.
    today, crashes,
    residual,  \* history: days whose creator died before its directory fsync
    unsynced   \* history: days whose creator saw its directory fsync fail

dirVars    == <<lines, flushed, exists, linked>>
callVars   == <<pc, day, tries>>
worldVars  == <<today, crashes, residual, unsynced>>
vars == <<dirVars, handle, busy, callVars, worldVars>>

Locked == {"open", "syncdir", "write", "fsync"}

TypeOK ==
    /\ lines \in [Days -> Seq([call : Calls, whole : BOOLEAN])]
    /\ flushed \in [Days -> Nat] /\ \A d \in Days : flushed[d] <= Len(lines[d])
    /\ linked \subseteq exists /\ exists \subseteq Days /\ {residual, unsynced} \subseteq SUBSET Days
    /\ handle \in [Gateways -> {0} \cup Days]
    /\ busy \in [Gateways -> Calls \cup {None}]
    /\ pc \in [Calls -> {"idle", "begun", "ok", "failed"} \cup Locked]
    /\ day \in [Calls -> {0} \cup Days]
    /\ tries \in [Calls -> 0 .. MaxTries]
    /\ today \in Days /\ crashes \in 0 .. MaxCrashes
    \* The mutex is held by a call only from its lock to its return.
    /\ \A g \in Gateways : busy[g] # None => pc[busy[g]] \in Locked

Init ==
    /\ lines = [d \in Days |-> <<>>] /\ flushed = [d \in Days |-> 0]
    /\ exists = {} /\ linked = {}
    /\ handle = [g \in Gateways |-> 0] /\ busy = [g \in Gateways |-> None]
    /\ pc = [c \in Calls |-> "idle"] /\ day = [c \in Calls |-> 0]
    /\ tries = [c \in Calls |-> 0]
    /\ today = 1 /\ crashes = 0
    /\ residual = {} /\ unsynced = {}

-----------------------------------------------------------------------------
(* One call of Record or Forward                                             *)

\* The caller tries again after an error: auditingForward from the spool, a
\* client after its 502.
Begin(c) ==
    /\ pc[c] \in {"idle", "failed"} /\ tries[c] < MaxTries
    /\ pc' = [pc EXCEPT ![c] = "begun"]
    /\ day' = [day EXCEPT ![c] = today]
    /\ tries' = [tries EXCEPT ![c] = @ + 1]
    /\ UNCHANGED <<dirVars, handle, busy, worldVars>>

NeedsOpenOnce(g, c) == handle[g] = 0  \* variant: the day is not compared

NeedsOpen(g, c) == handle[g] = 0 \/ handle[g] # day[c]

Acquire(g, c) ==
    /\ busy[g] = None /\ pc[c] = "begun"
    /\ busy' = [busy EXCEPT ![g] = c]
    /\ pc' = [pc EXCEPT ![c] = IF NeedsOpen(g, c) THEN "open" ELSE "write"]
    /\ UNCHANGED <<dirVars, handle, day, tries, worldVars>>

\* The call of g goes on from one step to another, or returns and unlocks.
Proceeds(g, step, next) ==
    /\ busy[g] # None /\ pc[busy[g]] = step
    /\ pc' = [pc EXCEPT ![busy[g]] = next]
    /\ UNCHANGED <<busy, day, tries, worldVars>>

Unlocks(g, step, outcome) ==
    /\ busy[g] # None /\ pc[busy[g]] = step
    /\ pc' = [pc EXCEPT ![busy[g]] = outcome]
    /\ busy' = [busy EXCEPT ![g] = None]
    /\ UNCHANGED <<day, tries, today, crashes, residual>>

Returns(g, step, outcome) == Unlocks(g, step, outcome) /\ UNCHANGED unsynced

AppendLine(g, whole) ==
    lines' = [lines EXCEPT ![handle[g]] = Append(@, [call |-> busy[g], whole |-> whole])]

\* OpenAppendFile: O_EXCL decides in one step who creates the file, and only
\* the creator goes on to fsync the directory.
Open(g) ==
    /\ \/ Proceeds(g, "open", "syncdir") /\ day[busy[g]] \notin exists
       \/ Proceeds(g, "open", "write") /\ day[busy[g]] \in exists
    /\ exists' = exists \cup {day[busy[g]]}
    /\ handle' = [handle EXCEPT ![g] = day[busy[g]]]
    /\ UNCHANGED <<lines, flushed, linked>>

OpenFails(g) ==
    /\ "open" \in Faults
    /\ Returns(g, "open", "failed")
    /\ handle' = [handle EXCEPT ![g] = 0]
    /\ UNCHANGED dirVars

\* Variant: the directory is not fsynced.
SyncDirSkipped(g) == Proceeds(g, "syncdir", "write") /\ UNCHANGED <<dirVars, handle>>

SyncDir(g) ==
    /\ Proceeds(g, "syncdir", "write")
    /\ linked' = exists
    /\ UNCHANGED <<lines, flushed, exists, handle>>

\* The file stays open under its day, and the next call of that day finds it
\* open.
SyncDirFails(g) ==
    /\ "dirsync" \in Faults
    /\ Unlocks(g, "syncdir", "failed")
    /\ unsynced' = unsynced \cup {handle[g]}
    /\ UNCHANGED <<dirVars, handle>>

Write(g) ==
    /\ Proceeds(g, "write", "fsync")
    /\ AppendLine(g, TRUE)
    /\ UNCHANGED <<flushed, exists, linked, handle>>

\* A short write, as on a full disk, leaves the beginning of the line.
WriteFails(g) ==
    /\ "write" \in Faults
    /\ Returns(g, "write", "failed")
    /\ AppendLine(g, FALSE) \/ UNCHANGED lines
    /\ UNCHANGED <<flushed, exists, linked, handle>>

Fsync(g) ==
    /\ Returns(g, "fsync", "ok")
    /\ flushed' = [flushed EXCEPT ![handle[g]] = Len(lines[handle[g]])]
    /\ UNCHANGED <<lines, exists, linked, handle>>

FsyncFails(g) ==
    /\ "fsync" \in Faults
    /\ Returns(g, "fsync", "failed")
    /\ UNCHANGED <<dirVars, handle>>

\* Close at shutdown.  A request that outlived the grace period of
\* server.Shutdown may still call afterwards and opens the file again.
Close(g) ==
    /\ busy[g] = None /\ handle[g] # 0
    /\ handle' = [handle EXCEPT ![g] = 0]
    /\ UNCHANGED <<dirVars, busy, callVars, worldVars>>

Step(g) ==
    \/ \E c \in Calls : Acquire(g, c)
    \/ Open(g) \/ SyncDir(g) \/ Write(g) \/ Fsync(g)
    \/ OpenFails(g) \/ SyncDirFails(g) \/ WriteFails(g) \/ FsyncFails(g)
    \/ Close(g)

-----------------------------------------------------------------------------
(* The environment *)

Midnight ==
    /\ today < LastDay
    /\ today' = today + 1
    /\ UNCHANGED <<dirVars, handle, busy, callVars, crashes, residual, unsynced>>

\* The processes in dying are gone and, as docker-compose.yml says, started
\* again with nothing open; their callers see an error.
ProcessesDie(dying) ==
    /\ crashes < MaxCrashes /\ crashes' = crashes + 1
    /\ handle' = [g \in Gateways |-> IF g \in dying THEN 0 ELSE handle[g]]
    /\ busy' = [g \in Gateways |-> IF g \in dying THEN None ELSE busy[g]]
    /\ pc' = [c \in Calls |-> IF \E g \in dying : busy[g] = c THEN "failed" ELSE pc[c]]
    /\ residual' = residual \cup {day[busy[g]] : g \in
                     {h \in dying : busy[h] # None /\ pc[busy[h]] = "syncdir"}}
    /\ UNCHANGED <<day, tries, today, unsynced>>

Crash(g) == ProcessesDie({g}) /\ UNCHANGED dirVars

\* A file without a durable directory entry may vanish; of the others, the
\* part that was not fsynced is cut short, perhaps inside a line.
PowerLoss ==
    /\ HostMayFail
    /\ ProcessesDie(Gateways)
    /\ \E kept \in {S \in SUBSET exists : linked \subseteq S},
          length \in {f \in [Days -> 0 .. Cardinality(Calls) * MaxTries] :
                         \A d \in Days : flushed[d] <= f[d] /\ f[d] <= Len(lines[d])},
          torn \in SUBSET Days :
         /\ \A d \in torn : length[d] > flushed[d]
         /\ exists' = kept /\ linked' = kept
         /\ lines' = [d \in Days |->
                        IF d \notin kept THEN <<>>
                        ELSE [i \in 1 .. length[d] |->
                                IF d \in torn /\ i = length[d]
                                THEN [lines[d][i] EXCEPT !.whole = FALSE]
                                ELSE lines[d][i]]]
         /\ flushed' = [d \in Days |-> IF d \in kept THEN length[d] ELSE 0]

Next ==
    \/ \E c \in Calls : Begin(c)
    \/ \E g \in Gateways : Step(g) \/ Crash(g)
    \/ Midnight \/ PowerLoss

Spec == Init /\ [][Next]_vars

-----------------------------------------------------------------------------
(* Properties *)

Acked(c) == pc[c] = "ok"

\* Days whose creator is between O_EXCL and its fsync of the directory.
BeingCreated ==
    {day[busy[g]] : g \in {h \in Gateways : busy[h] # None /\ pc[busy[h]] = "syncdir"}}

\* A line that was reported written is in the fsynced part of its day's file,
\* and the file has a durable directory entry or will have it when another
\* gateway has created it.  The exceptions are what dirsync's comment calls the
\* residual crash window, and a directory fsync that failed.
AckedIsDurable ==
    \A c \in Calls : Acked(c) /\ day[c] \notin residual \cup unsynced =>
        /\ day[c] \in linked \cup BeingCreated
        /\ \E i \in 1 .. flushed[day[c]] :
              lines[day[c]][i] = [call |-> c, whole |-> TRUE]

\* After a directory fsync that failed nobody is told that a line of that day
\* is written until the directory has been fsynced ("'not durable yet',
\* triggering a retry").
FailedSyncIsRetried ==
    \A c \in Calls : Acked(c) /\ day[c] \in unsynced \ residual =>
        day[c] \in linked \cup BeingCreated

\* Across midnight and out-of-order calls, a line goes to the file of its own
\* day.
OnlyOfItsDay ==
    \A g \in Gateways :
        busy[g] # None /\ pc[busy[g]] \in {"write", "fsync"} => handle[g] = day[busy[g]]

=============================================================================
