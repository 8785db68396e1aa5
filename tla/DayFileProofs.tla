--------------------------- MODULE DayFileProofs ---------------------------
(***************************************************************************)
(* Theorems about DayFile, for any number of lines, gateways, days,        *)
(* retries, faults, crashes and power losses.                              *)
(***************************************************************************)
EXTENDS DayFile, FiniteSetTheorems, SequenceTheorems, TLAPS

USE CallsAssumption, BoundsAssumption

Holds(g, steps) == busy[g] # None /\ pc[busy[g]] \in steps

\* A line has one gateway at most.
OneHolder == \A g, h \in Gateways : busy[g] # None /\ busy[g] = busy[h] => g = h

\* A begun line has its day, and a gateway past the opening has the file of
\* that day open, which exists.
HandleIsDay ==
    /\ \A c \in Calls : pc[c] # "idle" => day[c] \in Days
    /\ \A g \in Gateways :
          /\ handle[g] # 0 => handle[g] \in exists
          /\ Holds(g, Locked \ {"open"}) => handle[g] = day[busy[g]]

\* A file whose directory entry is not durable has a creator who will see to
\* it, had one who died, or one who was told that it failed.
EntryAccounted == exists \subseteq linked \cup BeingCreated \cup residual \cup unsynced

\* What an fsync is about to make durable is there.
LineWritten ==
    \A g \in Gateways : Holds(g, {"fsync"}) =>
        \E i \in 1 .. Len(lines[day[busy[g]]]) :
            lines[day[busy[g]]][i] = [call |-> busy[g], whole |-> TRUE]

DayInv ==
    TypeOK /\ OneHolder /\ HandleIsDay /\ EntryAccounted /\ LineWritten /\ AckedIsDurable

-----------------------------------------------------------------------------
LEMMA InitDays == Init => DayInv
BY DEF Init, DayInv, TypeOK, OneHolder, HandleIsDay, EntryAccounted, LineWritten, AckedIsDurable,
       Acked, Holds, Locked, Days

\* A step of the call that g runs leaves the other gateways' calls alone.
LEMMA OthersGoOn ==
    ASSUME DayInv, NEW g \in Gateways, NEW step, NEW next,
           Proceeds(g, step, next) \/ Unlocks(g, step, next)
    PROVE  /\ busy[g] \in Calls /\ busy[g] # None
           /\ pc[busy[g]] = step /\ pc'[busy[g]] = next
           /\ \A c \in Calls \ {busy[g]} : pc'[c] = pc[c]
           /\ \A h \in Gateways \ {g} :
                 busy'[h] = busy[h] /\ (busy[h] # None => busy[h] \in Calls \ {busy[g]})
BY DEF DayInv, TypeOK, OneHolder, Proceeds, Unlocks

LEMMA BeginKeeps ==
    ASSUME DayInv, NEW c \in Calls, Begin(c)
    PROVE  DayInv'
<1>. USE DEF DayInv, Begin, dirVars, worldVars
<1>1. TypeOK'
  BY DEF TypeOK, Locked, Days
<1>2. \A g \in Gateways : busy[g] # None => busy[g] # c
  BY DEF TypeOK, Locked
<1>3. \A d \in Calls \ {c} : pc'[d] = pc[d] /\ day'[d] = day[d]
  BY DEF TypeOK
<1>4. pc'[c] = "begun" /\ day'[c] \in Days
  BY DEF TypeOK
<1>5. \A g \in Gateways : busy[g] # None => busy[g] \in Calls
  BY DEF TypeOK
<1>6. OneHolder'
  BY DEF OneHolder
<1>7. HandleIsDay'
  BY <1>2, <1>3, <1>4, <1>5 DEF HandleIsDay, Holds
<1>8. BeingCreated' = BeingCreated
  BY <1>2, <1>3, <1>5 DEF BeingCreated
<1>9. EntryAccounted'
  BY <1>8 DEF EntryAccounted
<1>10. LineWritten'
  BY <1>2, <1>3, <1>5 DEF LineWritten, Holds
<1>11. AckedIsDurable'
  BY <1>3, <1>4, <1>8 DEF AckedIsDurable, Acked
<1>. QED
  BY <1>1, <1>6, <1>7, <1>9, <1>10, <1>11

LEMMA AcquireKeeps ==
    ASSUME DayInv, NEW g \in Gateways, NEW c \in Calls, Acquire(g, c)
    PROVE  DayInv'
<1>. USE DEF DayInv, Acquire, dirVars, worldVars
<1>1. TypeOK'
  BY DEF TypeOK, Locked, Days
<1>2. \A h \in Gateways : busy[h] # None => busy[h] \in Calls \ {c}
  BY DEF TypeOK, Locked
<1>3. \A d \in Calls \ {c} : pc'[d] = pc[d]
  BY DEF TypeOK
<1>4. busy'[g] = c /\ \A h \in Gateways \ {g} : busy'[h] = busy[h]
  BY DEF TypeOK
<1>5. pc'[c] \in {"open", "write"} /\ (pc'[c] = "write" => handle[g] = day[c])
  BY DEF TypeOK, NeedsOpen
<1>6. OneHolder'
  BY <1>2, <1>4 DEF OneHolder
<1>7. HandleIsDay'
  BY <1>2, <1>3, <1>4, <1>5 DEF HandleIsDay, Holds, Locked
<1>8. BeingCreated' = BeingCreated
  BY <1>2, <1>3, <1>4, <1>5 DEF BeingCreated
<1>9. EntryAccounted'
  BY <1>8 DEF EntryAccounted
<1>10. LineWritten'
  BY <1>2, <1>3, <1>4, <1>5 DEF LineWritten, Holds
<1>11. AckedIsDurable'
  BY <1>3, <1>5, <1>8 DEF AckedIsDurable, Acked
<1>. QED
  BY <1>1, <1>6, <1>7, <1>9, <1>10, <1>11

-----------------------------------------------------------------------------
(* The steps of a call under its gateway's mutex                             *)

LEMMA OpenKeeps ==
    ASSUME DayInv, NEW g \in Gateways, Open(g)
    PROVE  DayInv'
<1>. DEFINE c == busy[g]
<1>1. PICK next \in {"syncdir", "write"} :
        Proceeds(g, "open", next) /\ (next = "write" => day[c] \in exists)
                                  /\ (next = "syncdir" => day[c] \notin exists)
  BY DEF Open
<1>2. /\ exists' = exists \cup {day[c]} /\ handle' = [handle EXCEPT ![g] = day[c]]
      /\ UNCHANGED <<lines, flushed, linked, busy, day, tries, worldVars>>
  BY <1>1 DEF Open, Proceeds
<1>3. /\ c \in Calls /\ c # None /\ pc[c] = "open" /\ pc'[c] = next
      /\ \A d \in Calls \ {c} : pc'[d] = pc[d]
      /\ \A h \in Gateways \ {g} : busy[h] # None => busy[h] \in Calls \ {c}
  BY <1>1, OthersGoOn
<1>4. day[c] \in Days
  BY <1>3 DEF DayInv, HandleIsDay
<1>5. TypeOK'
  BY <1>1, <1>2, <1>4 DEF DayInv, TypeOK, Proceeds, Locked, Days, worldVars
<1>6. OneHolder'
  BY <1>2 DEF DayInv, OneHolder
<1>7. HandleIsDay'
  BY <1>2, <1>3, <1>4 DEF DayInv, HandleIsDay, Holds, Locked, TypeOK
<1>8. BeingCreated' = IF next = "syncdir" THEN BeingCreated \cup {day[c]} ELSE BeingCreated
  BY <1>2, <1>3 DEF BeingCreated
<1>9. EntryAccounted'
  BY <1>1, <1>2, <1>8 DEF DayInv, EntryAccounted, worldVars
<1>10. LineWritten'
  BY <1>2, <1>3 DEF DayInv, LineWritten, Holds
<1>11. AckedIsDurable'
  BY <1>2, <1>3, <1>8 DEF DayInv, AckedIsDurable, Acked, worldVars
<1>. QED
  BY <1>5, <1>6, <1>7, <1>9, <1>10, <1>11 DEF DayInv

LEMMA SyncDirKeeps ==
    ASSUME DayInv, NEW g \in Gateways, SyncDir(g)
    PROVE  DayInv'
<1>. DEFINE c == busy[g]
<1>1. Proceeds(g, "syncdir", "write") /\ linked' = exists
      /\ UNCHANGED <<lines, flushed, exists, handle, busy, day, tries, worldVars>>
  BY DEF SyncDir, Proceeds
<1>2. /\ c \in Calls /\ c # None /\ pc[c] = "syncdir" /\ pc'[c] = "write"
      /\ \A d \in Calls \ {c} : pc'[d] = pc[d]
      /\ \A h \in Gateways \ {g} : busy[h] # None => busy[h] \in Calls \ {c}
  BY <1>1, OthersGoOn
<1>3. TypeOK'
  BY <1>1 DEF DayInv, TypeOK, Proceeds, Locked, Days, worldVars
<1>4. OneHolder' /\ LineWritten'
  BY <1>1, <1>2 DEF DayInv, OneHolder, LineWritten, Holds
<1>5. HandleIsDay'
  BY <1>1, <1>2 DEF DayInv, HandleIsDay, Holds, Locked
<1>6. EntryAccounted'
  BY <1>1 DEF EntryAccounted
<1>7. BeingCreated \subseteq exists
  <2>1. SUFFICES ASSUME NEW h \in Gateways, Holds(h, {"syncdir"})
                 PROVE  day[busy[h]] \in exists
    BY DEF BeingCreated, Holds
  <2>2. handle[h] = day[busy[h]] /\ busy[h] \in Calls /\ pc[busy[h]] = "syncdir"
    BY <2>1 DEF DayInv, HandleIsDay, Holds, Locked, TypeOK
  <2>3. handle[h] # 0
    BY <2>2 DEF DayInv, HandleIsDay, Days
  <2>. QED
    BY <2>2, <2>3 DEF DayInv, HandleIsDay
<1>8. linked \subseteq exists
  BY DEF DayInv, TypeOK
<1>9. AckedIsDurable'
  BY <1>1, <1>2, <1>7, <1>8 DEF DayInv, AckedIsDurable, Acked, worldVars
<1>. QED
  BY <1>3, <1>4, <1>5, <1>6, <1>9 DEF DayInv

\* A line, whole or torn, is appended to the file that is open: what was
\* there stays where it was.
LEMMA Appended ==
    ASSUME DayInv, NEW g \in Gateways, Holds(g, {"write"}), NEW whole \in BOOLEAN,
           AppendLine(g, whole)
    PROVE  LET c == busy[g] IN
           /\ day[c] \in Days
           /\ lines' \in [Days -> Seq([call : Calls, whole : BOOLEAN])]
           /\ \A d \in Days : Len(lines[d]) <= Len(lines'[d])
                               /\ \A i \in 1 .. Len(lines[d]) : lines'[d][i] = lines[d][i]
           /\ Len(lines'[day[c]]) = Len(lines[day[c]]) + 1
           /\ lines'[day[c]][Len(lines[day[c]]) + 1] = [call |-> c, whole |-> whole]
<1>. DEFINE c == busy[g]
<1>1. c \in Calls /\ handle[g] = day[c] /\ day[c] \in Days
  BY DEF DayInv, TypeOK, HandleIsDay, Holds, Locked
<1>2. lines \in [Days -> Seq([call : Calls, whole : BOOLEAN])]
  BY DEF DayInv, TypeOK
<1>3. lines' = [lines EXCEPT ![day[c]] = Append(lines[day[c]], [call |-> c, whole |-> whole])]
  BY <1>1, <1>2 DEF AppendLine
<1>4. [call |-> c, whole |-> whole] \in [call : Calls, whole : BOOLEAN]
  BY <1>1
<1>5. lines' \in [Days -> Seq([call : Calls, whole : BOOLEAN])]
  <2>1. Append(lines[day[c]], [call |-> c, whole |-> whole])
           \in Seq([call : Calls, whole : BOOLEAN])
    BY <1>1, <1>2, <1>4, AppendProperties
  <2>. QED
    BY <1>2, <1>3, <2>1
<1>6. \A d \in Days : Len(lines[d]) <= Len(lines'[d])
                      /\ \A i \in 1 .. Len(lines[d]) : lines'[d][i] = lines[d][i]
  BY <1>1, <1>2, <1>3, <1>4
<1>7. /\ Len(lines'[day[c]]) = Len(lines[day[c]]) + 1
      /\ lines'[day[c]][Len(lines[day[c]]) + 1] = [call |-> c, whole |-> whole]
  BY <1>1, <1>2, <1>3, <1>4
<1>. QED
  BY <1>1, <1>5, <1>6, <1>7

LEMMA WriteKeeps ==
    ASSUME DayInv, NEW g \in Gateways, Write(g)
    PROVE  DayInv'
<1>. DEFINE c == busy[g]
<1>1. Proceeds(g, "write", "fsync") /\ AppendLine(g, TRUE)
      /\ UNCHANGED <<flushed, exists, linked, handle, busy, day, tries, worldVars>>
  BY DEF Write, Proceeds
<1>2. /\ c \in Calls /\ c # None /\ pc[c] = "write" /\ pc'[c] = "fsync"
      /\ \A d \in Calls \ {c} : pc'[d] = pc[d]
      /\ \A h \in Gateways \ {g} : busy[h] # None => busy[h] \in Calls \ {c}
  BY <1>1, OthersGoOn
<1>3. /\ day[c] \in Days
      /\ lines' \in [Days -> Seq([call : Calls, whole : BOOLEAN])]
      /\ \A d \in Days : Len(lines[d]) <= Len(lines'[d])
                          /\ \A i \in 1 .. Len(lines[d]) : lines'[d][i] = lines[d][i]
      /\ Len(lines'[day[c]]) = Len(lines[day[c]]) + 1
      /\ lines'[day[c]][Len(lines[day[c]]) + 1] = [call |-> c, whole |-> TRUE]
  BY <1>1, <1>2, Appended DEF Holds
<1>4. \A d \in Days : Len(lines[d]) \in Nat /\ Len(lines'[d]) \in Nat /\ flushed[d] \in Nat
                      /\ flushed[d] <= Len(lines[d])
  BY <1>3 DEF DayInv, TypeOK
<1>5. TypeOK'
  BY <1>1, <1>3, <1>4 DEF DayInv, TypeOK, Proceeds, Locked, worldVars
<1>6. OneHolder' /\ HandleIsDay'
  BY <1>1, <1>2 DEF DayInv, OneHolder, HandleIsDay, Holds, Locked
<1>7. BeingCreated' = BeingCreated
  BY <1>1, <1>2 DEF BeingCreated
<1>8. EntryAccounted'
  BY <1>1, <1>7 DEF DayInv, EntryAccounted, worldVars
<1>9. LineWritten'
  <2>1. SUFFICES ASSUME NEW h \in Gateways, Holds(h, {"fsync"})'
                 PROVE  \E i \in 1 .. Len(lines'[day[busy[h]]]) :
                           lines'[day[busy[h]]][i] = [call |-> busy[h], whole |-> TRUE]
    BY <1>1 DEF LineWritten
  <2>2. CASE h = g
    BY <1>3, <1>4, <2>2
  <2>3. CASE h # g
    <3>1. busy[h] \in Calls /\ Holds(h, {"fsync"}) /\ day[busy[h]] \in Days
      BY <1>1, <1>2, <2>1, <2>3 DEF Holds, DayInv, HandleIsDay
    <3>. QED
      BY <1>3, <1>4, <3>1 DEF DayInv, LineWritten
  <2>. QED
    BY <2>2, <2>3
<1>10. AckedIsDurable'
  <2>1. SUFFICES ASSUME NEW d \in Calls, Acked(d)', day[d] \notin residual \cup unsynced
                 PROVE  /\ day[d] \in linked \cup BeingCreated
                        /\ \E i \in 1 .. flushed[day[d]] :
                              lines'[day[d]][i] = [call |-> d, whole |-> TRUE]
    BY <1>1, <1>7 DEF AckedIsDurable, worldVars
  <2>2. Acked(d) /\ day[d] \in Days
    BY <1>2, <2>1 DEF Acked, DayInv, HandleIsDay
  <2>3. PICK i \in 1 .. flushed[day[d]] : lines[day[d]][i] = [call |-> d, whole |-> TRUE]
    BY <2>1, <2>2 DEF DayInv, AckedIsDurable
  <2>4. i \in 1 .. Len(lines[day[d]])
    BY <1>4, <2>2, <2>3
  <2>5. lines'[day[d]][i] = lines[day[d]][i]
    BY <1>3, <2>2, <2>4
  <2>. QED
    BY <2>1, <2>2, <2>3, <2>5 DEF DayInv, AckedIsDurable
<1>. QED
  BY <1>5, <1>6, <1>8, <1>9, <1>10 DEF DayInv

\* A call that unlocks before its line is durable, with the files as they were
\* or longer.
LEMMA FailedKeeps ==
    ASSUME DayInv, NEW g \in Gateways,
           OpenFails(g) \/ SyncDirFails(g) \/ WriteFails(g) \/ FsyncFails(g)
    PROVE  DayInv'
<1>. DEFINE c == busy[g]
<1>1. PICK step \in Locked : Unlocks(g, step, "failed")
  BY DEF OpenFails, SyncDirFails, WriteFails, FsyncFails, Returns, Locked
<1>2. /\ c \in Calls /\ c # None /\ pc[c] = step /\ pc'[c] = "failed"
      /\ \A d \in Calls \ {c} : pc'[d] = pc[d]
      /\ \A h \in Gateways \ {g} :
            busy'[h] = busy[h] /\ (busy[h] # None => busy[h] \in Calls \ {c})
  BY <1>1, OthersGoOn
<1>3. /\ busy' = [busy EXCEPT ![g] = None] /\ busy'[g] = None
      /\ UNCHANGED <<flushed, exists, linked, day, tries, today, crashes, residual>>
  BY <1>1 DEF OpenFails, SyncDirFails, WriteFails, FsyncFails, Unlocks, dirVars, DayInv, TypeOK
<1>4. /\ lines' \in [Days -> Seq([call : Calls, whole : BOOLEAN])]
      /\ \A d \in Days : Len(lines[d]) <= Len(lines'[d])
                          /\ \A i \in 1 .. Len(lines[d]) : lines'[d][i] = lines[d][i]
  <2>1. CASE lines' = lines
    <3>1. lines \in [Days -> Seq([call : Calls, whole : BOOLEAN])]
      BY DEF DayInv, TypeOK
    <3>2. \A d \in Days : Len(lines[d]) \in Nat
      BY <3>1
    <3>3. \A d \in Days : Len(lines[d]) <= Len(lines[d])
      BY <3>2
    <3>. QED
      BY <2>1, <3>1, <3>3, Zenon
  <2>2. CASE lines' # lines
    <3>1. Holds(g, {"write"}) /\ AppendLine(g, FALSE)
      BY <2>2 DEF OpenFails, SyncDirFails, WriteFails, FsyncFails, Returns, Unlocks, dirVars, Holds
    <3>. QED
      BY <3>1, Appended
  <2>. QED
    BY <2>1, <2>2
<1>5. \A d \in Days : Len(lines[d]) \in Nat /\ Len(lines'[d]) \in Nat /\ flushed[d] \in Nat
                      /\ flushed[d] <= Len(lines[d])
  BY <1>4 DEF DayInv, TypeOK
<1>6. /\ handle' = handle \/ (step = "open" /\ handle' = [handle EXCEPT ![g] = 0])
      /\ unsynced \subseteq unsynced' /\ unsynced' \subseteq Days
      /\ step = "syncdir" => day[c] \in unsynced'
  <2>1. handle \in [Gateways -> {0} \cup Days] /\ unsynced \subseteq Days
    BY DEF DayInv, TypeOK
  <2>2. CASE OpenFails(g)
    BY <1>2, <2>1, <2>2 DEF OpenFails, Returns, Unlocks
  <2>3. CASE SyncDirFails(g)
    <3>1. step = "syncdir"
      BY <1>2, <2>3 DEF SyncDirFails, Unlocks
    <3>2. handle[g] = day[c] /\ day[c] \in Days
      BY <1>2, <3>1 DEF DayInv, HandleIsDay, Holds, Locked
    <3>. QED
      BY <2>1, <2>3, <3>2 DEF SyncDirFails
  <2>4. CASE WriteFails(g) \/ FsyncFails(g)
    BY <1>2, <2>1, <2>4 DEF WriteFails, FsyncFails, Returns, Unlocks, dirVars
  <2>. QED
    BY <2>2, <2>3, <2>4
<1>7. TypeOK'
  <2>1. pc' \in [Calls -> {"idle", "begun", "ok", "failed"} \cup Locked]
    BY <1>1 DEF DayInv, TypeOK, Unlocks
  <2>2. busy' \in [Gateways -> Calls \cup {None}]
    BY <1>3 DEF DayInv, TypeOK
  <2>3. \A h \in Gateways : busy'[h] # None => pc'[busy'[h]] \in Locked
    BY <1>2, <1>3 DEF DayInv, TypeOK
  <2>4. handle' \in [Gateways -> {0} \cup Days]
    BY <1>6 DEF DayInv, TypeOK
  <2>5. flushed' \in [Days -> Nat] /\ \A d \in Days : flushed'[d] <= Len(lines'[d])
    <3>1. \A d \in Days : flushed[d] <= Len(lines'[d])
      BY <1>4, <1>5
    <3>. QED
      BY <1>3, <3>1 DEF DayInv, TypeOK
  <2>6. /\ linked' \subseteq exists' /\ exists' \subseteq Days
        /\ {residual', unsynced'} \subseteq SUBSET Days
    BY <1>3, <1>6 DEF DayInv, TypeOK
  <2>7. day' \in [Calls -> {0} \cup Days] /\ tries' \in [Calls -> 0 .. MaxTries]
        /\ today' \in Days /\ crashes' \in 0 .. MaxCrashes
    BY <1>3 DEF DayInv, TypeOK
  <2>. QED
    BY <1>4, <2>1, <2>2, <2>3, <2>4, <2>5, <2>6, <2>7 DEF TypeOK
<1>8. OneHolder'
  BY <1>2, <1>3 DEF DayInv, OneHolder
<1>9. HandleIsDay'
  BY <1>2, <1>3, <1>6 DEF DayInv, TypeOK, HandleIsDay, Holds, Locked
<1>10. BeingCreated' = {d \in BeingCreated : \E h \in Gateways \ {g} :
                           Holds(h, {"syncdir"}) /\ day[busy[h]] = d}
       /\ BeingCreated \subseteq BeingCreated' \cup unsynced'
  BY <1>2, <1>3, <1>6 DEF BeingCreated, Holds
<1>11. EntryAccounted'
  BY <1>3, <1>6, <1>10 DEF DayInv, EntryAccounted
<1>12. LineWritten'
  <2>1. SUFFICES ASSUME NEW h \in Gateways, Holds(h, {"fsync"})'
                 PROVE  \E i \in 1 .. Len(lines'[day[busy[h]]]) :
                           lines'[day[busy[h]]][i] = [call |-> busy[h], whole |-> TRUE]
    BY <1>2, <1>3 DEF LineWritten, Holds
  <2>2. busy[h] \in Calls /\ Holds(h, {"fsync"}) /\ day[busy[h]] \in Days
    BY <1>2, <1>3, <2>1 DEF Holds, DayInv, HandleIsDay
  <2>3. PICK i \in 1 .. Len(lines[day[busy[h]]]) :
                lines[day[busy[h]]][i] = [call |-> busy[h], whole |-> TRUE]
    BY <2>2 DEF DayInv, LineWritten
  <2>4. i \in 1 .. Len(lines'[day[busy[h]]])
    BY <1>4, <1>5, <2>2, <2>3
  <2>. QED
    BY <1>4, <2>2, <2>3, <2>4
<1>13. AckedIsDurable'
  <2>1. SUFFICES ASSUME NEW d \in Calls, Acked(d)', day[d] \notin residual \cup unsynced'
                 PROVE  /\ day[d] \in linked \cup BeingCreated'
                        /\ \E i \in 1 .. flushed[day[d]] :
                              lines'[day[d]][i] = [call |-> d, whole |-> TRUE]
    BY <1>3 DEF AckedIsDurable
  <2>2. Acked(d) /\ day[d] \in Days /\ day[d] \notin unsynced
    BY <1>2, <1>6, <2>1 DEF Acked, DayInv, HandleIsDay
  <2>3. PICK i \in 1 .. flushed[day[d]] : lines[day[d]][i] = [call |-> d, whole |-> TRUE]
    BY <2>1, <2>2 DEF DayInv, AckedIsDurable
  <2>4. i \in 1 .. Len(lines[day[d]])
    BY <1>5, <2>2, <2>3
  <2>5. lines'[day[d]][i] = lines[day[d]][i]
    BY <1>4, <2>2, <2>4
  <2>6. day[d] \in linked \cup BeingCreated'
    BY <1>10, <2>1, <2>2 DEF DayInv, AckedIsDurable
  <2>. QED
    BY <2>3, <2>5, <2>6
<1>. QED
  BY <1>7, <1>8, <1>9, <1>11, <1>12, <1>13 DEF DayInv

LEMMA FsyncKeeps ==
    ASSUME DayInv, NEW g \in Gateways, Fsync(g)
    PROVE  DayInv'
<1>. DEFINE c == busy[g]
<1>1. Unlocks(g, "fsync", "ok")
  BY DEF Fsync, Returns
<1>2. /\ c \in Calls /\ c # None /\ pc[c] = "fsync" /\ pc'[c] = "ok"
      /\ \A d \in Calls \ {c} : pc'[d] = pc[d]
      /\ \A h \in Gateways \ {g} :
            busy'[h] = busy[h] /\ (busy[h] # None => busy[h] \in Calls \ {c})
  BY <1>1, OthersGoOn
<1>3. /\ busy' = [busy EXCEPT ![g] = None] /\ busy'[g] = None
      /\ UNCHANGED <<lines, exists, linked, handle, day, tries, worldVars>>
  BY <1>1 DEF Fsync, Returns, Unlocks, DayInv, TypeOK, worldVars
<1>4. handle[g] = day[c] /\ day[c] \in Days /\ day[c] \in exists
  <2>1. handle[g] = day[c] /\ day[c] \in Days
    BY <1>2 DEF DayInv, HandleIsDay, Holds, Locked
  <2>. QED
    BY <2>1 DEF DayInv, HandleIsDay, Days
<1>5. /\ flushed' = [flushed EXCEPT ![day[c]] = Len(lines[day[c]])]
      /\ \A d \in Days : Len(lines[d]) \in Nat /\ flushed[d] \in Nat /\ flushed'[d] \in Nat
                          /\ flushed[d] <= flushed'[d] /\ flushed'[d] <= Len(lines[d])
      /\ flushed'[day[c]] = Len(lines[day[c]])
  BY <1>4 DEF Fsync, DayInv, TypeOK
<1>6. TypeOK'
  <2>1. pc' \in [Calls -> {"idle", "begun", "ok", "failed"} \cup Locked]
    BY <1>1 DEF DayInv, TypeOK, Unlocks
  <2>2. busy' \in [Gateways -> Calls \cup {None}]
    BY <1>3 DEF DayInv, TypeOK
  <2>3. \A h \in Gateways : busy'[h] # None => pc'[busy'[h]] \in Locked
    BY <1>2, <1>3 DEF DayInv, TypeOK
  <2>4. flushed' \in [Days -> Nat]
    BY <1>5 DEF DayInv, TypeOK
  <2>. QED
    BY <1>3, <1>5, <2>1, <2>2, <2>3, <2>4 DEF DayInv, TypeOK, worldVars
<1>7. OneHolder' /\ HandleIsDay' /\ LineWritten'
  BY <1>2, <1>3 DEF DayInv, OneHolder, HandleIsDay, LineWritten, Holds, Locked
<1>8. BeingCreated' = BeingCreated
  BY <1>2, <1>3 DEF BeingCreated
<1>9. EntryAccounted'
  BY <1>3, <1>8 DEF DayInv, EntryAccounted, worldVars
<1>10. AckedIsDurable'
  <2>1. SUFFICES ASSUME NEW d \in Calls, Acked(d)', day[d] \notin residual \cup unsynced
                 PROVE  /\ day[d] \in linked \cup BeingCreated
                        /\ \E i \in 1 .. flushed'[day[d]] :
                              lines[day[d]][i] = [call |-> d, whole |-> TRUE]
    BY <1>3, <1>8 DEF AckedIsDurable, worldVars
  <2>2. CASE d = c
    <3>1. \E i \in 1 .. Len(lines[day[c]]) : lines[day[c]][i] = [call |-> c, whole |-> TRUE]
      BY <1>2 DEF DayInv, LineWritten, Holds
    <3>. QED
      BY <1>4, <1>5, <2>1, <2>2, <3>1 DEF DayInv, EntryAccounted
  <2>3. CASE d # c
    <3>1. Acked(d) /\ day[d] \in Days
      BY <1>2, <2>1, <2>3 DEF Acked, DayInv, HandleIsDay
    <3>2. PICK i \in 1 .. flushed[day[d]] : lines[day[d]][i] = [call |-> d, whole |-> TRUE]
      BY <2>1, <3>1 DEF DayInv, AckedIsDurable
    <3>3. i \in 1 .. flushed'[day[d]]
      BY <1>5, <3>1, <3>2
    <3>. QED
      BY <2>1, <3>1, <3>2, <3>3 DEF DayInv, AckedIsDurable
  <2>. QED
    BY <2>2, <2>3
<1>. QED
  BY <1>6, <1>7, <1>9, <1>10 DEF DayInv

LEMMA IdleKeeps ==
    ASSUME DayInv, Midnight \/ \E g \in Gateways : Close(g)
    PROVE  DayInv'
<1>1. /\ UNCHANGED <<dirVars, busy, callVars, crashes, residual, unsynced>>
      /\ today' \in Days
      /\ handle' \in [Gateways -> {0} \cup Days]
      /\ \A g \in Gateways : handle'[g] = handle[g] \/ (busy[g] = None /\ handle'[g] = 0)
  <2>1. today \in Days /\ handle \in [Gateways -> {0} \cup Days]
    BY DEF DayInv, TypeOK
  <2>2. CASE Midnight
    BY <2>1, <2>2 DEF Midnight, Days
  <2>3. CASE \E g \in Gateways : Close(g)
    BY <2>1, <2>3 DEF Close, worldVars
  <2>. QED
    BY <2>2, <2>3
<1>2. TypeOK'
  BY <1>1 DEF DayInv, TypeOK, dirVars, callVars
<1>3. HandleIsDay'
  BY <1>1 DEF DayInv, HandleIsDay, Holds, dirVars, callVars
<1>4. BeingCreated' = BeingCreated
  BY <1>1 DEF BeingCreated, callVars
<1>. QED
  BY <1>1, <1>2, <1>3, <1>4 DEF DayInv, OneHolder, EntryAccounted, LineWritten, AckedIsDurable,
                                Acked, Holds, dirVars, callVars

-----------------------------------------------------------------------------
(* Crashes and power losses                                                  *)

\* What the end of some processes leaves of calls and gateways.
LEMMA DyingLeave ==
    ASSUME DayInv, NEW dying \in SUBSET Gateways, ProcessesDie(dying)
    PROVE  /\ \A h \in dying : busy'[h] = None /\ handle'[h] = 0
           /\ \A h \in Gateways \ dying : busy'[h] = busy[h] /\ handle'[h] = handle[h]
                 /\ (busy[h] # None => busy[h] \in Calls /\ pc'[busy[h]] = pc[busy[h]])
           /\ \A c \in Calls : pc'[c] = pc[c] \/ (pc'[c] = "failed" /\ pc[c] # "idle")
           /\ BeingCreated \subseteq BeingCreated' \cup residual'
           /\ residual \subseteq residual' /\ residual' \subseteq Days
           /\ crashes' \in 0 .. MaxCrashes
           /\ UNCHANGED <<day, tries, today, unsynced>>
<1>1. /\ \A h \in dying : busy'[h] = None /\ handle'[h] = 0
      /\ \A h \in Gateways \ dying : busy'[h] = busy[h] /\ handle'[h] = handle[h]
      /\ UNCHANGED <<day, tries, today, unsynced>>
  BY DEF ProcessesDie
<1>2. \A h \in Gateways : busy[h] # None => busy[h] \in Calls /\ pc[busy[h]] \in Locked
  BY DEF DayInv, TypeOK
<1>3. \A h \in Gateways \ dying : busy[h] # None => pc'[busy[h]] = pc[busy[h]]
  <2>1. SUFFICES ASSUME NEW h \in Gateways \ dying, busy[h] # None
                 PROVE  pc'[busy[h]] = pc[busy[h]]
    OBVIOUS
  <2>2. ~ \E g \in dying : busy[g] = busy[h]
    BY <2>1 DEF DayInv, OneHolder
  <2>. QED
    BY <1>2, <2>1, <2>2 DEF ProcessesDie
<1>4. \A c \in Calls : pc'[c] = pc[c] \/ (pc'[c] = "failed" /\ pc[c] # "idle")
  BY <1>2 DEF ProcessesDie, Locked
<1>5. residual' = residual \cup {day[busy[g]] : g \in
                     {h \in dying : busy[h] # None /\ pc[busy[h]] = "syncdir"}}
  BY DEF ProcessesDie
<1>6. residual \subseteq residual' /\ residual' \subseteq Days
  BY <1>2, <1>5 DEF DayInv, TypeOK, HandleIsDay
<1>7. BeingCreated \subseteq BeingCreated' \cup residual'
  <2>1. SUFFICES ASSUME NEW h \in Gateways, busy[h] # None, pc[busy[h]] = "syncdir"
                 PROVE  day[busy[h]] \in BeingCreated' \cup residual'
    BY DEF BeingCreated
  <2>2. CASE h \in dying
    BY <1>5, <2>1, <2>2
  <2>3. CASE h \notin dying
    BY <1>1, <1>3, <2>1, <2>3 DEF BeingCreated
  <2>. QED
    BY <2>2, <2>3
<1>8. crashes' \in 0 .. MaxCrashes
  BY DEF ProcessesDie, DayInv, TypeOK
<1>. QED
  BY <1>1, <1>2, <1>3, <1>4, <1>6, <1>7, <1>8

LEMMA DyingType ==
    ASSUME DayInv, NEW dying \in SUBSET Gateways, ProcessesDie(dying)
    PROVE  /\ handle' \in [Gateways -> {0} \cup Days]
           /\ busy' \in [Gateways -> Calls \cup {None}]
           /\ pc' \in [Calls -> {"idle", "begun", "ok", "failed"} \cup Locked]
           /\ \A g \in Gateways : busy'[g] # None => pc'[busy'[g]] \in Locked
<1>1. handle' \in [Gateways -> {0} \cup Days]
  BY DEF ProcessesDie, DayInv, TypeOK
<1>2. busy' \in [Gateways -> Calls \cup {None}]
  BY DEF ProcessesDie, DayInv, TypeOK
<1>3. pc' \in [Calls -> {"idle", "begun", "ok", "failed"} \cup Locked]
  BY DEF ProcessesDie, DayInv, TypeOK
<1>4. \A g \in Gateways : busy'[g] # None => pc'[busy'[g]] \in Locked
  BY DyingLeave DEF DayInv, TypeOK
<1>. QED
  BY <1>1, <1>2, <1>3, <1>4

LEMMA CrashKeeps ==
    ASSUME DayInv, NEW g \in Gateways, Crash(g)
    PROVE  DayInv'
<1>1. /\ \A h \in {g} : busy'[h] = None /\ handle'[h] = 0
      /\ \A h \in Gateways \ {g} : busy'[h] = busy[h] /\ handle'[h] = handle[h]
            /\ (busy[h] # None => busy[h] \in Calls /\ pc'[busy[h]] = pc[busy[h]])
      /\ \A c \in Calls : pc'[c] = pc[c] \/ (pc'[c] = "failed" /\ pc[c] # "idle")
      /\ BeingCreated \subseteq BeingCreated' \cup residual'
      /\ residual \subseteq residual' /\ residual' \subseteq Days
      /\ crashes' \in 0 .. MaxCrashes
      /\ UNCHANGED <<day, tries, today, unsynced, lines, flushed, exists, linked>>
  BY DyingLeave DEF Crash, dirVars
<1>2. TypeOK'
  <2>1. /\ handle' \in [Gateways -> {0} \cup Days]
        /\ busy' \in [Gateways -> Calls \cup {None}]
        /\ pc' \in [Calls -> {"idle", "begun", "ok", "failed"} \cup Locked]
        /\ \A h \in Gateways : busy'[h] # None => pc'[busy'[h]] \in Locked
    BY DyingType DEF Crash
  <2>. QED
    BY <1>1, <2>1 DEF DayInv, TypeOK
<1>3. OneHolder'
  BY <1>1 DEF DayInv, OneHolder
<1>4. HandleIsDay'
  BY <1>1 DEF DayInv, HandleIsDay, Holds
<1>5. EntryAccounted'
  BY <1>1 DEF DayInv, EntryAccounted
<1>6. LineWritten'
  BY <1>1 DEF DayInv, LineWritten, Holds
<1>7. AckedIsDurable'
  BY <1>1 DEF DayInv, AckedIsDurable, Acked
<1>. QED
  BY <1>2, <1>3, <1>4, <1>5, <1>6, <1>7 DEF DayInv

LEMMA PowerLossKeeps ==
    ASSUME DayInv, PowerLoss
    PROVE  DayInv'
<1>1. ProcessesDie(Gateways)
  BY DEF PowerLoss
<1>2. /\ \A h \in Gateways : busy'[h] = None /\ handle'[h] = 0
      /\ \A c \in Calls : pc'[c] = pc[c] \/ (pc'[c] = "failed" /\ pc[c] # "idle")
      /\ BeingCreated \subseteq BeingCreated' \cup residual'
      /\ residual \subseteq residual' /\ residual' \subseteq Days
      /\ crashes' \in 0 .. MaxCrashes
      /\ UNCHANGED <<day, tries, today, unsynced>>
  BY <1>1, DyingLeave
<1>3. PICK kept \in {S \in SUBSET exists : linked \subseteq S},
           length \in {f \in [Days -> 0 .. Cardinality(Calls) * MaxTries] :
                          \A d \in Days : flushed[d] <= f[d] /\ f[d] <= Len(lines[d])},
           torn \in SUBSET Days :
        /\ \A d \in torn : length[d] > flushed[d]
        /\ exists' = kept /\ linked' = kept
        /\ lines' = [d \in Days |->
                       IF d \notin kept THEN <<>>
                       ELSE [i \in 1 .. length[d] |->
                               IF d \in torn /\ i = length[d]
                               THEN [lines[d][i] EXCEPT !.whole = FALSE]
                               ELSE lines[d][i]]]
        /\ flushed' = [d \in Days |-> IF d \in kept THEN length[d] ELSE 0]
  BY DEF PowerLoss
<1>. DEFINE Line == [call : Calls, whole : BOOLEAN]
<1>4. /\ lines \in [Days -> Seq(Line)] /\ flushed \in [Days -> Nat] /\ exists \subseteq Days
      /\ \A d \in Days : Len(lines[d]) \in Nat /\ flushed[d] \in Nat
  <2>1. lines \in [Days -> Seq(Line)] /\ flushed \in [Days -> Nat] /\ exists \subseteq Days
    BY DEF DayInv, TypeOK
  <2>. HIDE DEF Line
  <2>. QED
    BY <2>1, LenProperties
<1>5. Cardinality(Calls) * MaxTries \in Nat
  BY FS_CardinalityType
<1>6. \A d \in Days : length[d] \in Nat /\ flushed[d] <= length[d] /\ length[d] <= Len(lines[d])
  BY <1>3, <1>4, <1>5
<1>7. \A d \in Days : \A i \in 1 .. Len(lines[d]) : lines[d][i] \in Line
  <2>. HIDE DEF Line
  <2>. QED
    BY <1>4, ElementOfSeq
<1>8. \A d \in Days : /\ lines'[d] \in Seq(Line)
                      /\ Len(lines'[d]) = IF d \in kept THEN length[d] ELSE 0
  <2>1. SUFFICES ASSUME NEW d \in Days
                 PROVE  /\ lines'[d] \in Seq(Line)
                        /\ Len(lines'[d]) = IF d \in kept THEN length[d] ELSE 0
    OBVIOUS
  <2>2. CASE d \notin kept
    BY <1>3, <2>2
  <2>3. CASE d \in kept
    <3>. DEFINE rest == [i \in 1 .. length[d] |->
                           IF d \in torn /\ i = length[d]
                           THEN [lines[d][i] EXCEPT !.whole = FALSE] ELSE lines[d][i]]
    <3>1. lines'[d] = rest
      BY <1>3, <2>3
    <3>2. \A i \in 1 .. length[d] : rest[i] \in Line
      <4>1. SUFFICES ASSUME NEW i \in 1 .. length[d]
                     PROVE  rest[i] \in Line
        OBVIOUS
      <4>2. lines[d][i] \in Line
        BY <1>6, <1>7
      <4>3. [lines[d][i] EXCEPT !.whole = FALSE] \in Line
        BY <4>2
      <4>. QED
        BY <4>2, <4>3
    <3>3. rest \in [1 .. length[d] -> Line] /\ DOMAIN rest = 1 .. length[d]
      BY <3>2
    <3>. HIDE DEF Line, rest
    <3>4. rest \in Seq(Line)
      BY <1>6, <3>3, SeqDef
    <3>5. Len(rest) = length[d]
      BY <1>6, <3>3, <3>4, LenProperties
    <3>. QED
      BY <2>3, <3>1, <3>4, <3>5
  <2>. QED
    BY <2>2, <2>3
<1>9. \A d \in Days : d \in kept =>
        \A i \in 1 .. flushed[d] : i \in 1 .. flushed'[d] /\ lines'[d][i] = lines[d][i]
  <2>1. SUFFICES ASSUME NEW d \in Days, d \in kept, NEW i \in 1 .. flushed[d]
                 PROVE  i \in 1 .. flushed'[d] /\ lines'[d][i] = lines[d][i]
    OBVIOUS
  <2>2. i \in 1 .. length[d] /\ flushed'[d] = length[d]
    BY <1>3, <1>4, <1>6, <2>1
  <2>3. d \in torn => i # length[d]
    BY <1>3, <1>4, <1>6
  <2>. QED
    BY <1>3, <2>1, <2>2, <2>3
<1>10. TypeOK'
  <2>1. /\ handle' \in [Gateways -> {0} \cup Days]
        /\ busy' \in [Gateways -> Calls \cup {None}]
        /\ pc' \in [Calls -> {"idle", "begun", "ok", "failed"} \cup Locked]
        /\ \A h \in Gateways : busy'[h] # None => pc'[busy'[h]] \in Locked
    BY <1>1, DyingType
  <2>2. lines' \in [Days -> Seq(Line)]
    BY <1>3, <1>8
  <2>3. flushed' \in [Days -> Nat] /\ \A d \in Days : flushed'[d] <= Len(lines'[d])
    BY <1>3, <1>6, <1>8
  <2>4. linked' \subseteq exists' /\ exists' \subseteq Days
    BY <1>3, <1>4
  <2>. QED
    BY <1>2, <2>1, <2>2, <2>3, <2>4 DEF DayInv, TypeOK
<1>11. OneHolder' /\ LineWritten'
  BY <1>2 DEF OneHolder, LineWritten, Holds
<1>12. HandleIsDay'
  BY <1>2 DEF DayInv, HandleIsDay, Holds
<1>13. EntryAccounted'
  BY <1>3 DEF EntryAccounted
<1>14. BeingCreated' = {}
  BY <1>2 DEF BeingCreated
<1>15. AckedIsDurable'
  <2>1. SUFFICES ASSUME NEW c \in Calls, Acked(c)', day[c] \notin residual' \cup unsynced
                 PROVE  /\ day[c] \in linked'
                        /\ \E i \in 1 .. flushed'[day[c]] :
                              lines'[day[c]][i] = [call |-> c, whole |-> TRUE]
    BY <1>2 DEF AckedIsDurable
  <2>2. Acked(c) /\ day[c] \in Days /\ day[c] \notin residual
    BY <1>2, <2>1 DEF Acked, DayInv, HandleIsDay
  <2>3. day[c] \in kept
    BY <1>2, <1>3, <1>14, <2>1, <2>2 DEF DayInv, AckedIsDurable
  <2>4. PICK i \in 1 .. flushed[day[c]] : lines[day[c]][i] = [call |-> c, whole |-> TRUE]
    BY <2>1, <2>2 DEF DayInv, AckedIsDurable
  <2>. QED
    BY <1>3, <1>9, <2>2, <2>3, <2>4
<1>. QED
  BY <1>10, <1>11, <1>12, <1>13, <1>15 DEF DayInv

-----------------------------------------------------------------------------
(* Theorems                                                                  *)

LEMMA DayInvHolds == Spec => []DayInv
<1>1. ASSUME DayInv, [Next]_vars PROVE DayInv'
  <2>1. CASE UNCHANGED vars
    <3>1. UNCHANGED <<dirVars, handle, busy, callVars, worldVars>>
      BY <2>1 DEF vars
    <3>2. TypeOK'
      BY <1>1, <3>1 DEF DayInv, TypeOK, dirVars, callVars, worldVars
    <3>3. BeingCreated' = BeingCreated
      BY <3>1 DEF BeingCreated, callVars
    <3>4. OneHolder' /\ HandleIsDay' /\ LineWritten'
      BY <1>1, <3>1 DEF DayInv, OneHolder, HandleIsDay, LineWritten, Holds, dirVars, callVars
    <3>5. EntryAccounted' /\ AckedIsDurable'
      BY <1>1, <3>1, <3>3 DEF DayInv, EntryAccounted, AckedIsDurable, Acked,
                              dirVars, callVars, worldVars
    <3>. QED
      BY <3>2, <3>4, <3>5 DEF DayInv
  <2>2. CASE \E c \in Calls : Begin(c)
    BY <1>1, <2>2, BeginKeeps
  <2>3. CASE \E g \in Gateways : Step(g)
    BY <1>1, <2>3, AcquireKeeps, OpenKeeps, SyncDirKeeps, WriteKeeps, FsyncKeeps, FailedKeeps,
       IdleKeeps DEF Step
  <2>4. CASE \E g \in Gateways : Crash(g)
    BY <1>1, <2>4, CrashKeeps
  <2>5. CASE Midnight \/ PowerLoss
    BY <1>1, <2>5, IdleKeeps, PowerLossKeeps
  <2>. QED
    BY <1>1, <2>1, <2>2, <2>3, <2>4, <2>5 DEF Next
<1>. QED
  BY <1>1, InitDays, PTL DEF Spec

\* The type invariant, and that a mutex is held only by a call in its steps.
THEOREM DayTypeCorrect == Spec => []TypeOK
<1>1. DayInv => TypeOK
  BY DEF DayInv
<1>. QED
  BY <1>1, DayInvHolds, PTL

\* A line of the audit log or of the sink that was reported written survives
\* every crash and power loss, but for the two windows of the directory fsync.
THEOREM ReportedIsDurable == Spec => []AckedIsDurable
<1>1. DayInv => AckedIsDurable
  BY DEF DayInv
<1>. QED
  BY <1>1, DayInvHolds, PTL

\* A line goes to the file of its own day, however calls overtake each other
\* across midnight.
THEOREM RightDay == Spec => []OnlyOfItsDay
<1>1. DayInv => OnlyOfItsDay
  BY DEF DayInv, HandleIsDay, OnlyOfItsDay, Holds, Locked
<1>. QED
  BY <1>1, DayInvHolds, PTL

=============================================================================
