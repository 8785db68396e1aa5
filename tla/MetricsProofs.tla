--------------------------- MODULE MetricsProofs ---------------------------
(***************************************************************************)
(* Theorems about Metrics, for any number of request goroutines and any    *)
(* queue times: the two looks of RecordMetric lose no update; what an      *)
(* answer of /metrics shows fits together although it is read piecemeal;   *)
(* the depth gauge is exact unless two updates of it overlapped.           *)
(*                                                                         *)
(* The first needs only the store.  The others need what a goroutine has   *)
(* still to do: GoodPlan says in which order its program can come, and     *)
(* each invariant relates the rest of the program to what was stored.      *)
(***************************************************************************)
EXTENDS Metrics, SequenceTheorems, TLAPS

USE MetricsAssumption

CountOps == [op : {"count"}, name : Counters, by : Int]
DepthOps == [op : {"depth", "commit", "report"}, name : {"spool_depth"}, by : Int]
DeliveryOps == [op : {"stamp", "fold"}, name : {"none"}, by : Int]
Ops == CountOps \cup DepthOps \cup DeliveryOps

StoreTypeOK ==
    /\ registry \in [Names -> Goroutines \cup {None}]
    /\ registry["spool_depth"] \in Goroutines
    /\ cell \in [Goroutines -> [Names -> Int]]
    /\ counted \in [Counters -> Int]
    /\ pointer \in [Goroutines -> Goroutines \cup {None}]
    /\ left \in [Goroutines -> Seq(Ops)]
    /\ at \in [Goroutines -> {"begin", "read", "missing", "found"}]
    /\ depth \in Int /\ value \in [Goroutines -> Int]

\* A goroutine about to add has the cell that is registered.
PointsToRegistered ==
    \A g \in Goroutines : Running(g) /\ at[g] = "found" =>
        /\ Current(g).op = "count"
        /\ pointer[g] = registry[Current(g).name] /\ pointer[g] # None

\* A cell that is not registered was never added to.
UnusedCellIsZero ==
    \A g \in Goroutines, n \in Counters : registry[n] # g => cell[g][n] = 0

\* A goroutine without a program is not inside an operation.
RestsAtBegin ==
    /\ \A g \in Goroutines : ~Running(g) => at[g] = "begin"
    /\ \A h \in Handlers : h \notin started => ~Running(h)

StoreInv ==
    StoreTypeOK /\ RestsAtBegin /\ PointsToRegistered /\ UnusedCellIsZero /\ CountersExact

-----------------------------------------------------------------------------
(* The programs *)

LEMMA CurrentIsOp ==
    ASSUME StoreTypeOK, NEW g \in Goroutines, Running(g)
    PROVE  /\ Current(g) \in Ops /\ Tail(left[g]) \in Seq(Ops)
           /\ Current(g).op = "count" => Current(g).name \in Counters
           /\ Current(g).op \in {"depth", "commit", "report"} =>
                 Current(g).name = "spool_depth"
           /\ Current(g).by \in Int
<1>1. left[g] \in Seq(Ops) /\ left[g] # <<>>
  BY DEF StoreTypeOK, Running
<1>2. Head(left[g]) \in Ops /\ Tail(left[g]) \in Seq(Ops)
  <2>. HIDE DEF Ops
  <2>. QED
    BY <1>1, HeadTailProperties
<1>. QED
  BY <1>2 DEF Current, Ops, CountOps, DepthOps, DeliveryOps

LEMMA ProgramsAreOps ==
    /\ Queued \in Seq(Ops) /\ RolledBack \in Seq(Ops) /\ DeadLettered \in Seq(Ops)
    /\ \A q \in Latencies : Delivered(q) \in Seq(Ops)
<1>1. \A n \in Int : Changes(n) \in Ops /\ Fold(n) \in Ops
                     /\ \A c \in Counters : Count(c, n) \in Ops
  BY DEF Ops, CountOps, DepthOps, DeliveryOps, Changes, Fold, Count
<1>2. Commits \in Ops /\ reportDepth \in Ops /\ Stamp \in Ops
  BY DEF Ops, DepthOps, DeliveryOps, Commits, reportDepth, Stamp
<1>3. Count("signals_processed", 1) \in Ops /\ Count("signals_forwarded", 1) \in Ops
      /\ Count("delivery_latency_count", 1) \in Ops /\ Changes(1) \in Ops /\ Changes(-1) \in Ops
      /\ \A n \in Int : Count("delivery_latency_ms_sum", n) \in Ops
  BY <1>1 DEF Counters
<1>. HIDE DEF Ops
<1>4. decDepth \in Seq(Ops)
  BY <1>2, <1>3 DEF decDepth
<1>5. Queued \in Seq(Ops)
  BY <1>2, <1>3 DEF Queued
<1>6. <<Changes(1)>> \in Seq(Ops)
  BY <1>3
<1>7. ASSUME NEW q \in Latencies PROVE Delivered(q) \in Seq(Ops)
  <2>1. q \in Nat /\ q \div 10000 \in Int /\ q \div 10 \in Int
    OBVIOUS
  <2>2. Latency(q) \in Seq(Ops)
    BY <1>1, <1>3, <2>1 DEF Latency
  <2>3. <<Stamp, Count("signals_forwarded", 1)>> \in Seq(Ops)
    BY <1>2, <1>3
  <2>4. RecordDelivery(q) \in Seq(Ops)
    BY <2>2, <2>3, ConcatProperties DEF RecordDelivery
  <2>. QED
    BY <1>4, <2>4, ConcatProperties DEF Delivered
<1>. QED
  BY <1>4, <1>5, <1>6, <1>7, ConcatProperties DEF RolledBack, DeadLettered

-----------------------------------------------------------------------------
(* The steps *)

LEMMA InitStore == Init => StoreInv
<1>. SUFFICES ASSUME Init PROVE StoreInv
  OBVIOUS
<1>1. StoreTypeOK
  <2>1. left \in [Goroutines -> Seq(Ops)]
    <3>. HIDE DEF Ops
    <3>. QED
      BY DEF Init
  <2>. QED
    BY <2>1 DEF Init, StoreTypeOK, Names, Counters, Goroutines
<1>2. \A g \in Goroutines : ~Running(g) /\ at[g] = "begin"
  BY DEF Init, Running
<1>. QED
  BY <1>1, <1>2 DEF Init, StoreInv, RestsAtBegin, PointsToRegistered, UnusedCellIsZero,
                    CountersExact, Names, Counters, Goroutines

\* A goroutine gets a program: it was not inside an operation.
LEMMA ProgramTaken ==
    ASSUME StoreInv, NEW g \in Goroutines, ~Running(g), NEW program \in Seq(Ops),
           left' = [left EXCEPT ![g] = program],
           started' = started \cup ({g} \ {Forwarder}),
           UNCHANGED <<storeVars, counted, at, pointer, value, depth>>
    PROVE  StoreInv'
<1>1. left' \in [Goroutines -> Seq(Ops)]
  <2>. HIDE DEF Ops
  <2>. QED
    BY DEF StoreInv, StoreTypeOK
<1>2. StoreTypeOK'
  BY <1>1 DEF StoreInv, StoreTypeOK, storeVars
<1>3. at[g] = "begin"
  BY DEF StoreInv, RestsAtBegin
<1>4. \A h \in Goroutines : h # g => left'[h] = left[h]
  BY DEF StoreInv, StoreTypeOK
<1>5. RestsAtBegin' /\ PointsToRegistered'
  BY <1>3, <1>4 DEF StoreInv, RestsAtBegin, PointsToRegistered, Running, Current, storeVars,
                    Goroutines
<1>6. UnusedCellIsZero' /\ CountersExact'
  BY DEF StoreInv, UnusedCellIsZero, CountersExact, storeVars
<1>. QED
  BY <1>2, <1>5, <1>6 DEF StoreInv

LEMMA CallKeepsStore ==
    ASSUME StoreInv, NEW h \in Handlers, Call(h)
    PROVE  StoreInv'
<1>1. PICK program \in {Queued, RolledBack} : left' = [left EXCEPT ![h] = program]
  BY DEF Call
<1>2. program \in Seq(Ops) /\ h \in Goroutines /\ h # Forwarder
  BY ProgramsAreOps DEF Goroutines
<1>3. ~Running(h)
  BY DEF Call, StoreInv, RestsAtBegin
<1>4. /\ started' = started \cup ({h} \ {Forwarder})
      /\ UNCHANGED <<storeVars, counted, at, pointer, value, depth>>
  BY <1>2 DEF Call, spoolVars, historyVars
<1>. QED
  BY <1>1, <1>2, <1>3, <1>4, ProgramTaken

LEMMA ForwardKeepsStore ==
    ASSUME StoreInv, Forward
    PROVE  StoreInv'
<1>1. PICK program \in {DeadLettered} \cup {Delivered(q) : q \in Latencies} :
          left' = [left EXCEPT ![Forwarder] = program]
  BY DEF Forward
<1>2. program \in Seq(Ops) /\ Forwarder \in Goroutines /\ ~Running(Forwarder)
  BY ProgramsAreOps DEF Goroutines, Forward
<1>3. /\ started' = started \cup ({Forwarder} \ {Forwarder})
      /\ UNCHANGED <<storeVars, counted, at, pointer, value, depth>>
  BY DEF Forward, historyVars
<1>. QED
  BY <1>1, <1>2, <1>3, ProgramTaken

\* What every last step of an operation does to the goroutine.
LEMMA CompletesRests ==
    ASSUME StoreInv, NEW g \in Goroutines, NEW ops, NEW from, Completes(g, ops, from),
           UNCHANGED pointer \/ pointer' = [pointer EXCEPT ![g] = None]
    PROVE  /\ left' \in [Goroutines -> Seq(Ops)]
           /\ at' \in [Goroutines -> {"begin", "read", "missing", "found"}]
           /\ pointer' \in [Goroutines -> Goroutines \cup {None}]
           /\ value' \in [Goroutines -> Int]
           /\ RestsAtBegin' /\ PointsToRegistered'
<1>1. Running(g) /\ Tail(left[g]) \in Seq(Ops)
  BY CurrentIsOp DEF StoreInv, Completes, Doing
<1>2. left' = [left EXCEPT ![g] = Tail(left[g])] /\ at' = [at EXCEPT ![g] = "begin"]
      /\ UNCHANGED <<registry, started, value>>
  BY DEF Completes
<1>3. left' \in [Goroutines -> Seq(Ops)]
  <2>. HIDE DEF Ops
  <2>. QED
    BY <1>1, <1>2 DEF StoreInv, StoreTypeOK
<1>4. at'[g] = "begin"
      /\ \A h \in Goroutines : h # g => /\ left'[h] = left[h] /\ at'[h] = at[h]
                                        /\ pointer'[h] = pointer[h]
  BY <1>2 DEF StoreInv, StoreTypeOK
<1>5. g \in Handlers => g \in started
  BY <1>1 DEF StoreInv, RestsAtBegin
<1>6. RestsAtBegin'
  BY <1>2, <1>4, <1>5 DEF StoreInv, RestsAtBegin, Running, Goroutines
<1>7. PointsToRegistered'
  BY <1>2, <1>4 DEF StoreInv, PointsToRegistered, Running, Current
<1>. QED
  BY <1>2, <1>3, <1>6, <1>7 DEF StoreInv, StoreTypeOK

\* Operations that touch no cell of a counter.
LEMMA OtherOperationKeepsStore ==
    ASSUME StoreInv, NEW g \in Goroutines,
           ChangeDepth(g) \/ Commit(g) \/ StampDelivery(g) \/ FoldLatency(g)
    PROVE  StoreInv'
<1>1. /\ UNCHANGED <<registry, cell, counted, pointer>>
      /\ \E ops, from : Completes(g, ops, from)
  BY DEF ChangeDepth, Commit, StampDelivery, FoldLatency, historyVars, Completes
<1>2. /\ left' \in [Goroutines -> Seq(Ops)]
      /\ at' \in [Goroutines -> {"begin", "read", "missing", "found"}]
      /\ value' \in [Goroutines -> Int]
      /\ RestsAtBegin' /\ PointsToRegistered'
  BY <1>1, CompletesRests
<1>3. depth' \in Int
  <2>1. CASE ChangeDepth(g)
    <3>1. Running(g)
      BY <2>1 DEF ChangeDepth, Completes, Doing
    <3>. QED
      BY <2>1, <3>1, CurrentIsOp DEF ChangeDepth, StoreInv, StoreTypeOK
  <2>2. CASE Commit(g) \/ StampDelivery(g) \/ FoldLatency(g)
    BY <2>2 DEF Commit, StampDelivery, FoldLatency, spoolVars, StoreInv, StoreTypeOK
  <2>. QED
    BY <2>1, <2>2
<1>4. StoreTypeOK'
  BY <1>1, <1>2, <1>3 DEF StoreInv, StoreTypeOK
<1>5. UnusedCellIsZero' /\ CountersExact'
  BY <1>1 DEF StoreInv, UnusedCellIsZero, CountersExact
<1>. QED
  BY <1>2, <1>4, <1>5 DEF StoreInv

LEMMA SetGaugeKeepsStore ==
    ASSUME StoreInv, NEW g \in Goroutines, SetGauge(g)
    PROVE  StoreInv'
<1>1. /\ UNCHANGED <<registry, counted, pointer, depth>>
      /\ Completes(g, {"report"}, "read")
      /\ cell' = [cell EXCEPT ![registry[Current(g).name]][Current(g).name] = value[g]]
  BY DEF SetGauge, spoolVars, Completes
<1>2. /\ left' \in [Goroutines -> Seq(Ops)]
      /\ at' \in [Goroutines -> {"begin", "read", "missing", "found"}]
      /\ value' \in [Goroutines -> Int]
      /\ RestsAtBegin' /\ PointsToRegistered'
  BY <1>1, CompletesRests
<1>3. Current(g).name = "spool_depth"
  BY <1>1, CurrentIsOp DEF StoreInv, Completes, Doing
<1>4. /\ cell' \in [Goroutines -> [Names -> Int]]
      /\ \A h \in Goroutines, n \in Counters : cell'[h][n] = cell[h][n]
  BY <1>1, <1>3 DEF StoreInv, StoreTypeOK, Names, Counters
<1>5. StoreTypeOK'
  BY <1>1, <1>2, <1>4 DEF StoreInv, StoreTypeOK
<1>6. UnusedCellIsZero' /\ CountersExact'
  <2>1. \A n \in Counters : registry[n] \in Goroutines \cup {None}
    BY DEF StoreInv, StoreTypeOK, Names
  <2>. QED
    BY <1>1, <1>4, <2>1 DEF StoreInv, UnusedCellIsZero, CountersExact
<1>. QED
  BY <1>2, <1>5, <1>6 DEF StoreInv

\* The cell that is added to is the registered one.
LEMMA AddKeepsStore ==
    ASSUME StoreInv, NEW g \in Goroutines, Add(g)
    PROVE  StoreInv'
<1>. DEFINE name == Current(g).name
<1>1. /\ UNCHANGED <<registry, depth>>
      /\ pointer' = [pointer EXCEPT ![g] = None]
      /\ Completes(g, {"count"}, "found")
      /\ cell' = [cell EXCEPT ![pointer[g]][name] = @ + Current(g).by]
      /\ counted' = [counted EXCEPT ![name] = @ + Current(g).by]
  BY DEF Add, spoolVars, Completes
<1>2. /\ left' \in [Goroutines -> Seq(Ops)]
      /\ at' \in [Goroutines -> {"begin", "read", "missing", "found"}]
      /\ pointer' \in [Goroutines -> Goroutines \cup {None}]
      /\ value' \in [Goroutines -> Int]
      /\ RestsAtBegin' /\ PointsToRegistered'
  BY <1>1, CompletesRests
<1>3. name \in Counters /\ name \in Names /\ Current(g).by \in Int
  BY <1>1, CurrentIsOp DEF StoreInv, Completes, Doing, Names
<1>4. pointer[g] = registry[name] /\ pointer[g] # None /\ pointer[g] \in Goroutines
  BY <1>1, <1>2 DEF StoreInv, StoreTypeOK, PointsToRegistered, Completes, Doing
<1>. HIDE DEF name
<1>5. cell' \in [Goroutines -> [Names -> Int]] /\ counted' \in [Counters -> Int]
  BY <1>1, <1>3, <1>4 DEF StoreInv, StoreTypeOK, Names
<1>6. StoreTypeOK'
  BY <1>1, <1>2, <1>5 DEF StoreInv, StoreTypeOK
<1>7. \A h \in Goroutines, n \in Names :
          cell'[h][n] = IF h = registry[name] /\ n = name THEN cell[h][n] + Current(g).by
                        ELSE cell[h][n]
  BY <1>1, <1>3, <1>4 DEF StoreInv, StoreTypeOK
<1>8. UnusedCellIsZero'
  BY <1>1, <1>7 DEF StoreInv, UnusedCellIsZero, Names
<1>9. CountersExact'
  <2>. SUFFICES ASSUME NEW n \in Counters
                PROVE  counted'[n] = IF registry[n] = None THEN 0 ELSE cell'[registry[n]][n]
    BY <1>1 DEF CountersExact
  <2>1. n \in Names /\ registry[n] \in Goroutines \cup {None}
    BY DEF Names, StoreInv, StoreTypeOK
  <2>2. counted[n] = IF registry[n] = None THEN 0 ELSE cell[registry[n]][n]
    BY DEF StoreInv, CountersExact
  <2>3. CASE n = name
    BY <1>1, <1>3, <1>4, <1>7, <2>1, <2>2, <2>3 DEF StoreInv, StoreTypeOK
  <2>4. CASE n # name
    BY <1>1, <1>3, <1>4, <1>7, <2>1, <2>2, <2>4 DEF StoreInv, StoreTypeOK
  <2>. QED
    BY <2>3, <2>4
<1>. QED
  BY <1>2, <1>6, <1>8, <1>9 DEF StoreInv

\* The steps inside an operation leave the cells alone.
LEMMA ReadDepthKeepsStore ==
    ASSUME StoreInv, NEW g \in Goroutines, ReadDepth(g)
    PROVE  StoreInv'
<1>1. /\ UNCHANGED <<registry, cell, counted, pointer, depth, left, started>>
      /\ Running(g)
      /\ at' = [at EXCEPT ![g] = "read"] /\ value' = [value EXCEPT ![g] = depth]
  BY DEF ReadDepth, Within, Doing, storeVars, spoolVars
<1>2. StoreTypeOK'
  BY <1>1 DEF StoreInv, StoreTypeOK
<1>3. \A h \in Goroutines : h # g => at'[h] = at[h]
  BY <1>1 DEF StoreInv, StoreTypeOK
<1>4. at'[g] = "read"
  BY <1>1 DEF StoreInv, StoreTypeOK
<1>5. RestsAtBegin' /\ PointsToRegistered'
  BY <1>1, <1>3, <1>4 DEF StoreInv, RestsAtBegin, PointsToRegistered, Running, Current
<1>6. UnusedCellIsZero' /\ CountersExact'
  BY <1>1 DEF StoreInv, UnusedCellIsZero, CountersExact
<1>. QED
  BY <1>2, <1>5, <1>6 DEF StoreInv

LEMMA LookUpKeepsStore ==
    ASSUME StoreInv, NEW g \in Goroutines, LookUp(g)
    PROVE  StoreInv'
<1>. DEFINE found == registry[Current(g).name]
<1>1. /\ UNCHANGED <<registry, cell, counted, value, depth, left, started>>
      /\ Running(g) /\ Current(g).op = "count"
      /\ at' = [at EXCEPT ![g] = IF found = None THEN "missing" ELSE "found"]
      /\ pointer' = [pointer EXCEPT ![g] = found]
  BY DEF LookUp, Within, Doing, storeVars, spoolVars
<1>2. found \in Goroutines \cup {None}
  BY <1>1, CurrentIsOp DEF StoreInv, StoreTypeOK, Names
<1>. HIDE DEF found
<1>3. StoreTypeOK'
  BY <1>1, <1>2 DEF StoreInv, StoreTypeOK
<1>4. \A h \in Goroutines : h # g => at'[h] = at[h] /\ pointer'[h] = pointer[h]
  BY <1>1 DEF StoreInv, StoreTypeOK
<1>5. at'[g] = (IF found = None THEN "missing" ELSE "found") /\ pointer'[g] = found
  BY <1>1 DEF StoreInv, StoreTypeOK
<1>6. RestsAtBegin'
  BY <1>1, <1>4 DEF StoreInv, RestsAtBegin, Running
<1>7. PointsToRegistered'
  BY <1>1, <1>4, <1>5 DEF StoreInv, PointsToRegistered, Running, Current, found
<1>8. UnusedCellIsZero' /\ CountersExact'
  BY <1>1 DEF StoreInv, UnusedCellIsZero, CountersExact
<1>. QED
  BY <1>3, <1>6, <1>7, <1>8 DEF StoreInv

\* The second look under the write lock: a name that another goroutine has
\* registered meanwhile keeps its cell, and a new cell starts from zero.
LEMMA RegisterKeepsStore ==
    ASSUME StoreInv, NEW g \in Goroutines, Register(g)
    PROVE  StoreInv'
<1>. DEFINE name  == Current(g).name
            owner == IF registry[name] = None THEN g ELSE registry[name]
<1>1. /\ UNCHANGED <<cell, counted, value, depth, left, started>>
      /\ Running(g) /\ Current(g).op = "count"
      /\ at' = [at EXCEPT ![g] = "found"]
      /\ registry' = [registry EXCEPT ![name] = owner]
      /\ pointer' = [pointer EXCEPT ![g] = owner]
  BY DEF Register, Within, Doing, spoolVars
<1>2. name \in Counters /\ name \in Names /\ name # "spool_depth"
  BY <1>1, CurrentIsOp DEF StoreInv, Names, Counters
<1>3. owner \in Goroutines /\ owner # None
      /\ (registry[name] # None => owner = registry[name])
      /\ (registry[name] = None => owner = g)
  BY <1>2 DEF StoreInv, StoreTypeOK, Goroutines
<1>. HIDE DEF owner, name
<1>4. StoreTypeOK'
  BY <1>1, <1>2, <1>3 DEF StoreInv, StoreTypeOK, Names
<1>5. \A h \in Goroutines : h # g => at'[h] = at[h] /\ pointer'[h] = pointer[h]
  BY <1>1 DEF StoreInv, StoreTypeOK
<1>6. \A n \in Names : registry'[n] = IF n = name THEN owner ELSE registry[n]
  BY <1>1 DEF StoreInv, StoreTypeOK
<1>7. RestsAtBegin'
  BY <1>1, <1>5 DEF StoreInv, RestsAtBegin, Running
<1>8. PointsToRegistered'
  <2>. SUFFICES ASSUME NEW h \in Goroutines, Running(h)', at'[h] = "found"
                PROVE  /\ Current(h)'.op = "count"
                       /\ pointer'[h] = registry'[Current(h)'.name] /\ pointer'[h] # None
    BY DEF PointsToRegistered
  <2>1. Current(h)' = Current(h) /\ Running(h)
    BY <1>1 DEF Current, Running
  <2>2. CASE h = g
    BY <1>1, <1>2, <1>3, <1>6, <2>1, <2>2 DEF StoreInv, StoreTypeOK, name
  <2>3. CASE h # g
    <3>1. /\ Current(h).op = "count" /\ pointer[h] = registry[Current(h).name]
          /\ pointer[h] # None
      BY <1>5, <2>1, <2>3 DEF StoreInv, PointsToRegistered
    <3>2. Current(h).name \in Names
      BY <2>1, <3>1, CurrentIsOp DEF StoreInv, Names
    <3>. QED
      BY <1>3, <1>5, <1>6, <2>1, <2>3, <3>1, <3>2
  <2>. QED
    BY <2>2, <2>3
<1>9. UnusedCellIsZero'
  <2>. SUFFICES ASSUME NEW h \in Goroutines, NEW n \in Counters, registry'[n] # h
                PROVE  cell[h][n] = 0
    BY <1>1 DEF UnusedCellIsZero
  <2>1. registry[n] # h
    BY <1>3, <1>6 DEF Names, Goroutines
  <2>. QED
    BY <2>1 DEF StoreInv, UnusedCellIsZero
<1>10. CountersExact'
  <2>. SUFFICES ASSUME NEW n \in Counters
                PROVE  counted[n] = IF registry'[n] = None THEN 0 ELSE cell[registry'[n]][n]
    BY <1>1 DEF CountersExact
  <2>1. counted[n] = IF registry[n] = None THEN 0 ELSE cell[registry[n]][n]
    BY DEF StoreInv, CountersExact
  <2>2. CASE n = name /\ registry[n] = None
    <3>1. cell[g][n] = 0
      BY <2>2 DEF StoreInv, UnusedCellIsZero, Goroutines
    <3>. QED
      BY <1>3, <1>6, <2>1, <2>2, <3>1 DEF Names
  <2>3. CASE ~(n = name /\ registry[n] = None)
    BY <1>3, <1>6, <2>1, <2>3 DEF Names
  <2>. QED
    BY <2>2, <2>3
<1>. QED
  BY <1>4, <1>7, <1>8, <1>9, <1>10 DEF StoreInv

LEMMA ScrapeKeepsStore ==
    ASSUME StoreInv, MetricsHandler \/ UNCHANGED vars
    PROVE  StoreInv'
<1>1. UNCHANGED <<registry, cell, counted, pointer, at, left, value, depth, started>>
  BY DEF MetricsHandler, BeginScrape, Load, Compute, Respond, vars, storeVars, spoolVars,
         goroutineVars, historyVars
<1>. QED
  BY <1>1 DEF StoreInv, StoreTypeOK, RestsAtBegin, PointsToRegistered, UnusedCellIsZero,
              CountersExact, Running, Current

LEMMA StoreHolds == Spec => []StoreInv
<1>1. StoreInv /\ [Next]_vars => StoreInv'
  <2>. SUFFICES ASSUME StoreInv, [Next]_vars PROVE StoreInv'
    OBVIOUS
  <2>1. CASE \E h \in Handlers : Call(h)
    BY <2>1, CallKeepsStore
  <2>2. CASE Forward
    BY <2>2, ForwardKeepsStore
  <2>3. CASE \E g \in Goroutines : Operation(g)
    BY <2>3, OtherOperationKeepsStore, SetGaugeKeepsStore, AddKeepsStore,
       ReadDepthKeepsStore, LookUpKeepsStore, RegisterKeepsStore DEF Operation
  <2>4. CASE MetricsHandler \/ UNCHANGED vars
    BY <2>4, ScrapeKeepsStore
  <2>. QED
    BY <2>1, <2>2, <2>3, <2>4 DEF Next
<1>. QED
  BY <1>1, InitStore, PTL DEF Spec

\* However many goroutines use a name for the first time at once, every
\* AddInt64 goes to the one cell that /metrics reads.
THEOREM NoUpdateLost == Spec => []CountersExact
<1>1. StoreInv => CountersExact
  BY DEF StoreInv
<1>. QED
  BY <1>1, StoreHolds, PTL

-----------------------------------------------------------------------------
(* What is still to be done.  A goroutine that has changed the depth reports   *)
(* it later; one that has counted a latency folds it later; a signal is        *)
(* counted as forwarded only after the time was stored.                        *)

ReportsFollow(s) ==
    \A i \in 1 .. Len(s) : s[i].op = "depth" =>
        \E j \in 1 .. Len(s) : i < j /\ s[j].op = "report"

FoldsFollow(s) ==
    \A i \in 1 .. Len(s) : s[i].name = "delivery_latency_count" =>
        \E j \in 1 .. Len(s) : i < j /\ s[j].op = "fold"

StampsPrecede(s, stamped) ==
    \A i \in 1 .. Len(s) : s[i].name = "signals_forwarded" =>
        stamped \/ \E j \in 1 .. Len(s) : j < i /\ s[j].op = "stamp"

FoldsNat(s)  == \A i \in 1 .. Len(s) : s[i].op = "fold" => s[i].by \in Nat
NoLatency(s) == \A i \in 1 .. Len(s) : s[i].name # "delivery_latency_count"

GoodPlan(g, s, stamped) ==
    /\ ReportsFollow(s) /\ FoldsFollow(s) /\ FoldsNat(s) /\ StampsPrecede(s, stamped)
    /\ g \in Handlers => NoLatency(s)

PlanInv ==
    lastDelivery \in BOOLEAN /\ \A g \in Goroutines : GoodPlan(g, left[g], lastDelivery)

LEMMA TailIndexes ==
    ASSUME NEW s \in Seq(Ops), s # <<>>
    PROVE  /\ Len(s) \in Nat /\ Len(s) > 0 /\ Head(s) = s[1]
           /\ Tail(s) \in Seq(Ops) /\ Len(Tail(s)) = Len(s) - 1
           /\ \A i \in 1 .. Len(Tail(s)) : Tail(s)[i] = s[i + 1]
BY HeadTailProperties

LEMMA TailIsGoodPlan ==
    ASSUME NEW g, NEW s \in Seq(Ops), s # <<>>, NEW stamped \in BOOLEAN, NEW now \in BOOLEAN,
           GoodPlan(g, s, stamped), stamped => now, s[1].op = "stamp" => now
    PROVE  GoodPlan(g, Tail(s), now)
<1>. DEFINE t == Tail(s)
<1>1. /\ Len(s) \in Nat /\ Len(s) > 0 /\ Len(t) = Len(s) - 1
      /\ \A i \in 1 .. Len(t) : t[i] = s[i + 1]
  BY TailIndexes
<1>. HIDE DEF t
<1>2. ASSUME NEW i \in 1 .. Len(t), NEW j \in 1 .. Len(s), i + 1 < j
      PROVE  j - 1 \in 1 .. Len(t) /\ i < j - 1 /\ t[j - 1] = s[j]
  BY <1>1, <1>2
<1>3. ReportsFollow(t)
  <2>. SUFFICES ASSUME NEW i \in 1 .. Len(t), t[i].op = "depth"
                PROVE  \E j \in 1 .. Len(t) : i < j /\ t[j].op = "report"
    BY DEF ReportsFollow
  <2>1. i + 1 \in 1 .. Len(s) /\ s[i + 1].op = "depth"
    BY <1>1
  <2>2. PICK j \in 1 .. Len(s) : i + 1 < j /\ s[j].op = "report"
    BY <2>1 DEF GoodPlan, ReportsFollow
  <2>. QED
    BY <1>2, <2>2
<1>4. FoldsFollow(t)
  <2>. SUFFICES ASSUME NEW i \in 1 .. Len(t), t[i].name = "delivery_latency_count"
                PROVE  \E j \in 1 .. Len(t) : i < j /\ t[j].op = "fold"
    BY DEF FoldsFollow
  <2>1. i + 1 \in 1 .. Len(s) /\ s[i + 1].name = "delivery_latency_count"
    BY <1>1
  <2>2. PICK j \in 1 .. Len(s) : i + 1 < j /\ s[j].op = "fold"
    BY <2>1 DEF GoodPlan, FoldsFollow
  <2>. QED
    BY <1>2, <2>2
<1>5. FoldsNat(t) /\ (g \in Handlers => NoLatency(t))
  BY <1>1 DEF GoodPlan, FoldsNat, NoLatency
<1>6. StampsPrecede(t, now)
  <2>. SUFFICES ASSUME NEW i \in 1 .. Len(t), t[i].name = "signals_forwarded", ~now
                PROVE  \E j \in 1 .. Len(t) : j < i /\ t[j].op = "stamp"
    BY DEF StampsPrecede
  <2>1. PICK j \in 1 .. Len(s) : j < i + 1 /\ s[j].op = "stamp"
    BY <1>1 DEF GoodPlan, StampsPrecede
  <2>2. j - 1 \in 1 .. Len(t) /\ j - 1 < i /\ t[j - 1] = s[j]
    BY <1>1, <2>1
  <2>. QED
    BY <2>1, <2>2
<1>. QED
  BY <1>3, <1>4, <1>5, <1>6 DEF GoodPlan, t

\* The programs of Enqueue, its handler, and forwardOldest are such plans.
LEMMA EmptyPlan == ASSUME NEW g, NEW stamped PROVE GoodPlan(g, <<>>, stamped)
BY DEF GoodPlan, ReportsFollow, FoldsFollow, FoldsNat, NoLatency, StampsPrecede

LEMMA ConcatIsGoodPlan ==
    ASSUME NEW g, NEW stamped \in BOOLEAN, NEW s \in Seq(Ops), NEW t \in Seq(Ops),
           GoodPlan(g, s, stamped), GoodPlan(g, t, stamped)
    PROVE  s \o t \in Seq(Ops) /\ GoodPlan(g, s \o t, stamped)
<1>. DEFINE u == s \o t
<1>1. /\ u \in Seq(Ops) /\ Len(u) = Len(s) + Len(t) /\ Len(s) \in Nat /\ Len(t) \in Nat
      /\ \A i \in 1 .. Len(u) : u[i] = IF i <= Len(s) THEN s[i] ELSE t[i - Len(s)]
  <2>. HIDE DEF Ops
  <2>. QED
    BY ConcatProperties
<1>. HIDE DEF u
<1>2. ASSUME NEW i \in 1 .. Len(u)
      PROVE  \/ i \in 1 .. Len(s) /\ u[i] = s[i]
             \/ \E k \in 1 .. Len(t) : i = Len(s) + k /\ u[i] = t[k]
  <2>1. CASE i <= Len(s)
    BY <1>1, <2>1
  <2>2. CASE ~(i <= Len(s))
    <3>1. i - Len(s) \in 1 .. Len(t) /\ i = Len(s) + (i - Len(s)) /\ u[i] = t[i - Len(s)]
      BY <1>1, <2>2
    <3>. QED
      BY <3>1
  <2>. QED
    BY <2>1, <2>2
<1>3. \A k \in 1 .. Len(s) : k \in 1 .. Len(u) /\ u[k] = s[k]
  BY <1>1
<1>4. \A k \in 1 .. Len(t) : /\ Len(s) + k \in 1 .. Len(u) /\ u[Len(s) + k] = t[k]
                             /\ \A j \in 1 .. Len(t) : j < k => Len(s) + j < Len(s) + k
  BY <1>1
<1>5. ReportsFollow(u)
  <2>. SUFFICES ASSUME NEW i \in 1 .. Len(u), u[i].op = "depth"
                PROVE  \E j \in 1 .. Len(u) : i < j /\ u[j].op = "report"
    BY DEF ReportsFollow
  <2>1. CASE i \in 1 .. Len(s) /\ u[i] = s[i]
    <3>1. PICK j \in 1 .. Len(s) : i < j /\ s[j].op = "report"
      BY <2>1 DEF GoodPlan, ReportsFollow
    <3>. QED
      BY <1>3, <3>1
  <2>2. ASSUME NEW k \in 1 .. Len(t), i = Len(s) + k, u[i] = t[k]
        PROVE  \E j \in 1 .. Len(u) : i < j /\ u[j].op = "report"
    <3>1. PICK j \in 1 .. Len(t) : k < j /\ t[j].op = "report"
      BY <2>2 DEF GoodPlan, ReportsFollow
    <3>2. /\ Len(s) + j \in 1 .. Len(u) /\ u[Len(s) + j] = t[j]
          /\ i < Len(s) + j
      BY <1>1, <1>4, <2>2, <3>1
    <3>. QED
      BY <3>1, <3>2
  <2>. QED
    BY <1>2, <2>1, <2>2
<1>6. FoldsFollow(u)
  <2>. SUFFICES ASSUME NEW i \in 1 .. Len(u), u[i].name = "delivery_latency_count"
                PROVE  \E j \in 1 .. Len(u) : i < j /\ u[j].op = "fold"
    BY DEF FoldsFollow
  <2>1. CASE i \in 1 .. Len(s) /\ u[i] = s[i]
    <3>1. PICK j \in 1 .. Len(s) : i < j /\ s[j].op = "fold"
      BY <2>1 DEF GoodPlan, FoldsFollow
    <3>. QED
      BY <1>3, <3>1
  <2>2. ASSUME NEW k \in 1 .. Len(t), i = Len(s) + k, u[i] = t[k]
        PROVE  \E j \in 1 .. Len(u) : i < j /\ u[j].op = "fold"
    <3>1. PICK j \in 1 .. Len(t) : k < j /\ t[j].op = "fold"
      BY <2>2 DEF GoodPlan, FoldsFollow
    <3>2. /\ Len(s) + j \in 1 .. Len(u) /\ u[Len(s) + j] = t[j]
          /\ i < Len(s) + j
      BY <1>1, <1>4, <2>2, <3>1
    <3>. QED
      BY <3>1, <3>2
  <2>. QED
    BY <1>2, <2>1, <2>2
<1>7. StampsPrecede(u, stamped)
  <2>. SUFFICES ASSUME NEW i \in 1 .. Len(u), u[i].name = "signals_forwarded", ~stamped
                PROVE  \E j \in 1 .. Len(u) : j < i /\ u[j].op = "stamp"
    BY DEF StampsPrecede
  <2>1. CASE i \in 1 .. Len(s) /\ u[i] = s[i]
    <3>1. PICK j \in 1 .. Len(s) : j < i /\ s[j].op = "stamp"
      BY <2>1 DEF GoodPlan, StampsPrecede
    <3>. QED
      BY <1>3, <3>1
  <2>2. ASSUME NEW k \in 1 .. Len(t), i = Len(s) + k, u[i] = t[k]
        PROVE  \E j \in 1 .. Len(u) : j < i /\ u[j].op = "stamp"
    <3>1. PICK j \in 1 .. Len(t) : j < k /\ t[j].op = "stamp"
      BY <2>2 DEF GoodPlan, StampsPrecede
    <3>2. /\ Len(s) + j \in 1 .. Len(u) /\ u[Len(s) + j] = t[j]
          /\ Len(s) + j < i
      BY <1>1, <1>4, <2>2, <3>1
    <3>. QED
      BY <3>1, <3>2
  <2>. QED
    BY <1>2, <2>1, <2>2
<1>8. FoldsNat(u) /\ (g \in Handlers => NoLatency(u))
  BY <1>2 DEF GoodPlan, FoldsNat, NoLatency
<1>. QED
  BY <1>1, <1>5, <1>6, <1>7, <1>8 DEF GoodPlan, u

LEMMA ThreeOps ==
    ASSUME NEW a \in Ops, NEW b \in Ops, NEW c \in Ops
    PROVE  <<a>> \o <<b, c>> = <<a, b, c>>
<1>. HIDE DEF Ops
<1>. DEFINE s == <<a>> \o <<b, c>>
<1>1. s \in Seq(Ops) /\ Len(s) = 3 /\ s[1] = a /\ s[2] = b /\ s[3] = c
  BY ConcatProperties
<1>. HIDE DEF s
<1>2. s = <<a, b, c>>
  BY <1>1
<1>. QED
  BY <1>2 DEF s

LEMMA ProgramsAreGood ==
    ASSUME NEW g, NEW stamped \in BOOLEAN
    PROVE  /\ GoodPlan(g, Queued, stamped) /\ GoodPlan(g, RolledBack, stamped)
           /\ GoodPlan(Forwarder, DeadLettered, stamped)
           /\ \A q \in Latencies : GoodPlan(Forwarder, Delivered(q), stamped)
<1>. USE DEF ReportsFollow, FoldsFollow, FoldsNat, NoLatency, StampsPrecede,
         Count, Changes, Commits, reportDepth, Stamp, Fold
<1>1. GoodPlan(g, Queued, stamped)
  BY DEF Queued, GoodPlan
<1>2. GoodPlan(g, RolledBack, stamped)
  <2>1. Changes(1) \in Ops /\ Changes(-1) \in Ops /\ reportDepth \in Ops
    BY DEF Ops, DepthOps
  <2>2. RolledBack = <<Changes(1), Changes(-1), reportDepth>>
    BY <2>1, ThreeOps DEF RolledBack, decDepth
  <2>. QED
    BY <2>2 DEF GoodPlan
<1>3. /\ decDepth \in Seq(Ops) /\ GoodPlan(Forwarder, decDepth, stamped)
      /\ DeadLettered = decDepth
  <2>1. GoodPlan(Forwarder, decDepth, stamped)
    BY DEF decDepth, GoodPlan
  <2>. QED
    BY <2>1, ProgramsAreOps DEF DeadLettered
<1>4. ASSUME NEW q \in Latencies PROVE GoodPlan(Forwarder, Delivered(q), stamped)
  <2>1. q \in Nat /\ q \div 10 \in Nat /\ q \div 10000 \in Nat
    <3>1. q \in Nat
      OBVIOUS
    <3>2. \A n \in Nat : n \div 10 \in Nat /\ n \div 10000 \in Nat
      OBVIOUS
    <3>. QED
      BY <3>1, <3>2
  <2>. DEFINE times == <<Count("delivery_latency_ms_sum", q \div 10000),
                         Count("delivery_latency_count", 1), Fold(q \div 10)>>
              first == <<Stamp, Count("signals_forwarded", 1)>>
  <2>2. GoodPlan(Forwarder, times, stamped) /\ GoodPlan(Forwarder, first, stamped)
    BY <2>1 DEF GoodPlan
  <2>3. times \in Seq(Ops) /\ first \in Seq(Ops) /\ <<>> \in Seq(Ops)
    <3>1. /\ Count("delivery_latency_ms_sum", q \div 10000) \in Ops
          /\ Count("delivery_latency_count", 1) \in Ops /\ Fold(q \div 10) \in Ops
          /\ Stamp \in Ops /\ Count("signals_forwarded", 1) \in Ops
      BY <2>1 DEF Ops, CountOps, DeliveryOps, Counters
    <3>. HIDE DEF Ops, Count, Stamp, Fold
    <3>. QED
      BY <3>1
  <2>4. Latency(q) = <<>> \/ Latency(q) = times
    BY DEF Latency
  <2>. HIDE DEF times, first
  <2>5. Latency(q) \in Seq(Ops) /\ GoodPlan(Forwarder, Latency(q), stamped)
    BY <2>2, <2>3, <2>4, EmptyPlan
  <2>6. RecordDelivery(q) \in Seq(Ops) /\ GoodPlan(Forwarder, RecordDelivery(q), stamped)
    BY <2>2, <2>3, <2>5, ConcatIsGoodPlan DEF RecordDelivery, first
  <2>. QED
    BY <1>3, <2>6, ConcatIsGoodPlan DEF Delivered
<1>. QED
  BY <1>1, <1>2, <1>3, <1>4

\* What a step does to the programs: none, a new one, or the current operation is
\* over.
Begins(g) ==
    /\ ~Running(g) /\ at[g] = "begin"
    /\ left'[g] \in Seq(Ops)
    /\ \A stamped \in BOOLEAN : GoodPlan(g, left'[g], stamped)

Finishes(g) ==
    /\ Running(g) /\ left'[g] = Tail(left[g])
    /\ Current(g).op = "stamp" => lastDelivery'
    /\ Current(g).op = "fold" => ewma'.set

LEMMA OperationStep ==
    ASSUME StoreInv, NEW g \in Goroutines, Operation(g)
    PROVE  /\ Running(g)
           /\ left'[g] = left[g] \/ Finishes(g)
           /\ \A h \in Goroutines \ {g} : left'[h] = left[h] /\ at'[h] = at[h]
           /\ lastDelivery' = lastDelivery \/ lastDelivery' = TRUE
           /\ ewma' = ewma \/ ewma'.set
           /\ UNCHANGED pageVars
<1>1. left \in [Goroutines -> Seq(Ops)] /\ at \in [Goroutines -> {"begin", "read", "missing", "found"}]
  BY DEF StoreInv, StoreTypeOK
<1>. HIDE DEF Ops
<1>2. CASE ReadDepth(g) \/ LookUp(g) \/ Register(g)
  BY <1>1, <1>2 DEF ReadDepth, LookUp, Register, Within, Doing, deliveryVars, pageVars
<1>3. CASE Commit(g) \/ ChangeDepth(g) \/ Add(g) \/ SetGauge(g)
  BY <1>1, <1>3 DEF Commit, ChangeDepth, Add, SetGauge, Completes, Doing, Finishes,
     deliveryVars, pageVars
<1>4. CASE StampDelivery(g) \/ FoldLatency(g)
  BY <1>1, <1>4 DEF StampDelivery, FoldLatency, Averaged, Completes, Doing, Finishes, pageVars
<1>. QED
  BY <1>2, <1>3, <1>4 DEF Operation

LEMMA PlanStep ==
    ASSUME StoreInv, [Next]_vars
    PROVE  /\ lastDelivery' = lastDelivery \/ lastDelivery' = TRUE
           /\ ewma' = ewma \/ ewma'.set
           /\ \A g \in Goroutines : left'[g] = left[g] \/ Begins(g) \/ Finishes(g)
<1>1. left \in [Goroutines -> Seq(Ops)] /\ \A g \in Goroutines : ~Running(g) => at[g] = "begin"
  BY DEF StoreInv, StoreTypeOK, RestsAtBegin
<1>2. CASE \E h \in Handlers : Call(h)
  <2>1. PICK h \in Handlers : Call(h)
    BY <1>2
  <2>2. PICK program \in {Queued, RolledBack} : left' = [left EXCEPT ![h] = program]
    BY <2>1 DEF Call
  <2>3. ~Running(h) /\ h \in Goroutines
    BY <2>1 DEF Call, StoreInv, RestsAtBegin, Goroutines
  <2>4. program \in Seq(Ops) /\ \A stamped \in BOOLEAN : GoodPlan(h, program, stamped)
    BY ProgramsAreOps, ProgramsAreGood
  <2>5. left'[h] = program /\ \A g \in Goroutines \ {h} : left'[g] = left[g]
    BY <1>1, <2>2, <2>3
  <2>6. Begins(h)
    BY <1>1, <2>3, <2>4, <2>5 DEF Begins
  <2>. QED
    BY <2>1, <2>5, <2>6 DEF Call, deliveryVars
<1>3. CASE Forward
  <2>1. PICK program \in {DeadLettered} \cup {Delivered(q) : q \in Latencies} :
            left' = [left EXCEPT ![Forwarder] = program]
    BY <1>3 DEF Forward
  <2>2. ~Running(Forwarder) /\ Forwarder \in Goroutines
    BY <1>3 DEF Forward, Goroutines
  <2>3. program \in Seq(Ops) /\ \A stamped \in BOOLEAN : GoodPlan(Forwarder, program, stamped)
    BY ProgramsAreOps, ProgramsAreGood
  <2>4. left'[Forwarder] = program /\ \A g \in Goroutines \ {Forwarder} : left'[g] = left[g]
    BY <1>1, <2>1, <2>2
  <2>5. Begins(Forwarder)
    BY <1>1, <2>2, <2>3, <2>4 DEF Begins
  <2>. QED
    BY <1>3, <2>4, <2>5 DEF Forward, deliveryVars
<1>4. CASE \E g \in Goroutines : Operation(g)
  BY <1>4, OperationStep
<1>5. CASE MetricsHandler \/ UNCHANGED vars
  BY <1>5 DEF MetricsHandler, BeginScrape, Load, Compute, Respond, vars, goroutineVars,
     deliveryVars
<1>. QED
  BY <1>2, <1>3, <1>4, <1>5 DEF Next

LEMMA PlanHolds == Spec => []PlanInv
<1>1. ASSUME Init PROVE PlanInv
  BY <1>1, EmptyPlan DEF Init, PlanInv
<1>2. ASSUME StoreInv, PlanInv, [Next]_vars PROVE PlanInv'
  <2>1. /\ lastDelivery \in BOOLEAN /\ lastDelivery' \in BOOLEAN
        /\ lastDelivery => lastDelivery'
    BY <1>2, PlanStep DEF PlanInv
  <2>2. ASSUME NEW g \in Goroutines PROVE GoodPlan(g, left'[g], lastDelivery')
    <3>1. GoodPlan(g, left[g], lastDelivery) /\ left[g] \in Seq(Ops)
      BY <1>2 DEF PlanInv, StoreInv, StoreTypeOK
    <3>2. CASE left'[g] = left[g]
      BY <2>1, <3>1, <3>2 DEF GoodPlan, StampsPrecede
    <3>3. CASE Begins(g)
      BY <2>1, <3>3 DEF Begins
    <3>4. CASE Finishes(g)
      <4>1. left[g] # <<>> /\ left'[g] = Tail(left[g])
        BY <3>4 DEF Finishes, Running
      <4>2. Head(left[g]) = left[g][1]
        BY <3>1, <4>1, TailIndexes
      <4>3. left[g][1].op = "stamp" => lastDelivery'
        BY <3>4, <4>2 DEF Finishes, Current
      <4>. QED
        BY <1>2, <2>1, <3>1, <4>1, <4>3, TailIsGoodPlan
    <3>. QED
      BY <1>2, <3>2, <3>3, <3>4, PlanStep
  <2>. QED
    BY <2>1, <2>2 DEF PlanInv
<1>. QED
  BY <1>1, <1>2, StoreHolds, PTL DEF Spec

-----------------------------------------------------------------------------
(* The response                                                              *)

PageInv ==
    /\ page \in [shown : [Names -> Int], complete : BOOLEAN, dated : BOOLEAN,
                 ewma : Nat \cup {None}]
    /\ ewma.set => ewma.us \in Nat
    /\ page.complete => Scraping /\ unread = {}
    /\ Scraping => unread \subseteq Registered
    /\ ~Scraping => page = NoPage

\* A name that is registered stays registered.
LEMMA RegistryGrows ==
    ASSUME StoreInv, [Next]_vars, NEW n \in Names, registry[n] # None
    PROVE  registry'[n] # None
<1>1. CASE \E g \in Goroutines : Register(g)
  <2>1. PICK g \in Goroutines : Register(g)
    BY <1>1
  <2>2. registry' = [registry EXCEPT ![Current(g).name] =
                        IF registry[Current(g).name] = None THEN g
                        ELSE registry[Current(g).name]]
    BY <2>1 DEF Register
  <2>. QED
    BY <2>2 DEF StoreInv, StoreTypeOK
<1>2. CASE UNCHANGED registry
  BY <1>2
<1>. QED
  BY <1>1, <1>2 DEF Next, Call, Forward, Operation, ChangeDepth, Commit, ReadDepth, LookUp, Add,
     SetGauge, StampDelivery, FoldLatency, Completes, MetricsHandler, BeginScrape, Load, Compute,
     Respond, vars, storeVars

LEMMA PageKinds ==
    ASSUME [Next]_vars
    PROVE  \/ UNCHANGED pageVars
           \/ MetricsHandler /\ UNCHANGED <<storeVars, deliveryVars, left, historyVars>>
BY DEF Next, Call, Forward, Operation, ChangeDepth, Commit, ReadDepth, LookUp, Register, Add,
   SetGauge, StampDelivery, FoldLatency, Completes, Within, MetricsHandler, BeginScrape, Load,
   Compute, Respond, vars, goroutineVars

\* What the EWMA may become.
LEMMA AverageStep ==
    ASSUME StoreInv, PlanInv, [Next]_vars
    PROVE  \/ UNCHANGED <<ewma, samples>>
           \/ \E us \in Nat : ewma' = Averaged(us) /\ samples' = samples \cup {us}
<1>1. CASE \E g \in Goroutines : FoldLatency(g)
  <2>1. PICK g \in Goroutines : FoldLatency(g)
    BY <1>1
  <2>2. left[g] \in Seq(Ops) /\ left[g] # <<>> /\ Current(g).op = "fold"
        /\ ewma' = Averaged(Current(g).by) /\ samples' = samples \cup {Current(g).by}
    BY <2>1 DEF FoldLatency, Completes, Doing, Running, StoreInv, StoreTypeOK
  <2>3. Current(g) = left[g][1] /\ 1 \in 1 .. Len(left[g])
    BY <2>2, TailIndexes DEF Current
  <2>4. Current(g).by \in Nat
    BY <2>2, <2>3 DEF PlanInv, GoodPlan, FoldsNat
  <2>. QED
    BY <2>2, <2>4
<1>2. CASE UNCHANGED <<ewma, samples>>
  BY <1>2
<1>. QED
  BY <1>1, <1>2 DEF Next, Call, Forward, Operation, ChangeDepth, Commit, ReadDepth, LookUp,
     Register, Add, SetGauge, StampDelivery, Within, MetricsHandler, BeginScrape, Load,
     Compute, Respond, vars, deliveryVars, historyVars

LEMMA PageStep ==
    ASSUME StoreInv, PlanInv, PageInv, [Next]_vars
    PROVE  PageInv'
<1>1. ewma'.set => ewma'.us \in Nat
  BY AverageStep DEF PageInv, Averaged
<1>2. CASE UNCHANGED pageVars
  <2>1. Registered \subseteq Registered'
    BY RegistryGrows DEF Registered
  <2>. QED
    BY <1>1, <1>2, <2>1 DEF PageInv, pageVars, Scraping
<1>3. CASE MetricsHandler /\ UNCHANGED <<storeVars, deliveryVars, left, historyVars>>
  <2>1. Registered' = Registered
    BY <1>3 DEF storeVars, Registered
  <2>2. CASE BeginScrape
    <3>1. ~page.complete
      BY <2>2 DEF BeginScrape, PageInv
    <3>. QED
      BY <1>1, <2>1, <2>2, <3>1 DEF BeginScrape, PageInv, Scraping
  <2>3. ASSUME NEW n \in Names, Load(n) PROVE PageInv'
    <3>1. registry[n] \in Goroutines /\ cell[registry[n]][n] \in Int
      BY <2>3 DEF Load, PageInv, Registered, StoreInv, StoreTypeOK
    <3>2. ~page.complete
      BY <2>3 DEF Load, PageInv
    <3>3. /\ page' \in [shown : [Names -> Int], complete : BOOLEAN, dated : BOOLEAN,
                        ewma : Nat \cup {None}]
          /\ page'.complete = page.complete
      BY <2>3, <3>1 DEF Load, PageInv
    <3>4. Scraping /\ Scraping' /\ unread' \subseteq Registered'
      <4>1. Scraping /\ unread' = unread \ {n} /\ unread \subseteq Registered
        BY <2>3 DEF Load, PageInv
      <4>2. Scraping'
        <5>1. unread' \in SUBSET Names
          BY <4>1 DEF Registered
        <5>. QED
          BY <5>1 DEF Scraping
      <4>. QED
        BY <2>1, <4>1, <4>2
    <3>. QED
      BY <1>1, <3>2, <3>3, <3>4 DEF PageInv
  <2>4. CASE Compute
    <3>1. /\ Scraping /\ UNCHANGED unread /\ unread = {}
          /\ page' = [page EXCEPT !.complete = TRUE, !.dated = lastDelivery,
                                  !.ewma = IF ShowAverage THEN ewma.us ELSE None]
      BY <2>4 DEF Compute
    <3>2. (IF ShowAverage THEN ewma.us ELSE None) \in Nat \cup {None}
      BY DEF ShowAverage, PageInv
    <3>3. lastDelivery \in BOOLEAN
      BY DEF PlanInv
    <3>. QED
      BY <1>1, <2>1, <3>1, <3>2, <3>3 DEF PageInv, Scraping
  <2>5. CASE Respond
    BY <1>1, <2>5 DEF Respond, PageInv, Scraping, NoPage
  <2>. QED
    BY <1>3, <2>2, <2>3, <2>4, <2>5 DEF MetricsHandler
<1>. QED
  BY <1>2, <1>3, PageKinds

LEMMA PageHolds == Spec => []PageInv
<1>1. Init => PageInv
  BY DEF Init, PageInv, NoPage, Scraping, Names, Counters
<1>. QED
  BY <1>1, PageStep, StoreHolds, PlanHolds, PTL DEF Spec

\* A delivery is counted, and a count is loaded, only after a time was stored.
DatedInv ==
    /\ counted["signals_forwarded"] > 0 => lastDelivery
    /\ Shown("signals_forwarded") > 0 => lastDelivery
    /\ page.complete /\ Shown("signals_forwarded") > 0 => page.dated

LEMMA CountedIsStamped ==
    ASSUME StoreInv, PlanInv, [Next]_vars
    PROVE  \/ counted'["signals_forwarded"] = counted["signals_forwarded"]
           \/ lastDelivery
<1>1. CASE \E g \in Goroutines : Add(g)
  <2>1. PICK g \in Goroutines : Add(g)
    BY <1>1
  <2>2. /\ left[g] \in Seq(Ops) /\ left[g] # <<>>
        /\ counted' = [counted EXCEPT ![Current(g).name] = @ + Current(g).by]
    BY <2>1 DEF Add, Completes, Doing, Running, StoreInv, StoreTypeOK
  <2>3. CASE Current(g).name = "signals_forwarded"
    <3>1. left[g][1].name = "signals_forwarded" /\ 1 \in 1 .. Len(left[g])
          /\ ~(\E j \in 1 .. Len(left[g]) : j < 1)
      BY <2>2, <2>3, TailIndexes DEF Current
    <3>. QED
      BY <3>1 DEF PlanInv, GoodPlan, StampsPrecede
  <2>4. CASE Current(g).name # "signals_forwarded"
    BY <2>2, <2>4 DEF StoreInv, StoreTypeOK, Counters
  <2>. QED
    BY <2>3, <2>4
<1>2. CASE UNCHANGED counted
  BY <1>2
<1>. QED
  BY <1>1, <1>2 DEF Next, Call, Forward, Operation, ChangeDepth, Commit, ReadDepth, LookUp,
     Register, SetGauge, StampDelivery, FoldLatency, Within, MetricsHandler, BeginScrape, Load,
     Compute, Respond, vars, historyVars

\* A response that shows a forwarded signal also shows how long ago the last one
\* was, whatever is delivered while it is put together.
THEOREM ForwardedHasDate == Spec => []ForwardedIsDated
<1>1. Init => DatedInv
  BY DEF Init, DatedInv, Shown, NoPage, Counters, Names
<1>2. ASSUME StoreInv, PlanInv, PageInv, DatedInv, [Next]_vars PROVE DatedInv'
  <2>1. lastDelivery => lastDelivery'
    BY <1>2, PlanStep
  <2>2. counted'["signals_forwarded"] > 0 => lastDelivery'
    BY <1>2, <2>1, CountedIsStamped DEF DatedInv
  <2>3. CASE UNCHANGED pageVars
    BY <1>2, <2>1, <2>2, <2>3 DEF DatedInv, Shown, pageVars
  <2>4. CASE BeginScrape
    BY <1>2, <2>1, <2>2, <2>4 DEF BeginScrape, DatedInv, Shown
  <2>5. ASSUME NEW n \in Names, Load(n) PROVE DatedInv'
    <3>1. registry[n] # None /\ ~page.complete /\ UNCHANGED lastDelivery
      BY <1>2, <2>5 DEF Load, PageInv, Registered, deliveryVars
    <3>2. /\ page'.complete = page.complete
          /\ \A m \in Names : page'.shown[m] = IF m = n THEN cell[registry[n]][n]
                                               ELSE page.shown[m]
      BY <1>2, <2>5 DEF Load, PageInv
    <3>3. n \in Counters => cell[registry[n]][n] = counted[n]
      BY <1>2, <3>1 DEF StoreInv, CountersExact
    <3>4. page'.shown["signals_forwarded"] > 0 => lastDelivery'
      BY <1>2, <3>1, <3>2, <3>3 DEF DatedInv, Shown, Names, Counters
    <3>. QED
      BY <2>2, <3>1, <3>2, <3>4 DEF DatedInv, Shown
  <2>6. CASE Compute
    BY <1>2, <2>1, <2>2, <2>6 DEF Compute, PageInv, DatedInv, Shown, deliveryVars
  <2>7. CASE Respond
    BY <2>2, <2>7 DEF Respond, DatedInv, Shown, NoPage, Names, Counters
  <2>. QED
    BY <1>2, <2>3, <2>4, <2>5, <2>6, <2>7, PageKinds DEF MetricsHandler
<1>3. DatedInv => ForwardedIsDated
  BY DEF DatedInv, ForwardedIsDated
<1>. QED
  BY <1>1, <1>2, <1>3, StoreHolds, PlanHolds, PageHolds, PTL DEF Spec

-----------------------------------------------------------------------------
(* Latencies.  Only the forwarder counts them, and it folds what it counted.  *)

Between(us) == us \in Nat /\ \E a, b \in samples : a <= us /\ us <= b

WillFold(g) == \E i \in 1 .. Len(left[g]) : left[g][i].op = "fold"

LatencyInv ==
    /\ samples \subseteq Nat
    /\ ewma.set => Between(ewma.us)
    /\ registry["delivery_latency_count"] # None => ewma.set \/ WillFold(Forwarder)
    /\ Scraping /\ settled =>
          /\ "delivery_latency_count" \in unread => ewma.set
          /\ Shown("delivery_latency_count") > 0 => ewma.set
    /\ page.complete /\ settled /\ Shown("delivery_latency_count") > 0 =>
          page.ewma # None /\ Between(page.ewma)

\* A weighted mean lies between what it is the mean of.
LEMMA AverageBetween ==
    ASSUME NEW us \in Nat, samples \subseteq Nat, ewma.set => Between(ewma.us),
           samples' = samples \cup {us}, ewma' = Averaged(us)
    PROVE  ewma'.set /\ Between(ewma.us)'
<1>1. CASE ~ewma.set
  BY <1>1 DEF Averaged, Between
<1>2. CASE ewma.set
  <2>1. PICK a \in samples, b \in samples : a <= ewma.us /\ ewma.us <= b
    BY <1>2 DEF Between
  <2>. DEFINE e == ewma.us
              m == (us + 4 * e) \div 5
  <2>2. e \in Nat /\ a \in Nat /\ b \in Nat /\ a <= e /\ e <= b
    BY <1>2, <2>1 DEF Between
  <2>3. ewma'.us = m /\ ewma'.set
    BY <1>2 DEF Averaged
  <2>. HIDE DEF e
  <2>4. CASE us <= e
    <3>1. us <= m /\ m <= e /\ m \in Nat
      BY <2>2, <2>4
    <3>2. m <= b
      BY <2>2, <3>1
    <3>. QED
      BY <2>3, <3>1, <3>2 DEF Between
  <2>5. CASE ~(us <= e)
    <3>1. e <= m /\ m <= us /\ m \in Nat
      BY <2>2, <2>5
    <3>2. a <= m
      BY <2>2, <3>1
    <3>. QED
      BY <2>3, <3>1, <3>2 DEF Between
  <2>. QED
    BY <2>4, <2>5
<1>. QED
  BY <1>1, <1>2

\* Whoever registers the counter of latencies has still to fold one.
LEMMA RegisteredIsFolded ==
    ASSUME StoreInv, PlanInv, [Next]_vars,
           registry["delivery_latency_count"] = None,
           registry'["delivery_latency_count"] # None
    PROVE  WillFold(Forwarder)'
<1>1. PICK g \in Goroutines : Register(g)
  BY DEF Next, Call, Forward, Operation, ChangeDepth, Commit, ReadDepth, LookUp, Add,
     SetGauge, StampDelivery, FoldLatency, Completes, MetricsHandler, BeginScrape, Load, Compute,
     Respond, vars, storeVars
<1>2. /\ left' = left /\ left[g] \in Seq(Ops) /\ left[g] # <<>>
      /\ registry' = [registry EXCEPT ![Current(g).name] =
                         IF registry[Current(g).name] = None THEN g
                         ELSE registry[Current(g).name]]
  BY <1>1 DEF Register, Within, Doing, Running, StoreInv, StoreTypeOK
<1>3. Current(g).name = "delivery_latency_count"
  BY <1>2 DEF StoreInv, StoreTypeOK, Names, Counters
<1>4. left[g][1].name = "delivery_latency_count" /\ 1 \in 1 .. Len(left[g])
  BY <1>2, <1>3, TailIndexes DEF Current
<1>5. g = Forwarder
  BY <1>4 DEF PlanInv, GoodPlan, NoLatency, Goroutines
<1>6. WillFold(g)
  BY <1>4 DEF PlanInv, GoodPlan, FoldsFollow, WillFold
<1>. QED
  BY <1>2, <1>5, <1>6 DEF WillFold

\* A fold is forgotten only when it is done.
LEMMA FoldIsDone ==
    ASSUME StoreInv, [Next]_vars, WillFold(Forwarder)
    PROVE  WillFold(Forwarder)' \/ ewma'.set
<1>1. Forwarder \in Goroutines /\ left[Forwarder] \in Seq(Ops)
  BY DEF StoreInv, StoreTypeOK, Goroutines
<1>2. CASE left'[Forwarder] = left[Forwarder]
  BY <1>2 DEF WillFold
<1>3. CASE Begins(Forwarder)
  <2>1. left[Forwarder] = <<>>
    BY <1>3 DEF Begins, Running
  <2>. QED
    BY <2>1 DEF WillFold
<1>4. CASE Finishes(Forwarder)
  <2>. DEFINE s == left[Forwarder]
  <2>1. s # <<>> /\ left'[Forwarder] = Tail(s)
    BY <1>4 DEF Finishes, Running
  <2>2. PICK i \in 1 .. Len(s) : s[i].op = "fold"
    BY DEF WillFold
  <2>3. /\ Len(s) \in Nat /\ Head(s) = s[1] /\ Len(Tail(s)) = Len(s) - 1
        /\ \A k \in 1 .. Len(Tail(s)) : Tail(s)[k] = s[k + 1]
    BY <1>1, <2>1, TailIndexes
  <2>. HIDE DEF s
  <2>4. CASE i = 1
    BY <1>4, <2>2, <2>3, <2>4 DEF Finishes, Current, s
  <2>5. CASE i # 1
    <3>1. i - 1 \in 1 .. Len(Tail(s)) /\ Tail(s)[i - 1] = s[i]
      BY <2>2, <2>3, <2>5
    <3>. QED
      BY <2>1, <2>2, <3>1 DEF WillFold
  <2>. QED
    BY <2>4, <2>5
<1>. QED
  BY <1>1, <1>2, <1>3, <1>4, PlanStep

\* A response that shows latencies shows their average, unless one was being
\* recorded when it began, and the average lies between two of those recorded.
THEOREM LatencyHasAverage == Spec => []RecentLatencyShown
<1>1. Init => LatencyInv
  BY DEF Init, LatencyInv, Shown, NoPage, Scraping, Names, Counters
<1>2. ASSUME StoreInv, PlanInv, PageInv, LatencyInv, [Next]_vars PROVE LatencyInv'
  <2>1. /\ samples \subseteq samples' /\ samples' \subseteq Nat
        /\ ewma'.set => Between(ewma.us)'
        /\ ewma.set => ewma'.set
    <3>1. CASE UNCHANGED <<ewma, samples>>
      BY <1>2, <3>1 DEF LatencyInv, Between
    <3>2. ASSUME NEW us \in Nat, ewma' = Averaged(us), samples' = samples \cup {us}
          PROVE  /\ samples \subseteq samples' /\ samples' \subseteq Nat
                 /\ ewma'.set => Between(ewma.us)'
                 /\ ewma.set => ewma'.set
      BY <1>2, <3>2, AverageBetween DEF LatencyInv
    <3>. QED
      BY <1>2, <3>1, <3>2, AverageStep
  <2>2. registry'["delivery_latency_count"] # None => ewma'.set \/ WillFold(Forwarder)'
    BY <1>2, <2>1, RegisteredIsFolded, FoldIsDone DEF LatencyInv
  <2>3. \A us : Between(us) => us \in Nat /\ \E a, b \in samples' : a <= us /\ us <= b
    BY <2>1 DEF Between
  <2>4. CASE UNCHANGED pageVars
    BY <1>2, <2>1, <2>2, <2>3, <2>4 DEF LatencyInv, Shown, Scraping, Between, pageVars
  <2>5. CASE BeginScrape
    <3>1. page = NoPage /\ UNCHANGED page /\ unread' = Registered /\ settled' = ~Running(Forwarder)
      BY <1>2, <2>5 DEF BeginScrape, PageInv
    <3>2. settled' /\ "delivery_latency_count" \in unread' => ewma.set
      <4>1. settled' => ~WillFold(Forwarder)
        <5>1. left[Forwarder] = <<>> => ~WillFold(Forwarder)
          BY DEF WillFold
        <5>2. settled' => left[Forwarder] = <<>>
          BY <3>1 DEF Running
        <5>. QED
          BY <5>1, <5>2
      <4>. QED
        BY <1>2, <3>1, <4>1 DEF Registered, LatencyInv
    <3>. QED
      BY <2>1, <2>2, <3>1, <3>2 DEF LatencyInv, Shown, NoPage, Names, Counters
  <2>6. ASSUME NEW n \in Names, Load(n) PROVE LatencyInv'
    <3>1. /\ Scraping /\ n \in unread /\ unread' = unread \ {n} /\ ~page.complete
          /\ UNCHANGED settled
      BY <1>2, <2>6 DEF Load, PageInv
    <3>2. /\ page'.complete = page.complete
          /\ \A m \in Names : m # n => page'.shown[m] = page.shown[m]
      BY <1>2, <2>6 DEF Load, PageInv
    <3>3. settled /\ Shown("delivery_latency_count")' > 0 => ewma.set
      BY <1>2, <3>1, <3>2 DEF LatencyInv, Shown, Names, Counters
    <3>. QED
      BY <1>2, <2>1, <2>2, <3>1, <3>2, <3>3 DEF LatencyInv
  <2>7. CASE Compute
    <3>1. /\ Scraping /\ unread = {} /\ UNCHANGED <<unread, settled, ewma, samples>>
          /\ page'.shown = page.shown
          /\ page'.ewma = IF ShowAverage THEN ewma.us ELSE None
      BY <1>2, <2>7 DEF Compute, PageInv, deliveryVars, historyVars
    <3>2. settled /\ Shown("delivery_latency_count") > 0 => ShowAverage
      BY <1>2, <3>1 DEF LatencyInv, ShowAverage
    <3>3. ShowAverage => ewma.us # None /\ Between(ewma.us)
      BY <1>2 DEF LatencyInv, ShowAverage, Between
    <3>. QED
      BY <1>2, <2>1, <2>2, <2>3, <3>1, <3>2, <3>3 DEF LatencyInv, Shown, Between
  <2>8. CASE Respond
    BY <2>1, <2>2, <2>8 DEF Respond, LatencyInv, Shown, Scraping, NoPage, Names, Counters
  <2>. QED
    BY <1>2, <2>4, <2>5, <2>6, <2>7, <2>8, PageKinds DEF MetricsHandler
<1>3. LatencyInv => RecentLatencyShown
  BY DEF LatencyInv, RecentLatencyShown, Between
<1>. QED
  BY <1>1, <1>2, <1>3, StoreHolds, PlanHolds, PageHolds, PTL DEF Spec

-----------------------------------------------------------------------------
(* The depth gauge.  A depth that a goroutine holds is the present one, or     *)
(* older than one already stored, or another will still be read or stored.     *)

Gauge    == cell[registry["spool_depth"]]["spool_depth"]
Reads(g) == at[g] = "read"

\* A reportDepth is to come whose depth has not been read.
Owes(g) == \E i \in 1 .. Len(left[g]) : left[g][i].op = "report" /\ ~(i = 1 /\ Reads(g))

UpToDate(g) ==
    \/ value[g] = depth \/ g \in overtaken
    \/ \E h \in Goroutines : Owes(h) \/ <<g, h>> \in older

GaugeInv ==
    /\ older \subseteq Goroutines \X Goroutines
    /\ \A p \in older : p[1] # p[2] /\ Reads(p[1]) /\ Reads(p[2])
    /\ \A g \in Goroutines :
          Reads(g) => Running(g) /\ Current(g).op = "report" /\ UpToDate(g)
    /\ ~raced => Gauge = depth \/ \E g \in Goroutines : Owes(g) \/ Reads(g)

\* Steps that read and store no depth and leave it as it is.
LEMMA QuietKeepsGauge ==
    ASSUME GaugeInv, Gauge' = Gauge, UNCHANGED <<depth, value, older, overtaken, raced>>,
           \A g \in Goroutines : /\ Reads(g)' <=> Reads(g)
                                 /\ Owes(g) => Owes(g)'
                                 /\ Reads(g) => left'[g] = left[g]
    PROVE  GaugeInv'
<1>1. \A g \in Goroutines : Reads(g)' => Running(g)' /\ Current(g)'.op = "report"
  BY DEF GaugeInv, Running, Current
<1>2. \A g \in Goroutines : Reads(g)' => UpToDate(g)'
  BY DEF GaugeInv, UpToDate
<1>3. \A p \in older : p \in Goroutines \X Goroutines
  BY DEF GaugeInv
<1>. QED
  BY <1>1, <1>2, <1>3 DEF GaugeInv

\* The end of an operation gives up no report but the one that was read.
LEMMA OwesAfterTail ==
    ASSUME StoreInv, NEW g \in Goroutines, Running(g), left'[g] = Tail(left[g]),
           at'[g] = "begin", Reads(g) \/ Current(g).op # "report", Owes(g)
    PROVE  Owes(g)'
<1>. DEFINE s == left[g]
<1>1. s \in Seq(Ops) /\ s # <<>>
  BY DEF StoreInv, StoreTypeOK, Running
<1>2. /\ Len(s) \in Nat /\ Head(s) = s[1] /\ Len(Tail(s)) = Len(s) - 1
      /\ \A i \in 1 .. Len(Tail(s)) : Tail(s)[i] = s[i + 1]
  BY <1>1, TailIndexes
<1>3. PICK i \in 1 .. Len(s) : s[i].op = "report" /\ ~(i = 1 /\ Reads(g))
  BY DEF Owes
<1>. HIDE DEF s
<1>4. i # 1
  BY <1>2, <1>3 DEF Current, s
<1>5. i - 1 \in 1 .. Len(Tail(s)) /\ Tail(s)[i - 1].op = "report"
  BY <1>2, <1>3, <1>4
<1>. QED
  BY <1>5 DEF Owes, Reads, s

\* A goroutine gets a program.
LEMMA BeginsKeepsGauge ==
    ASSUME StoreInv, GaugeInv, NEW g \in Goroutines, Begins(g),
           \A h \in Goroutines \ {g} : left'[h] = left[h],
           UNCHANGED <<cell, registry, depth, at, value, older, overtaken, raced>>
    PROVE  GaugeInv'
<1>1. ~Reads(g) /\ ~Owes(g)
  <2>1. left[g] = <<>> /\ at[g] = "begin"
    BY DEF Begins, Running
  <2>. QED
    BY <2>1 DEF Reads, Owes
<1>2. \A h \in Goroutines : Reads(h)' <=> Reads(h)
  BY DEF Reads
<1>3. \A h \in Goroutines \ {g} : Owes(h) => Owes(h)'
  BY <1>2 DEF Owes
<1>4. Gauge' = Gauge
  BY DEF Gauge
<1>. QED
  BY <1>1, <1>2, <1>3, <1>4, QuietKeepsGauge

\* An operation that does not report ends.
LEMMA EndsKeepsGauge ==
    ASSUME StoreInv, GaugeInv, NEW g \in Goroutines,
           Running(g), ~Reads(g), Current(g).op # "report",
           left' = [left EXCEPT ![g] = Tail(left[g])], at' = [at EXCEPT ![g] = "begin"],
           Gauge' = Gauge, UNCHANGED <<depth, value, older, overtaken, raced>>
    PROVE  GaugeInv'
<1>1. /\ left'[g] = Tail(left[g]) /\ at'[g] = "begin"
      /\ \A h \in Goroutines \ {g} : left'[h] = left[h] /\ at'[h] = at[h]
  <2>. HIDE DEF Ops
  <2>. QED
    BY DEF StoreInv, StoreTypeOK
<1>2. \A h \in Goroutines : Reads(h)' <=> Reads(h)
  BY <1>1 DEF Reads
<1>3. \A h \in Goroutines \ {g} : Owes(h) => Owes(h)'
  BY <1>1, <1>2 DEF Owes
<1>4. Owes(g) => Owes(g)'
  BY <1>1, OwesAfterTail
<1>. QED
  BY <1>1, <1>2, <1>3, <1>4, QuietKeepsGauge

\* The depth changes: the report of it is still to come.
LEMMA ChangeKeepsGauge ==
    ASSUME StoreInv, PlanInv, GaugeInv, NEW g \in Goroutines, ChangeDepth(g)
    PROVE  GaugeInv'
<1>1. /\ Running(g) /\ at[g] = "begin" /\ Current(g).op = "depth"
      /\ left' = [left EXCEPT ![g] = Tail(left[g])] /\ at' = [at EXCEPT ![g] = "begin"]
      /\ UNCHANGED <<value, older, overtaken, raced>>
  BY DEF ChangeDepth, Completes, Doing, historyVars
<1>2. /\ left'[g] = Tail(left[g]) /\ at'[g] = "begin"
      /\ \A h \in Goroutines \ {g} : left'[h] = left[h] /\ at'[h] = at[h]
  <2>. HIDE DEF Ops
  <2>. QED
    BY <1>1 DEF StoreInv, StoreTypeOK
<1>3. Owes(g)'
  <2>. DEFINE s == left[g]
  <2>1. /\ s \in Seq(Ops) /\ s # <<>> /\ 1 \in 1 .. Len(s) /\ s[1].op = "depth"
    BY <1>1, TailIndexes DEF Running, Current, StoreInv, StoreTypeOK
  <2>2. PICK j \in 1 .. Len(s) : 1 < j /\ s[j].op = "report"
    BY <2>1 DEF PlanInv, GoodPlan, ReportsFollow
  <2>3. Owes(g)
    BY <2>2 DEF Owes
  <2>. QED
    BY <1>1, <1>2, <2>3, OwesAfterTail
<1>4. \A h \in Goroutines : Reads(h)' <=> Reads(h)
  BY <1>1, <1>2 DEF Reads
<1>5. \A h \in Goroutines : Reads(h)' => Running(h)' /\ Current(h)'.op = "report"
  BY <1>1, <1>2, <1>4 DEF GaugeInv, Running, Current, Reads
<1>6. \A p \in older : p \in Goroutines \X Goroutines
  BY DEF GaugeInv
<1>. QED
  BY <1>1, <1>3, <1>4, <1>5, <1>6 DEF GaugeInv, UpToDate

\* A depth is read: it is the present one, and those that are held are older.
LEMMA ReadKeepsGauge ==
    ASSUME StoreInv, GaugeInv, NEW g \in Goroutines, ReadDepth(g)
    PROVE  GaugeInv'
<1>1. /\ Running(g) /\ at[g] = "begin" /\ Current(g).op = "report"
      /\ at' = [at EXCEPT ![g] = "read"] /\ value' = [value EXCEPT ![g] = depth]
      /\ older' = older \cup {<<h, g>> : h \in {k \in Goroutines : at[k] = "read"}}
      /\ UNCHANGED <<cell, registry, depth, left, overtaken, raced>>
  BY DEF ReadDepth, Within, Doing, storeVars, spoolVars
<1>2. /\ at'[g] = "read" /\ value'[g] = depth
      /\ \A h \in Goroutines \ {g} : at'[h] = at[h] /\ value'[h] = value[h]
  BY <1>1 DEF StoreInv, StoreTypeOK
<1>3. ~Reads(g) /\ Reads(g)' /\ \A h \in Goroutines \ {g} : Reads(h)' <=> Reads(h)
  BY <1>1, <1>2 DEF Reads
<1>4. \A h \in Goroutines : Reads(h)' => Running(h)' /\ Current(h)'.op = "report"
  BY <1>1, <1>3 DEF GaugeInv, Running, Current
<1>5. \A h \in Goroutines : Reads(h)' => UpToDate(h)'
  <2>1. ASSUME NEW h \in Goroutines \ {g}, Reads(h) PROVE <<h, g>> \in older'
    BY <1>1, <2>1 DEF Reads
  <2>. QED
    BY <1>1, <1>2, <1>3, <2>1 DEF UpToDate
<1>6. \A p \in older' : p \in Goroutines \X Goroutines /\ p[1] # p[2] /\ Reads(p[1])' /\ Reads(p[2])'
  <2>1. ASSUME NEW p \in older
        PROVE  p \in Goroutines \X Goroutines /\ p[1] # p[2] /\ Reads(p[1])' /\ Reads(p[2])'
    BY <1>3 DEF GaugeInv
  <2>2. ASSUME NEW h \in Goroutines, at[h] = "read"
        PROVE  <<h, g>> \in Goroutines \X Goroutines /\ h # g /\ Reads(h)' /\ Reads(g)'
    BY <1>3, <2>2 DEF Reads
  <2>. QED
    BY <1>1, <2>1, <2>2
<1>. QED
  BY <1>3, <1>4, <1>5, <1>6 DEF GaugeInv

\* A depth is stored: what was read before it is overtaken.
LEMMA SetKeepsGauge ==
    ASSUME StoreInv, GaugeInv, NEW g \in Goroutines, SetGauge(g)
    PROVE  GaugeInv'
<1>1. /\ Running(g) /\ Reads(g) /\ Current(g).op = "report"
      /\ left' = [left EXCEPT ![g] = Tail(left[g])] /\ at' = [at EXCEPT ![g] = "begin"]
      /\ cell' = [cell EXCEPT ![registry[Current(g).name]][Current(g).name] = value[g]]
      /\ older' = {p \in older : g \notin {p[1], p[2]}}
      /\ overtaken' = (overtaken \cup {h \in Goroutines : <<h, g>> \in older}) \ {g}
      /\ raced' = (g \in overtaken)
      /\ UNCHANGED <<registry, depth, value>>
  BY DEF SetGauge, Completes, Doing, Reads, spoolVars
<1>2. /\ left'[g] = Tail(left[g]) /\ at'[g] = "begin"
      /\ \A h \in Goroutines \ {g} : left'[h] = left[h] /\ at'[h] = at[h]
  <2>. HIDE DEF Ops
  <2>. QED
    BY <1>1 DEF StoreInv, StoreTypeOK
<1>3. Gauge' = value[g]
  <2>1. Current(g).name = "spool_depth"
    BY <1>1, CurrentIsOp DEF StoreInv
  <2>. QED
    BY <1>1, <2>1 DEF Gauge, StoreInv, StoreTypeOK, Names
<1>4. ~Reads(g)' /\ \A h \in Goroutines \ {g} : Reads(h)' <=> Reads(h)
  BY <1>2 DEF Reads
<1>5. \A h \in Goroutines : Owes(h) => Owes(h)'
  BY <1>1, <1>2, <1>4, OwesAfterTail DEF Owes
<1>6. \A h \in Goroutines : Reads(h)' => Running(h)' /\ Current(h)'.op = "report"
  BY <1>2, <1>4 DEF GaugeInv, Running, Current
<1>7. ASSUME NEW h \in Goroutines, Reads(h)' PROVE UpToDate(h)'
  <2>1. h # g /\ UpToDate(h)
    BY <1>4, <1>7 DEF GaugeInv
  <2>2. h \in overtaken => h \in overtaken'
    BY <1>1, <2>1
  <2>3. ASSUME NEW k \in Goroutines, <<h, k>> \in older
        PROVE  h \in overtaken' \/ <<h, k>> \in older'
    BY <1>1, <2>1, <2>3
  <2>. QED
    BY <1>1, <1>5, <2>1, <2>2, <2>3 DEF UpToDate
<1>8. \A p \in older' : p \in Goroutines \X Goroutines /\ p[1] # p[2] /\ Reads(p[1])' /\ Reads(p[2])'
  BY <1>1, <1>4 DEF GaugeInv
<1>9. ~raced' => Gauge' = depth' \/ \E h \in Goroutines : Owes(h)' \/ Reads(h)'
  <2>. SUFFICES ASSUME ~raced', Gauge' # depth'
                PROVE  \E h \in Goroutines : Owes(h)' \/ Reads(h)'
    OBVIOUS
  <2>1. g \notin overtaken /\ value[g] # depth
    BY <1>1, <1>3
  <2>2. PICK h \in Goroutines : Owes(h) \/ <<g, h>> \in older
    BY <1>1, <2>1 DEF GaugeInv, UpToDate
  <2>3. CASE <<g, h>> \in older
    <3>1. h # g /\ Reads(h)
      BY <2>3 DEF GaugeInv
    <3>. QED
      BY <1>4, <3>1
  <2>. QED
    BY <1>5, <2>2, <2>3
<1>. QED
  BY <1>4, <1>6, <1>7, <1>8, <1>9 DEF GaugeInv

LEMMA OperationKeepsGauge ==
    ASSUME StoreInv, PlanInv, GaugeInv, NEW g \in Goroutines, Operation(g)
    PROVE  GaugeInv'
<1>1. CASE LookUp(g) \/ Register(g)
  <2>1. /\ Running(g) /\ Current(g).op = "count" /\ UNCHANGED left
        /\ at[g] \in {"begin", "missing"}
        /\ at' = [at EXCEPT ![g] = at'[g]] /\ at'[g] \in {"missing", "found"}
        /\ UNCHANGED <<cell, depth, value, older, overtaken, raced>>
    BY <1>1 DEF LookUp, Register, Within, Doing, storeVars, spoolVars, StoreInv, StoreTypeOK
  <2>2. \A h \in Goroutines : Reads(h)' <=> Reads(h)
    BY <2>1 DEF Reads, StoreInv, StoreTypeOK
  <2>3. \A h \in Goroutines : Owes(h) => Owes(h)'
    BY <2>1, <2>2 DEF Owes
  <2>4. registry'["spool_depth"] = registry["spool_depth"]
    <3>1. Current(g).name \in Counters
      BY <2>1, CurrentIsOp DEF StoreInv
    <3>. QED
      BY <1>1, <3>1 DEF LookUp, Register, storeVars, StoreInv, StoreTypeOK, Counters, Names
  <2>5. Gauge' = Gauge
    BY <2>1, <2>4 DEF Gauge
  <2>. QED
    BY <2>1, <2>2, <2>3, <2>5, QuietKeepsGauge
<1>2. CASE Add(g)
  <2>1. /\ Running(g) /\ at[g] = "found" /\ Current(g).op = "count"
        /\ left' = [left EXCEPT ![g] = Tail(left[g])] /\ at' = [at EXCEPT ![g] = "begin"]
        /\ UNCHANGED <<registry, depth, value, older, overtaken, raced>>
        /\ cell' = [cell EXCEPT ![pointer[g]][Current(g).name] = @ + Current(g).by]
    BY <1>2 DEF Add, Completes, Doing, spoolVars
  <2>2. Current(g).name # "spool_depth"
    BY <2>1, CurrentIsOp DEF StoreInv, Counters
  <2>3. Gauge' = Gauge
    BY <2>1, <2>2 DEF Gauge, StoreInv, StoreTypeOK, Names
  <2>. QED
    BY <2>1, <2>3, EndsKeepsGauge DEF Reads
<1>3. CASE Commit(g) \/ StampDelivery(g) \/ FoldLatency(g)
  <2>1. /\ Running(g) /\ at[g] = "begin" /\ Current(g).op # "report"
        /\ left' = [left EXCEPT ![g] = Tail(left[g])] /\ at' = [at EXCEPT ![g] = "begin"]
        /\ UNCHANGED <<cell, registry, depth, value, older, overtaken, raced>>
    BY <1>3 DEF Commit, StampDelivery, FoldLatency, Completes, Doing, spoolVars, historyVars
  <2>. QED
    BY <2>1, EndsKeepsGauge DEF Reads, Gauge
<1>. QED
  BY <1>1, <1>2, <1>3, ChangeKeepsGauge, ReadKeepsGauge, SetKeepsGauge DEF Operation

\* When nothing is under way the gauge shows the depth, except after two calls of
\* reportDepth that stored in another order than they read.
THEOREM GaugeExact == Spec => []GaugeExactUnlessRaced
<1>1. ASSUME Init PROVE GaugeInv
  <2>1. \A g \in Goroutines : ~Reads(g)
    BY <1>1 DEF Init, Reads
  <2>2. Gauge = depth
    BY <1>1 DEF Init, Gauge, Names, Goroutines
  <2>. QED
    BY <1>1, <2>1, <2>2 DEF Init, GaugeInv
<1>2. ASSUME StoreInv, PlanInv, GaugeInv, [Next]_vars PROVE GaugeInv'
  <2>1. CASE (\E h \in Handlers : Call(h)) \/ Forward
    <3>1. PICK g \in Goroutines : \/ g \in Handlers /\ Call(g)
                                  \/ g = Forwarder /\ Forward
      BY <2>1 DEF Goroutines
    <3>2. /\ \A h \in Goroutines \ {g} : left'[h] = left[h]
          /\ UNCHANGED <<cell, registry, depth, at, value, older, overtaken, raced>>
      BY <1>2, <3>1 DEF Call, Forward, storeVars, spoolVars, historyVars, StoreInv, StoreTypeOK
    <3>3. CASE left'[g] = left[g]
      BY <1>2, <3>2, <3>3, QuietKeepsGauge DEF Reads, Owes, Gauge
    <3>4. CASE Begins(g)
      BY <1>2, <3>2, <3>4, BeginsKeepsGauge
    <3>5. ~Finishes(g)
      BY <1>2, <3>1 DEF Finishes, Call, Forward, StoreInv, RestsAtBegin
    <3>. QED
      BY <1>2, <3>3, <3>4, <3>5, PlanStep
  <2>2. CASE \E g \in Goroutines : Operation(g)
    BY <1>2, <2>2, OperationKeepsGauge
  <2>3. CASE MetricsHandler \/ UNCHANGED vars
    <3>1. UNCHANGED <<cell, registry, depth, at, left, value, older, overtaken, raced>>
      BY <2>3 DEF MetricsHandler, BeginScrape, Load, Compute, Respond, vars, storeVars,
         spoolVars, goroutineVars, historyVars
    <3>. QED
      BY <1>2, <3>1, QuietKeepsGauge DEF Reads, Owes, Gauge
  <2>. QED
    BY <1>2, <2>1, <2>2, <2>3 DEF Next
<1>3. ASSUME StoreInv, GaugeInv PROVE GaugeExactUnlessRaced
  <2>. SUFFICES ASSUME \A g \in Goroutines : ~Running(g), ~raced PROVE Gauge = depth
    BY DEF GaugeExactUnlessRaced, Gauge
  <2>1. \A g \in Goroutines : ~Reads(g) /\ left[g] = <<>>
    BY <1>3 DEF StoreInv, RestsAtBegin, Reads, Running
  <2>2. \A g \in Goroutines : ~Owes(g)
    BY <2>1 DEF Owes
  <2>. QED
    BY <1>3, <2>1, <2>2 DEF GaugeInv
<1>. QED
  BY <1>1, <1>2, <1>3, StoreHolds, PlanHolds, PTL DEF Spec

=============================================================================
