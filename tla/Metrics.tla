------------------------------ MODULE Metrics ------------------------------
(***************************************************************************)
(* The in-memory metrics of internal/adapters/metrics.go: named counters   *)
(* and gauges that are registered on first use, the time of the last       *)
(* delivery, the latency averages, and the /metrics handler that reads     *)
(* them while request goroutines and the spool's forwarder go on.          *)
(*                                                                         *)
(* What a goroutine does to them is a program, the sequence of operations  *)
(* that its code performs: of Enqueue and its handler, and of forwardOldest*)
(* and its hooks in cmd/gateway/main.go.  The spool is reduced to its      *)
(* depth counter; module Spool has the rest.  Left out: uptime, the names  *)
(* that are used like the ones here (rejects, dead letters, failures), and *)
(* that RWMutex lets a waiting writer go before new readers.               *)
(***************************************************************************)
EXTENDS Integers, Sequences

CONSTANTS
    Handlers,     \* calls of /process, one Enqueue each
    Latencies,    \* queue times of deliveries, in units of 0.1 microseconds
    Forwarder,    \* the one goroutine of spool.Run
    None

Goroutines == Handlers \cup {Forwarder}

Counters == {"signals_processed", "signals_forwarded",
             "delivery_latency_ms_sum", "delivery_latency_count"}
Names == Counters \cup {"spool_depth"}

ASSUME MetricsAssumption ==
    /\ Latencies \subseteq Nat
    /\ Forwarder \notin Handlers
    /\ None \notin Handlers \cup {Forwarder} /\ None \notin Nat
    /\ \A S \in SUBSET Names : None # S

VARIABLES
    \* metricsStore: whose cell a name refers to, and what the cells hold.
    registry, cell,
    \* The other package variables.
    lastDelivery,   \* lastDeliveryUnixNano is set
    ewma,           \* ewmaInitialized, ewmaValueMs (here in microseconds)
    \* struct Spool.
    depth,
    ready,          \* signals in the directory that the forwarder has not taken
    \* The goroutines.
    left,           \* operations still to do, the current one first
    started,        \* the handlers that were called
    at,             \* step within the current operation
    pointer,        \* the cell found or registered
    value,          \* the depth read by reportDepth
    \* MetricsHandler.
    unread,         \* the names it has still to load, None when it is not running
    settled,        \* no delivery was being recorded when it began
    page,           \* the response so far
    \* History.
    counted,        \* per counter: the sum of the values added to it
    samples,        \* what has been folded into the EWMA
    older,          \* <<g, h>>: g and h hold a depth, and g read its own first
    overtaken,      \* goroutines whose depth is older than one already stored
    raced           \* the last store to the depth gauge was of such a depth

storeVars     == <<registry, cell>>
deliveryVars  == <<lastDelivery, ewma>>
spoolVars     == <<depth, ready>>
goroutineVars == <<left, started, at, pointer, value>>
pageVars      == <<unread, settled, page>>
historyVars   == <<counted, samples, older, overtaken, raced>>
vars == <<storeVars, deliveryVars, spoolVars, goroutineVars, pageVars, historyVars>>

Running(g) == left[g] # <<>>
Current(g) == Head(left[g])
Scraping   == unread # None

-----------------------------------------------------------------------------
(* The programs *)

Count(name, n) == [op |-> "count", name |-> name, by |-> n]
Changes(n)     == [op |-> "depth", name |-> "spool_depth", by |-> n]
Commits        == [op |-> "commit", name |-> "spool_depth", by |-> 1]
reportDepth    == [op |-> "report", name |-> "spool_depth", by |-> 0]
Stamp          == [op |-> "stamp", name |-> "none", by |-> 0]
Fold(n)        == [op |-> "fold", name |-> "none", by |-> n]

DecDepthReportsFirst == <<reportDepth, Changes(-1)>>  \* variant: a swapped order

decDepth == <<Changes(-1), reportDepth>>

\* Enqueue, and what the handler counts: a signal in the queue, or an Enqueue
\* that was rolled back.
Queued     == <<Changes(1), Commits, reportDepth, Count("signals_processed", 1)>>
RolledBack == <<Changes(1)>> \o decDepth

Latency(q) ==
    IF q = 0 THEN <<>>
    ELSE <<Count("delivery_latency_ms_sum", q \div 10000),
           Count("delivery_latency_count", 1),
           Fold(q \div 10)>>

\* Variant: the time is stored after the counter.
RecordDeliveryStampsLast(q) == <<Count("signals_forwarded", 1), Stamp>> \o Latency(q)

RecordDelivery(q) == <<Stamp, Count("signals_forwarded", 1)>> \o Latency(q)

\* forwardOldest once the file is gone, and deadLetter.
Delivered(q) == decDepth \o RecordDelivery(q)
DeadLettered == decDepth

\* A name that is not in the response reads as 0, like a key missing from a map.
NoPage == [shown |-> [n \in Names |-> 0], complete |-> FALSE, dated |-> FALSE, ewma |-> None]

Init ==
    \* New has reported the depth of an empty directory.
    /\ registry = [n \in Names |-> IF n = "spool_depth" THEN Forwarder ELSE None]
    /\ cell = [g \in Goroutines |-> [n \in Names |-> 0]]
    /\ lastDelivery = FALSE /\ ewma = [set |-> FALSE, us |-> 0]
    /\ depth = 0 /\ ready = 0
    /\ left = [g \in Goroutines |-> <<>>] /\ started = {}
    /\ at = [g \in Goroutines |-> "begin"]
    /\ pointer = [g \in Goroutines |-> None] /\ value = [g \in Goroutines |-> 0]
    /\ unread = None /\ settled = TRUE
    /\ page = NoPage
    /\ counted = [n \in Counters |-> 0] /\ samples = {}
    /\ older = {} /\ overtaken = {} /\ raced = FALSE

Call(h) ==
    /\ h \notin started /\ started' = started \cup {h}
    /\ \E program \in {Queued, RolledBack} : left' = [left EXCEPT ![h] = program]
    /\ UNCHANGED <<storeVars, deliveryVars, spoolVars, at, pointer, value, pageVars, historyVars>>

Forward ==
    /\ ~Running(Forwarder) /\ ready > 0
    /\ ready' = ready - 1
    /\ \E program \in {DeadLettered} \cup {Delivered(q) : q \in Latencies} :
          left' = [left EXCEPT ![Forwarder] = program]
    /\ UNCHANGED <<storeVars, deliveryVars, depth, started, at, pointer, value, pageVars,
                   historyVars>>

-----------------------------------------------------------------------------
(* The operations.  Within(g, ops, from, to) is a step inside the current    *)
(* operation, Completes(g, ops, from) its last one.                          *)

Doing(g, ops, from) == Running(g) /\ Current(g).op \in ops /\ at[g] = from

Within(g, ops, from, to) ==
    /\ Doing(g, ops, from)
    /\ at' = [at EXCEPT ![g] = to]
    /\ UNCHANGED <<deliveryVars, spoolVars, left, started, pageVars, counted, samples>>

Completes(g, ops, from) ==
    /\ Doing(g, ops, from)
    /\ at' = [at EXCEPT ![g] = "begin"]
    /\ left' = [left EXCEPT ![g] = Tail(@)]
    /\ UNCHANGED <<registry, started, value, pageVars>>

\* Under s.mu: a reservation, or decDepth's decrement; then the rename.
ChangeDepth(g) ==
    /\ Completes(g, {"depth"}, "begin")
    /\ depth' = depth + Current(g).by
    /\ UNCHANGED <<cell, pointer, deliveryVars, ready, historyVars>>

Commit(g) ==
    /\ Completes(g, {"commit"}, "begin")
    /\ ready' = ready + 1
    /\ UNCHANGED <<cell, pointer, deliveryVars, depth, historyVars>>

\* s.Depth(), the argument of the hook OnDepth.
ReadDepth(g) ==
    /\ Within(g, {"report"}, "begin", "read")
    /\ value' = [value EXCEPT ![g] = depth]
    /\ older' = older \cup {<<h, g>> : h \in {k \in Goroutines : at[k] = "read"}}
    /\ UNCHANGED <<storeVars, pointer, overtaken, raced>>

\* RecordMetric: the look under the read lock ...
LookUp(g) ==
    /\ Running(g)
    /\ LET found == registry[Current(g).name]
       IN  /\ Within(g, {"count"}, "begin", IF found = None THEN "missing" ELSE "found")
           /\ pointer' = [pointer EXCEPT ![g] = found]
    /\ UNCHANGED <<storeVars, value, older, overtaken, raced>>

\* Variant: no second look under the write lock.
RegisterBlindly(g) ==
    /\ Within(g, {"count"}, "missing", "found")
    /\ ~Scraping
    /\ registry' = [registry EXCEPT ![Current(g).name] = g]
    /\ pointer' = [pointer EXCEPT ![g] = g]
    /\ UNCHANGED <<cell, value, older, overtaken, raced>>

\* ... and, if there was nothing, under the write lock another look and perhaps
\* a new cell.  It waits for a scrape, which holds the read lock to its end.
Register(g) ==
    /\ Within(g, {"count"}, "missing", "found")
    /\ ~Scraping
    /\ LET name  == Current(g).name
           owner == IF registry[name] = None THEN g ELSE registry[name]
       IN  /\ registry' = [registry EXCEPT ![name] = owner]
           /\ pointer' = [pointer EXCEPT ![g] = owner]
    /\ UNCHANGED <<cell, value, older, overtaken, raced>>

\* atomic.AddInt64, after the locks are released.
Add(g) ==
    /\ Completes(g, {"count"}, "found")
    /\ cell' = [cell EXCEPT ![pointer[g]][Current(g).name] = @ + Current(g).by]
    /\ counted' = [counted EXCEPT ![Current(g).name] = @ + Current(g).by]
    /\ pointer' = [pointer EXCEPT ![g] = None]
    /\ UNCHANGED <<deliveryVars, spoolVars, samples, older, overtaken, raced>>

\* SetGauge: New has registered the gauge before there is a second goroutine,
\* so that its look always finds it.
SetGauge(g) ==
    /\ Completes(g, {"report"}, "read")
    /\ cell' = [cell EXCEPT ![registry[Current(g).name]][Current(g).name] = value[g]]
    /\ UNCHANGED pointer
    /\ older' = {p \in older : g \notin {p[1], p[2]}}
    /\ overtaken' = (overtaken \cup {h \in Goroutines : <<h, g>> \in older}) \ {g}
    /\ raced' = (g \in overtaken)
    /\ UNCHANGED <<deliveryVars, spoolVars, counted, samples>>

StampDelivery(g) ==
    /\ Completes(g, {"stamp"}, "begin")
    /\ lastDelivery' = TRUE
    /\ UNCHANGED <<cell, pointer, ewma, spoolVars, historyVars>>

\* alpha is 0.2; the first sample is taken as it is.
Averaged(us) ==
    [set |-> TRUE, us |-> IF ewma.set THEN (us + 4 * ewma.us) \div 5 ELSE us]

\* updateDeliveryLatencyEWMA, under ewmaMu.
FoldLatency(g) ==
    /\ Completes(g, {"fold"}, "begin")
    /\ ewma' = Averaged(Current(g).by)
    /\ samples' = samples \cup {Current(g).by}
    /\ UNCHANGED <<cell, pointer, lastDelivery, spoolVars, counted, older, overtaken, raced>>

Operation(g) ==
    \/ ChangeDepth(g) \/ Commit(g) \/ ReadDepth(g) \/ LookUp(g) \/ Register(g)
    \/ Add(g) \/ SetGauge(g) \/ StampDelivery(g) \/ FoldLatency(g)

-----------------------------------------------------------------------------
(* MetricsHandler, which holds the read lock throughout *)

Registered == {n \in Names : registry[n] # None}

BeginScrape ==
    /\ ~Scraping
    /\ unread' = Registered
    /\ settled' = ~Running(Forwarder)
    /\ UNCHANGED <<storeVars, deliveryVars, spoolVars, goroutineVars, page, historyVars>>

\* Each value is loaded for itself: the counters in the order of a map, that is
\* in any, then the gauges.
Load(n) ==
    /\ Scraping /\ n \in unread
    /\ n \in Counters \/ unread \cap Counters = {}
    /\ unread' = unread \ {n}
    /\ page' = [page EXCEPT !.shown[n] = cell[registry[n]][n]]
    /\ UNCHANGED <<storeVars, deliveryVars, spoolVars, goroutineVars, settled, historyVars>>

Shown(n) == page.shown[n]

\* Variant: the EWMA's zero stands for "no sample yet".
ShowAverageUnlessZero == Shown("delivery_latency_count") > 0 /\ ewma.us # 0

ShowAverage == Shown("delivery_latency_count") > 0 /\ ewma.set

\* seconds_since_last_delivery and the averages, computed from what was loaded.
Compute ==
    /\ Scraping /\ unread = {} /\ ~page.complete
    /\ page' = [page EXCEPT !.complete = TRUE,
                            !.dated = lastDelivery,
                            !.ewma  = IF ShowAverage THEN ewma.us ELSE None]
    /\ UNCHANGED <<storeVars, deliveryVars, spoolVars, goroutineVars, unread, settled, historyVars>>

\* The response is encoded and the read lock released.
Respond ==
    /\ page.complete
    /\ unread' = None /\ settled' = TRUE /\ page' = NoPage
    /\ UNCHANGED <<storeVars, deliveryVars, spoolVars, goroutineVars, historyVars>>

MetricsHandler == BeginScrape \/ (\E n \in Names : Load(n)) \/ Compute \/ Respond

Next ==
    \/ \E h \in Handlers : Call(h)
    \/ Forward
    \/ \E g \in Goroutines : Operation(g)
    \/ MetricsHandler

Spec == Init /\ [][Next]_vars

-----------------------------------------------------------------------------
(* Properties *)

\* No update is lost to the first use of a name by several goroutines: what
\* the registered cell holds is the sum of all that was added.
CountersExact ==
    \A n \in Counters :
        counted[n] = IF registry[n] = None THEN 0 ELSE cell[registry[n]][n]

\* Once a response shows a forwarded signal it also shows how long ago the last
\* one was, although counters and time are read and written apart.
ForwardedIsDated ==
    page.complete /\ Shown("signals_forwarded") > 0 => page.dated

\* A response that shows latencies shows their EWMA, also when all of them
\* were shorter than a microsecond, unless one was just being recorded; and the
\* EWMA lies between the shortest and the longest of them.
RecentLatencyShown ==
    page.complete /\ settled /\ Shown("delivery_latency_count") > 0 =>
        /\ page.ewma # None
        /\ \E a, b \in samples : a <= page.ewma /\ page.ewma <= b

\* When nothing is under way, the depth gauge is the depth, unless two calls of
\* reportDepth stored their values in another order than they read them.
GaugeExactUnlessRaced ==
    (\A g \in Goroutines : ~Running(g)) /\ ~raced =>
        cell[registry["spool_depth"]]["spool_depth"] = depth

=============================================================================
