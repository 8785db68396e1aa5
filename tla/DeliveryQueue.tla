--------------------------- MODULE DeliveryQueue ---------------------------
(***************************************************************************)
(* What the spool promises its callers, without files, names, counters or  *)
(* goroutines: an at-least-once queue with a dead-letter store.  A signal  *)
(* that was promised (202 Accepted) is from then on held, handed over or   *)
(* buried, and a host failure may undo only what was never promised or     *)
(* bring back what was already handed over.                                *)
(***************************************************************************)
CONSTANT Signals

VARIABLES
    held,       \* queued for delivery
    promised,   \* the caller was told that the signal is queued
    handed,     \* the destination confirmed it at least once
    buried      \* kept as a dead letter

vars == <<held, promised, handed, buried>>

Init == held = {} /\ promised = {} /\ handed = {} /\ buried = {}

Take(s) ==
    /\ s \notin held \cup buried
    /\ held' = held \cup {s}
    /\ UNCHANGED <<promised, handed, buried>>

Promise(s) ==
    /\ s \in held \cup handed \cup buried
    /\ promised' = promised \cup {s}
    /\ UNCHANGED <<held, handed, buried>>

HandOver(s) ==
    /\ s \in held
    /\ handed' = handed \cup {s}
    /\ UNCHANGED <<held, promised, buried>>

Discharge(s) ==
    /\ s \in held \cap handed
    /\ held' = held \ {s}
    /\ UNCHANGED <<promised, handed, buried>>

SetAside(s) ==
    /\ s \in held
    /\ held' = held \ {s}
    /\ buried' = buried \cup {s}
    /\ UNCHANGED <<promised, handed>>

HostFails ==
    /\ held' \subseteq Signals /\ buried' \subseteq Signals
    /\ held' \cap buried' = {}
    /\ promised \ handed \subseteq held' \cup buried'
    /\ UNCHANGED <<promised, handed>>

Next ==
    \/ \E s \in Signals : Take(s) \/ Promise(s) \/ HandOver(s) \/ Discharge(s) \/ SetAside(s)
    \/ HostFails

Spec == Init /\ [][Next]_vars

\* The promise itself.
PromiseKept == promised \subseteq held \cup handed \cup buried

=============================================================================
