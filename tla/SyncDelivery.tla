---------------------------- MODULE SyncDelivery ----------------------------
(***************************************************************************)
(* /process without a spool, in middleware mode with the egress audit log  *)
(* on: processTransaction of cmd/gateway/main.go, forwardWithRetry of      *)
(* internal/adapters/outbound.go and auditingSyncForward of                *)
(* cmd/gateway/audit.go.  Every call is a goroutine of net/http; they      *)
(* share the audit log, its health counter and the metrics.                *)
(*                                                                         *)
(* Time is per call, in ticks of 250 ms since net/http read its header,    *)
(* which is when the WriteTimeout of the server starts to run.  What takes *)
(* no time to speak of (anonymizing, signing, encoding) takes no tick.     *)
(***************************************************************************)
EXTENDS Naturals, FiniteSets

CONSTANTS
    Calls,           \* HTTP requests to /process
    Transaction,     \* of each call: a caller's retry carries the same bytes
    MaxRetries,      \* 2 in main
    AttemptTimeout,  \* hubClient.Timeout, 2.5 s
    WriteTimeout,    \* of the server, 10 s
    BodyTicks,       \* what reading a body may take; ReadTimeout bounds it
    AttemptTicks,    \* what an attempt may take
    AuditTicks       \* what an audit write may take

ASSUME SyncAssumption ==
    /\ IsFiniteSet(Calls) /\ DOMAIN Transaction = Calls
    /\ {MaxRetries, AttemptTimeout, WriteTimeout} \subseteq Nat
    /\ BodyTicks \subseteq Nat /\ AuditTicks \subseteq Nat
    /\ AttemptTicks \subseteq 0 .. AttemptTimeout

VARIABLES
    \* Each call.
    pc, attempt, elapsed,
    gone,       \* its client has disconnected: r.Context() is cancelled
    answer,     \* what its client saw: a status, or "none" after WriteTimeout
    \* Shared by the calls.
    auditFailures,  \* auditHealth.failures
    metrics,        \* the counters of /metrics that the calls add to
    \* The vendor and the audit log, per transaction.
    received,   \* history: times the vendor took the payload, answered or not
    confirmed,  \* history: times it answered 200 or 201
    records     \* lines of the audit log

callVars   == <<pc, attempt, elapsed, gone, answer>>
sharedVars == <<auditFailures, metrics>>
worldVars  == <<received, confirmed, records>>
vars == <<callVars, sharedVars, worldVars>>

Transactions == {Transaction[c] : c \in Calls}
Counters == {"signals_forwarded", "signals_processed", "forward_failures",
             "audit_write_failures"}
Steps    == {"new", "attempt", "backoff", "audit", "recorded", "unrecorded",
             "deliver_ok", "deliver_failed", "done"}
Answers  == {"pending", "refused", "ok", "bad_gateway", "none"}

TypeOK ==
    /\ pc \in [Calls -> Steps]
    /\ attempt \in [Calls -> 0 .. MaxRetries]
    /\ elapsed \in [Calls -> Nat]
    /\ gone \in [Calls -> BOOLEAN]
    /\ answer \in [Calls -> Answers]
    /\ auditFailures \in Nat
    /\ metrics \in [Counters -> Nat]
    /\ {received, confirmed, records} \subseteq [Transactions -> Nat]

Init ==
    /\ pc = [c \in Calls |-> "new"] /\ attempt = [c \in Calls |-> 0]
    /\ elapsed = [c \in Calls |-> 0] /\ gone = [c \in Calls |-> FALSE]
    /\ answer = [c \in Calls |-> "pending"]
    /\ auditFailures = 0
    /\ metrics = [m \in Counters |-> 0]
    /\ received = [t \in Transactions |-> 0]
    /\ confirmed = received /\ records = received

Increased(count, key) == [count EXCEPT ![key] = @ + 1]

RecordMetric(name) == metrics' = Increased(metrics, name)

\* One step of call c, taking some of the given ticks.
Goes(c, from, to, ticks) ==
    /\ pc[c] = from
    /\ pc' = [pc EXCEPT ![c] = to]
    /\ \E n \in ticks : elapsed' = [elapsed EXCEPT ![c] = @ + n]
    /\ UNCHANGED gone

-----------------------------------------------------------------------------
(* processTransaction up to the delivery                                     *)

Admit(c) ==
    /\ Goes(c, "new", "attempt", BodyTicks)
    /\ UNCHANGED <<attempt, answer, sharedVars, worldVars>>

\* 401, 405, 400, 413 and, when there is no entropy for a signal_id, 500:
\* nothing has left the gateway.
Refuse(c) ==
    /\ Goes(c, "new", "done", BodyTicks)
    /\ answer' = [answer EXCEPT ![c] = "refused"]
    /\ UNCHANGED <<attempt, sharedVars, worldVars>>

\* The client hangs up, or its connection breaks.
Disconnect(c) ==
    /\ pc[c] \notin {"new", "done"} /\ ~gone[c]
    /\ gone' = [gone EXCEPT ![c] = TRUE]
    /\ UNCHANGED <<pc, attempt, elapsed, answer, sharedVars, worldVars>>

-----------------------------------------------------------------------------
(* ForwardPayload, one attempt, and the loop of forwardWithRetry around it   *)

AttemptOk(c) ==
    /\ ~gone[c]
    /\ Goes(c, "attempt", "audit", AttemptTicks)
    /\ received' = Increased(received, Transaction[c])
    /\ confirmed' = Increased(confirmed, Transaction[c])
    /\ RecordMetric("signals_forwarded")
    /\ UNCHANGED <<attempt, answer, auditFailures, records>>

\* A 4xx other than 429, or a destination, key or secret that is not set.
AttemptPermanent(c) ==
    /\ Goes(c, "attempt", "deliver_failed", AttemptTicks)
    /\ UNCHANGED <<attempt, answer, sharedVars, worldVars>>

\* The attempts are numbered from 0 to maxRetries.
AfterRetryable(c) == IF attempt[c] < MaxRetries THEN "backoff" ELSE "deliver_failed"

\* No answer in time, a broken connection, a cancelled context, 429 or any
\* other status; the vendor may have taken the payload all the same.
AttemptRetryable(c) ==
    /\ Goes(c, "attempt", AfterRetryable(c), AttemptTicks)
    /\ \/ UNCHANGED received
       \/ ~gone[c] /\ received' = Increased(received, Transaction[c])
    /\ UNCHANGED <<attempt, answer, sharedVars, confirmed, records>>

LongBackoff(c) == 2 ^ (attempt[c] + 3)  \* variant: backs off from 2 s

\* 250<<(i-1) ms before attempt i.
Backoff(c) == 2 ^ attempt[c]

\* Variant: the loop does not count.
RetryUncounted(c) ==
    /\ Goes(c, "backoff", "attempt", {0})
    /\ UNCHANGED <<attempt, answer, sharedVars, worldVars>>

Retry(c) ==
    /\ Goes(c, "backoff", "attempt", {Backoff(c)})
    /\ attempt' = Increased(attempt, c)
    /\ UNCHANGED <<answer, sharedVars, worldVars>>

\* ctx.Done() in the select over the back-off.
CancelledInBackoff(c) ==
    /\ gone[c]
    /\ Goes(c, "backoff", "deliver_failed", 0 .. Backoff(c))
    /\ UNCHANGED <<attempt, answer, sharedVars, worldVars>>

-----------------------------------------------------------------------------
(* auditingSyncForward after a confirmed delivery                            *)

\* Logger.Record, under the logger's mutex.  It does not look at the context.
AuditWrite(c) ==
    /\ Goes(c, "audit", "recorded", AuditTicks)
    /\ records' = Increased(records, Transaction[c])
    /\ UNCHANGED <<attempt, answer, sharedVars, received, confirmed>>

\* Variant: the write is retried by delivering again.
AuditFailureRedelivers(c) ==
    /\ Goes(c, "audit", "attempt", AuditTicks)
    /\ RecordMetric("audit_write_failures")
    /\ UNCHANGED <<attempt, answer, auditFailures, received, confirmed, records>>

AuditWriteFails(c) ==
    /\ Goes(c, "audit", "unrecorded", AuditTicks)
    /\ UNCHANGED <<attempt, answer, sharedVars, received, confirmed, records>>

\* The health counter has a mutex of its own, taken after the logger's.
RecordSuccess(c) ==
    /\ Goes(c, "recorded", "deliver_ok", {0})
    /\ auditFailures' = 0
    /\ UNCHANGED <<attempt, answer, metrics, worldVars>>

\* Variant: the error is only logged, and no metric tells of it.
FailureUncounted(c) ==
    /\ Goes(c, "unrecorded", "deliver_failed", {0})
    /\ auditFailures' = auditFailures + 1
    /\ UNCHANGED <<attempt, answer, metrics, worldVars>>

\* Variant: the delivery is reported a success.
FailureSwallowed(c) ==
    /\ Goes(c, "unrecorded", "deliver_ok", {0})
    /\ RecordMetric("audit_write_failures")
    /\ auditFailures' = auditFailures + 1
    /\ UNCHANGED <<attempt, answer, worldVars>>

RecordFailure(c) ==
    /\ Goes(c, "unrecorded", "deliver_failed", {0})
    /\ RecordMetric("audit_write_failures")
    /\ auditFailures' = auditFailures + 1
    /\ UNCHANGED <<attempt, answer, worldVars>>

-----------------------------------------------------------------------------
(* The answer                                                                *)

\* After WriteTimeout the response is written to a dead connection.
Seen(c, status) == IF gone[c] \/ elapsed[c] > WriteTimeout THEN "none" ELSE status

ReplyOk(c) ==
    /\ Goes(c, "deliver_ok", "done", {0})
    /\ RecordMetric("signals_processed")
    /\ answer' = [answer EXCEPT ![c] = Seen(c, "ok")]
    /\ UNCHANGED <<attempt, auditFailures, worldVars>>

ReplyBadGateway(c) ==
    /\ Goes(c, "deliver_failed", "done", {0})
    /\ RecordMetric("forward_failures")
    /\ answer' = [answer EXCEPT ![c] = Seen(c, "bad_gateway")]
    /\ UNCHANGED <<attempt, auditFailures, worldVars>>

HandlerSteps(c) ==
    \/ Admit(c) \/ Refuse(c)
    \/ AttemptOk(c) \/ AttemptPermanent(c) \/ AttemptRetryable(c)
    \/ Retry(c) \/ CancelledInBackoff(c)
    \/ AuditWrite(c) \/ AuditWriteFails(c) \/ RecordSuccess(c) \/ RecordFailure(c)
    \/ ReplyOk(c) \/ ReplyBadGateway(c)

Next == \E c \in Calls : HandlerSteps(c) \/ Disconnect(c)

Spec == Init /\ [][Next]_vars

\* Every timeout of the client fires and every goroutine is scheduled.
FairSpec == Spec /\ \A c \in Calls : WF_vars(HandlerSteps(c) /\ pc[c] # "new")

-----------------------------------------------------------------------------
(* The retry budget                                                          *)

\* worst[k] bounds the time a call has taken when its attempt k ends, pause[k] is
\* the back-off after that attempt: whatever attempt is the last, its audit write
\* ends within the WriteTimeout.
BudgetFits(pause, worst) ==
    /\ pause \in [0 .. MaxRetries -> Nat] /\ worst \in [0 .. MaxRetries -> 0 .. WriteTimeout]
    /\ \A b \in BodyTicks : b + AttemptTimeout <= worst[0]
    /\ \A k \in 0 .. MaxRetries :
          /\ pause[k] = 2 ^ k
          /\ \A n \in AuditTicks : worst[k] + n <= WriteTimeout
          /\ k < MaxRetries => worst[k] + pause[k] + AttemptTimeout <= worst[k + 1]

-----------------------------------------------------------------------------
(* Properties                                                                *)

CallsOf(t) == {c \in Calls : Transaction[c] = t}

\* What count counts, one element for each, and how many that are.
Counted(count) == UNION {{t} \X (1 .. count[t]) : t \in Transactions}
Total(count)   == Cardinality(Counted(count))

\* A client that saw 200 has a confirmed delivery and an audit record of its
\* own, also when several calls carry the same bytes.
OkIsRecorded ==
    \A t \in Transactions :
        /\ Cardinality({c \in CallsOf(t) : answer[c] = "ok"}) <= records[t]
        /\ records[t] <= confirmed[t]

\* What left the gateway without an audit record is counted in
\* audit_write_failures, once the call got to count it: in this mode nothing
\* else tells an operator of the gap.
UnrecordedIsCounted ==
    Total(confirmed) = Total(records) + metrics["audit_write_failures"]
        + Cardinality({c \in Calls : pc[c] \in {"audit", "unrecorded"}})

\* A call delivers at most once, whatever fails after the delivery: a duplicate
\* needs another call, or an attempt the vendor took without answering.
OneDeliveryPerCall ==
    \A t \in Transactions :
        /\ confirmed[t] <= Cardinality({c \in CallsOf(t) : pc[c] # "new"})
        /\ received[t] <= (MaxRetries + 1) * Cardinality(CallsOf(t))

\* The whole retry budget fits inside the WriteTimeout ("8.25s, inside the
\* server's 10s WriteTimeout"): a client that waits is answered.
AnsweredInTime == \A c \in Calls : pc[c] = "done" /\ ~gone[c] => answer[c] # "none"

\* Every admitted call ends, however the vendor behaves.
EveryCallEnds == \A c \in Calls : pc[c] = "attempt" ~> pc[c] = "done"

=============================================================================
