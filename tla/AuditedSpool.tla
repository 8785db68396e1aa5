---------------------------- MODULE AuditedSpool ----------------------------
(***************************************************************************)
(* The spool with the forward callback that main installs when the egress  *)
(* audit log is on: auditingForward of cmd/gateway/audit.go around the     *)
(* delivery to the vendor, its redeliveryGuard, and the audit health that  *)
(* /readyz reads.  Every step is a step of Spool, with what the callback   *)
(* does inside the forwarder's "forward" step added.                       *)
(*                                                                         *)
(* Two requests may carry the same bytes: signal_id and the bucketed       *)
(* timestamp are deterministic, so a caller's retry of a transaction gives *)
(* the same payload and the same digest.                                   *)
(***************************************************************************)
EXTENDS Spool

CONSTANTS
    Digest,         \* the SHA-256 digest of each request's payload
    OneCaller,      \* TRUE: the core banking system waits for every answer
    MaxAuditCount   \* bound: auditFailures saturates here

ASSUME DigestAssumption ==
    /\ DOMAIN Digest = Requests
    /\ \A r \in Requests : Digest[r] # None
ASSUME AuditSettingsAssumption == OneCaller \in BOOLEAN /\ MaxAuditCount \in Nat \ {0}

VARIABLES
    guard,          \* redeliveryGuard.digest, None for ""
    auditing,       \* auditingForward is past deliver, before the audit write
    auditFailures,  \* auditHealth.failures
    confirmed,      \* history, per request: deliveries the vendor confirmed
    records         \* per digest: durable lines of the audit log

auditVars == <<guard, auditing, auditFailures, confirmed, records>>

Digests == {Digest[r] : r \in Requests}

AuditTypeOK ==
    /\ guard \in Digests \cup {None}
    /\ auditing \in BOOLEAN
    /\ auditFailures \in 0 .. MaxAuditCount
    /\ confirmed \in [Requests -> Nat]
    /\ records \in [Digests -> Nat]
    /\ auditing => fpc = "forward" /\ guard = Digest[head]

AuditInit ==
    /\ Init
    /\ guard = None /\ auditing = FALSE /\ auditFailures = 0
    /\ confirmed = [r \in Requests |-> 0]
    /\ records = [d \in Digests |-> 0]

-----------------------------------------------------------------------------
(* auditingForward *)

AtDelivery == fpc = "forward" /\ ~auditing
AtAudit    == fpc = "forward" /\ auditing

NeverMatches == FALSE  \* variant: no redelivery guard

\* Digest equality stands for redeliveryGuard.matches.
Matches == guard = Digest[head]

\* The vendor confirmed the payload: markDelivered.
Deliver ==
    /\ AtDelivery /\ ~Matches
    /\ confirmed' = [confirmed EXCEPT ![head] = @ + 1]
    /\ guard' = Digest[head]
    /\ auditing' = TRUE
    /\ UNCHANGED <<vars, auditFailures, records>>

\* A retry of what was confirmed already goes straight to the audit write.
SkipDelivery ==
    /\ AtDelivery /\ Matches
    /\ auditing' = TRUE
    /\ UNCHANGED <<vars, guard, auditFailures, confirmed, records>>

\* Variant: the guard is set before the vendor answered.
DeliverFailsMarked ==
    /\ AtDelivery /\ ~Matches
    /\ ForwardRetryable \/ ForwardPermanent
    /\ guard' = Digest[head]
    /\ UNCHANGED <<auditing, auditFailures, confirmed, records>>

\* Retryable: no answer, a cancelled context, 429, and every status but 200,
\* 201 and the 4xx; permanent: the other 4xx and a missing configuration.
DeliverFails ==
    /\ AtDelivery /\ ~Matches
    /\ ForwardRetryable \/ ForwardPermanent
    /\ UNCHANGED auditVars

\* Variant: the callback removes the spool file itself.
AuditWriteTidies ==
    /\ AtAudit
    /\ Forwards("forward", "top") /\ HeadDone
    /\ MoveTo(head, "none")
    /\ delivered' = delivered \cup {head}
    /\ records' = [records EXCEPT ![Digest[head]] = @ + 1]
    /\ guard' = None /\ auditing' = FALSE /\ auditFailures' = 0
    /\ UNCHANGED <<content, spoolVars, confirmed>>

AuditWrite ==
    /\ AtAudit
    /\ ForwardOk
    /\ records' = [records EXCEPT ![Digest[head]] = @ + 1]
    /\ guard' = None
    /\ auditing' = FALSE
    /\ auditFailures' = 0
    /\ UNCHANGED confirmed

\* Variant: the error is swallowed.
AuditWriteIgnored ==
    /\ AtAudit
    /\ ForwardOk
    /\ guard' = None /\ auditing' = FALSE
    /\ UNCHANGED <<auditFailures, confirmed, records>>

\* Variant: the error is taken for a permanent one.
AuditWriteRejected ==
    /\ AtAudit
    /\ ForwardPermanent
    /\ auditing' = FALSE
    /\ UNCHANGED <<guard, auditFailures, confirmed, records>>

\* Variant: /readyz is not told.
AuditWriteFailsQuietly ==
    /\ AtAudit
    /\ ForwardRetryable
    /\ auditing' = FALSE
    /\ UNCHANGED <<guard, auditFailures, confirmed, records>>

\* A plain error is not permanent: the spool keeps the file and backs off.
AuditWriteFails ==
    /\ AtAudit
    /\ ForwardRetryable
    /\ auditing' = FALSE
    /\ auditFailures' = IF auditFailures < MaxAuditCount THEN auditFailures + 1
                                                         ELSE MaxAuditCount
    /\ UNCHANGED <<guard, confirmed, records>>

\* Variant: the hook does not reach the guard.
OnDeadKeepsGuard == FinishDead /\ UNCHANGED auditVars

\* The OnDead hook of main.
OnDead ==
    /\ FinishDead
    /\ guard' = None
    /\ UNCHANGED <<auditing, auditFailures, confirmed, records>>

-----------------------------------------------------------------------------
(* The rest of the spool *)

NoCallRunning == \A r \in Requests : pc[r] \notin InFlight

EnqueueRuns(r) ==
    /\ Enqueue(r)
    /\ OneCaller /\ pc[r] = "new" => NoCallRunning
    /\ UNCHANGED auditVars

OtherForwarderSteps ==
    /\ \/ \E h \in Requests : ListPending(h)
       \/ ListEmpty \/ ReadFile \/ Bury \/ Remove \/ FinishDelivered
       \/ WakeUp \/ TimerFires \/ Stop
       \/ ForwarderFaults
    /\ UNCHANGED auditVars

\* guard and health live in memory, the audit log on disk.
ProcessEnds ==
    /\ Exit \/ Crash \/ PowerLoss
    /\ guard' = None /\ auditing' = FALSE /\ auditFailures' = 0
    /\ UNCHANGED <<confirmed, records>>

ProcessSteps == (Cancel \/ Restart) /\ UNCHANGED auditVars

AuditNext ==
    \/ \E r \in Requests : EnqueueRuns(r)
    \/ Deliver \/ SkipDelivery \/ DeliverFails \/ AuditWrite \/ AuditWriteFails
    \/ OnDead \/ OtherForwarderSteps \/ ProcessEnds \/ ProcessSteps

AuditSpec == AuditInit /\ [][AuditNext]_<<vars, auditVars>>

-----------------------------------------------------------------------------
(* Properties *)

\* auditingForward only adds to the spool: a ForwardFunc with a guard, an
\* audit log and a health counter is still a ForwardFunc.
ImplementsSpool == Spec

\* The deliveries of the bytes with digest d that the vendor confirmed.
Confirmations(d) ==
    UNION {{r} \X (1 .. confirmed[r]) : r \in {q \in Requests : Digest[q] = d}}

\* Every audit record is backed by a delivery of those bytes, whichever way
\* equal payloads follow or overtake each other in the queue.
RecordsAreBacked == \A d \in Digests : records[d] <= Cardinality(Confirmations(d))

\* A signal the spool counts as delivered has an audit record of its own, also
\* when another request had the same bytes.
DeliveredIsRecorded ==
    \A d \in Digests :
        Cardinality({r \in delivered : Digest[r] = d}) <= records[d]

\* No request is settled on the strength of another's delivery: a stale guard
\* never makes auditingForward record a delivery that did not happen (the FALSE
\* record of the comment on redeliveryGuard).
NoFalseRecord == \A r \in delivered : confirmed[r] > 0

\* A signal that this process delivered is not dead-lettered for a rejection:
\* only the audit write is tried again, however often it fails.
DeliveredNotRejected ==
    [][fpc = "forward" /\ fpc' = "bury" => confirmed[head] = 0 \/ crashes > 0]_<<vars, auditVars>>

\* The vendor confirms a signal once, and once more for each restart ("the one
\* remaining duplicate window is a process restart").
DuplicatesBounded == \A r \in Requests : confirmed[r] <= 1 + crashes

\* While a confirmed delivery waits for its audit record and the forwarder
\* rests, /readyz has at least one audit failure to show.
StuckAuditIsVisible ==
    guard # None /\ fpc \in {"top", "idle", "backoff"} => auditFailures > 0

=============================================================================
