------------------------- MODULE SyncDeliveryProofs -------------------------
(***************************************************************************)
(* Theorems about SyncDelivery, for any number of calls and transactions,  *)
(* any number of attempts and any timeouts.                                *)
(*                                                                         *)
(* The counters per transaction are compared with the calls that are at    *)
(* certain steps, whatever time has elapsed; the last section then bounds  *)
(* the time a call can have taken at each of its steps.                    *)
(***************************************************************************)
EXTENDS SyncDelivery, FiniteSetTheorems, TLAPS

USE SyncAssumption

CountTypeOK ==
    /\ pc \in [Calls -> Steps] /\ answer \in [Calls -> Answers]
    /\ {confirmed, records} \subseteq [Transactions -> Nat]

\* Calls with a record of their own; calls that are about to write one; calls
\* that may still deliver; calls that were made.
Recorded(t) ==
    {c \in CallsOf(t) : answer[c] = "ok" \/ pc[c] \in {"recorded", "deliver_ok"}}
Auditing(t)   == {c \in CallsOf(t) : pc[c] = "audit"}
Delivering(t) == {c \in CallsOf(t) : pc[c] \in {"attempt", "backoff"}}
Made(t)       == {c \in CallsOf(t) : pc[c] # "new"}

OkIsOver == \A c \in Calls : answer[c] = "ok" => pc[c] = "done"

CountsOf(t) ==
    /\ Cardinality(Recorded(t)) <= records[t]
    /\ Cardinality(Auditing(t)) + records[t] <= confirmed[t]
    /\ Cardinality(Delivering(t)) + confirmed[t] <= Cardinality(Made(t))

CountInv == CountTypeOK /\ OkIsOver /\ \A t \in Transactions : CountsOf(t)

-----------------------------------------------------------------------------
(* Sizes of sets of calls *)

LEMMA CallsAreFinite ==
    ASSUME NEW t
    PROVE  \A S \in SUBSET CallsOf(t) : IsFiniteSet(S) /\ Cardinality(S) \in Nat
<1>1. IsFiniteSet(CallsOf(t))
  BY FS_Subset DEF CallsOf
<1>. QED
  BY <1>1, FS_Subset, FS_CardinalityType

LEMMA SetsAreOfCalls ==
    ASSUME NEW t
    PROVE  /\ Recorded(t) \in SUBSET CallsOf(t) /\ Recorded(t)' \in SUBSET CallsOf(t)
           /\ Auditing(t) \in SUBSET CallsOf(t) /\ Auditing(t)' \in SUBSET CallsOf(t)
           /\ Delivering(t) \in SUBSET CallsOf(t) /\ Delivering(t)' \in SUBSET CallsOf(t)
           /\ Made(t) \in SUBSET CallsOf(t) /\ Made(t)' \in SUBSET CallsOf(t)
BY DEF Recorded, Auditing, Delivering, Made, CallsOf

LEMMA Smaller ==
    ASSUME NEW t, NEW S \in SUBSET CallsOf(t), NEW T \in SUBSET CallsOf(t), S \subseteq T
    PROVE  Cardinality(S) <= Cardinality(T)
BY CallsAreFinite, FS_Subset

LEMMA OneMore ==
    ASSUME NEW t, NEW S \in SUBSET CallsOf(t), NEW c \in CallsOf(t) \ S
    PROVE  Cardinality(S \cup {c}) = Cardinality(S) + 1
BY CallsAreFinite, FS_AddElement

-----------------------------------------------------------------------------
(* Steps *)

LEMMA InitCounts == Init => CountInv
<1>. SUFFICES ASSUME Init PROVE CountInv
  OBVIOUS
<1>1. CountTypeOK /\ OkIsOver
  BY DEF Init, CountTypeOK, OkIsOver, Steps, Answers
<1>2. ASSUME NEW t \in Transactions PROVE CountsOf(t)
  <2>1. Recorded(t) = {} /\ Auditing(t) = {} /\ Delivering(t) = {} /\ Made(t) = {}
    BY DEF Init, Recorded, Auditing, Delivering, Made, CallsOf
  <2>. QED
    BY <2>1, FS_EmptySet DEF Init, CountsOf
<1>. QED
  BY <1>1, <1>2 DEF CountInv

\* A step that confirms and records nothing, and moves no call into a set that
\* is counted against those numbers.
LEMMA NothingGained ==
    ASSUME CountInv, CountTypeOK', UNCHANGED <<confirmed, records>>,
           NEW t \in Transactions,
           Recorded(t)' \subseteq Recorded(t), Auditing(t)' \subseteq Auditing(t),
           Delivering(t)' \subseteq Delivering(t), Made(t) \subseteq Made(t)'
    PROVE  CountsOf(t)'
<1>1. /\ Cardinality(Recorded(t)') <= Cardinality(Recorded(t))
      /\ Cardinality(Auditing(t)') <= Cardinality(Auditing(t))
      /\ Cardinality(Delivering(t)') <= Cardinality(Delivering(t))
      /\ Cardinality(Made(t)) <= Cardinality(Made(t)')
  BY SetsAreOfCalls, Smaller
<1>2. /\ Cardinality(Recorded(t)) \in Nat /\ Cardinality(Recorded(t)') \in Nat
      /\ Cardinality(Auditing(t)) \in Nat /\ Cardinality(Auditing(t)') \in Nat
      /\ Cardinality(Delivering(t)) \in Nat /\ Cardinality(Delivering(t)') \in Nat
      /\ Cardinality(Made(t)) \in Nat /\ Cardinality(Made(t)') \in Nat
  BY SetsAreOfCalls, CallsAreFinite
<1>3. confirmed[t] \in Nat /\ records[t] \in Nat
  BY DEF CountInv, CountTypeOK
<1>. QED
  BY <1>1, <1>2, <1>3 DEF CountInv, CountsOf

\* Where a step may lead without touching the counts: not into an attempt, an
\* audit write or a record, unless it was there already.
Plain(c) ==
    /\ pc[c] \notin {"new"}
    /\ pc' = [pc EXCEPT ![c] = pc'[c]] /\ answer' = [answer EXCEPT ![c] = answer'[c]]
    /\ pc'[c] \in Steps \ {"new", "audit"} /\ answer'[c] \in Answers
    /\ pc'[c] \in {"attempt", "backoff"} => pc[c] \in {"attempt", "backoff"}
    /\ pc'[c] \in {"recorded", "deliver_ok"} => pc[c] \in {"recorded", "deliver_ok"}
    /\ answer'[c] = "ok" => pc'[c] = "done" /\ pc[c] \in {"recorded", "deliver_ok"}
    /\ UNCHANGED <<confirmed, records>>

LEMMA PlainKeepsCounts ==
    ASSUME CountInv, NEW c \in Calls, Plain(c)
    PROVE  CountInv'
<1>1. CountTypeOK'
  BY DEF CountInv, CountTypeOK, Plain
<1>2. /\ \A d \in Calls : d # c => pc'[d] = pc[d] /\ answer'[d] = answer[d]
      /\ pc[c] \in Steps
  BY DEF CountInv, CountTypeOK, Plain
<1>3. OkIsOver'
  BY <1>2 DEF CountInv, OkIsOver, Plain
<1>4. ASSUME NEW t \in Transactions PROVE CountsOf(t)'
  <2>1. /\ Recorded(t)' \subseteq Recorded(t) /\ Auditing(t)' \subseteq Auditing(t)
        /\ Delivering(t)' \subseteq Delivering(t) /\ Made(t) \subseteq Made(t)'
    BY <1>2 DEF Plain, Recorded, Auditing, Delivering, Made, CallsOf
  <2>. QED
    BY <1>1, <2>1, NothingGained DEF Plain
<1>. QED
  BY <1>1, <1>3, <1>4 DEF CountInv

LEMMA PlainSteps ==
    ASSUME CountInv, NEW c \in Calls,
           \/ AttemptPermanent(c) \/ AttemptRetryable(c) \/ Retry(c) \/ CancelledInBackoff(c)
           \/ AuditWriteFails(c) \/ RecordSuccess(c) \/ RecordFailure(c)
           \/ ReplyOk(c) \/ ReplyBadGateway(c)
    PROVE  Plain(c)
<1>1. pc \in [Calls -> Steps] /\ answer \in [Calls -> Answers]
      /\ (answer[c] = "ok" => pc[c] = "done")
  BY DEF CountInv, CountTypeOK, OkIsOver
<1>. USE DEF Goes, Plain, Steps, Answers, worldVars
<1>2. CASE AttemptPermanent(c) \/ Retry(c) \/ CancelledInBackoff(c)
  BY <1>1, <1>2 DEF AttemptPermanent, Retry, CancelledInBackoff
<1>3. CASE AttemptRetryable(c)
  BY <1>1, <1>3 DEF AttemptRetryable, AfterRetryable
<1>4. CASE AuditWriteFails(c) \/ RecordSuccess(c) \/ RecordFailure(c)
  BY <1>1, <1>4 DEF AuditWriteFails, RecordSuccess, RecordFailure
<1>5. CASE ReplyOk(c) \/ ReplyBadGateway(c)
  BY <1>1, <1>5 DEF ReplyOk, ReplyBadGateway, Seen
<1>. QED
  BY <1>2, <1>3, <1>4, <1>5

\* A call is admitted, or refused: one more was made, and perhaps one more may
\* deliver.
LEMMA EntryKeepsCounts ==
    ASSUME CountInv, NEW c \in Calls, Admit(c) \/ Refuse(c)
    PROVE  CountInv'
<1>1. /\ pc[c] = "new" /\ pc'[c] \in {"attempt", "done"}
      /\ pc' = [pc EXCEPT ![c] = pc'[c]] /\ answer' = [answer EXCEPT ![c] = answer'[c]]
      /\ answer'[c] = answer[c] \/ answer'[c] = "refused"
      /\ UNCHANGED <<confirmed, records>>
  BY DEF CountInv, CountTypeOK, Admit, Refuse, Goes, worldVars
<1>2. CountTypeOK'
  BY <1>1 DEF CountInv, CountTypeOK, Steps, Answers
<1>3. \A d \in Calls : d # c => pc'[d] = pc[d] /\ answer'[d] = answer[d]
  BY <1>1 DEF CountInv, CountTypeOK
<1>4. answer[c] # "ok" /\ answer'[c] # "ok"
  BY <1>1 DEF CountInv, OkIsOver
<1>5. OkIsOver'
  BY <1>3, <1>4 DEF CountInv, OkIsOver
<1>6. ASSUME NEW t \in Transactions PROVE CountsOf(t)'
  <2>1. Recorded(t)' = Recorded(t) /\ Auditing(t)' = Auditing(t)
    BY <1>1, <1>3, <1>4 DEF Recorded, Auditing, CallsOf
  <2>2. CASE Transaction[c] # t
    <3>1. Delivering(t)' = Delivering(t) /\ Made(t)' = Made(t)
      BY <1>3, <2>2 DEF Delivering, Made, CallsOf
    <3>. QED
      BY <1>2, <1>1, <2>1, <3>1, NothingGained
  <2>3. CASE Transaction[c] = t
    <3>1. c \in CallsOf(t) \ Delivering(t) /\ c \in CallsOf(t) \ Made(t)
      BY <1>1, <2>3 DEF Delivering, Made, CallsOf
    <3>2. Made(t)' = Made(t) \cup {c} /\ Delivering(t)' \subseteq Delivering(t) \cup {c}
      <4>1. pc'[c] # "new"
        BY <1>1
      <4>2. Delivering(t)' \subseteq Delivering(t) \cup {c}
        BY <1>3 DEF Delivering, CallsOf
      <4>3. c \in CallsOf(t)
        BY <3>1
      <4>4. Made(t)' = Made(t) \cup {c}
        BY <1>3, <4>1, <4>3 DEF Made, CallsOf
      <4>. QED
        BY <4>2, <4>4
    <3>3. Cardinality(Made(t)') = Cardinality(Made(t)) + 1
      BY <3>1, <3>2, OneMore, SetsAreOfCalls
    <3>4. Delivering(t) \cup {c} \in SUBSET CallsOf(t)
      BY <3>1, SetsAreOfCalls
    <3>5. Cardinality(Delivering(t)') <= Cardinality(Delivering(t)) + 1
      <4>1. Cardinality(Delivering(t) \cup {c}) = Cardinality(Delivering(t)) + 1
        BY <3>1, OneMore, SetsAreOfCalls
      <4>2. Cardinality(Delivering(t)') <= Cardinality(Delivering(t) \cup {c})
        BY <3>2, <3>4, Smaller, SetsAreOfCalls
      <4>. QED
        BY <4>1, <4>2
    <3>6. /\ Cardinality(Delivering(t)) \in Nat /\ Cardinality(Delivering(t)') \in Nat
          /\ Cardinality(Made(t)) \in Nat /\ confirmed[t] \in Nat
      BY SetsAreOfCalls, CallsAreFinite DEF CountInv, CountTypeOK
    <3>. QED
      BY <1>1, <2>1, <3>3, <3>5, <3>6 DEF CountInv, CountsOf
  <2>. QED
    BY <2>2, <2>3
<1>. QED
  BY <1>2, <1>5, <1>6 DEF CountInv

\* The vendor confirms: a call that may deliver becomes one that is to be
\* recorded.
LEMMA AttemptOkKeepsCounts ==
    ASSUME CountInv, NEW c \in Calls, AttemptOk(c)
    PROVE  CountInv'
<1>1. /\ pc[c] = "attempt" /\ pc' = [pc EXCEPT ![c] = "audit"]
      /\ UNCHANGED <<answer, records>>
      /\ confirmed' = [confirmed EXCEPT ![Transaction[c]] = @ + 1]
  BY DEF AttemptOk, Goes, Increased
<1>2. Transaction[c] \in Transactions /\ confirmed \in [Transactions -> Nat]
  BY DEF CountInv, CountTypeOK, Transactions
<1>3. CountTypeOK'
  BY <1>1, <1>2 DEF CountInv, CountTypeOK, Steps
<1>4. pc'[c] = "audit" /\ answer[c] # "ok"
      /\ \A d \in Calls : d # c => pc'[d] = pc[d]
  BY <1>1 DEF CountInv, CountTypeOK, OkIsOver
<1>5. OkIsOver'
  BY <1>1, <1>4 DEF CountInv, OkIsOver
<1>6. ASSUME NEW t \in Transactions PROVE CountsOf(t)'
  <2>1. Recorded(t)' = Recorded(t) /\ Made(t)' = Made(t)
    BY <1>1, <1>4 DEF Recorded, Made, CallsOf
  <2>2. CASE Transaction[c] # t
    <3>1. Auditing(t)' = Auditing(t) /\ Delivering(t)' = Delivering(t)
      BY <1>4, <2>2 DEF Auditing, Delivering, CallsOf
    <3>2. confirmed'[t] = confirmed[t]
      BY <1>1, <1>2, <2>2
    <3>. QED
      BY <1>1, <2>1, <3>1, <3>2 DEF CountInv, CountsOf
  <2>3. CASE Transaction[c] = t
    <3>1. c \in CallsOf(t) \ Auditing(t) /\ c \in CallsOf(t) \ Delivering(t)'
      BY <1>1, <1>4, <2>3 DEF Auditing, Delivering, CallsOf
    <3>2. Auditing(t)' = Auditing(t) \cup {c} /\ Delivering(t) = Delivering(t)' \cup {c}
      BY <1>1, <1>4, <3>1 DEF Auditing, Delivering, CallsOf
    <3>3. /\ Cardinality(Auditing(t)') = Cardinality(Auditing(t)) + 1
          /\ Cardinality(Delivering(t)) = Cardinality(Delivering(t)') + 1
      BY <3>1, <3>2, OneMore, SetsAreOfCalls
    <3>4. /\ Cardinality(Delivering(t)') \in Nat /\ Cardinality(Auditing(t)) \in Nat
          /\ Cardinality(Made(t)) \in Nat
      BY SetsAreOfCalls, CallsAreFinite
    <3>5. confirmed'[t] = confirmed[t] + 1 /\ confirmed[t] \in Nat /\ records[t] \in Nat
      BY <1>1, <1>2, <2>3 DEF CountInv, CountTypeOK
    <3>. QED
      BY <1>1, <2>1, <3>3, <3>4, <3>5 DEF CountInv, CountsOf
  <2>. QED
    BY <2>2, <2>3
<1>. QED
  BY <1>3, <1>5, <1>6 DEF CountInv

\* Logger.Record succeeds: the call has a record of its own.
LEMMA AuditWriteKeepsCounts ==
    ASSUME CountInv, NEW c \in Calls, AuditWrite(c)
    PROVE  CountInv'
<1>1. /\ pc[c] = "audit" /\ pc' = [pc EXCEPT ![c] = "recorded"]
      /\ UNCHANGED <<answer, confirmed>>
      /\ records' = [records EXCEPT ![Transaction[c]] = @ + 1]
  BY DEF AuditWrite, Goes, Increased
<1>2. Transaction[c] \in Transactions /\ records \in [Transactions -> Nat]
  BY DEF CountInv, CountTypeOK, Transactions
<1>3. CountTypeOK'
  BY <1>1, <1>2 DEF CountInv, CountTypeOK, Steps
<1>4. pc'[c] = "recorded" /\ answer[c] # "ok"
      /\ \A d \in Calls : d # c => pc'[d] = pc[d]
  BY <1>1 DEF CountInv, CountTypeOK, OkIsOver
<1>5. OkIsOver'
  BY <1>1, <1>4 DEF CountInv, OkIsOver
<1>6. ASSUME NEW t \in Transactions PROVE CountsOf(t)'
  <2>1. Delivering(t)' = Delivering(t) /\ Made(t)' = Made(t)
    BY <1>1, <1>4 DEF Delivering, Made, CallsOf
  <2>2. CASE Transaction[c] # t
    <3>1. Auditing(t)' = Auditing(t) /\ Recorded(t)' = Recorded(t)
      BY <1>1, <1>4, <2>2 DEF Auditing, Recorded, CallsOf
    <3>2. records'[t] = records[t]
      BY <1>1, <1>2, <2>2
    <3>. QED
      BY <1>1, <2>1, <3>1, <3>2 DEF CountInv, CountsOf
  <2>3. CASE Transaction[c] = t
    <3>1. c \in CallsOf(t) \ Recorded(t) /\ c \in CallsOf(t) \ Auditing(t)'
      BY <1>1, <1>4, <2>3 DEF Auditing, Recorded, CallsOf
    <3>2. Recorded(t)' = Recorded(t) \cup {c} /\ Auditing(t) = Auditing(t)' \cup {c}
      BY <1>1, <1>4, <3>1 DEF Auditing, Recorded, CallsOf
    <3>3. /\ Cardinality(Recorded(t)') = Cardinality(Recorded(t)) + 1
          /\ Cardinality(Auditing(t)) = Cardinality(Auditing(t)') + 1
      BY <3>1, <3>2, OneMore, SetsAreOfCalls
    <3>4. Cardinality(Recorded(t)) \in Nat /\ Cardinality(Auditing(t)') \in Nat
      BY SetsAreOfCalls, CallsAreFinite
    <3>5. records'[t] = records[t] + 1 /\ confirmed[t] \in Nat /\ records[t] \in Nat
      BY <1>1, <1>2, <2>3 DEF CountInv, CountTypeOK
    <3>. QED
      BY <1>1, <2>1, <3>3, <3>4, <3>5 DEF CountInv, CountsOf
  <2>. QED
    BY <2>2, <2>3
<1>. QED
  BY <1>3, <1>5, <1>6 DEF CountInv

LEMMA CountInvHolds == Spec => []CountInv
<1>1. Init => CountInv
  BY InitCounts
<1>2. CountInv /\ [Next]_vars => CountInv'
  <2>. SUFFICES ASSUME CountInv, [Next]_vars PROVE CountInv'
    OBVIOUS
  <2>1. ASSUME NEW c \in Calls, HandlerSteps(c) PROVE CountInv'
    BY <2>1, EntryKeepsCounts, AttemptOkKeepsCounts, AuditWriteKeepsCounts, PlainSteps,
       PlainKeepsCounts DEF HandlerSteps
  <2>2. CASE UNCHANGED <<pc, answer, confirmed, records>>
    BY <2>2 DEF CountInv, CountTypeOK, OkIsOver, CountsOf, Recorded, Auditing, Delivering,
                Made, CallsOf
  <2>3. ASSUME NEW c \in Calls, Disconnect(c) PROVE CountInv'
    BY <2>2, <2>3 DEF Disconnect, worldVars
  <2>4. CASE UNCHANGED vars
    BY <2>2, <2>4 DEF vars, callVars, worldVars
  <2>. QED
    BY <2>1, <2>3, <2>4 DEF Next
<1>. QED
  BY <1>1, <1>2, PTL DEF Spec

-----------------------------------------------------------------------------

\* As many clients as saw 200 for the same bytes, so many audit records there
\* are, and each of those stands for a delivery the vendor confirmed.
THEOREM OkHasRecord == Spec => []OkIsRecorded
<1>1. CountInv => OkIsRecorded
  <2>. SUFFICES ASSUME CountInv, NEW t \in Transactions
                PROVE  /\ Cardinality({c \in CallsOf(t) : answer[c] = "ok"}) <= records[t]
                       /\ records[t] <= confirmed[t]
    BY DEF OkIsRecorded
  <2>. DEFINE oks == {c \in CallsOf(t) : answer[c] = "ok"}
  <2>1. oks \in SUBSET CallsOf(t) /\ oks \subseteq Recorded(t)
    BY DEF Recorded
  <2>2. Cardinality(oks) <= Cardinality(Recorded(t))
    BY <2>1, Smaller, SetsAreOfCalls
  <2>3. /\ Cardinality(oks) \in Nat /\ Cardinality(Recorded(t)) \in Nat
        /\ Cardinality(Auditing(t)) \in Nat /\ records[t] \in Nat /\ confirmed[t] \in Nat
    BY <2>1, SetsAreOfCalls, CallsAreFinite DEF CountInv, CountTypeOK
  <2>. QED
    BY <2>2, <2>3 DEF CountInv, CountsOf
<1>. QED
  BY <1>1, CountInvHolds, PTL

\* No call has its payload confirmed twice, however its audit write ends: the
\* confirmations of a transaction are at most the calls made with it.
THEOREM ConfirmedOncePerCall ==
    Spec => [](\A t \in Transactions : confirmed[t] <= Cardinality(Made(t)))
<1>1. CountInv => \A t \in Transactions : confirmed[t] <= Cardinality(Made(t))
  <2>. SUFFICES ASSUME CountInv, NEW t \in Transactions
                PROVE  confirmed[t] <= Cardinality(Made(t))
    OBVIOUS
  <2>1. /\ Cardinality(Delivering(t)) \in Nat /\ Cardinality(Made(t)) \in Nat
        /\ confirmed[t] \in Nat
    BY SetsAreOfCalls, CallsAreFinite DEF CountInv, CountTypeOK
  <2>. QED
    BY <2>1 DEF CountInv, CountsOf
<1>. QED
  BY <1>1, CountInvHolds, PTL

-----------------------------------------------------------------------------
(* What is counted.  A step that counts one more adds one element to Counted. *)

InDebt == {c \in Calls : pc[c] \in {"audit", "unrecorded"}}

TotalInv ==
    /\ CountTypeOK /\ metrics \in [Counters -> Nat]
    /\ IsFiniteSet(Counted(confirmed)) /\ IsFiniteSet(Counted(records))
    /\ Total(confirmed) = Total(records) + metrics["audit_write_failures"] + Cardinality(InDebt)

LEMMA CountedOneMore ==
    ASSUME NEW f \in [Transactions -> Nat], NEW t \in Transactions, IsFiniteSet(Counted(f))
    PROVE  /\ IsFiniteSet(Counted(Increased(f, t)))
           /\ Total(Increased(f, t)) = Total(f) + 1
           /\ Total(f) \in Nat
<1>. DEFINE g == Increased(f, t)
            new == <<t, f[t] + 1>>
<1>1. g[t] = f[t] + 1 /\ \A u \in Transactions \ {t} : g[u] = f[u]
  BY DEF Increased
<1>2. 1 .. g[t] = (1 .. f[t]) \cup {f[t] + 1} /\ f[t] + 1 \notin 1 .. f[t]
  BY <1>1
<1>. HIDE DEF g
<1>3. new \notin Counted(f)
  BY <1>2 DEF Counted
<1>4. Counted(g) = Counted(f) \cup {new}
  <2>1. ASSUME NEW p PROVE p \in Counted(g) <=> p \in Counted(f) \/ p = new
    <3>1. p \in Counted(g) <=> \E u \in Transactions : \E k \in 1 .. g[u] : p = <<u, k>>
      BY DEF Counted
    <3>2. p \in Counted(f) <=> \E u \in Transactions : \E k \in 1 .. f[u] : p = <<u, k>>
      BY DEF Counted
    <3>. QED
      BY <1>1, <1>2, <3>1, <3>2
  <2>. QED
    BY <2>1
<1>. HIDE DEF new
<1>5. /\ IsFiniteSet(Counted(f) \cup {new})
      /\ Cardinality(Counted(f) \cup {new}) = Cardinality(Counted(f)) + 1
  BY <1>3, FS_AddElement
<1>. QED
  BY <1>4, <1>5, FS_CardinalityType DEF Total, g

LEMMA DebtIsFinite == IsFiniteSet(InDebt) /\ Cardinality(InDebt) \in Nat
                      /\ IsFiniteSet(InDebt') /\ Cardinality(InDebt') \in Nat
BY FS_Subset, FS_CardinalityType DEF InDebt

\* A call that is handled goes into debt when its delivery is confirmed, and out
\* of it when that is recorded or counted as not recorded.
LEMMA HandlerKeepsTotals ==
    ASSUME TotalInv, CountTypeOK', NEW c \in Calls, HandlerSteps(c)
    PROVE  TotalInv'
<1>1. /\ confirmed \in [Transactions -> Nat] /\ records \in [Transactions -> Nat]
      /\ metrics \in [Counters -> Nat] /\ pc \in [Calls -> Steps]
      /\ Transaction[c] \in Transactions
      /\ metrics["audit_write_failures"] \in Nat
  BY DEF TotalInv, CountTypeOK, Transactions, Counters
<1>2. Total(confirmed) \in Nat /\ Total(records) \in Nat
  BY FS_CardinalityType DEF TotalInv, Total
<1>3. CASE AttemptOk(c)
  <2>1. /\ pc[c] = "attempt" /\ pc' = [pc EXCEPT ![c] = "audit"] /\ UNCHANGED records
        /\ confirmed' = Increased(confirmed, Transaction[c])
        /\ metrics' = Increased(metrics, "signals_forwarded")
    BY <1>3 DEF AttemptOk, Goes, RecordMetric
  <2>2. metrics' \in [Counters -> Nat]
        /\ metrics'["audit_write_failures"] = metrics["audit_write_failures"]
    BY <1>1, <2>1 DEF Increased, Counters
  <2>3. InDebt' = InDebt \cup {c} /\ c \notin InDebt
    BY <1>1, <2>1 DEF InDebt
  <2>4. Cardinality(InDebt') = Cardinality(InDebt) + 1
    BY <2>3, DebtIsFinite, FS_AddElement
  <2>5. IsFiniteSet(Counted(confirmed')) /\ Total(confirmed') = Total(confirmed) + 1
    BY <1>1, <2>1, CountedOneMore DEF TotalInv
  <2>6. IsFiniteSet(Counted(records')) /\ Total(records') = Total(records)
    BY <2>1 DEF TotalInv
  <2>. QED
    BY <1>1, <1>2, <2>2, <2>4, <2>5, <2>6, DebtIsFinite DEF TotalInv, Total, Counted
<1>4. CASE AuditWrite(c)
  <2>1. /\ pc[c] = "audit" /\ pc' = [pc EXCEPT ![c] = "recorded"]
        /\ UNCHANGED <<confirmed, metrics>> /\ records' = Increased(records, Transaction[c])
    BY <1>4 DEF AuditWrite, Goes, sharedVars
  <2>2. InDebt = InDebt' \cup {c} /\ c \notin InDebt'
    BY <1>1, <2>1 DEF InDebt
  <2>3. Cardinality(InDebt) = Cardinality(InDebt') + 1
    BY <2>2, DebtIsFinite, FS_AddElement
  <2>4. IsFiniteSet(Counted(records')) /\ Total(records') = Total(records) + 1
    BY <1>1, <2>1, CountedOneMore DEF TotalInv
  <2>5. IsFiniteSet(Counted(confirmed')) /\ Total(confirmed') = Total(confirmed)
    BY <2>1 DEF TotalInv
  <2>. QED
    BY <1>1, <1>2, <2>1, <2>3, <2>4, <2>5, DebtIsFinite DEF TotalInv, Total, Counted
<1>5. CASE RecordFailure(c)
  <2>1. /\ pc[c] = "unrecorded" /\ pc' = [pc EXCEPT ![c] = "deliver_failed"]
        /\ UNCHANGED <<confirmed, records>>
        /\ metrics' = Increased(metrics, "audit_write_failures")
    BY <1>5 DEF RecordFailure, Goes, RecordMetric, worldVars
  <2>2. metrics' \in [Counters -> Nat]
        /\ metrics'["audit_write_failures"] = metrics["audit_write_failures"] + 1
    BY <1>1, <2>1 DEF Increased, Counters
  <2>3. InDebt = InDebt' \cup {c} /\ c \notin InDebt'
    BY <1>1, <2>1 DEF InDebt
  <2>4. Cardinality(InDebt) = Cardinality(InDebt') + 1
    BY <2>3, DebtIsFinite, FS_AddElement
  <2>. QED
    BY <1>1, <1>2, <2>1, <2>2, <2>4, DebtIsFinite DEF TotalInv, Total, Counted
<1>6. CASE ~AttemptOk(c) /\ ~AuditWrite(c) /\ ~RecordFailure(c)
  <2>1. /\ UNCHANGED <<confirmed, records>>
        /\ metrics' \in [Counters -> Nat]
        /\ metrics'["audit_write_failures"] = metrics["audit_write_failures"]
    <3>1. CASE ReplyOk(c) \/ ReplyBadGateway(c)
      BY <1>1, <3>1 DEF ReplyOk, ReplyBadGateway, RecordMetric, Increased, Counters, worldVars
    <3>2. CASE ~ReplyOk(c) /\ ~ReplyBadGateway(c)
      BY <1>1, <1>6, <3>2 DEF HandlerSteps, Admit, Refuse, AttemptPermanent, AttemptRetryable,
         Retry, CancelledInBackoff, AuditWriteFails, RecordSuccess, sharedVars, worldVars
    <3>. QED
      BY <3>1, <3>2
  <2>2. pc' = [pc EXCEPT ![c] = pc'[c]]
        /\ (pc'[c] \in {"audit", "unrecorded"} <=> pc[c] \in {"audit", "unrecorded"})
    BY <1>1, <1>6 DEF HandlerSteps, Admit, Refuse, AttemptPermanent, AttemptRetryable,
       AfterRetryable, Retry, CancelledInBackoff, AuditWriteFails, RecordSuccess, ReplyOk,
       ReplyBadGateway, Goes
  <2>3. InDebt' = InDebt
    BY <1>1, <2>2 DEF InDebt
  <2>. QED
    BY <2>1, <2>3 DEF TotalInv, Total, Counted
<1>. QED
  BY <1>3, <1>4, <1>5, <1>6

\* Every delivery that the audit log does not have is counted in
\* audit_write_failures, or still in the hands of the call that made it.
THEOREM GapsAreCounted == Spec => []UnrecordedIsCounted
<1>1. ASSUME Init PROVE TotalInv
  <2>1. CountTypeOK
    BY <1>1, InitCounts DEF CountInv
  <2>2. Counted(confirmed) = {} /\ Counted(records) = {} /\ InDebt = {}
    BY <1>1 DEF Init, Counted, InDebt
  <2>3. metrics \in [Counters -> Nat] /\ metrics["audit_write_failures"] = 0
    BY <1>1 DEF Init, Counters
  <2>. QED
    BY <2>1, <2>2, <2>3, FS_EmptySet DEF TotalInv, Total
<1>2. ASSUME TotalInv, CountTypeOK', [Next]_vars PROVE TotalInv'
  <2>1. CASE UNCHANGED <<pc, answer, metrics, confirmed, records>>
    BY <1>2, <2>1 DEF TotalInv, CountTypeOK, InDebt, Total, Counted
  <2>. QED
    BY <1>2, <2>1, HandlerKeepsTotals
       DEF Next, Disconnect, vars, callVars, sharedVars, worldVars
<1>3. TotalInv => UnrecordedIsCounted
  BY DEF TotalInv, UnrecordedIsCounted, InDebt
<1>4. CountInv => CountTypeOK
  BY DEF CountInv
<1>. QED
  BY <1>1, <1>2, <1>3, <1>4, CountInvHolds, PTL DEF Spec

-----------------------------------------------------------------------------
(* Tries.  A call tries at most MaxRetries + 1 times, and the vendor takes the *)
(* payload at most once in each: the tries that are over.                     *)

Tries(t) ==
    {p \in CallsOf(t) \X (0 .. MaxRetries) :
        \/ p[2] < attempt[p[1]]
        \/ p[2] = attempt[p[1]] /\ pc[p[1]] \notin {"new", "attempt"}}

TriesInv ==
    /\ pc \in [Calls -> Steps] /\ attempt \in [Calls -> 0 .. MaxRetries]
    /\ received \in [Transactions -> Nat]
    /\ \A c \in Calls : pc[c] = "backoff" => attempt[c] < MaxRetries
    /\ \A t \in Transactions : received[t] <= Cardinality(Tries(t))

LEMMA TriesAreFinite ==
    ASSUME NEW t
    PROVE  /\ IsFiniteSet(CallsOf(t) \X (0 .. MaxRetries))
           /\ Cardinality(CallsOf(t) \X (0 .. MaxRetries)) =
                (MaxRetries + 1) * Cardinality(CallsOf(t))
           /\ IsFiniteSet(Tries(t)) /\ Cardinality(Tries(t)) \in Nat
           /\ IsFiniteSet(Tries(t)') /\ Cardinality(Tries(t)') \in Nat
<1>1. IsFiniteSet(CallsOf(t)) /\ Cardinality(CallsOf(t)) \in Nat
  BY CallsAreFinite
<1>2. IsFiniteSet(0 .. MaxRetries) /\ Cardinality(0 .. MaxRetries) = MaxRetries + 1
  <2>1. MaxRetries \in Int /\ 0 \in Int /\ ~(0 > MaxRetries) /\ MaxRetries - 0 + 1 = MaxRetries + 1
    OBVIOUS
  <2>. QED
    BY <2>1, FS_Interval
<1>3. /\ IsFiniteSet(CallsOf(t) \X (0 .. MaxRetries))
      /\ Cardinality(CallsOf(t) \X (0 .. MaxRetries)) =
           Cardinality(CallsOf(t)) * Cardinality(0 .. MaxRetries)
  BY <1>1, <1>2, FS_Product
<1>4. Tries(t) \subseteq CallsOf(t) \X (0 .. MaxRetries)
      /\ Tries(t)' \subseteq CallsOf(t) \X (0 .. MaxRetries)
  BY DEF Tries, CallsOf
<1>. QED
  BY <1>1, <1>2, <1>3, <1>4, FS_Subset, FS_CardinalityType

\* No step undoes a try.
LEMMA TriesGrow ==
    ASSUME TriesInv, NEW c \in Calls, HandlerSteps(c), NEW t
    PROVE  Tries(t) \subseteq Tries(t)'
<1>1. /\ pc[c] \in Steps /\ attempt[c] \in 0 .. MaxRetries
      /\ \A d \in Calls \ {c} : pc'[d] = pc[d] /\ attempt'[d] = attempt[d]
      /\ \/ attempt'[c] = attempt[c]
            /\ (pc[c] \in {"new", "attempt"} \/ pc'[c] \notin {"new", "attempt"})
         \/ attempt'[c] = attempt[c] + 1
  BY DEF TriesInv, HandlerSteps, Admit, Refuse, AttemptOk, AttemptPermanent, AttemptRetryable,
     AfterRetryable, Retry, CancelledInBackoff, AuditWrite, AuditWriteFails, RecordSuccess,
     RecordFailure, ReplyOk, ReplyBadGateway, Goes, Increased, Steps
<1>. QED
  BY <1>1 DEF Tries, CallsOf

\* The end of an attempt is a try more.
LEMMA OneTryMore ==
    ASSUME TriesInv, NEW c \in Calls, pc[c] = "attempt", UNCHANGED attempt,
           pc' = [pc EXCEPT ![c] = pc'[c]], pc'[c] \notin {"new", "attempt"},
           NEW t
    PROVE  Cardinality(Tries(t)') =
             Cardinality(Tries(t)) + (IF Transaction[c] = t THEN 1 ELSE 0)
<1>1. /\ pc \in [Calls -> Steps] /\ attempt[c] \in 0 .. MaxRetries
      /\ \A d \in Calls \ {c} : pc'[d] = pc[d]
  BY DEF TriesInv
<1>2. CASE Transaction[c] = t
  <2>1. <<c, attempt[c]>> \notin Tries(t)
    BY DEF Tries
  <2>2. Tries(t)' = Tries(t) \cup {<<c, attempt[c]>>}
    <3>1. ASSUME NEW d \in CallsOf(t), NEW k \in 0 .. MaxRetries
          PROVE  <<d, k>> \in Tries(t)' <=>
                   <<d, k>> \in Tries(t) \/ <<d, k>> = <<c, attempt[c]>>
      BY <1>1, <3>1 DEF Tries, CallsOf
    <3>2. <<c, attempt[c]>> \in CallsOf(t) \X (0 .. MaxRetries)
      BY <1>1, <1>2 DEF CallsOf
    <3>3. Tries(t) \subseteq CallsOf(t) \X (0 .. MaxRetries)
          /\ Tries(t)' \subseteq CallsOf(t) \X (0 .. MaxRetries)
      BY DEF Tries, CallsOf
    <3>4. ASSUME NEW p \in CallsOf(t) \X (0 .. MaxRetries)
          PROVE  p \in Tries(t)' <=> p \in Tries(t) \/ p = <<c, attempt[c]>>
      <4>1. PICK d \in CallsOf(t), k \in 0 .. MaxRetries : p = <<d, k>>
        OBVIOUS
      <4>. QED
        BY <3>1, <4>1
    <3>. QED
      BY <3>2, <3>3, <3>4
  <2>3. Cardinality(Tries(t) \cup {<<c, attempt[c]>>}) = Cardinality(Tries(t)) + 1
    BY <2>1, TriesAreFinite, FS_AddElement
  <2>. QED
    BY <1>2, <2>2, <2>3
<1>3. CASE Transaction[c] # t
  <2>1. Tries(t)' = Tries(t)
    BY <1>1, <1>3 DEF Tries, CallsOf
  <2>2. Cardinality(Tries(t)) \in Nat
    BY TriesAreFinite
  <2>. QED
    BY <1>3, <2>1, <2>2
<1>. QED
  BY <1>2, <1>3

LEMMA HandlerKeepsTries ==
    ASSUME TriesInv, NEW c \in Calls, HandlerSteps(c)
    PROVE  TriesInv'
<1>1. /\ pc \in [Calls -> Steps] /\ attempt \in [Calls -> 0 .. MaxRetries]
      /\ received \in [Transactions -> Nat] /\ Transaction[c] \in Transactions
      /\ attempt[c] \in 0 .. MaxRetries
  BY DEF TriesInv, Transactions
<1>2. /\ pc' \in [Calls -> Steps] /\ attempt' \in [Calls -> 0 .. MaxRetries]
      /\ \A d \in Calls : pc'[d] = "backoff" => attempt'[d] < MaxRetries
  <2>1. CASE Retry(c)
    <3>1. attempt[c] + 1 \in 0 .. MaxRetries
      BY <1>1, <2>1 DEF Retry, Goes, TriesInv
    <3>. QED
      BY <1>1, <2>1, <3>1 DEF Retry, Goes, Increased, TriesInv, Steps
  <2>2. CASE ~Retry(c)
    BY <1>1, <2>2 DEF HandlerSteps, Admit, Refuse, AttemptOk, AttemptPermanent, AttemptRetryable,
       AfterRetryable, CancelledInBackoff, AuditWrite, AuditWriteFails, RecordSuccess,
       RecordFailure, ReplyOk, ReplyBadGateway, Goes, TriesInv, Steps
  <2>. QED
    BY <2>1, <2>2
<1>3. \A t \in Transactions : received[t] \in Nat /\ received[t] <= Cardinality(Tries(t))
  BY DEF TriesInv
<1>4. CASE UNCHANGED received
  <2>1. \A t \in Transactions : Cardinality(Tries(t)) <= Cardinality(Tries(t)')
    BY TriesGrow, TriesAreFinite, FS_Subset
  <2>2. \A t \in Transactions : /\ Cardinality(Tries(t)) \in Nat
                                /\ Cardinality(Tries(t)') \in Nat
    BY TriesAreFinite
  <2>. QED
    BY <1>1, <1>2, <1>3, <1>4, <2>1, <2>2 DEF TriesInv, Transactions
<1>5. CASE received' = Increased(received, Transaction[c])
  <2>1. /\ pc[c] = "attempt" /\ UNCHANGED attempt /\ pc' = [pc EXCEPT ![c] = pc'[c]]
        /\ pc'[c] \notin {"new", "attempt"}
    <3>1. received' # received
      BY <1>1, <1>5 DEF Increased
    <3>2. AttemptOk(c) \/ AttemptRetryable(c)
      BY <3>1 DEF HandlerSteps, Admit, Refuse, AttemptPermanent, Retry, CancelledInBackoff,
         AuditWrite, AuditWriteFails, RecordSuccess, RecordFailure, ReplyOk, ReplyBadGateway,
         worldVars
    <3>. QED
      BY <1>1, <3>2 DEF AttemptOk, AttemptRetryable, AfterRetryable, Goes
  <2>2. \A t \in Transactions :
           /\ Cardinality(Tries(t)') =
                Cardinality(Tries(t)) + (IF Transaction[c] = t THEN 1 ELSE 0)
           /\ Cardinality(Tries(t)) \in Nat
    BY <2>1, OneTryMore, TriesAreFinite
  <2>3. \A t \in Transactions :
           received'[t] = received[t] + (IF Transaction[c] = t THEN 1 ELSE 0)
    BY <1>1, <1>5 DEF Increased
  <2>4. received' \in [Transactions -> Nat]
    BY <1>1, <1>5 DEF Increased
  <2>. QED
    BY <1>2, <1>3, <2>2, <2>3, <2>4 DEF TriesInv, Transactions
<1>6. UNCHANGED received \/ received' = Increased(received, Transaction[c])
  BY DEF HandlerSteps, Admit, Refuse, AttemptOk, AttemptPermanent, AttemptRetryable, Retry,
     CancelledInBackoff, AuditWrite, AuditWriteFails, RecordSuccess, RecordFailure, ReplyOk,
     ReplyBadGateway, worldVars
<1>. QED
  BY <1>4, <1>5, <1>6

\* A call has its payload confirmed at most once, and sends it at most
\* MaxRetries + 1 times, however its attempts and its audit write end.
THEOREM CallDeliversOnce == Spec => []OneDeliveryPerCall
<1>1. ASSUME Init PROVE TriesInv
  <2>1. \A t \in Transactions : received[t] = 0 /\ Cardinality(Tries(t)) \in Nat
    BY <1>1, TriesAreFinite DEF Init
  <2>2. pc \in [Calls -> Steps] /\ (\A c \in Calls : pc[c] = "new")
    BY <1>1 DEF Init, Steps
  <2>3. attempt \in [Calls -> 0 .. MaxRetries] /\ received \in [Transactions -> Nat]
    BY <1>1 DEF Init
  <2>. QED
    BY <2>1, <2>2, <2>3 DEF TriesInv
<1>2. ASSUME TriesInv, [Next]_vars PROVE TriesInv'
  <2>1. CASE UNCHANGED <<pc, attempt, received>>
    BY <1>2, <2>1 DEF TriesInv, Tries, CallsOf
  <2>. QED
    BY <1>2, <2>1, HandlerKeepsTries DEF Next, Disconnect, vars, callVars, worldVars
<1>3. ASSUME TriesInv, \A t \in Transactions : confirmed[t] <= Cardinality(Made(t))
      PROVE  OneDeliveryPerCall
  <2>1. ASSUME NEW t \in Transactions
        PROVE  received[t] <= (MaxRetries + 1) * Cardinality(CallsOf(t))
    <3>1. Cardinality(Tries(t)) <= Cardinality(CallsOf(t) \X (0 .. MaxRetries))
      BY TriesAreFinite, FS_Subset DEF Tries
    <3>2. /\ received[t] \in Nat /\ received[t] <= Cardinality(Tries(t))
          /\ Cardinality(Tries(t)) \in Nat
          /\ Cardinality(CallsOf(t) \X (0 .. MaxRetries)) \in Nat
      BY <1>3, TriesAreFinite, FS_CardinalityType DEF TriesInv
    <3>3. received[t] <= Cardinality(CallsOf(t) \X (0 .. MaxRetries))
      BY <3>1, <3>2
    <3>. QED
      BY <3>3, TriesAreFinite
  <2>. QED
    BY <1>3, <2>1 DEF OneDeliveryPerCall, Made
<1>. QED
  BY <1>1, <1>2, <1>3, ConfirmedOncePerCall, PTL DEF Spec

-----------------------------------------------------------------------------
(* Time.  A call whose client waits is, at each of its steps, early enough for *)
(* what it may still have to do.                                              *)

OnTime(worst, c) ==
    /\ pc[c] = "attempt" => elapsed[c] + AttemptTimeout <= worst[attempt[c]]
    /\ pc[c] \in {"backoff", "audit"} => elapsed[c] <= worst[attempt[c]]
    /\ pc[c] \in {"recorded", "unrecorded", "deliver_ok", "deliver_failed"} =>
          elapsed[c] <= WriteTimeout
    /\ pc[c] = "done" => answer[c] # "none"

TimeInv(worst) ==
    /\ pc \in [Calls -> Steps] /\ attempt \in [Calls -> 0 .. MaxRetries]
    /\ elapsed \in [Calls -> Nat] /\ gone \in [Calls -> BOOLEAN]
    /\ answer \in [Calls -> Answers]
    /\ \A c \in Calls :
          /\ pc[c] = "new" => elapsed[c] = 0 /\ attempt[c] = 0
          /\ pc[c] = "backoff" => attempt[c] < MaxRetries
          /\ ~gone[c] => OnTime(worst, c)

LEMMA HandlerKeepsTime ==
    ASSUME NEW pause, NEW worst, BudgetFits(pause, worst), TimeInv(worst),
           NEW c \in Calls, HandlerSteps(c)
    PROVE  TimeInv(worst)'
<1>1. /\ pc \in [Calls -> Steps] /\ attempt \in [Calls -> 0 .. MaxRetries]
      /\ elapsed \in [Calls -> Nat] /\ gone \in [Calls -> BOOLEAN]
      /\ answer \in [Calls -> Answers]
      /\ attempt[c] \in 0 .. MaxRetries /\ elapsed[c] \in Nat
      /\ pc[c] = "new" => elapsed[c] = 0 /\ attempt[c] = 0
      /\ pc[c] = "backoff" => attempt[c] < MaxRetries
      /\ ~gone[c] => OnTime(worst, c)
  BY DEF TimeInv
<1>2. /\ pause[attempt[c]] \in Nat /\ 2 ^ attempt[c] = pause[attempt[c]]
      /\ worst[attempt[c]] \in 0 .. WriteTimeout
      /\ \A n \in AuditTicks : n \in Nat /\ worst[attempt[c]] + n <= WriteTimeout
      /\ \A n \in BodyTicks : n \in Nat /\ n + AttemptTimeout <= worst[0]
      /\ \A n \in AttemptTicks : n \in 0 .. AttemptTimeout
      /\ attempt[c] < MaxRetries =>
            /\ worst[attempt[c] + 1] \in 0 .. WriteTimeout
            /\ worst[attempt[c]] + pause[attempt[c]] + AttemptTimeout <= worst[attempt[c] + 1]
      /\ AttemptTimeout \in Nat /\ WriteTimeout \in Nat
  BY <1>1 DEF BudgetFits
<1>3. \A d \in Calls \ {c} : /\ pc'[d] = pc[d] /\ attempt'[d] = attempt[d]
                             /\ elapsed'[d] = elapsed[d] /\ gone'[d] = gone[d]
                             /\ answer'[d] = answer[d]
  BY <1>1 DEF HandlerSteps, Admit, Refuse, AttemptOk, AttemptPermanent, AttemptRetryable, Retry,
     CancelledInBackoff, AuditWrite, AuditWriteFails, RecordSuccess, RecordFailure, ReplyOk,
     ReplyBadGateway, Goes, Increased
<1>4. ASSUME /\ pc' \in [Calls -> Steps] /\ attempt' \in [Calls -> 0 .. MaxRetries]
             /\ elapsed' \in [Calls -> Nat] /\ gone' \in [Calls -> BOOLEAN]
             /\ answer' \in [Calls -> Answers]
             /\ pc'[c] # "new"
             /\ pc'[c] = "backoff" => attempt'[c] < MaxRetries
             /\ ~gone'[c] => OnTime(worst, c)'
      PROVE  TimeInv(worst)'
  BY <1>3, <1>4 DEF TimeInv, OnTime
<1>. USE DEF Goes, Steps, Answers, OnTime
<1>5. CASE Admit(c) \/ Refuse(c)
  BY <1>1, <1>2, <1>4, <1>5 DEF Admit, Refuse
<1>6. CASE AttemptOk(c) \/ AttemptPermanent(c)
  BY <1>1, <1>2, <1>4, <1>6 DEF AttemptOk, AttemptPermanent
<1>7. CASE AttemptRetryable(c)
  BY <1>1, <1>2, <1>4, <1>7 DEF AttemptRetryable, AfterRetryable
<1>8. CASE Retry(c)
  BY <1>1, <1>2, <1>4, <1>8 DEF Retry, Backoff, Increased
<1>9. CASE CancelledInBackoff(c)
  BY <1>1, <1>2, <1>4, <1>9 DEF CancelledInBackoff, Backoff
<1>10. CASE AuditWrite(c) \/ AuditWriteFails(c)
  BY <1>1, <1>2, <1>4, <1>10 DEF AuditWrite, AuditWriteFails
<1>11. CASE RecordSuccess(c) \/ RecordFailure(c)
  BY <1>1, <1>2, <1>4, <1>11 DEF RecordSuccess, RecordFailure
<1>12. CASE ReplyOk(c) \/ ReplyBadGateway(c)
  BY <1>1, <1>2, <1>4, <1>12 DEF ReplyOk, ReplyBadGateway, Seen
<1>. QED
  BY <1>5, <1>6, <1>7, <1>8, <1>9, <1>10, <1>11, <1>12 DEF HandlerSteps

\* If the retry budget fits inside the WriteTimeout, a client that waits is
\* answered, however the vendor and the audit log behave.
THEOREM ClientsAreAnswered ==
    ASSUME NEW CONSTANT pause, NEW CONSTANT worst, BudgetFits(pause, worst)
    PROVE  Spec => []AnsweredInTime
<1>1. Init => TimeInv(worst)
  BY DEF Init, TimeInv, OnTime, Steps, Answers
<1>2. ASSUME TimeInv(worst), [Next]_vars PROVE TimeInv(worst)'
  <2>1. CASE UNCHANGED callVars
    BY <1>2, <2>1 DEF TimeInv, OnTime, callVars
  <2>2. ASSUME NEW c \in Calls, Disconnect(c) PROVE TimeInv(worst)'
    BY <1>2, <2>2 DEF Disconnect, TimeInv, OnTime
  <2>. QED
    BY <1>2, <2>1, <2>2, HandlerKeepsTime DEF Next, vars
<1>3. TimeInv(worst) => AnsweredInTime
  BY DEF TimeInv, OnTime, AnsweredInTime
<1>. QED
  BY <1>1, <1>2, <1>3, PTL DEF Spec

\* So it is with the settings of main, 2 retries, 2.5 s for an attempt and 10 s
\* for the answer, as long as the body and the audit write take 1.75 s together.
COROLLARY MainAnswers ==
    ASSUME MaxRetries = 2, AttemptTimeout = 10, WriteTimeout = 40,
           NEW CONSTANT body \in 0 .. 7,
           \A b \in BodyTicks : b <= body, \A n \in AuditTicks : n <= 7 - body
    PROVE  Spec => []AnsweredInTime
<1>. DEFINE pause == [k \in 0 .. 2 |-> IF k = 0 THEN 1 ELSE IF k = 1 THEN 2 ELSE 4]
            worst == [k \in 0 .. 2 |-> body + (IF k = 0 THEN 10 ELSE IF k = 1 THEN 21 ELSE 33)]
<1>1. 2 ^ 0 = 1 /\ 2 ^ 1 = 2 /\ 2 ^ 2 = 4
  OBVIOUS
<1>2. /\ pause \in [0 .. MaxRetries -> Nat] /\ worst \in [0 .. MaxRetries -> 0 .. WriteTimeout]
      /\ \A b \in BodyTicks : b + AttemptTimeout <= worst[0]
  OBVIOUS
<1>3. ASSUME NEW k \in 0 .. MaxRetries
      PROVE  /\ pause[k] = 2 ^ k
             /\ \A n \in AuditTicks : worst[k] + n <= WriteTimeout
             /\ k < MaxRetries => worst[k] + pause[k] + AttemptTimeout <= worst[k + 1]
  <2>1. k = 0 \/ k = 1 \/ k = 2
    OBVIOUS
  <2>2. pause[k] = 2 ^ k
    BY <1>1, <2>1
  <2>. QED
    BY <2>1, <2>2
<1>4. BudgetFits(pause, worst)
  BY <1>2, <1>3 DEF BudgetFits
<1>. QED
  BY <1>4, ClientsAreAnswered

=============================================================================
