-------------------------- MODULE LifecycleProofs --------------------------
(***************************************************************************)
(* Theorems about Lifecycle, for every set of requests, environments and   *)
(* files: how the process ends, and what startup accepts.  The two have    *)
(* nothing to do with each other, and each has an invariant of its own.    *)
(***************************************************************************)
EXTENDS Lifecycle, TLAPS

Closing == {"closeSink", "closeAudit", "return"}

\* Before the end of main: nobody was cut, main is only past drain when
\* Shutdown has returned, and past join when the forwarder has.
MainWaited ==
    /\ Up => cause = "none" /\ \A r \in Requests : req[r] # "cut"
    /\ main \in {"join"} \cup Closing => watcher = "done" /\ cancelled
    /\ main \in Closing => forwarder = "done"

\* Nobody connects once Shutdown was called: who is still there when it has
\* returned outlived the grace period.
RestIsLate == Up /\ watcher = "done" => Connected \subseteq late

\* What is closed stays closed, but for those.
ClosedStays ==
    /\ main \in {"closeAudit", "return"} => ("sink" \in open => late # {})
    /\ main = "return" => ("audit" \in open => late # {})

EndInv == LifeTypeOK /\ MainWaited /\ RestIsLate /\ ClosedStays /\ OnlyLateAreCut /\ OrderlyEnd

-----------------------------------------------------------------------------
LEMMA InitEnds == Init => EndInv
BY DEF Init, EndInv, LifeTypeOK, MainWaited, RestIsLate, ClosedStays, OnlyLateAreCut, OrderlyEnd,
       Connected, Up, Closing

\* The end of the process: who was being served is cut.
LEMMA GoneEnds ==
    ASSUME EndInv, NEW why \in {"refused", "failed", "signal", "killed", "returned"},
           Gone(why), Up, why = "returned" => main = "return"
    PROVE  EndInv'
<1>1. LifeTypeOK'
  BY DEF EndInv, LifeTypeOK, Gone
<1>2. MainWaited' /\ RestIsLate' /\ ClosedStays'
  BY DEF MainWaited, RestIsLate, ClosedStays, Up, Closing, Gone
<1>3. OnlyLateAreCut'
  <2>1. SUFFICES ASSUME why = "returned", NEW r \in Requests, req'[r] = "cut"
                 PROVE  r \in late
    BY DEF OnlyLateAreCut, Gone
  <2>2. req[r] \in {"running", "delivered"}
    BY <2>1 DEF EndInv, LifeTypeOK, MainWaited, Gone
  <2>. QED
    BY <2>1, <2>2 DEF EndInv, MainWaited, RestIsLate, Connected, Closing
<1>4. OrderlyEnd'
  BY DEF EndInv, LifeTypeOK, MainWaited, ClosedStays, OrderlyEnd, Closing, Gone
<1>. QED
  BY <1>1, <1>2, <1>3, <1>4 DEF EndInv

LEMMA StartEnds ==
    ASSUME EndInv, LoadConfig \/ Accept \/ Open \/ Listen
    PROVE  EndInv'
<1>. USE DEF EndInv, LifeTypeOK, MainWaited, RestIsLate, ClosedStays, OnlyLateAreCut, OrderlyEnd,
             Connected, Up, Closing
<1>1. CASE LoadConfig
  BY <1>1 DEF LoadConfig
<1>2. CASE Accept
  BY <1>2 DEF Accept, bootVars
<1>3. CASE Open
  BY <1>3 DEF Open, Because
<1>4. CASE Listen
  BY <1>4 DEF Listen, bootVars
<1>. QED
  BY <1>1, <1>2, <1>3, <1>4

\* A request never joins those of before the end, and writes only as one of them.
LEMMA HandlesEnds ==
    ASSUME EndInv, NEW r \in Requests,
           NEW from \in {"new", "connected", "running", "delivered"},
           NEW to \in {"connected", "running", "delivered", "answered", "refused"},
           NEW writes \in SUBSET {"sink", "audit"},
           Handles(r, from, to, writes),
           from = "new" => ~ShuttingDown /\ writes = {}
    PROVE  EndInv'
<1>1. LifeTypeOK'
  BY DEF EndInv, LifeTypeOK, Handles, bootVars
<1>2. MainWaited'
  BY DEF EndInv, LifeTypeOK, MainWaited, Handles, Up, bootVars
<1>3. RestIsLate' /\ (watcher = "done" => r \in late)
  BY DEF EndInv, LifeTypeOK, RestIsLate, Handles, Connected, Up, ShuttingDown
<1>4. ClosedStays'
  BY <1>3 DEF EndInv, MainWaited, ClosedStays, Handles, Closing
<1>5. OnlyLateAreCut' /\ OrderlyEnd'
  BY DEF EndInv, MainWaited, OnlyLateAreCut, OrderlyEnd, Handles
<1>. QED
  BY <1>1, <1>2, <1>3, <1>4, <1>5 DEF EndInv

LEMMA RequestEnds ==
    ASSUME EndInv, NEW r \in Requests, Request(r)
    PROVE  EndInv'
<1>. SinkWritten \in SUBSET {"sink", "audit"} /\ AuditWritten \in SUBSET {"sink", "audit"}
  BY DEF SinkWritten, AuditWritten, Because
<1>. QED
  BY HandlesEnds DEF Request, Connect, Begin, DeliverNow, Reply, ReplyError, CloseIdle

\* The forwarder is done when main closes the files, and stays so.
LEMMA ForwarderEnds ==
    ASSUME EndInv, ForwarderStep
    PROVE  EndInv'
<1>. USE DEF Forwards, bootVars
<1>1. forwarder # "done" /\ Up
  BY DEF ForwarderStep, TakeHead, Deliver, Record, ForwardFails, RemoveHead, StopRun
<1>2. /\ UNCHANGED <<bootVars, main, watcher, sigterm, cancelled, req, late, cause>>
      /\ forwarder' \in {"top", "deliver", "record", "remove", "done"}
      /\ open' \subseteq {"sink", "audit"}
  BY DEF ForwarderStep, TakeHead, Deliver, Record, ForwardFails, RemoveHead, StopRun,
         SinkWritten, AuditWritten, Because, EndInv, LifeTypeOK
<1>3. LifeTypeOK'
  BY <1>2 DEF EndInv, LifeTypeOK
<1>4. main \notin Closing /\ cause = "none"
  BY <1>1 DEF EndInv, MainWaited
<1>. QED
  BY <1>2, <1>3, <1>4
     DEF EndInv, MainWaited, RestIsLate, ClosedStays, OnlyLateAreCut, OrderlyEnd, Connected, Up,
         Closing

LEMMA WatcherEnds ==
    ASSUME EndInv, SignalWatcher
    PROVE  EndInv'
<1>. USE DEF Watches, bootVars, Connected, Up, EndInv, LifeTypeOK, MainWaited, RestIsLate,
             ClosedStays, OnlyLateAreCut, OrderlyEnd, Closing
<1>1. CASE Notify \/ Shutdown
  BY <1>1 DEF Notify, Shutdown
<1>2. CASE Drained
  BY <1>2 DEF Drained
<1>3. CASE GraceOver
  BY <1>3 DEF GraceOver
<1>. QED
  BY <1>1, <1>2, <1>3 DEF SignalWatcher

LEMMA MainEnds ==
    ASSUME EndInv, ServeReturns \/ AwaitShutdown \/ JoinForwarder \/ CloseSink \/ CloseAudit
    PROVE  EndInv'
<1>. USE DEF MainStep, bootVars, Connected, Up, EndInv, LifeTypeOK, MainWaited, RestIsLate,
             ClosedStays, OnlyLateAreCut, OrderlyEnd, Closing
<1>1. CASE ServeReturns
  BY <1>1 DEF ServeReturns
<1>2. CASE AwaitShutdown
  BY <1>2 DEF AwaitShutdown
<1>3. CASE JoinForwarder
  BY <1>3 DEF JoinForwarder
<1>4. CASE CloseSink
  BY <1>4 DEF CloseSink
<1>5. CASE CloseAudit
  BY <1>5 DEF CloseAudit
<1>. QED
  BY <1>1, <1>2, <1>3, <1>4, <1>5

LEMMA StepEnds == EndInv /\ [Next]_vars => EndInv'
<1>. SUFFICES ASSUME EndInv, [Next]_vars PROVE EndInv'
  OBVIOUS
<1>1. CASE Refuse \/ OpenFails \/ ServerFails \/ Return \/ DieOfSignal \/ Kill
  BY <1>1, GoneEnds DEF Refuse, OpenFails, ServerFails, Return, DieOfSignal, Kill, Up
<1>2. CASE Signal
  BY <1>2 DEF Signal, bootVars, Connected, Up, EndInv, LifeTypeOK, MainWaited, RestIsLate,
              ClosedStays, OnlyLateAreCut, OrderlyEnd, Closing
<1>3. CASE UNCHANGED vars
  BY <1>3 DEF vars, bootVars, Connected, Up, EndInv, LifeTypeOK, MainWaited, RestIsLate,
              ClosedStays, OnlyLateAreCut, OrderlyEnd, Closing
<1>. QED
  BY <1>1, <1>2, <1>3, StartEnds, RequestEnds, ForwarderEnds, WatcherEnds, MainEnds
     DEF Next, Main

\* An orderly end leaves only those requests without an answer that outlived
\* the grace period of server.Shutdown.
THEOREM InFlightFinish == Spec => []OnlyLateAreCut
<1>1. EndInv => OnlyLateAreCut
  BY DEF EndInv
<1>. QED
  BY InitEnds, StepEnds, <1>1, PTL DEF Spec

\* An orderly end never cuts a delivery of the forwarder, and leaves a day file
\* open only to a late handler.
THEOREM EndIsOrderly == Spec => []OrderlyEnd
<1>1. EndInv => OrderlyEnd
  BY DEF EndInv
<1>. QED
  BY InitEnds, StepEnds, <1>1, PTL DEF Spec

-----------------------------------------------------------------------------
(* The settings *)

\* Whatever the environment and the file say of a number, there or not, spoiled
\* or negative: Load makes it positive.
LEMMA LoadedNumbersPositive ==
    ASSUME NEW env \in Environments, NEW file \in Files
    PROVE  Load(env, file).threshold > 0 /\ Load(env, file).retention > 0
<1>1. env.threshold \in Int \cup {Unset, Malformed}
      /\ env.retention \in Int \cup {Unset, Malformed}
  BY NumbersAssumption
<1>2. FileDefaults(file).threshold \in Int \cup {Unset}
      /\ FileDefaults(file).retention \in Int \cup {Unset}
  BY NumbersAssumption DEF FileDefaults, NoFile
<1>3. Load(env, file).threshold = Number(env.threshold, FileDefaults(file).threshold, 10000)
      /\ Load(env, file).retention = Number(env.retention, FileDefaults(file).retention, 90)
  BY DEF Load
<1>4. Number(env.threshold, FileDefaults(file).threshold, 10000) > 0
  BY <1>1, <1>2, NumbersAssumption DEF Number
<1>5. Number(env.retention, FileDefaults(file).retention, 90) > 0
  BY <1>1, <1>2, NumbersAssumption DEF Number
<1>. QED
  BY <1>3, <1>4, <1>5

\* No problem found by validateStartup is enough for what is read later.
LEMMA ValidatedIsUsable ==
    ASSUME NEW c, NEW env, validateStartup(c, env)
    PROVE  /\ c.mode.word \in {"middleware", "standalone"} /\ c.mode.plain
           /\ ~IsStandalone(c) => CanForward(c, env)
           /\ c.keying = Word("regional") => resolvePepper(env) # Unset
<1>1. Word("bank") # Word("regional")
  BY DEF Word
<1>. QED
  BY <1>1 DEF validateStartup, IsStandalone, CanForward, resolvePepper, Word

\* Until main has opened everything, the settings are what Load makes of the
\* sources, and past the check they have passed it.
BootInv ==
    /\ main \in {"load", "validate", "open"} =>
          sources.env \in Environments /\ sources.file \in Files
    /\ main \in {"validate", "open"} => cfg = Load(sources.env, sources.file)
    /\ main = "open" => validateStartup(cfg, sources.env)

LEMMA BootStep == BootInv /\ [Next]_vars => BootInv'
<1>. SUFFICES ASSUME BootInv, [Next]_vars PROVE BootInv'
  OBVIOUS
<1>1. CASE LoadConfig
  BY <1>1 DEF LoadConfig, BootInv
<1>2. CASE Accept
  BY <1>2 DEF Accept, BootInv, bootVars
<1>3. CASE Main /\ ~LoadConfig /\ ~Accept
  <2>1. main' \notin {"load", "validate", "open"}
    BY <1>3 DEF Main, Refuse, Open, OpenFails, Listen, ServerFails, ServeReturns, AwaitShutdown,
                JoinForwarder, CloseSink, CloseAudit, Return, MainStep, Gone
  <2>. QED
    BY <2>1 DEF BootInv
<1>4. CASE DieOfSignal \/ Kill
  BY <1>4 DEF DieOfSignal, Kill, Gone, BootInv
<1>5. CASE SignalWatcher \/ ForwarderStep \/ (\E r \in Requests : Request(r)) \/ Signal
           \/ UNCHANGED vars
  <2>1. UNCHANGED <<bootVars, main>>
    <3>1. CASE SignalWatcher \/ Signal \/ UNCHANGED vars
      BY <3>1 DEF SignalWatcher, Notify, Shutdown, Drained, GraceOver, Watches, Signal, vars
    <3>2. CASE ForwarderStep
      BY <3>2 DEF ForwarderStep, TakeHead, Deliver, Record, ForwardFails, RemoveHead, StopRun,
                  Forwards
    <3>3. CASE \E r \in Requests : Request(r)
      BY <3>3 DEF Request, Connect, Begin, DeliverNow, Reply, ReplyError, CloseIdle, Handles
    <3>. QED
      BY <1>5, <3>1, <3>2, <3>3
  <2>. QED
    BY <2>1 DEF BootInv, bootVars
<1>. QED
  BY <1>1, <1>2, <1>3, <1>4, <1>5 DEF Next

\* However environment and file are combined, what startup accepts lets the
\* sender, the mosaics, the thresholds and the health probe do their work.
THEOREM AcceptedCanRun == Spec => []AcceptedIsUsable
<1>1. Init => BootInv
  BY DEF Init, BootInv
<1>2. BootInv => AcceptedIsUsable
  <2>. SUFFICES ASSUME BootInv, main = "open" PROVE AcceptedIsUsable
    BY DEF AcceptedIsUsable
  <2>1. cfg.threshold > 0 /\ cfg.retention > 0
    BY LoadedNumbersPositive DEF BootInv
  <2>2. healthcheck(sources.env) = ServerTLS(sources.env)
    BY DEF healthcheck, ServerTLS
  <2>. QED
    BY <2>1, <2>2, ValidatedIsUsable DEF BootInv, AcceptedIsUsable
<1>. QED
  BY <1>1, <1>2, BootStep, PTL DEF Spec

=============================================================================
