----------------------------- MODULE Lifecycle -----------------------------
(***************************************************************************)
(* The life of one gateway process, main of cmd/gateway/main.go: startup,  *)
(* the goroutine that waits for a signal and shuts the server down, the    *)
(* spool's forwarder, requests and their connections, and the order in     *)
(* which main stops and closes things at the end.                          *)
(*                                                                         *)
(* Spool, AuditedSpool, SyncDelivery and DayFile have what a request and   *)
(* the forwarder do in detail; here it is the files that they open.  A     *)
(* request is one connection with one call of /process.                    *)
(***************************************************************************)
EXTENDS Config, FiniteSets

CONSTANT Requests

VARIABLES
    sources,    \* environment and file, Unset once nothing reads them any more
    cfg,        \* the cached GatewayConfig, likewise
    setup,      \* what startup opened: subset of {"standalone", "audit", "spool"}
    main,       \* next step of main; "gone" when there is no process
    watcher,    \* the goroutine of the signal: next step
    sigterm,    \* SIGTERM or SIGINT was sent
    forwarder,  \* the goroutine of spool.Run: next step
    cancelled,  \* stopForwarder was called
    open,       \* the day files that are open: subset of {"sink", "audit"}
    req,        \* per request: its connection and its handler
    late,       \* history: the requests that outlived the grace period
    cause       \* why there is no process

bootVars == <<sources, cfg, setup>>
vars == <<bootVars, main, watcher, sigterm, forwarder, cancelled, open, req, late, cause>>

Connected == {r \in Requests : req[r] \in {"connected", "running", "delivered"}}
Up == main # "gone"

LifeTypeOK ==
    /\ setup \subseteq {"standalone", "audit", "spool"}
    /\ main \in {"load", "validate", "open", "listen", "serve", "drain", "join",
                 "closeSink", "closeAudit", "return", "gone"}
    /\ watcher \in {"none", "started", "watching", "draining", "done"}
    /\ {sigterm, cancelled} \subseteq BOOLEAN
    /\ forwarder \in {"none", "top", "deliver", "record", "remove", "done"}
    /\ open \subseteq {"sink", "audit"}
    /\ req \in [Requests -> {"new", "connected", "running", "delivered", "answered",
                             "refused", "cut"}]
    /\ late \subseteq Requests
    /\ cause \in {"none", "refused", "failed", "signal", "killed", "returned"}

Init ==
    /\ sources \in [env : Environments, file : Files] /\ cfg = Unset /\ setup = {}
    /\ main = "load" /\ watcher = "none" /\ sigterm = FALSE
    /\ forwarder = "none" /\ cancelled = FALSE /\ open = {}
    /\ req = [r \in Requests |-> "new"] /\ late = {} /\ cause = "none"

\* The process ends: connections are reset, callers in flight get no answer.
Gone(why) ==
    /\ main' = "gone" /\ cause' = why
    /\ req' = [r \in Requests |->
                  IF req[r] \in {"running", "delivered"} THEN "cut"
                  ELSE IF req[r] = "connected" THEN "refused" ELSE req[r]]
    /\ sources' = Unset /\ cfg' = Unset
    /\ UNCHANGED <<setup, watcher, sigterm, forwarder, cancelled, open, late>>

-----------------------------------------------------------------------------
(* Startup *)

LoadConfig ==
    /\ main = "load" /\ main' = "validate"
    /\ cfg' = Load(sources.env, sources.file)
    /\ UNCHANGED <<sources, setup, watcher, sigterm, forwarder, cancelled, open, req, late, cause>>

Accept ==
    /\ main = "validate" /\ validateStartup(cfg, sources.env)
    /\ main' = "open"
    /\ UNCHANGED <<bootVars, watcher, sigterm, forwarder, cancelled, open, req, late, cause>>

Refuse == main = "validate" /\ ~validateStartup(cfg, sources.env) /\ Gone("refused")

Because(condition, part) == IF condition THEN {part} ELSE {}

\* newLocalSink, auditlog.New and spool.New, then the two goroutines.  The
\* day files are opened by the first line that is written.
Open ==
    /\ main = "open" /\ main' = "listen"
    /\ setup' = Because(IsStandalone(cfg), "standalone")
           \cup Because("EGRESS_AUDIT_DIR" \in sources.env.given, "audit")
           \cup Because("SPOOL_DIR" \in sources.env.given, "spool")
    /\ forwarder' = IF "spool" \in setup' THEN "top" ELSE "done"
    /\ watcher' = "started"
    /\ sources' = Unset /\ cfg' = Unset
    /\ UNCHANGED <<sigterm, cancelled, open, req, late, cause>>

OpenFails == main = "open" /\ Gone("failed")

ShuttingDown == watcher \in {"draining", "done"}

\* ListenAndServe, unless Shutdown came first.
Listen ==
    /\ main = "listen" /\ ~ShuttingDown
    /\ main' = "serve"
    /\ UNCHANGED <<bootVars, watcher, sigterm, forwarder, cancelled, open, req, late, cause>>

\* The port is taken, the certificate cannot be read, or accepting fails for
\* good: os.Exit with the forwarder running.
ServerFails == main \in {"listen", "serve"} /\ ~ShuttingDown /\ Gone("failed")

-----------------------------------------------------------------------------
(* Requests *)

\* A step of one request; a day file that it writes to is open afterwards.
Handles(r, from, to, writes) ==
    /\ Up /\ req[r] = from
    /\ req' = [req EXCEPT ![r] = to]
    /\ open' = open \cup writes
    /\ UNCHANGED <<bootVars, main, watcher, sigterm, forwarder, cancelled, late, cause>>

SinkWritten  == Because("standalone" \in setup, "sink")
AuditWritten == Because("audit" \in setup, "audit")
Synchronous  == "spool" \notin setup

Connect(r) == main = "serve" /\ ~ShuttingDown /\ Handles(r, "new", "connected", {})
Begin(r)   == Handles(r, "connected", "running", {})

\* Without a spool the handler delivers, to the vendor or to the sink ...
DeliverNow(r) == Synchronous /\ Handles(r, "running", "delivered", SinkWritten)

\* ... and writes the audit record before it answers; with one it only puts
\* the signal into the spool.
Reply(r) ==
    \/ Synchronous /\ Handles(r, "delivered", "answered", AuditWritten)
    \/ ~Synchronous /\ Handles(r, "running", "answered", {})

\* The request is bad, or the delivery failed: answered without a record.
ReplyError(r) == Handles(r, "running", "answered", {})

\* server.Shutdown closes connections without a request.
CloseIdle(r) == watcher = "draining" /\ Handles(r, "connected", "refused", {})

Request(r) ==
    Connect(r) \/ Begin(r) \/ DeliverNow(r) \/ Reply(r) \/ ReplyError(r) \/ CloseIdle(r)

-----------------------------------------------------------------------------
(* The forwarder: Run of module Spool, with the sink and the audit log.      *)

Forwards(from, to, writes) ==
    /\ Up /\ forwarder = from /\ forwarder' = to
    /\ open' = open \cup writes
    /\ UNCHANGED <<bootVars, main, watcher, sigterm, cancelled, req, late, cause>>

TakeHead  == ~cancelled /\ Forwards("top", "deliver", {})
Deliver   == Forwards("deliver", "record", SinkWritten)
Record    == Forwards("record", "remove", AuditWritten)
ForwardFails == Forwards("deliver", "top", {}) \/ Forwards("record", "top", {})
RemoveHead == Forwards("remove", "top", {})
StopRun   == cancelled /\ Forwards("top", "done", {})

ForwarderStep == TakeHead \/ Deliver \/ Record \/ ForwardFails \/ RemoveHead \/ StopRun

-----------------------------------------------------------------------------
(* Signals and shutdown *)

\* Until signal.Notify was called, SIGTERM ends the process at once.  Later
\* ones stay in the channel.
Signal ==
    /\ Up /\ ~sigterm
    /\ sigterm' = TRUE
    /\ UNCHANGED <<bootVars, main, watcher, forwarder, cancelled, open, req, late, cause>>

DieOfSignal == Up /\ sigterm /\ watcher \in {"none", "started"} /\ Gone("signal")

Watches(from, to) ==
    /\ Up /\ watcher = from /\ watcher' = to
    /\ UNCHANGED <<bootVars, main, sigterm, forwarder, cancelled, open, req, cause>>

Notify   == ~sigterm /\ Watches("started", "watching") /\ UNCHANGED late
Shutdown == sigterm /\ Watches("watching", "draining") /\ UNCHANGED late

\* Shutdown returns when every connection is closed ...
Drained == Connected = {} /\ Watches("draining", "done") /\ UNCHANGED late

\* ... or after 15 s, with some still open.
GraceOver == Connected # {} /\ Watches("draining", "done") /\ late' = Connected

SignalWatcher == Notify \/ Shutdown \/ Drained \/ GraceOver

-----------------------------------------------------------------------------
(* The end of main *)

MainStep(from, to) ==
    /\ main = from /\ main' = to
    /\ UNCHANGED <<bootVars, watcher, sigterm, forwarder, req, late, cause>>

\* ListenAndServe returns as soon as Shutdown is called, not when it is done.
ServeReturns ==
    /\ ShuttingDown
    /\ MainStep("listen", "drain") \/ MainStep("serve", "drain")
    /\ UNCHANGED <<cancelled, open>>

\* Variant: main goes on when ListenAndServe returns.
DoNotAwaitShutdown == MainStep("drain", "join") /\ cancelled' = TRUE /\ UNCHANGED open

\* Variant: the forwarder is awaited before it is told to stop.
AwaitShutdownOnly == watcher = "done" /\ MainStep("drain", "join") /\ UNCHANGED <<cancelled, open>>

\* <-shutdownDone; stopForwarder().
AwaitShutdown ==
    /\ watcher = "done"
    /\ MainStep("drain", "join")
    /\ cancelled' = TRUE /\ UNCHANGED open

\* Variant: main does not wait for the forwarder.
DoNotJoinForwarder == MainStep("join", "closeSink") /\ UNCHANGED <<cancelled, open>>

\* <-forwarderDone.
JoinForwarder ==
    /\ forwarder = "done"
    /\ MainStep("join", "closeSink")
    /\ UNCHANGED <<cancelled, open>>

\* A handler that is still running opens a closed file again.
CloseSink  == MainStep("closeSink", "closeAudit") /\ open' = open \ {"sink"} /\ UNCHANGED cancelled
CloseAudit == MainStep("closeAudit", "return") /\ open' = open \ {"audit"} /\ UNCHANGED cancelled
Return     == main = "return" /\ Gone("returned")

\* SIGKILL, a panic outside a handler, or the host.
Kill == Up /\ Gone("killed")

Main ==
    \/ LoadConfig \/ Accept \/ Refuse \/ Open \/ OpenFails \/ Listen \/ ServerFails
    \/ ServeReturns \/ AwaitShutdown \/ JoinForwarder \/ CloseSink \/ CloseAudit \/ Return

Next ==
    \/ Main \/ SignalWatcher \/ ForwarderStep
    \/ \E r \in Requests : Request(r)
    \/ Signal \/ DieOfSignal \/ Kill

Spec == Init /\ [][Next]_vars

\* The Go scheduler runs every goroutine, the grace period ends, and the client
\* of the vendor has a deadline.  Handlers need no fairness.
FairSpec == Spec /\ WF_vars(Main) /\ WF_vars(SignalWatcher) /\ WF_vars(ForwarderStep)
                 /\ WF_vars(DieOfSignal)

-----------------------------------------------------------------------------
(* Properties *)

\* When main has returned, only requests that outlived the grace period were
\* left without an answer ("let in-flight requests finish").
OnlyLateAreCut ==
    cause = "returned" => \A r \in Requests : req[r] = "cut" => r \in late

\* When main has returned, the forwarder was not in the middle of a delivery
\* that the next process would repeat, and a day file is open only if a late
\* handler opened it again behind main's back.
OrderlyEnd ==
    cause = "returned" => forwarder = "done" /\ (open # {} => late # {})

\* SIGTERM ends the process, at whatever moment it comes, from the first line
\* of main on, and whatever requests and forwarder are doing.
SignalEndsProcess == sigterm ~> ~Up

\* What startup accepts is enough for all that reads the settings later: the
\* sender never misses one, mosaics under regional keying have a key, the
\* thresholds are positive, and the health probe speaks the server's protocol.
AcceptedIsUsable ==
    main = "open" =>
        /\ cfg.mode.word \in {"middleware", "standalone"} /\ cfg.mode.plain
        /\ ~IsStandalone(cfg) => CanForward(cfg, sources.env)
        /\ cfg.keying = Word("regional") => resolvePepper(sources.env) # Unset
        /\ cfg.threshold > 0 /\ cfg.retention > 0
        /\ healthcheck(sources.env) = ServerTLS(sources.env)

=============================================================================
