----------------------------- MODULE Lifecycle -----------------------------
(***************************************************************************)
(* cmd/main.go on the serving path: the order in which the process brings  *)
(* up its pool, gRPC server and HTTP server, and the order in which        *)
(* runGracefulShutdown takes them down while requests are being served.    *)
(* A request alternates between Go code and uses of a pooled connection (a *)
(* transaction or a query); what it reads and writes is in the other       *)
(* modules.  The servers of net/http and grpc-go and pgxpool are external, *)
(* modelled by what main relies on.                                        *)
(***************************************************************************)
EXTENDS Integers, FiniteSets

CONSTANTS
    Rpc,            \* gRPC requests and streams
    Web,            \* admin HTTP requests
    Slow,           \* those that may never end by themselves
    PoolSize,       \* DB_POOL_MAX_CONNECTIONS
    DrainSettings   \* values of READINESS_DRAIN_DELAY, in milliseconds

ASSUME LifecycleAssumption ==
    /\ Rpc \cap Web = {} /\ Slow \subseteq Rpc \cup Web
    /\ IsFiniteSet(Rpc \cup Web)
    /\ PoolSize \in Nat \ {0} /\ DrainSettings \subseteq Int

Request == Rpc \cup Web

VARIABLES
    main,    \* the process, see ProcessState
    probe,   \* a GET /ready
    req,     \* progress of each request
    uses     \* connections a running request has yet to use

vars == <<main, probe, req, uses>>

ProcessState ==
    [phase: {"boot", "connected", "grpc", "http", "serving", "drain",
             "http_stop", "grpc_stop", "grpc_force", "pool_close", "report",
             "flush", "exited"},      \* where the main goroutine is
     exit: {"none", "fatal", "killed", "signal", "clean"},
     term: BOOLEAN,                   \* SIGTERM or SIGINT was received
     flag: BOOLEAN,                   \* isShuttingDown
     health: {"SERVING", "NOT_SERVING"},
     grpc: {"off", "serving", "failed", "draining", "stopped"},
     http: {"off", "starting", "serving", "failed", "closed"},
     pool: {"none", "open", "closing", "closed"},
     clock: 0..30,                    \* seconds left of the drain delay
     outcome: {"graceful", "error"},
     telemetry: BOOLEAN,              \* the OTel SDK still exports
     stopped: {"none", "graceful", "error"}]   \* exported process.stopped

Active(r) == req[r] \in {"running", "tx"}
InUse == {r \in Request : req[r] = "tx"}
FreeConn == main.pool = "open" /\ Cardinality(InUse) < PoolSize

\* Mutant of SecondsWithin: a zero setting is taken as it is.
SecondsWithinOrZero(ms, default, max) ==
    IF ms \div 1000 \in 0..max THEN ms \div 1000 ELSE default

\* getEnvDurationSecondsWithMax: whole seconds within 1..max, else the default.
SecondsWithin(ms, default, max) ==
    IF ms \div 1000 \in 1..max THEN ms \div 1000 ELSE default

Init ==
    /\ \E ms \in DrainSettings :
          main = [phase |-> "boot", exit |-> "none", term |-> FALSE,
                  flag |-> FALSE, health |-> "SERVING", grpc |-> "off",
                  http |-> "off", pool |-> "none",
                  clock |-> SecondsWithin(ms, 5, 30), outcome |-> "graceful",
                  telemetry |-> TRUE, stopped |-> "none"]
    /\ probe = "none"
    /\ req = [r \in Request |-> "idle"] /\ uses = [r \in Request |-> 0]

-----------------------------------------------------------------------------
(* Requests *)

Progress(r, status) ==
    /\ req' = [req EXCEPT ![r] = status]
    /\ UNCHANGED <<main, probe>>

BeginRequest(r) ==
    /\ req[r] = "idle"
    /\ "serving" = IF r \in Rpc THEN main.grpc ELSE main.http
    /\ Progress(r, "running")
    /\ \E n \in 0..2 : uses' = [uses EXCEPT ![r] = n]

Cancelled(r) == r \in Rpc /\ main.grpc = "stopped"

\* A running handler with n uses of a connection to go.
Running(r, n) == req[r] = "running" /\ uses[r] \in n /\ ~Cancelled(r)

Acquire(r) == Running(r, 1..2) /\ FreeConn /\ Progress(r, "tx") /\ UNCHANGED uses

\* Begin or Query on a pool that is closing: the handler answers an error.
AcquireFails(r) ==
    /\ Running(r, 1..2) /\ main.pool \in {"closing", "closed"}
    /\ Progress(r, "failed") /\ UNCHANGED uses

\* Commit, rollback or the end of a query.
ReleaseConn(r) ==
    /\ req[r] = "tx" /\ ~Cancelled(r)
    /\ Progress(r, "running")
    /\ uses' = [uses EXCEPT ![r] = @ - 1]

\* Stop cancelled the handler's context: it rolls back and returns.
Unwind(r) == Active(r) /\ Cancelled(r) /\ Progress(r, "cut") /\ UNCHANGED uses

Answer(r) == Running(r, {0}) /\ Progress(r, "answered") /\ UNCHANGED uses

\* GET /ready reads the flag, then pings the database for at most a second.
ProbeBegin ==
    /\ main.http = "serving" /\ probe # "pinging"
    /\ probe' = IF main.flag THEN "unavailable" ELSE "pinging"
    /\ UNCHANGED <<main, req, uses>>

ProbeEnd ==
    /\ probe = "pinging"
    /\ probe' \in IF FreeConn THEN {"ok", "unavailable"} ELSE {"unavailable"}
    /\ UNCHANGED <<main, req, uses>>

-----------------------------------------------------------------------------
(* Startup.  A step of main leaves the phase from with the state m. *)

Step(from, m) == main.phase = from /\ main' = m /\ UNCHANGED <<probe, req, uses>>

ConnectPool ==
    Step("boot", [main EXCEPT !.phase = "connected", !.pool = "open"])

\* startGRPC: the port is bound and Serve runs in a goroutine.
StartGrpc ==
    Step("connected", [main EXCEPT !.phase = "grpc", !.grpc = "serving"])

\* runGracefulShutdown starts ListenAndServe in a goroutine of its own.
StartHttp == Step("grpc", [main EXCEPT !.phase = "http", !.http = "starting"])

\* signal.NotifyContext.
InstallSignals == Step("http", [main EXCEPT !.phase = "serving"])

\* The HTTP port is bound, or it is not and the error is only logged.
HttpListens ==
    /\ main.http = "starting"
    /\ \E h \in {"serving", "failed"} : main' = [main EXCEPT !.http = h]
    /\ UNCHANGED <<probe, req, uses>>

\* Serve returns an error.
GrpcServeFails ==
    /\ main.grpc = "serving"
    /\ main' = [main EXCEPT !.grpc = "failed"]
    /\ UNCHANGED <<probe, req, uses>>

-----------------------------------------------------------------------------
(* The end of the process: what was being served is cut off *)

ExitAs(how) ==
    /\ main' = [main EXCEPT !.phase = "exited", !.exit = how]
    /\ req' = [r \in Request |-> IF Active(r) THEN "cut" ELSE req[r]]
    /\ UNCHANGED <<probe, uses>>

\* The pool, the gRPC listener or the JWKS verifier cannot be set up: Fatal.
BootFails == main.phase \in {"boot", "connected", "grpc"} /\ ExitAs("fatal")

\* Mutant of GrpcFatal: the failure is logged and nothing else.
GrpcFatalOnlyLogs == main.grpc = "failed" /\ UNCHANGED vars

\* logger.Fatal in the Serve goroutine, whatever main is doing.
GrpcFatal == main.grpc = "failed" /\ ExitAs("fatal")

\* Before signal.NotifyContext the default disposition ends the process.
SignalTooEarly ==
    main.phase \in {"boot", "connected", "grpc", "http"} /\ ExitAs("signal")

\* SIGKILL, out of memory, node failure.
Killed == ExitAs("killed")

-----------------------------------------------------------------------------
(* Shutdown *)

Signal ==
    /\ ~main.term /\ main.phase \notin {"boot", "connected", "grpc", "http"}
    /\ main' = [main EXCEPT !.term = TRUE]
    /\ UNCHANGED <<probe, req, uses>>

BeginDrain ==
    /\ main.term
    /\ Step("serving", [main EXCEPT !.phase = "drain", !.flag = TRUE,
                                    !.health = "NOT_SERVING"])

\* Assumed of time: the ping of /ready has a timeout of one second, so that one
\* begun before a second of sleep is over when the second is.
PingEnded == probe # "pinging"

\* A second of time.Sleep.
DrainTick ==
    /\ main.clock > 0 /\ PingEnded
    /\ Step("drain", [main EXCEPT !.clock = @ - 1])

\* srv.Shutdown closes the listener and waits for the handlers.
ShutdownHttp ==
    /\ main.clock = 0
    /\ Step("drain", [main EXCEPT !.phase = "http_stop", !.http = "closed"])

\* GracefulStop: no new RPC.  A server that already failed stays so.
StopGrpc(m) ==
    Step("http_stop", [m EXCEPT !.phase = "grpc_stop",
                                !.grpc = IF @ = "failed" THEN @ ELSE "draining"])

HttpDrained == (\A r \in Web : ~Active(r)) /\ probe # "pinging" /\ StopGrpc(main)

\* Mutant of HttpTimeout: the outcome is not touched.
HttpTimeoutUnreported == StopGrpc(main)

\* SHUTDOWN_TIMEOUT: the handlers run on, their contexts are not cancelled.
HttpTimeout == StopGrpc([main EXCEPT !.outcome = "error"])

ClosePool(from) ==
    Step(from, [main EXCEPT !.phase = "pool_close", !.pool = "closing"])

GrpcDrained == (\A r \in Rpc : ~Active(r)) /\ ClosePool("grpc_stop")

\* Mutant of GrpcTimeout: without the hard Stop the wait goes on.
GrpcTimeoutWaits == main.phase = "grpc_stop" /\ UNCHANGED vars

\* Ten seconds: Stop closes the connections and cancels the handlers.
GrpcTimeout ==
    Step("grpc_stop", [main EXCEPT !.phase = "grpc_force", !.grpc = "stopped",
                                   !.outcome = "error"])

\* Mutant of GrpcForced: <-stopped is dropped.
GrpcForcedAtOnce == ClosePool("grpc_force")

\* <-stopped: GracefulStop returns once the handlers have.
GrpcForced == (\A r \in Rpc : ~Active(r)) /\ ClosePool("grpc_force")

\* Mutant of PoolClosed: the OTel SDK is shut down before process.stopped.
PoolClosedTelemetryFirst ==
    /\ InUse = {}
    /\ Step("pool_close", [main EXCEPT !.phase = "report", !.pool = "closed",
                                       !.telemetry = FALSE])

\* pool.Close returns when every connection has been given back.
PoolClosed ==
    /\ InUse = {}
    /\ Step("pool_close", [main EXCEPT !.phase = "report", !.pool = "closed"])

ProcessStopped ==
    Step("report", [main EXCEPT !.phase = "flush", !.stopped =
                        IF main.telemetry THEN main.outcome ELSE "none"])

\* tp.Shutdown, bounded by its own five seconds, and the end of main.
ShutdownTelemetry ==
    /\ main.phase = "flush"
    /\ main' = [main EXCEPT !.phase = "exited", !.exit = "clean",
                            !.telemetry = FALSE]
    /\ req' = [r \in Request |-> IF Active(r) THEN "cut" ELSE req[r]]
    /\ UNCHANGED <<probe, uses>>

-----------------------------------------------------------------------------
Boot == ConnectPool \/ StartGrpc \/ StartHttp \/ InstallSignals

Shutdown ==
    \/ BeginDrain \/ DrainTick \/ ShutdownHttp \/ HttpDrained \/ HttpTimeout
    \/ GrpcDrained \/ GrpcTimeout \/ GrpcForced \/ PoolClosed
    \/ ProcessStopped \/ ShutdownTelemetry

\* The steps of a handler that need nobody else.
Handle(r) == Acquire(r) \/ AcquireFails(r) \/ ReleaseConn(r) \/ Unwind(r)

Live(A) == main.phase # "exited" /\ A

Next ==
    Live(\/ Boot \/ BootFails \/ HttpListens \/ GrpcServeFails \/ GrpcFatal
         \/ Signal \/ SignalTooEarly \/ Killed \/ Shutdown
         \/ ProbeBegin \/ ProbeEnd
         \/ \E r \in Request : BeginRequest(r) \/ Handle(r) \/ Answer(r))

Spec == Init /\ [][Next]_vars

\* The goroutines are scheduled, statements end (statement_timeout) and a
\* cancelled handler returns.  Nothing makes a slow client read its answer, a
\* health watcher leave, a request arrive or the process be killed.
Fairness ==
    /\ WF_vars(Live(Boot)) /\ WF_vars(Live(Shutdown)) /\ WF_vars(Live(GrpcFatal))
    /\ WF_vars(Live(ProbeEnd))
    /\ \A r \in Request : WF_vars(Live(Handle(r)))
    /\ \A r \in Request \ Slow : WF_vars(Live(Answer(r)))

FairSpec == Spec /\ Fairness

-----------------------------------------------------------------------------
(* Properties *)

\* Every variable has a value of its type.
TypeOK ==
    /\ main \in ProcessState
    /\ probe \in {"none", "pinging", "ok", "unavailable"}
    /\ req \in [Request -> {"idle", "running", "tx", "answered", "failed", "cut"}]
    /\ uses \in [Request -> 0..2]

\* A process.stopped record that says graceful is true: no request accepted by
\* either server was cut off, met a closed pool or was left behind.
GracefulIsTrue ==
    main.stopped = "graceful" => \A r \in Request : req[r] \in {"idle", "answered"}

\* The pool outlives the gRPC server: it is never closing while an RPC handler
\* may still begin, commit or roll back a transaction.
PoolOutlivesRpcs ==
    main.pool \in {"closing", "closed"} => \A r \in Rpc : ~Active(r)

\* The listeners close only after both readiness signals have turned: the gRPC
\* health status, and /ready, whose last ping begun before the flag was set
\* cannot answer OK any more (the drain delay is at least as long).
UnreadyBeforeListenersClose ==
    /\ main.http = "closed" => probe # "pinging" /\ main.flag
    /\ main.grpc \in {"draining", "stopped"} => main.health = "NOT_SERVING"

\* A process that ends by itself has exported its process.stopped record, with
\* the outcome it had, after the pool was closed.
CleanExitReported ==
    main.exit = "clean" => main.stopped = main.outcome /\ main.pool = "closed"

\* A received SIGTERM ends the process, whatever streams, slow clients and
\* open transactions there are ("fall back to a hard Stop after 10s").
TermEnds == main.term ~> main.phase = "exited"

\* A pod whose gRPC server failed does not stay up as a Ready zombie.
NoReadyZombie == (main.grpc = "failed") ~> (main.phase = "exited")
=============================================================================
