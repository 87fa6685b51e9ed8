--------------------------- MODULE LifecycleProofs ---------------------------
(***************************************************************************)
(* Theorems about start and shutdown, for every set of requests, every     *)
(* pool size and every setting of READINESS_DRAIN_DELAY.                   *)
(***************************************************************************)
EXTENDS Lifecycle, TLAPS

-----------------------------------------------------------------------------
(* The inductive invariant, one part per promise main.go has to keep *)

\* The phases of runGracefulShutdown after srv.Shutdown, after GracefulStop or
\* Stop, and after pool.Close.
HttpClosed == {"http_stop", "grpc_stop", "grpc_force", "pool_close", "report", "flush"}
GrpcClosed == {"pool_close", "report", "flush"}
PoolGone == {"report", "flush"}

\* The process has an exit exactly when it is over, and reports once at the end.
EndOK ==
    /\ main.exit # "none" <=> main.phase = "exited"
    /\ main.exit # "clean" => main.telemetry
    /\ main.stopped # "none" => main.phase \in {"flush", "exited"}
    /\ main.phase = "flush" \/ main.exit = "clean" => main.stopped = main.outcome
    /\ main.phase \in PoolGone \/ main.exit = "clean" => main.pool = "closed"

\* Readiness turns before the first second of the drain delay is over.
DrainOK ==
    /\ main.flag => main.health = "NOT_SERVING"
    /\ main.phase \in {"drain"} \cup HttpClosed => main.flag
    /\ main.clock = 0 => main.flag /\ probe # "pinging"
    /\ main.http = "closed" => main.clock = 0
    /\ main.phase \in HttpClosed => main.http = "closed"

\* No server takes a request after it was told to stop, and the pool closes
\* after the gRPC handlers have returned.
ServersOK ==
    /\ main.phase \in HttpClosed \ {"http_stop"} => main.grpc \notin {"off", "serving"}
    /\ main.grpc \in {"draining", "stopped"} => main.flag
    /\ main.phase = "pool_close" => main.pool = "closing"
    /\ main.pool \in {"closing", "closed"} =>
          /\ main.phase \in GrpcClosed \cup {"exited"}
          /\ main.grpc \notin {"off", "serving"}
          /\ \A r \in Rpc : ~Active(r)

\* While the outcome is graceful nothing is cut, and what has been drained
\* stays so.
Untouched(r) == req[r] \in {"idle", "answered"}

OutcomeOK ==
    /\ main.outcome = "graceful" /\ main.phase # "exited" =>
          /\ main.grpc # "stopped"
          /\ \A r \in Request : req[r] \notin {"failed", "cut"}
          /\ main.phase \in HttpClosed \ {"http_stop"} => \A r \in Web : Untouched(r)
          /\ main.phase \in GrpcClosed => \A r \in Rpc : Untouched(r)
    /\ main.stopped = "graceful" => \A r \in Request : Untouched(r)
    /\ main.phase = "grpc_force" => main.outcome = "error"

\* A handler that holds a connection has that use still to finish.
UsesOK == \A r \in Request : req[r] = "tx" => uses[r] \in 1..2

\* What main.go, its servers and its handlers keep true together.
LifecycleInv == TypeOK /\ UsesOK /\ EndOK /\ DrainOK /\ ServersOK /\ OutcomeOK

-----------------------------------------------------------------------------
(* The steps, by what they change *)

\* A step of one request, or of the readiness probe: the process stands still.
RequestStep ==
    \E r \in Request : BeginRequest(r) \/ Handle(r) \/ Answer(r)
ProbeStep == ProbeBegin \/ ProbeEnd

\* A step of the process that touches no request.
MainStep ==
    \/ Boot \/ HttpListens \/ GrpcServeFails \/ Signal
    \/ BeginDrain \/ DrainTick \/ ShutdownHttp \/ HttpDrained \/ HttpTimeout
    \/ GrpcDrained \/ GrpcTimeout \/ GrpcForced \/ PoolClosed \/ ProcessStopped

\* A step that ends the process.
ExitStep == BootFails \/ GrpcFatal \/ SignalTooEarly \/ Killed \/ ShutdownTelemetry

\* Every step is of one of these kinds, and an exited process takes none.
LEMMA StepKinds ==
    Next => /\ main.phase # "exited"
            /\ RequestStep \/ ProbeStep \/ MainStep \/ ExitStep
  BY DEF Next, Live, Shutdown, RequestStep, ProbeStep, MainStep, ExitStep

\* The drain delay is between a second and half a minute, whatever is set.
LEMMA SecondsWithinType ==
    ASSUME NEW ms \in Int
    PROVE  SecondsWithin(ms, 5, 30) \in 1..30
  BY DEF SecondsWithin

\* A process that has just started has told nobody anything.
LEMMA LifecycleInit == Init => LifecycleInv
  <1> SUFFICES ASSUME Init PROVE LifecycleInv
    OBVIOUS
  <1>1. main.clock \in 1..30
    BY SecondsWithinType, LifecycleAssumption DEF Init
  <1> QED
    BY <1>1 DEF Init, LifecycleInv, TypeOK, EndOK, DrainOK, ServersOK, OutcomeOK,
                UsesOK, ProcessState, HttpClosed, GrpcClosed, PoolGone, Active, Untouched

\* A step of a request changes its progress and nothing of the process.  It is
\* running only if its server takes requests; an error needs a pool that closes
\* and a cut the hard Stop.
LEMMA RequestEffect ==
    ASSUME TypeOK, UsesOK, RequestStep
    PROVE  /\ UNCHANGED <<main, probe>>
           /\ uses' \in [Request -> 0..2]
           /\ UsesOK'
           /\ \E r \in Request, s \in {"running", "tx", "answered", "failed", "cut"} :
                /\ req' = [req EXCEPT ![r] = s]
                /\ ~Active(r) => /\ r \in Rpc => main.grpc = "serving"
                                 /\ r \notin Rpc => main.http = "serving"
                /\ s = "failed" => main.pool \in {"closing", "closed"}
                /\ s = "cut" => r \in Rpc /\ main.grpc = "stopped"
  <1>1. PICK r \in Request : BeginRequest(r) \/ Handle(r) \/ Answer(r)
    BY DEF RequestStep
  <1>2. CASE BeginRequest(r)
    BY <1>2 DEF BeginRequest, Progress, TypeOK, UsesOK
  <1>3. CASE Acquire(r) \/ AcquireFails(r) \/ Answer(r)
    BY <1>3 DEF Acquire, AcquireFails, Answer, Running, Progress, TypeOK, UsesOK, Active
  <1>4. CASE ReleaseConn(r)
    <2>1. uses[r] \in 1..2
      BY <1>4 DEF ReleaseConn, UsesOK
    <2>2. uses[r] - 1 \in 0..2
      BY <2>1
    <2>3. uses' = [uses EXCEPT ![r] = uses[r] - 1]
      BY <1>4 DEF ReleaseConn
    <2>4. uses' \in [Request -> 0..2]
      BY <2>2, <2>3 DEF TypeOK
    <2> QED
      BY <1>4, <2>3, <2>4 DEF ReleaseConn, Progress, TypeOK, UsesOK, Active
  <1>5. CASE Unwind(r)
    BY <1>5 DEF Unwind, Cancelled, Progress, TypeOK, UsesOK, Active
  <1> QED
    BY <1>1, <1>2, <1>3, <1>4, <1>5 DEF Handle

\* A request may end in every way, but is not lost while the outcome is graceful.
LEMMA RequestStepInv ==
    ASSUME LifecycleInv, main.phase # "exited", RequestStep PROVE LifecycleInv'
  <1>1. /\ UNCHANGED <<main, probe>>
        /\ uses' \in [Request -> 0..2] /\ UsesOK'
    BY RequestEffect DEF LifecycleInv
  <1>2. PICK r \in Request, s \in {"running", "tx", "answered", "failed", "cut"} :
           /\ req' = [req EXCEPT ![r] = s]
           /\ ~Active(r) => /\ r \in Rpc => main.grpc = "serving"
                            /\ r \notin Rpc => main.http = "serving"
           /\ s = "failed" => main.pool \in {"closing", "closed"}
           /\ s = "cut" => r \in Rpc /\ main.grpc = "stopped"
    BY RequestEffect DEF LifecycleInv
  <1>3. TypeOK' /\ EndOK' /\ DrainOK'
    BY <1>1, <1>2 DEF LifecycleInv, TypeOK, EndOK, DrainOK
  <1>4. ServersOK'
    BY <1>1, <1>2 DEF LifecycleInv, TypeOK, ServersOK, Active, Request
  <1>5. OutcomeOK'
    <2>1. CASE main.outcome = "graceful" /\ main.phase \in HttpClosed \ {"http_stop"}
      BY <1>1, <1>2, <2>1
      DEF LifecycleInv, TypeOK, DrainOK, ServersOK, OutcomeOK, EndOK, Active, Untouched, Request,
          HttpClosed, GrpcClosed
    <2>2. CASE ~(main.outcome = "graceful" /\ main.phase \in HttpClosed \ {"http_stop"})
      BY <1>1, <1>2, <2>2
      DEF LifecycleInv, TypeOK, ServersOK, OutcomeOK, EndOK, HttpClosed, GrpcClosed
    <2> QED
      BY <2>1, <2>2
  <1> QED
    BY <1>1, <1>3, <1>4, <1>5 DEF LifecycleInv

\* A probe never answers OK once the flag is set.
LEMMA ProbeStepInv ==
    ASSUME LifecycleInv, ProbeStep PROVE LifecycleInv'
  BY DEF LifecycleInv, TypeOK, UsesOK, EndOK, DrainOK, ServersOK, OutcomeOK, ProbeStep, ProbeBegin,
         ProbeEnd, Active, Untouched

\* main brings the servers up, and takes them down in its order.
LEMMA MainStepInv ==
    ASSUME LifecycleInv, main.phase # "exited", MainStep PROVE LifecycleInv'
  <1> USE DEF LifecycleInv, TypeOK, ProcessState, Step
  <1>1. CASE ConnectPool
    <2>1. TypeOK' /\ UsesOK'
      BY <1>1 DEF ConnectPool, UsesOK
    <2>2. EndOK' /\ DrainOK'
      BY <1>1 DEF ConnectPool, EndOK, DrainOK, PoolGone, HttpClosed
    <2>3. ServersOK' /\ OutcomeOK'
      BY <1>1 DEF ConnectPool, EndOK, DrainOK, ServersOK, OutcomeOK,
                  HttpClosed, GrpcClosed, Active, Untouched, Request
    <2> QED
      BY <2>1, <2>2, <2>3
  <1>2. CASE StartGrpc
    <2>1. TypeOK' /\ UsesOK'
      BY <1>2 DEF StartGrpc, UsesOK
    <2>2. EndOK' /\ DrainOK'
      BY <1>2 DEF StartGrpc, EndOK, DrainOK, PoolGone, HttpClosed
    <2>3. ServersOK' /\ OutcomeOK'
      BY <1>2 DEF StartGrpc, EndOK, DrainOK, ServersOK, OutcomeOK,
                  HttpClosed, GrpcClosed, Active, Untouched, Request
    <2> QED
      BY <2>1, <2>2, <2>3
  <1>3. CASE StartHttp
    <2>1. TypeOK' /\ UsesOK'
      BY <1>3 DEF StartHttp, UsesOK
    <2>2. EndOK' /\ DrainOK'
      BY <1>3 DEF StartHttp, EndOK, DrainOK, PoolGone, HttpClosed
    <2>3. ServersOK' /\ OutcomeOK'
      BY <1>3 DEF StartHttp, EndOK, DrainOK, ServersOK, OutcomeOK,
                  HttpClosed, GrpcClosed, Active, Untouched, Request
    <2> QED
      BY <2>1, <2>2, <2>3
  <1>4. CASE InstallSignals
    <2>1. TypeOK' /\ UsesOK'
      BY <1>4 DEF InstallSignals, UsesOK
    <2>2. EndOK' /\ DrainOK'
      BY <1>4 DEF InstallSignals, EndOK, DrainOK, PoolGone, HttpClosed
    <2>3. ServersOK' /\ OutcomeOK'
      BY <1>4 DEF InstallSignals, EndOK, DrainOK, ServersOK, OutcomeOK,
                  HttpClosed, GrpcClosed, Active, Untouched, Request
    <2> QED
      BY <2>1, <2>2, <2>3
  <1>5. CASE HttpListens
    <2>1. TypeOK' /\ UsesOK'
      BY <1>5 DEF HttpListens, UsesOK
    <2>2. EndOK' /\ DrainOK'
      BY <1>5 DEF HttpListens, EndOK, DrainOK, PoolGone, HttpClosed
    <2>3. ServersOK' /\ OutcomeOK'
      BY <1>5 DEF HttpListens, EndOK, DrainOK, ServersOK, OutcomeOK,
                  HttpClosed, GrpcClosed, Active, Untouched, Request
    <2> QED
      BY <2>1, <2>2, <2>3
  <1>6. CASE GrpcServeFails
    <2>1. TypeOK' /\ UsesOK'
      BY <1>6 DEF GrpcServeFails, UsesOK
    <2>2. EndOK' /\ DrainOK'
      BY <1>6 DEF GrpcServeFails, EndOK, DrainOK, PoolGone, HttpClosed
    <2>3. ServersOK' /\ OutcomeOK'
      BY <1>6 DEF GrpcServeFails, EndOK, DrainOK, ServersOK, OutcomeOK,
                  HttpClosed, GrpcClosed, Active, Untouched, Request
    <2> QED
      BY <2>1, <2>2, <2>3
  <1>7. CASE Signal
    <2>1. TypeOK' /\ UsesOK'
      BY <1>7 DEF Signal, UsesOK
    <2>2. EndOK' /\ DrainOK'
      BY <1>7 DEF Signal, EndOK, DrainOK, PoolGone, HttpClosed
    <2>3. ServersOK' /\ OutcomeOK'
      BY <1>7 DEF Signal, EndOK, DrainOK, ServersOK, OutcomeOK,
                  HttpClosed, GrpcClosed, Active, Untouched, Request
    <2> QED
      BY <2>1, <2>2, <2>3
  <1>8. CASE BeginDrain
    <2>1. TypeOK' /\ UsesOK'
      BY <1>8 DEF BeginDrain, UsesOK
    <2>2. EndOK' /\ DrainOK'
      BY <1>8 DEF BeginDrain, EndOK, DrainOK, PoolGone, HttpClosed
    <2>3. ServersOK' /\ OutcomeOK'
      BY <1>8 DEF BeginDrain, EndOK, DrainOK, ServersOK, OutcomeOK,
                  HttpClosed, GrpcClosed, Active, Untouched, Request
    <2> QED
      BY <2>1, <2>2, <2>3
  <1>9. CASE DrainTick
    <2>1. TypeOK' /\ UsesOK'
      BY <1>9 DEF DrainTick, PingEnded, UsesOK
    <2>2. EndOK' /\ DrainOK'
      BY <1>9 DEF DrainTick, PingEnded, EndOK, DrainOK, PoolGone, HttpClosed
    <2>3. ServersOK' /\ OutcomeOK'
      BY <1>9 DEF DrainTick, PingEnded, EndOK, DrainOK, ServersOK, OutcomeOK,
                  HttpClosed, GrpcClosed, Active, Untouched, Request
    <2> QED
      BY <2>1, <2>2, <2>3
  <1>10. CASE ShutdownHttp
    <2>1. TypeOK' /\ UsesOK'
      BY <1>10 DEF ShutdownHttp, UsesOK
    <2>2. EndOK' /\ DrainOK'
      BY <1>10 DEF ShutdownHttp, EndOK, DrainOK, PoolGone, HttpClosed
    <2>3. ServersOK' /\ OutcomeOK'
      BY <1>10 DEF ShutdownHttp, EndOK, DrainOK, ServersOK, OutcomeOK,
                  HttpClosed, GrpcClosed, Active, Untouched, Request
    <2> QED
      BY <2>1, <2>2, <2>3
  <1>11. CASE HttpDrained
    <2>1. TypeOK' /\ UsesOK'
      BY <1>11 DEF HttpDrained, StopGrpc, UsesOK
    <2>2. EndOK'
      BY <1>11 DEF HttpDrained, StopGrpc, EndOK, PoolGone
    <2>4. DrainOK'
      BY <1>11 DEF HttpDrained, StopGrpc, DrainOK, HttpClosed
    <2>3. ServersOK' /\ OutcomeOK'
      BY <1>11 DEF HttpDrained, StopGrpc, EndOK, DrainOK, ServersOK, OutcomeOK,
                  HttpClosed, GrpcClosed, Active, Untouched, Request
    <2> QED
      BY <2>1, <2>2, <2>3, <2>4
  <1>12. CASE HttpTimeout
    <2>1. TypeOK' /\ UsesOK'
      BY <1>12, ZenonT(60) DEF HttpTimeout, StopGrpc, UsesOK
    <2>2. EndOK'
      BY <1>12 DEF HttpTimeout, StopGrpc, EndOK, PoolGone
    <2>4. DrainOK'
      BY <1>12 DEF HttpTimeout, StopGrpc, DrainOK, HttpClosed
    <2>3. ServersOK' /\ OutcomeOK'
      BY <1>12 DEF HttpTimeout, StopGrpc, EndOK, DrainOK, ServersOK, OutcomeOK,
                  HttpClosed, GrpcClosed, Active, Untouched, Request
    <2> QED
      BY <2>1, <2>2, <2>3, <2>4
  <1>13. CASE GrpcDrained
    <2>1. TypeOK' /\ UsesOK'
      BY <1>13 DEF GrpcDrained, ClosePool, UsesOK
    <2>2. EndOK' /\ DrainOK'
      BY <1>13 DEF GrpcDrained, ClosePool, EndOK, DrainOK, PoolGone, HttpClosed
    <2>3. ServersOK' /\ OutcomeOK'
      BY <1>13 DEF GrpcDrained, ClosePool, EndOK, DrainOK, ServersOK, OutcomeOK,
                  HttpClosed, GrpcClosed, Active, Untouched, Request
    <2> QED
      BY <2>1, <2>2, <2>3
  <1>14. CASE GrpcTimeout
    <2>1. TypeOK' /\ UsesOK'
      BY <1>14, ZenonT(60) DEF GrpcTimeout, UsesOK
    <2>2. EndOK' /\ DrainOK'
      BY <1>14 DEF GrpcTimeout, EndOK, DrainOK, PoolGone, HttpClosed
    <2>3. ServersOK' /\ OutcomeOK'
      BY <1>14 DEF GrpcTimeout, EndOK, DrainOK, ServersOK, OutcomeOK,
                  HttpClosed, GrpcClosed, Active, Untouched, Request
    <2> QED
      BY <2>1, <2>2, <2>3
  <1>15. CASE GrpcForced
    <2>1. TypeOK' /\ UsesOK'
      BY <1>15 DEF GrpcForced, ClosePool, UsesOK
    <2>2. EndOK' /\ DrainOK'
      BY <1>15 DEF GrpcForced, ClosePool, EndOK, DrainOK, PoolGone, HttpClosed
    <2>3. ServersOK' /\ OutcomeOK'
      BY <1>15 DEF GrpcForced, ClosePool, EndOK, DrainOK, ServersOK, OutcomeOK,
                  HttpClosed, GrpcClosed, Active, Untouched, Request
    <2> QED
      BY <2>1, <2>2, <2>3
  <1>16. CASE PoolClosed
    <2>1. TypeOK' /\ UsesOK'
      BY <1>16 DEF PoolClosed, UsesOK
    <2>2. EndOK' /\ DrainOK'
      BY <1>16 DEF PoolClosed, EndOK, DrainOK, PoolGone, HttpClosed
    <2>3. ServersOK' /\ OutcomeOK'
      BY <1>16 DEF PoolClosed, EndOK, DrainOK, ServersOK, OutcomeOK,
                  HttpClosed, GrpcClosed, Active, Untouched, Request
    <2> QED
      BY <2>1, <2>2, <2>3
  <1>17. CASE ProcessStopped
    <2>0. /\ main.phase = "report" /\ UNCHANGED <<probe, req, uses>>
          /\ main' = [main EXCEPT !.phase = "flush", !.stopped = main.outcome]
      BY <1>17, Zenon DEF ProcessStopped, EndOK
    <2>1. TypeOK' /\ UsesOK'
      BY <2>0 DEF UsesOK, EndOK
    <2>2. EndOK' /\ DrainOK'
      BY <2>0 DEF EndOK, DrainOK, PoolGone, HttpClosed
    <2>3. ServersOK' /\ OutcomeOK'
      BY <2>0 DEF EndOK, DrainOK, ServersOK, OutcomeOK,
                  HttpClosed, GrpcClosed, Active, Untouched, Request
    <2> QED
      BY <2>1, <2>2, <2>3
  <1> QED
    BY <1>1, <1>2, <1>3, <1>4, <1>5, <1>6, <1>7, <1>8, <1>9, <1>10, <1>11, <1>12, <1>13,
       <1>14, <1>15, <1>16, <1>17 DEF MainStep, Boot

\* The end cuts what was running; a clean one comes after the report.
LEMMA ExitStepInv ==
    ASSUME LifecycleInv, main.phase # "exited", ExitStep PROVE LifecycleInv'
  <1> USE DEF LifecycleInv, TypeOK, ProcessState, Active
  <1>1. ASSUME NEW how \in {"fatal", "signal", "killed"}, ExitAs(how) PROVE LifecycleInv'
    <2>1. TypeOK' /\ UsesOK'
      BY <1>1, ZenonT(60) DEF ExitAs, UsesOK
    <2>2. EndOK' /\ DrainOK'
      BY <1>1 DEF ExitAs, EndOK, DrainOK, PoolGone, HttpClosed
    <2>3. ServersOK' /\ OutcomeOK'
      BY <1>1 DEF ExitAs, EndOK, DrainOK, ServersOK, OutcomeOK, HttpClosed, GrpcClosed, Untouched, Request
    <2> QED
      BY <2>1, <2>2, <2>3
  <1>2. CASE ShutdownTelemetry
    <2>1. TypeOK' /\ UsesOK'
      BY <1>2 DEF ShutdownTelemetry, UsesOK
    <2>2. EndOK' /\ DrainOK'
      BY <1>2 DEF ShutdownTelemetry, EndOK, DrainOK, PoolGone, HttpClosed
    <2>3. ServersOK' /\ OutcomeOK'
      BY <1>2 DEF ShutdownTelemetry, EndOK, DrainOK, ServersOK, OutcomeOK, HttpClosed, GrpcClosed,
                  Untouched, Request
    <2> QED
      BY <2>1, <2>2, <2>3
  <1> QED
    BY <1>1, <1>2 DEF ExitStep, BootFails, GrpcFatal, SignalTooEarly, Killed

\* LifecycleInv is inductive.
LEMMA LifecycleStep == LifecycleInv /\ [Next]_vars => LifecycleInv'
  <1>1. LifecycleInv /\ UNCHANGED vars => LifecycleInv'
    BY DEF vars, LifecycleInv, TypeOK, UsesOK, EndOK, DrainOK, ServersOK, OutcomeOK, Active, Untouched
  <1> QED
    BY <1>1, StepKinds, RequestStepInv, ProbeStepInv, MainStepInv, ExitStepInv

-----------------------------------------------------------------------------
(* What follows *)

\* A process.stopped record that says graceful is true.
THEOREM GracefulIsAlwaysTrue == Spec => []GracefulIsTrue
  <1>1. LifecycleInv => GracefulIsTrue
    BY DEF LifecycleInv, OutcomeOK, Untouched, GracefulIsTrue
  <1> QED
    BY LifecycleInit, LifecycleStep, <1>1, PTL DEF Spec

\* No gRPC handler ever meets a pool that is closing.
THEOREM PoolAlwaysOutlivesRpcs == Spec => []PoolOutlivesRpcs
  <1>1. LifecycleInv => PoolOutlivesRpcs
    BY DEF LifecycleInv, ServersOK, PoolOutlivesRpcs
  <1> QED
    BY LifecycleInit, LifecycleStep, <1>1, PTL DEF Spec

\* No listener closes on a process that still says it is ready.
THEOREM UnreadyFirst == Spec => []UnreadyBeforeListenersClose
  <1>1. LifecycleInv => UnreadyBeforeListenersClose
    BY DEF LifecycleInv, DrainOK, ServersOK, UnreadyBeforeListenersClose
  <1> QED
    BY LifecycleInit, LifecycleStep, <1>1, PTL DEF Spec

\* A process that ends by itself has said how.
THEOREM CleanExitAlwaysReported == Spec => []CleanExitReported
  <1>1. LifecycleInv => CleanExitReported
    BY DEF LifecycleInv, EndOK, CleanExitReported
  <1> QED
    BY LifecycleInit, LifecycleStep, <1>1, PTL DEF Spec
=============================================================================
