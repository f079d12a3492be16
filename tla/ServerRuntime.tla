---------------------------- MODULE ServerRuntime ----------------------------
(***************************************************************************)
(* The public server runtime (internal/runtime/server.go): Start, which    *)
(* binds the connector listener, runs the bifrost server in a goroutine    *)
(* and waits for it to be ready, to fail or to take too long; Stop; and    *)
(* the streams that listeners and transports open meanwhile, and the       *)
(* latencies the library observes on them.                                 *)
(*                                                                         *)
(* Caddy calls Start at most once and Stop after it, or Stop alone (an app *)
(* that was provisioned and never started), one call at a time.  Streams   *)
(* come from other goroutines at any moment: the apps that serve them may  *)
(* be started before this one.  Run and the streams inside it are the      *)
(* bifrost library's.                                                      *)
(***************************************************************************)
EXTENDS FiniteSets, PassiveLatency

CONSTANTS
  Stream,  \* calls of OpenStream and ProxyStream
  Latency  \* latencies the library may observe

ASSUME LatencyAssumption == Latency \subseteq Int
ASSUME NoneAssumption ==
  None \notin {"live", "cancelled", "open", "closed", "running", "failed",
               "returned", "nil", "error"}

VARIABLES
  caddy,      \* where Caddy's call of Start or Stop is
  result,     \* what Start returned
  ctx,        \* the context s.cancel cancels
  listener,   \* the connector listener
  server,     \* whether s.server is set
  run,        \* the goroutine that calls server.Run, which s.wg waits for
  ready, serverErr,  \* whether these channels, of capacity 1, hold a value
  stopOnce,   \* whether s.stopOnce is done
  everReady,  \* whether Run ever called Ready
  reported,   \* whether a failure of Run was logged or returned by Start
  stream,     \* the state of each stream
  kept,       \* the last observation the library keeps of an endpoint
  told        \* the last observation an observer module was told

lifecycleVars == <<caddy, result, stopOnce>>
latencyVars == <<kept, told>>
trafficVars == <<stream, kept, told>>
startVars == <<ctx, listener, server>>
runVars == <<run, ready, serverErr, everReady, reported>>
vars == <<caddy, result, ctx, listener, server, run, ready, serverErr,
          stopOnce, everReady, reported, stream, kept, told>>

TypeOK ==
  /\ caddy \in {"provisioned", "listen", "create", "select", "failStart",
                "started", "failed", "stopWait", "stopped"}
  /\ result \in {None, "nil", "error"}
  /\ ctx \in {None, "live", "cancelled"}
  /\ listener \in {None, "open", "closed"}
  /\ run \in {None, "running", "failed", "returned"}
  /\ {server, ready, serverErr, stopOnce, everReady, reported} \subseteq BOOLEAN
  /\ stream \in [Stream -> {"new", "refused", "open", "closed"}]
  /\ kept # None => server
  \* Start sets the context, whatever becomes of it.
  /\ (ctx = None) <=>
       (caddy = "provisioned" \/ (caddy \in {"stopWait", "stopped"} /\ result = None))

Init ==
  /\ caddy = "provisioned" /\ result = None
  /\ ctx = None /\ listener = None /\ run = None
  /\ server = FALSE /\ stopOnce = FALSE
  /\ ready = FALSE /\ serverErr = FALSE
  /\ everReady = FALSE /\ reported = FALSE
  /\ stream = [s \in Stream |-> "new"]
  /\ kept = None /\ told = None

Goto(from, to) == caddy = from /\ caddy' = to

-----------------------------------------------------------------------------
(* Faulty variants of the actions below, which no specification uses: each *)
(* is a bug the code could have, put in an action's place to see that a    *)
(* property detects it.                                                    *)

\* The error path of NewServer leaves the listener open.
CreateFailsOpen ==
  /\ Goto("create", "failed")
  /\ result' = "error"
  /\ ctx' = "cancelled"
  /\ UNCHANGED <<listener, server, stopOnce, runVars, trafficVars>>

\* The timeout does not cancel before it waits for the goroutine.
StartTimesOutRunning ==
  /\ Goto("select", "failStart")
  /\ UNCHANGED <<result, stopOnce, startVars, runVars, trafficVars>>

\* An error that Start receives is logged and taken for readiness.
StartIgnoresError ==
  /\ serverErr
  /\ Goto("select", "started")
  /\ result' = "nil"
  /\ serverErr' = FALSE
  /\ reported' = TRUE
  /\ UNCHANGED <<stopOnce, startVars, run, ready, everReady, trafficVars>>

\* Stop cancels and returns without waiting.
StopDoesNotWait ==
  /\ caddy \in {"provisioned", "started"}
  /\ ~stopOnce
  /\ caddy' = "stopped"
  /\ stopOnce' = TRUE
  /\ ctx' = IF ctx = None THEN None ELSE "cancelled"
  /\ UNCHANGED <<result, listener, server, runVars, trafficVars>>

\* Stop calls s.cancel without looking whether Start set it.
StopCancelsUnset ==
  /\ caddy \in {"provisioned", "started"}
  /\ ~stopOnce
  /\ caddy' = "stopWait"
  /\ stopOnce' = TRUE
  /\ ctx' = "cancelled"
  /\ UNCHANGED <<result, listener, server, runVars, trafficVars>>

\* Start runs the server and does not keep it.
CreatesUnkept ==
  /\ Goto("create", "select")
  /\ run' = "running"
  /\ UNCHANGED <<result, stopOnce, startVars, ready, serverErr, everReady,
                 reported, trafficVars>>

-----------------------------------------------------------------------------
(* Server.Start, called by App.Start                                       *)

StartCall ==
  /\ Goto("provisioned", "listen")
  /\ ctx' = "live"
  /\ UNCHANGED <<result, stopOnce, listener, server, runVars, trafficVars>>

ListenFails ==
  /\ Goto("listen", "failed")
  /\ ctx' = "cancelled"
  /\ result' = "error"
  /\ UNCHANGED <<stopOnce, listener, server, runVars, trafficVars>>

Listens ==
  /\ Goto("listen", "create")
  /\ listener' = "open"
  /\ UNCHANGED <<result, stopOnce, ctx, server, runVars, trafficVars>>

CreateFails ==
  /\ Goto("create", "failed")
  /\ result' = "error"
  /\ listener' = "closed"
  /\ ctx' = "cancelled"
  /\ UNCHANGED <<server, stopOnce, runVars, trafficVars>>

\* NewServer, s.server = server and the goroutine of server.Run.
Creates ==
  /\ Goto("create", "select")
  /\ server' = TRUE
  /\ run' = "running"
  /\ UNCHANGED <<result, stopOnce, ctx, listener, ready, serverErr, everReady,
                 reported, trafficVars>>

\* The three cases of the select; those whose value is there race.
StartReady ==
  /\ ready
  /\ Goto("select", "started")
  /\ ready' = FALSE
  /\ result' = "nil"
  /\ UNCHANGED <<stopOnce, startVars, run, serverErr, everReady, reported,
                 trafficVars>>

StartReceivesError ==
  /\ serverErr
  /\ Goto("select", "failStart")
  /\ serverErr' = FALSE
  /\ reported' = TRUE
  /\ ctx' = "cancelled"
  /\ UNCHANGED <<result, stopOnce, listener, server, run, ready, everReady,
                 trafficVars>>

\* Five seconds passed: a late Ready or error may have come by now.
StartTimesOut ==
  /\ Goto("select", "failStart")
  /\ ctx' = "cancelled"
  /\ UNCHANGED <<result, stopOnce, listener, server, runVars, trafficVars>>

\* failStart: s.wg.Wait returns and Start returns the error.
StartFails ==
  /\ run = "returned"
  /\ Goto("failStart", "failed")
  /\ result' = "error"
  /\ UNCHANGED <<stopOnce, startVars, runVars, trafficVars>>

-----------------------------------------------------------------------------
(* Server.Stop, called by App.Stop                                         *)

\* The one call that runs stopOnce's function: cancel, if Start set one.
StopCancels ==
  /\ caddy \in {"provisioned", "started"}
  /\ ~stopOnce
  /\ caddy' = "stopWait"
  /\ stopOnce' = TRUE
  /\ ctx' = IF ctx = None THEN None ELSE "cancelled"
  /\ UNCHANGED <<result, listener, server, runVars, trafficVars>>

StopReturns ==
  /\ run \in {None, "returned"}
  /\ Goto("stopWait", "stopped")
  /\ UNCHANGED <<result, stopOnce, startVars, runVars, trafficVars>>

-----------------------------------------------------------------------------
(* server.Run and its goroutine                                            *)

\* Run calls Ready, whose send never blocks.
RunReady ==
  /\ run = "running" /\ ~everReady
  /\ everReady' = TRUE
  /\ ready' = TRUE
  /\ UNCHANGED <<lifecycleVars, startVars, run, serverErr, reported, trafficVars>>

\* Run returns an error though nobody cancelled it; it closes its listener.
RunFails ==
  /\ run = "running" /\ ctx = "live"
  /\ run' = "failed"
  /\ listener' = "closed"
  /\ UNCHANGED <<lifecycleVars, ctx, server, ready, serverErr, everReady,
                 reported, trafficVars>>

\* Run returns because it was cancelled, or an error after it was cancelled.
RunReturns ==
  /\ run = "running" /\ ctx = "cancelled"
  /\ run' = "returned"
  /\ listener' = "closed"
  /\ UNCHANGED <<lifecycleVars, ctx, server, ready, serverErr, everReady,
                 reported, trafficVars>>

\* The goroutine looks at ctx again: cancelled meanwhile, it keeps the error to
\* itself; else it sends it, or logs it if the channel is full.
RunErrorHandled ==
  /\ run = "failed"
  /\ run' = "returned"
  /\ serverErr' = (serverErr \/ ctx = "live")
  /\ reported' = (reported \/ (ctx = "live" /\ serverErr))
  /\ UNCHANGED <<lifecycleVars, startVars, ready, everReady, trafficVars>>

-----------------------------------------------------------------------------
(* OpenStream, ProxyStream, ProxyStreamWithObserver                        *)

\* s.server is nil: the connection is closed, the call returns an error.
\* Nothing orders this read after Start's write: until Start returns (and Caddy
\* goes on to what it does next) it may see the value of before.
StreamRefused(s) ==
  /\ stream[s] = "new"
  /\ ~server \/ result = None
  /\ stream' = [stream EXCEPT ![s] = "refused"]
  /\ UNCHANGED <<lifecycleVars, startVars, runVars, latencyVars>>

\* s.server is set: the library has the stream, even if Run is over.
StreamOpens(s) ==
  /\ stream[s] = "new" /\ server
  /\ stream' = [stream EXCEPT ![s] = "open"]
  /\ UNCHANGED <<lifecycleVars, startVars, runVars, latencyVars>>

StreamCloses(s) ==
  /\ stream[s] = "open"
  /\ stream' = [stream EXCEPT ![s] = "closed"]
  /\ UNCHANGED <<lifecycleVars, startVars, runVars, latencyVars>>

-----------------------------------------------------------------------------
(* Passive latency                                                         *)

\* The library keeps the latency in milliseconds, rounded in its own way or not
\* at all, and calls the observer, which is told what Push makes of it.
LibraryObserves(latency) ==
  /\ run = "running"
  /\ \E ms \in {None, latency \div Millisecond, Milliseconds(latency)} :
       kept' = [state |-> "ok", ms |-> ms, latency |-> latency]
  /\ told' = IF Push(latency) = None THEN told ELSE Push(latency)
  /\ UNCHANGED <<lifecycleVars, startVars, runVars, stream>>

\* An observation older than the library's freshness window.
GoesStale ==
  /\ kept # None /\ kept.state = "ok"
  /\ kept' = [kept EXCEPT !.state = "stale"]
  /\ UNCHANGED <<lifecycleVars, startVars, runVars, stream, told>>

-----------------------------------------------------------------------------
Next ==
  \/ StartCall \/ ListenFails \/ Listens \/ CreateFails \/ Creates
  \/ StartReady \/ StartReceivesError \/ StartTimesOut \/ StartFails
  \/ StopCancels \/ StopReturns
  \/ RunReady \/ RunFails \/ RunReturns \/ RunErrorHandled
  \/ \E s \in Stream : StreamRefused(s) \/ StreamOpens(s) \/ StreamCloses(s)
  \/ \E latency \in Latency : LibraryObserves(latency)
  \/ GoesStale

Spec == Init /\ [][Next]_vars

\* Start goes on once it is called, its timer included; a Run whose context is
\* cancelled returns.  Nothing makes Caddy call Start or Stop, and nothing
\* makes Run become ready or fail.
Fairness ==
  /\ WF_vars(ListenFails \/ Listens) /\ WF_vars(CreateFails \/ Creates)
  /\ WF_vars(StartReady \/ StartReceivesError \/ StartTimesOut)
  /\ WF_vars(StartFails) /\ WF_vars(StopReturns)
  /\ WF_vars(RunReturns) /\ WF_vars(RunErrorHandled)

FairSpec == Spec /\ Fairness

-----------------------------------------------------------------------------
(* Properties                                                              *)

NothingRuns == run \in {None, "returned"} /\ listener # "open"

\* A Start that returned an error has left nothing behind: no goroutine, no
\* listener that keeps the address from the next configuration, no context.
FailedStartCleansUp ==
  result = "error" => NothingRuns /\ ctx = "cancelled"

\* After Stop nothing of the runtime runs, started or not.
StopLeavesNothing == caddy = "stopped" => NothingRuns

\* Once Start returned nil no stream is refused for want of a running server.
StartedServes ==
  [][\A s \in Stream : stream[s] # "refused" /\ stream'[s] = "refused" =>
       result # "nil"]_vars

\* Start and Stop return, whatever the server does: Start within its five
\* seconds and the time a cancelled Run takes.
CallsReturn ==
  /\ caddy = "listen" ~> caddy \in {"started", "failed"}
  /\ caddy = "stopWait" ~> caddy = "stopped"

\* The promise of appRuntime, step by step: an error of Run or the timeout that
\* wins the select is never taken for readiness, a Start that fails returns when
\* all is given back, and no step of Stop, of Run or of a stream takes anything
\* anew, in whatever order they come.
AppSide == INSTANCE AppRuntime WITH
  phase <- CASE caddy \in {"listen", "create", "select", "failStart"} -> "starting"
             [] caddy = "started" -> "up"
             [] caddy = "stopWait" -> "stopping"
             [] OTHER -> caddy,
  holds <- listener = "open" \/ run \in {"running", "failed"},
  ready <- everReady

ImplementsAppRuntime == AppSide!Spec

\* A measured latency is never told as less than it was: the observer hears of 0
\* only for 0.  A query made at any time, before Start and after Stop too, has a
\* number just when there is evidence, old or new, and after the observer was
\* told of that evidence it is within a millisecond of what it was told.
LatencyHonest ==
  LET pulled == Pull(server, kept) IN
  /\ (pulled.ms = None) <=> (pulled.state = "unknown")
  /\ kept = None => pulled.state = "unknown"
  /\ kept # None /\ kept.latency >= 0 =>
       /\ told # None /\ told.ms * Millisecond >= kept.latency
       /\ told.ms = 0 <=> kept.latency = 0
       /\ pulled.ms # None => told.ms - pulled.ms \in {0, 1}

\* server.go:259 logs an error that makes Run return when nobody is there to
\* receive it: no failure of a running server goes unreported.
RunFailureReported ==
  run = "returned" /\ ctx = "live" /\ caddy = "started" => reported
=============================================================================
