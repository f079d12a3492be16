------------------------- MODULE ServerRuntimeProofs -------------------------
(***************************************************************************)
(* Proofs about ServerRuntime, for any streams, any latencies and any size *)
(* of a millisecond.  IInv is the inductive invariant: it says, of each    *)
(* place in Start and Stop, what the goroutine of Run and the connector    *)
(* listener may be doing meanwhile.                                        *)
(***************************************************************************)
EXTENDS ServerRuntime, TLAPS

\* The listener is Start's until the goroutine runs, and Run's until it ends.
ListenerInv ==
  /\ listener = "open" => caddy = "create" \/ run = "running"
  /\ caddy = "create" => listener = "open"

\* There is a goroutine once Start has created the server, which is then kept,
\* and only the goroutine can have been ready.
RunInv ==
  /\ run # None <=> server
  /\ caddy \in {"provisioned", "listen", "create"} => ~server
  /\ caddy \in {"select", "failStart", "started"} => server
  /\ ready => everReady

\* What Start has returned, and when; a call that has returned after a
\* cancellation waited for the goroutine.
ResultInv ==
  /\ result = "error" <=> caddy = "failed"
  /\ result = "nil" => server
  /\ caddy = "started" => result = "nil"
  /\ caddy \in {"failed", "stopped"} => run \in {None, "returned"}
  /\ caddy \in {"failStart", "failed"} => ctx = "cancelled"

IInv == TypeOK /\ ListenerInv /\ RunInv /\ ResultInv

StartSteps ==
  \/ StartCall \/ ListenFails \/ Listens \/ CreateFails \/ Creates
  \/ StartReady \/ StartReceivesError \/ StartTimesOut \/ StartFails
StopSteps == StopCancels \/ StopReturns
RunSteps == RunReady \/ RunFails \/ RunReturns \/ RunErrorHandled

-----------------------------------------------------------------------------
LEMMA InitIInv == Init => IInv
  BY NoneAssumption
  DEF Init, IInv, TypeOK, ListenerInv, RunInv, ResultInv

\* Streams and latencies leave Start, Stop and Run alone.
LEMMA TrafficStep ==
  ASSUME IInv,
         \/ \E s \in Stream : StreamRefused(s) \/ StreamOpens(s) \/ StreamCloses(s)
         \/ \E latency \in Latency : LibraryObserves(latency)
         \/ GoesStale
         \/ UNCHANGED vars
  PROVE  IInv' /\ UNCHANGED <<lifecycleVars, startVars, runVars>>
<1> USE NoneAssumption
<1> USE DEF IInv, lifecycleVars, startVars, runVars, latencyVars
<1>1. UNCHANGED <<lifecycleVars, startVars, runVars>>
  BY DEF StreamRefused, StreamOpens, StreamCloses, LibraryObserves, GoesStale, vars
<1>2. ListenerInv' /\ RunInv' /\ ResultInv'
  BY <1>1 DEF ListenerInv, RunInv, ResultInv
<1>3. stream' \in [Stream -> {"new", "refused", "open", "closed"}]
  BY DEF TypeOK, StreamRefused, StreamOpens, StreamCloses, LibraryObserves, GoesStale, vars
<1>4. kept' # None => server
  BY DEF TypeOK, RunInv, StreamRefused, StreamOpens, StreamCloses, LibraryObserves,
         GoesStale, vars
<1>5. TypeOK'
  BY <1>1, <1>3, <1>4 DEF TypeOK
<1> QED
  BY <1>1, <1>2, <1>5

\* A step of Start, of Stop or of Run leaves the streams and latencies alone.
LEMMA CallStep ==
  ASSUME IInv, StartSteps \/ StopSteps \/ RunSteps
  PROVE  IInv'
<1> USE NoneAssumption
<1> USE DEF IInv, TypeOK, ListenerInv, RunInv, ResultInv, Goto, lifecycleVars, startVars,
            runVars, latencyVars, trafficVars
<1>1. CASE StartCall
  BY <1>1 DEF StartCall
<1>2. CASE ListenFails
  BY <1>2 DEF ListenFails
<1>3. CASE Listens
  BY <1>3 DEF Listens
<1>4. CASE CreateFails
  BY <1>4 DEF CreateFails
<1>5. CASE Creates
  BY <1>5 DEF Creates
<1>6. CASE StartReady
  BY <1>6 DEF StartReady
<1>7. CASE StartReceivesError
  BY <1>7 DEF StartReceivesError
<1>8. CASE StartTimesOut
  BY <1>8 DEF StartTimesOut
<1>9. CASE StartFails
  BY <1>9 DEF StartFails
<1>10. CASE StopCancels
  BY <1>10 DEF StopCancels
<1>11. CASE StopReturns
  BY <1>11 DEF StopReturns
<1>12. CASE RunReady
  BY <1>12 DEF RunReady
<1>13. CASE RunFails
  BY <1>13 DEF RunFails
<1>14. CASE RunReturns
  BY <1>14 DEF RunReturns
<1>15. CASE RunErrorHandled
  BY <1>15 DEF RunErrorHandled
<1> QED
  BY <1>1, <1>2, <1>3, <1>4, <1>5, <1>6, <1>7, <1>8, <1>9, <1>10, <1>11, <1>12,
     <1>13, <1>14, <1>15 DEF StartSteps, StopSteps, RunSteps

LEMMA StepIInv == IInv /\ [Next]_vars => IInv'
  BY TrafficStep, CallStep DEF Next, StartSteps, StopSteps, RunSteps

LEMMA Invariance == Spec => []IInv
  BY InitIInv, StepIInv, PTL DEF Spec

-----------------------------------------------------------------------------
\* Every variable of the runtime keeps its type, and the context is set exactly
\* from the first step of Start on.
THEOREM TypeCorrectness == Spec => []TypeOK
<1>1. IInv => TypeOK
  BY DEF IInv
<1> QED
  BY <1>1, Invariance, PTL

\* A Start that returned an error has left no goroutine, no listener and no live
\* context, wherever it failed.
THEOREM FailedStartIsClean == Spec => []FailedStartCleansUp
<1>1. IInv => FailedStartCleansUp
  BY NoneAssumption
  DEF IInv, TypeOK, ListenerInv, ResultInv, FailedStartCleansUp, NothingRuns
<1> QED
  BY <1>1, Invariance, PTL

\* A Stop that returned has left neither a goroutine nor a listener.
THEOREM StoppedIsClean == Spec => []StopLeavesNothing
<1>1. IInv => StopLeavesNothing
  BY NoneAssumption
  DEF IInv, TypeOK, ListenerInv, ResultInv, StopLeavesNothing, NothingRuns
<1> QED
  BY <1>1, Invariance, PTL

\* Once Start returned nil no stream is refused, though nothing orders the
\* writes of Start and the reads of streams.
THEOREM StreamsFindServer == Spec => StartedServes
<1>1. IInv /\ [Next]_vars =>
        \A s \in Stream : stream[s] # "refused" /\ stream'[s] = "refused" =>
          result # "nil"
  <2> SUFFICES ASSUME IInv, [Next]_vars, NEW s \in Stream, stream[s] # "refused",
                      stream'[s] = "refused", result = "nil"
               PROVE  FALSE
    OBVIOUS
  <2>1. server /\ result # None
    BY NoneAssumption DEF IInv, ResultInv
  <2>2. stream \in [Stream -> {"new", "refused", "open", "closed"}]
    BY DEF IInv, TypeOK
  <2>3. \A t \in Stream : ~StreamRefused(t)
    BY <2>1 DEF StreamRefused
  <2>4. ASSUME NEW t \in Stream, StreamOpens(t) \/ StreamCloses(t) PROVE FALSE
    BY <2>2, <2>4 DEF StreamOpens, StreamCloses
  <2>5. stream' # stream
    OBVIOUS
  <2>6. ~(StartSteps \/ StopSteps \/ RunSteps)
    BY <2>5 DEF StartSteps, StopSteps, RunSteps, StartCall, ListenFails, Listens,
                CreateFails, Creates, StartReady, StartReceivesError, StartTimesOut,
                StartFails, StopCancels, StopReturns, RunReady, RunFails, RunReturns,
                RunErrorHandled, trafficVars
  <2>7. ~(GoesStale \/ UNCHANGED vars \/ \E latency \in Latency : LibraryObserves(latency))
    BY <2>5 DEF GoesStale, LibraryObserves, vars
  <2> QED
    BY <2>3, <2>4, <2>6, <2>7 DEF Next, StartSteps, StopSteps, RunSteps
<1> QED
  BY <1>1, Invariance, PTL DEF Spec, StartedServes

-----------------------------------------------------------------------------
(* The refinement of AppRuntime                                            *)


LEMMA InitRefines == Init => AppSide!Init
  BY NoneAssumption DEF Init, AppSide!Init

\* Each step of Start, Stop or Run is a step of AppRuntime or a stutter.
LEMMA CallRefines ==
  ASSUME IInv, StartSteps \/ StopSteps \/ RunSteps
  PROVE  [AppSide!Next]_AppSide!vars
<1> USE NoneAssumption
<1> USE DEF Goto, lifecycleVars, startVars, runVars
<1>1. CASE StartCall
  <2>1. AppSide!StartCall
    BY <1>1 DEF StartCall, AppSide!StartCall
  <2> QED
    BY <2>1 DEF AppSide!Next
<1>2. CASE ListenFails \/ CreateFails \/ StartFails
  <2>1. AppSide!StartFails
    BY <1>2 DEF ListenFails, CreateFails, StartFails, AppSide!StartFails, IInv, TypeOK, ListenerInv,
                RunInv
  <2> QED
    BY <2>1 DEF AppSide!Next
<1>3. CASE Listens
  <2>1. AppSide!Acquires
    BY <1>3 DEF Listens, AppSide!Acquires, IInv, ListenerInv, RunInv
  <2> QED
    BY <2>1 DEF AppSide!Next
<1>4. CASE Creates \/ StartReceivesError \/ StartTimesOut
  BY <1>4 DEF Creates, StartReceivesError, StartTimesOut, AppSide!vars, IInv, ListenerInv
<1>5. CASE StartReady
  <2>1. AppSide!StartSucceeds
    BY <1>5 DEF StartReady, AppSide!StartSucceeds, IInv, RunInv
  <2> QED
    BY <2>1 DEF AppSide!Next
<1>6. CASE StopCancels
  <2>1. AppSide!StopCall
    BY <1>6 DEF StopCancels, AppSide!StopCall
  <2> QED
    BY <2>1 DEF AppSide!Next
<1>7. CASE StopReturns
  <2>1. AppSide!StopReturns
    BY <1>7 DEF StopReturns, AppSide!StopReturns, IInv, ListenerInv
  <2> QED
    BY <2>1 DEF AppSide!Next
<1>8. CASE RunReady
  <2>1. AppSide!BecomesReady
    BY <1>8 DEF RunReady, AppSide!BecomesReady
  <2> QED
    BY <2>1 DEF AppSide!Next
<1>9. CASE RunFails
  BY <1>9 DEF RunFails, AppSide!vars
<1>10. CASE RunReturns \/ RunErrorHandled
  <2>1. AppSide!Releases
    BY <1>10 DEF RunReturns, RunErrorHandled, AppSide!Releases, IInv, ListenerInv, RunInv
  <2> QED
    BY <2>1 DEF AppSide!Next
<1> QED
  BY <1>1, <1>2, <1>3, <1>4, <1>5, <1>6, <1>7, <1>8, <1>9, <1>10
  DEF StartSteps, StopSteps, RunSteps

LEMMA StepRefines == IInv /\ [Next]_vars => [AppSide!Next]_AppSide!vars
<1> SUFFICES ASSUME IInv, [Next]_vars PROVE [AppSide!Next]_AppSide!vars
  OBVIOUS
<1>1. CASE StartSteps \/ StopSteps \/ RunSteps
  BY <1>1, CallRefines
<1>2. CASE UNCHANGED <<lifecycleVars, startVars, runVars>>
  BY <1>2 DEF lifecycleVars, startVars, runVars, AppSide!vars
<1> QED
  BY <1>1, <1>2, TrafficStep DEF Next, StartSteps, StopSteps, RunSteps

\* The server runtime keeps the promise of the interface appRuntime: every step
\* of its calls, of Run and of its streams is one of AppRuntime's or a stutter.
THEOREM Refinement == Spec => ImplementsAppRuntime
  BY InitRefines, StepRefines, Invariance, PTL DEF Spec, ImplementsAppRuntime, AppSide!Spec

-----------------------------------------------------------------------------
(* The latencies                                                           *)

\* What the library keeps is of the latency it observed last, which the observer
\* was told unless it was negative.
LatencyInv ==
  kept # None =>
    /\ server /\ kept.state \in {"ok", "stale"} /\ kept.latency \in Latency
    /\ kept.ms \in {None, kept.latency \div Millisecond, Milliseconds(kept.latency)}
    /\ kept.latency >= 0 => told = [state |-> "ok", ms |-> Milliseconds(kept.latency)]

LEMMA LatencyStep == IInv /\ LatencyInv /\ [Next]_vars => LatencyInv'
<1> SUFFICES ASSUME IInv, LatencyInv, [Next]_vars PROVE LatencyInv'
  OBVIOUS
<1>1. ASSUME NEW latency \in Latency, LibraryObserves(latency) PROVE LatencyInv'
  <2>1. PICK ms \in {None, latency \div Millisecond, Milliseconds(latency)} :
          kept' = [state |-> "ok", ms |-> ms, latency |-> latency]
    BY <1>1 DEF LibraryObserves
  <2>2. server'
    BY <1>1, NoneAssumption DEF LibraryObserves, IInv, RunInv, startVars
  <2>3. ASSUME latency >= 0
        PROVE  told' = [state |-> "ok", ms |-> Milliseconds(latency)]
    <3>1. ~ (latency < 0)
      BY <2>3, LatencyAssumption
    <3>2. Push(latency) = [state |-> "ok", ms |-> Milliseconds(latency)]
      BY <3>1 DEF Push
    <3>3. told' \in {told, Push(latency)} /\ (Push(latency) # None => told' = Push(latency))
      BY <1>1 DEF LibraryObserves
    <3>4. Milliseconds(latency) \in Int
      BY LatencyAssumption, MillisecondAssumption DEF Milliseconds
    <3>5. Push(latency) # None
      BY <3>2, <3>4, UnknownAssumption
    <3> QED
      BY <3>2, <3>3, <3>5
  <2> QED
    BY <2>1, <2>2, <2>3 DEF LatencyInv
<1>2. CASE GoesStale
  <2>1. kept # None /\ kept' = [kept EXCEPT !.state = "stale"] /\ told' = told /\ server' = server
    BY <1>2 DEF GoesStale, startVars
  <2>2. kept' # None => /\ kept'.state \in {"ok", "stale"}
                        /\ kept'.ms = kept.ms /\ kept'.latency = kept.latency
    BY <2>1
  <2> QED
    BY <2>1, <2>2 DEF LatencyInv
<1>3. CASE UNCHANGED latencyVars /\ (server => server')
  BY <1>3 DEF LatencyInv, latencyVars
<1> QED
  BY <1>1, <1>2, <1>3
  DEF Next, StartCall, ListenFails, Listens, CreateFails, Creates, StartReady,
      StartReceivesError, StartTimesOut, StartFails, StopCancels, StopReturns, RunReady,
      RunFails, RunReturns, RunErrorHandled, StreamRefused, StreamOpens, StreamCloses,
      trafficVars, latencyVars, startVars, vars

\* A latency in whole milliseconds, rounded up: not less than it is, and 0 only
\* for 0; rounded down, it is at most one millisecond less.
LEMMA RoundsUp ==
  ASSUME NEW latency \in Int
  PROVE  /\ latency \div Millisecond \in Int /\ Milliseconds(latency) \in Int
         /\ latency >= 0 =>
              /\ Milliseconds(latency) * Millisecond >= latency
              /\ Milliseconds(latency) = 0 <=> latency = 0
              /\ Milliseconds(latency) - (latency \div Millisecond) \in {0, 1}
<1> DEFINE M == Millisecond
           q == latency \div M
           r == latency % M
<1>1. M \in Nat \ {0}
  BY MillisecondAssumption
<1>2. q \in Int /\ r \in 0 .. M - 1 /\ latency = M * q + r
  BY <1>1
<1>3. Milliseconds(latency) = IF latency <= 0 THEN 0 ELSE q + (IF r = 0 THEN 0 ELSE 1)
  BY DEF Milliseconds
<1> HIDE DEF M, q, r
<1>4. CASE latency > 0
  <2>1. q >= 0
    <3>1. SUFFICES ASSUME q <= -1 PROVE FALSE
      BY <1>2
    <3>2. M * q <= -M
      BY <1>1, <1>2, <3>1
    <3> QED
      BY <1>1, <1>2, <1>4, <3>2
  <2>2. (q + 1) * M = M * q + M /\ (q = 0 => M * q = 0)
    BY <1>1, <1>2
  <2>3. CASE r = 0
    <3>1. q * M = M * q
      BY <1>1, <1>2
    <3>2. Milliseconds(latency) = q
      BY <1>2, <1>3, <1>4, <2>3
    <3> QED
      BY <1>1, <1>2, <1>4, <2>1, <2>2, <2>3, <3>1, <3>2 DEF M, q
  <2>4. CASE r # 0
    <3>1. Milliseconds(latency) = q + 1
      BY <1>2, <1>3, <1>4, <2>4
    <3> QED
      BY <1>1, <1>2, <1>4, <2>1, <2>2, <2>4, <3>1 DEF M, q
  <2> QED
    BY <1>2, <2>3, <2>4
<1>5. CASE latency = 0
  <2>1. 0 * M = 0 /\ 0 \div M = 0
    BY <1>1
  <2> QED
    BY <1>1, <1>2, <1>3, <1>5, <2>1 DEF M, q
<1>6. CASE latency < 0
  BY <1>2, <1>3, <1>6 DEF M, q
<1> QED
  BY <1>4, <1>5, <1>6

\* The two latencies that the app shows of an endpoint, the one pushed to the
\* observer module and the one pulled, are never less than was measured by a
\* millisecond and never say more than is known, for any latencies.
THEOREM LatenciesAreHonest == Spec => []LatencyHonest
<1>1. Init => LatencyInv
  BY DEF Init, LatencyInv
<1>2. ASSUME LatencyInv PROVE LatencyHonest
  <2> DEFINE pulled == Pull(server, kept)
             ms == Milliseconds(kept.latency)
  <2>1. CASE kept = None
    BY <2>1 DEF LatencyHonest, Pull, Unknown
  <2>2. CASE kept # None
    <3>1. /\ kept.latency \in Int /\ server
          /\ kept.ms \in {None, kept.latency \div Millisecond, ms}
          /\ kept.state \in {"ok", "stale"}
          /\ kept.latency >= 0 => told = [state |-> "ok", ms |-> ms]
      BY <1>2, <2>2, LatencyAssumption DEF LatencyInv
    <3>2. /\ kept.latency \div Millisecond \in Int /\ ms \in Int
          /\ kept.latency >= 0 =>
               /\ ms * Millisecond >= kept.latency
               /\ ms = 0 <=> kept.latency = 0
               /\ ms - (kept.latency \div Millisecond) \in {0, 1}
      BY <3>1, RoundsUp
    <3>3. pulled = IF kept.ms = None THEN Unknown ELSE [state |-> kept.state, ms |-> kept.ms]
      BY <2>2, <3>1 DEF Pull, Convert
    <3>4. /\ (pulled.ms = None) <=> (pulled.state = "unknown")
          /\ pulled.ms = kept.ms
      <4> HIDE DEF pulled
      <4>1. CASE kept.ms = None
        BY <3>3, <4>1 DEF Unknown
      <4>2. CASE kept.ms # None
        <5>1. pulled.ms = kept.ms /\ pulled.state = kept.state
          BY <3>3, <4>2
        <5> QED
          BY <3>1, <4>2, <5>1
      <4> QED
        BY <4>1, <4>2
    <3>5. ASSUME kept.latency >= 0
          PROVE  /\ told # None /\ told.ms = ms
                 /\ kept.ms # None => ms - kept.ms \in {0, 1}
      <4>1. told # None
        BY <3>1, <3>2, <3>5, UnknownAssumption
      <4>2. ms - ms = 0
        BY <3>2
      <4> QED
        BY <3>1, <3>2, <3>5, <4>1, <4>2
    <3> QED
      BY <2>2, <3>2, <3>4, <3>5 DEF LatencyHonest
  <2> QED
    BY <2>1, <2>2
<1>3. LatencyInv => LatencyHonest
  BY <1>2
<1> QED
  BY <1>1, <1>3, LatencyStep, Invariance, PTL DEF Spec
=============================================================================
