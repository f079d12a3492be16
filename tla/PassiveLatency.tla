--------------------------- MODULE PassiveLatency ---------------------------
(***************************************************************************)
(* The passive latency bridge (passive_latency.go): what becomes of a      *)
(* latency that the bifrost library observes on an endpoint, pushed to the *)
(* observer module in whole milliseconds, and pulled by an embedding       *)
(* module, as the library keeps it.  A latency is a number of parts of a   *)
(* millisecond; the endpoint and the time of an observation are left out.  *)
(***************************************************************************)
EXTENDS Integers

CONSTANTS
  Millisecond,  \* the parts of a millisecond
  None

ASSUME MillisecondAssumption == Millisecond \in Nat \ {0}
ASSUME UnknownAssumption == None \notin Int \cup [state : {"ok"}, ms : Int]

Unknown == [state |-> "unknown", ms |-> None]

\* A faulty variant of the next definition: part of a millisecond is cut off.
MillisecondsCut(latency) == IF latency <= 0 THEN 0 ELSE latency \div Millisecond

\* passiveLatencyMilliseconds, whose last branch is never taken: a positive
\* latency below one millisecond was rounded up before.
Milliseconds(latency) ==
  IF latency <= 0 THEN 0
  ELSE latency \div Millisecond + (IF latency % Millisecond = 0 THEN 0 ELSE 1)

\* convertPassiveLatencyObservation: without a number nothing is known.  (The time
\* of the observation, which has to be there as well, comes with the number.)
Convert(o) ==
  IF o.state \notin {"ok", "stale"} \/ o.ms = None THEN Unknown
  ELSE [state |-> o.state, ms |-> o.ms]

\* App.PassiveLatencyObservation: Unknown without a server that was started.
Pull(server, kept) ==
  IF ~server \/ kept = None THEN Unknown ELSE Convert(kept)

\* ObserveLatency: what the observer module is told, or None.
Push(latency) ==
  IF latency < 0 THEN None ELSE [state |-> "ok", ms |-> Milliseconds(latency)]
=============================================================================
