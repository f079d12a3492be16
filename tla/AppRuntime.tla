------------------------------ MODULE AppRuntime ------------------------------
(***************************************************************************)
(* What Caddy may rely on when it starts and stops an app: the promise of  *)
(* the interface appRuntime (app.go), of which the server runtime is one   *)
(* implementation.  "holds" is whether the runtime has anything that       *)
(* outlives a call, a goroutine or the connector's address; "ready" is     *)
(* whether it ever was able to serve.                                      *)
(*                                                                         *)
(* A Start that returns nil was ready, a Start that returns an error and a *)
(* Stop that returns leave nothing held, and only Start takes anything.  A *)
(* runtime that is up may lose what it holds by itself.                    *)
(***************************************************************************)
VARIABLES phase, holds, ready

vars == <<phase, holds, ready>>

Init == phase = "provisioned" /\ holds = FALSE /\ ready = FALSE

StartCall ==
  /\ phase = "provisioned" /\ phase' = "starting"
  /\ UNCHANGED <<holds, ready>>

Acquires ==
  /\ phase = "starting"
  /\ ~holds /\ holds' = TRUE
  /\ UNCHANGED <<phase, ready>>

BecomesReady ==
  /\ holds
  /\ ~ready /\ ready' = TRUE
  /\ UNCHANGED <<phase, holds>>

Releases ==
  /\ holds /\ holds' = FALSE
  /\ UNCHANGED <<phase, ready>>

StartSucceeds ==
  /\ phase = "starting" /\ ready
  /\ phase' = "up"
  /\ UNCHANGED <<holds, ready>>

StartFails ==
  /\ phase = "starting" /\ phase' = "failed"
  /\ holds' = FALSE
  /\ UNCHANGED ready

StopCall ==
  /\ phase \in {"provisioned", "up"} /\ phase' = "stopping"
  /\ UNCHANGED <<holds, ready>>

StopReturns ==
  /\ phase = "stopping" /\ ~holds
  /\ phase' = "stopped"
  /\ UNCHANGED <<holds, ready>>

Next ==
  \/ StartCall \/ Acquires \/ BecomesReady \/ Releases
  \/ StartSucceeds \/ StartFails \/ StopCall \/ StopReturns

Spec == Init /\ [][Next]_vars
=============================================================================
