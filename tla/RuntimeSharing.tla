--------------------------- MODULE RuntimeSharing ---------------------------
(***************************************************************************)
(* What the client registry promises, without its threads, mutexes and     *)
(* counts.  A runtime serves an identity; a lease holds its identity only  *)
(* while a runtime serves it; the runtime that serves an identity is the   *)
(* same one for as long as any lease holds it; and a runtime is stopped    *)
(* only when it serves nothing.                                            *)
(***************************************************************************)
CONSTANTS Lease, Identity, IdentityOf, Runtime, None

VARIABLES
  holding,  \* the leases that hold a reference
  serving,  \* the runtime that serves each identity, if any
  status    \* the life of each runtime

vars == <<holding, serving, status>>

Holders(i) == {l \in holding : IdentityOf[l] = i}
Serves(rt) == \E i \in Identity : serving[i] = rt

Init ==
  /\ holding = {}
  /\ serving = [i \in Identity |-> None]
  /\ status = [rt \in Runtime |-> "absent"]

\* A runtime is started before anything refers to it.
Spawn(rt) ==
  /\ status[rt] = "absent"
  /\ status' = [status EXCEPT ![rt] = "live"]
  /\ UNCHANGED <<holding, serving>>

\* A live runtime that serves nothing comes to serve an identity nothing serves.
Serve(i, rt) ==
  /\ serving[i] = None
  /\ status[rt] = "live" /\ ~Serves(rt)
  /\ serving' = [serving EXCEPT ![i] = rt]
  /\ UNCHANGED <<holding, status>>

Hold(l) ==
  /\ l \notin holding
  /\ serving[IdentityOf[l]] # None
  /\ holding' = holding \cup {l}
  /\ UNCHANGED <<serving, status>>

Drop(l) ==
  /\ l \in holding
  /\ holding' = holding \ {l}
  /\ UNCHANGED <<serving, status>>

\* Only an identity no lease holds loses its runtime.
Retire(i) ==
  /\ serving[i] # None
  /\ Holders(i) = {}
  /\ serving' = [serving EXCEPT ![i] = None]
  /\ UNCHANGED <<holding, status>>

Cancel(rt) ==
  /\ status[rt] = "live" /\ ~Serves(rt)
  /\ status' = [status EXCEPT ![rt] = "cancelled"]
  /\ UNCHANGED <<holding, serving>>

Gone(rt) ==
  /\ status[rt] = "cancelled"
  /\ status' = [status EXCEPT ![rt] = "absent"]
  /\ UNCHANGED <<holding, serving>>

Next ==
  \/ \E rt \in Runtime : Spawn(rt) \/ Cancel(rt) \/ Gone(rt)
  \/ \E i \in Identity, rt \in Runtime : Serve(i, rt)
  \/ \E l \in Lease : Hold(l) \/ Drop(l)
  \/ \E i \in Identity : Retire(i)

Spec == Init /\ [][Next]_vars

\* What nobody holds is let go, and what serves nothing does not live on: it
\* comes to serve or is cancelled, and a cancelled runtime disappears.
Fairness ==
  /\ \A i \in Identity : WF_vars(Retire(i))
  /\ \A rt \in Runtime :
       /\ WF_vars(Cancel(rt) \/ \E i \in Identity : Serve(i, rt))
       /\ WF_vars(Gone(rt))

FairSpec == Spec /\ Fairness
=============================================================================
