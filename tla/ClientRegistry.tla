--------------------------- MODULE ClientRegistry ---------------------------
(***************************************************************************)
(* The process-wide registry of private client runtimes and the leases     *)
(* that apps take on them (client_runtime.go), down to the client runtime  *)
(* whose goroutine the last release stops (internal/runtime/client.go).    *)
(*                                                                         *)
(* Threads call Lease.Start and Lease.Stop in any order on any lease.  A   *)
(* critical section that calls nothing outside the registry is one step;   *)
(* the two that do, Lease.Start (which holds l.mu while it acquires) and   *)
(* acquire (which holds r.mu while it runs the factory), are split at the  *)
(* call, and the mutex they hold is a variable.  release deletes the entry *)
(* under r.mu and stops the client after the unlock, so that the delete,   *)
(* the cancellation and the wait for the goroutine are three steps.        *)
(*                                                                         *)
(* A runtime that was waited for and is referenced by nothing is garbage:  *)
(* its identifier may stand for a later runtime, so that the number of     *)
(* identifiers bounds the runtimes alive at one time, not the ones of a    *)
(* whole behaviour.                                                        *)
(***************************************************************************)
EXTENDS Integers, FiniteSets

CONSTANTS
  Thread,      \* goroutines that call into the leases
  Lease,       \* client runtime leases, one per provisioned app
  Identity,    \* client runtime identities
  IdentityOf,  \* the identity each lease was built for
  Runtime,     \* identifiers of client runtimes
  None         \* no thread, no runtime

ASSUME FiniteAssumption == IsFiniteSet(Thread) /\ IsFiniteSet(Lease)
ASSUME IdentityAssumption == IdentityOf \in [Lease -> Identity]
ASSUME NoneAssumption == None \notin Thread /\ None \notin Runtime

VARIABLES
  pc,         \* where each thread is in Lease.Start or Lease.Stop
  arg,        \* the lease it was called on
  client,     \* the runtime the thread alone refers to, if any
  leaseMu,    \* the thread that holds l.mu across acquire, if any
  release,    \* whether l.release is set
  regMu,      \* the thread that holds r.mu across the factory, if any
  entry,      \* the runtime of r.entries[identity], if there is an entry
  refs,       \* its reference count (0 without an entry)
  goroutine,  \* the RunClient goroutine of each runtime
  cancelled   \* the runtimes whose context is cancelled

leaseVars == <<leaseMu, release>>
registryVars == <<regMu, entry, refs>>
runtimeVars == <<goroutine, cancelled>>
vars == <<pc, arg, client, leaseMu, release, regMu, entry, refs, goroutine,
          cancelled>>

Label == {"idle", "start", "acquire", "factory", "store", "commit",
          "stop", "release", "cancel", "wait"}

TypeOK ==
  /\ pc \in [Thread -> Label]
  /\ arg \in [Thread -> Lease]
  /\ client \in [Thread -> Runtime \cup {None}]
  /\ leaseMu \in [Lease -> Thread \cup {None}]
  /\ release \in [Lease -> BOOLEAN]
  /\ regMu \in Thread \cup {None}
  /\ entry \in [Identity -> Runtime \cup {None}]
  /\ refs \in [Identity -> Nat]
  /\ goroutine \in [Runtime -> {"none", "running", "returned"}]
  /\ cancelled \in SUBSET Runtime

Init ==
  /\ pc = [t \in Thread |-> "idle"]
  /\ arg \in [Thread -> Lease]
  /\ client = [t \in Thread |-> None]
  /\ leaseMu = [l \in Lease |-> None]
  /\ release = [l \in Lease |-> FALSE]
  /\ regMu = None
  /\ entry = [i \in Identity |-> None]
  /\ refs = [i \in Identity |-> 0]
  /\ goroutine = [rt \in Runtime |-> "none"]
  /\ cancelled = {}

Wanted(t) == IdentityOf[arg[t]]

Goto(t, from, to) == pc[t] = from /\ pc' = [pc EXCEPT ![t] = to]

-----------------------------------------------------------------------------
(* Faulty variants of the actions below.  No specification uses them: each is *)
(* a bug the code could have, put in an action's place to see that a property *)
(* detects it.                                                                *)

\* acquire forgets to count the reference.
AcquireReusesUncounted(t) ==
  /\ regMu = None
  /\ entry[Wanted(t)] # None
  /\ Goto(t, "acquire", "commit")
  /\ UNCHANGED <<arg, client, leaseVars, registryVars, runtimeVars>>

\* acquire calls the factory without looking for an entry.
AcquireAlwaysMisses(t) ==
  /\ regMu = None
  /\ Goto(t, "acquire", "factory")
  /\ regMu' = t
  /\ UNCHANGED <<arg, client, leaseVars, entry, refs, runtimeVars>>

\* The error path of Start returns with l.mu locked.
FactoryFailsLocked(t) ==
  /\ Goto(t, "factory", "idle")
  /\ regMu' = None
  /\ UNCHANGED <<arg, client, leaseVars, entry, refs, runtimeVars>>

\* Stop calls l.release and leaves it in the lease.
StopCopiesRelease(t) ==
  /\ leaseMu[arg[t]] = None
  /\ release[arg[t]]
  /\ Goto(t, "stop", "release")
  /\ UNCHANGED <<arg, client, leaseVars, registryVars, runtimeVars>>

\* release returns early for the last reference too.
ReleaseSharedOffByOne(t) ==
  /\ regMu = None
  /\ entry[Wanted(t)] = None \/ refs[Wanted(t)] >= 1
  /\ Goto(t, "release", "idle")
  /\ refs' = [refs EXCEPT ![Wanted(t)] =
                IF entry[Wanted(t)] = None THEN @ ELSE @ - 1]
  /\ UNCHANGED <<arg, client, leaseVars, regMu, entry, runtimeVars>>

\* release deletes the entry whatever the count.
ReleaseUnconditional(t) ==
  /\ regMu = None
  /\ entry[Wanted(t)] # None
  /\ Goto(t, "release", "cancel")
  /\ client' = [client EXCEPT ![t] = entry[Wanted(t)]]
  /\ entry' = [entry EXCEPT ![Wanted(t)] = None]
  /\ refs' = [refs EXCEPT ![Wanted(t)] = 0]
  /\ UNCHANGED <<arg, leaseVars, regMu, runtimeVars>>

\* release looks up the client after it deleted the entry.
ReleaseReadsDeleted(t) ==
  /\ regMu = None
  /\ entry[Wanted(t)] # None
  /\ refs[Wanted(t)] <= 1
  /\ Goto(t, "release", "cancel")
  /\ entry' = [entry EXCEPT ![Wanted(t)] = None]
  /\ client' = [client EXCEPT ![t] = entry'[Wanted(t)]]
  /\ refs' = [refs EXCEPT ![Wanted(t)] = 0]
  /\ UNCHANGED <<arg, leaseVars, regMu, runtimeVars>>

\* release deletes the entry and does not stop the client.
ReleaseWithoutStop(t) ==
  /\ regMu = None
  /\ entry[Wanted(t)] # None
  /\ refs[Wanted(t)] <= 1
  /\ Goto(t, "release", "idle")
  /\ entry' = [entry EXCEPT ![Wanted(t)] = None]
  /\ refs' = [refs EXCEPT ![Wanted(t)] = 0]
  /\ UNCHANGED <<arg, client, leaseVars, regMu, runtimeVars>>

-----------------------------------------------------------------------------
(* Lease.Start                                                             *)

StartCall(t, l) ==
  /\ Goto(t, "idle", "start")
  /\ arg' = [arg EXCEPT ![t] = l]
  /\ UNCHANGED <<client, leaseVars, registryVars, runtimeVars>>

\* l.release is set: Start returns nil and the lease keeps its one reference.
StartAlreadyHeld(t) ==
  /\ leaseMu[arg[t]] = None
  /\ release[arg[t]]
  /\ Goto(t, "start", "idle")
  /\ UNCHANGED <<arg, client, leaseVars, registryVars, runtimeVars>>

StartLocksLease(t) ==
  /\ leaseMu[arg[t]] = None
  /\ ~release[arg[t]]
  /\ Goto(t, "start", "acquire")
  /\ leaseMu' = [leaseMu EXCEPT ![arg[t]] = t]
  /\ UNCHANGED <<arg, client, release, registryVars, runtimeVars>>

\* acquire finds an entry: one more reference to its runtime.
AcquireReuses(t) ==
  /\ regMu = None
  /\ entry[Wanted(t)] # None
  /\ Goto(t, "acquire", "commit")
  /\ refs' = [refs EXCEPT ![Wanted(t)] = @ + 1]
  /\ UNCHANGED <<arg, client, leaseVars, regMu, entry, runtimeVars>>

\* acquire finds none: it runs the factory with r.mu held.
AcquireMisses(t) ==
  /\ regMu = None
  /\ entry[Wanted(t)] = None
  /\ Goto(t, "acquire", "factory")
  /\ regMu' = t
  /\ UNCHANGED <<arg, client, leaseVars, entry, refs, runtimeVars>>

\* The factory returns an error: nothing is stored, both deferred unlocks run.
FactoryFails(t) ==
  /\ Goto(t, "factory", "idle")
  /\ regMu' = None
  /\ leaseMu' = [leaseMu EXCEPT ![arg[t]] = None]
  /\ UNCHANGED <<arg, client, release, entry, refs, runtimeVars>>

\* NewClient and Client.Start: a new runtime with its goroutine running.
FactoryStartsClient(t) ==
  /\ Goto(t, "factory", "store")
  /\ \E rt \in Runtime :
       /\ goroutine[rt] = "none"
       /\ goroutine' = [goroutine EXCEPT ![rt] = "running"]
       /\ client' = [client EXCEPT ![t] = rt]
  /\ UNCHANGED <<arg, leaseVars, registryVars, cancelled>>

StoreEntry(t) ==
  /\ Goto(t, "store", "commit")
  /\ entry' = [entry EXCEPT ![Wanted(t)] = client[t]]
  /\ refs' = [refs EXCEPT ![Wanted(t)] = 1]
  /\ regMu' = None
  /\ client' = [client EXCEPT ![t] = None]
  /\ UNCHANGED <<arg, leaseVars, runtimeVars>>

\* l.release = release, then Start returns and l.mu is unlocked.
StartCommits(t) ==
  /\ Goto(t, "commit", "idle")
  /\ release' = [release EXCEPT ![arg[t]] = TRUE]
  /\ leaseMu' = [leaseMu EXCEPT ![arg[t]] = None]
  /\ UNCHANGED <<arg, client, registryVars, runtimeVars>>

-----------------------------------------------------------------------------
(* Lease.Stop                                                              *)

StopCall(t, l) ==
  /\ Goto(t, "idle", "stop")
  /\ arg' = [arg EXCEPT ![t] = l]
  /\ UNCHANGED <<client, leaseVars, registryVars, runtimeVars>>

StopNothingHeld(t) ==
  /\ leaseMu[arg[t]] = None
  /\ ~release[arg[t]]
  /\ Goto(t, "stop", "idle")
  /\ UNCHANGED <<arg, client, leaseVars, registryVars, runtimeVars>>

\* Stop takes l.release out of the lease under l.mu and calls it unlocked.
StopTakesRelease(t) ==
  /\ leaseMu[arg[t]] = None
  /\ release[arg[t]]
  /\ Goto(t, "stop", "release")
  /\ release' = [release EXCEPT ![arg[t]] = FALSE]
  /\ UNCHANGED <<arg, client, leaseMu, registryVars, runtimeVars>>

\* release returns early: there is no entry, or others still refer to it.
ReleaseShared(t) ==
  /\ regMu = None
  /\ entry[Wanted(t)] = None \/ refs[Wanted(t)] > 1
  /\ Goto(t, "release", "idle")
  /\ refs' = [refs EXCEPT ![Wanted(t)] =
                IF entry[Wanted(t)] = None THEN @ ELSE @ - 1]
  /\ UNCHANGED <<arg, client, leaseVars, regMu, entry, runtimeVars>>

\* The last reference: the entry is deleted, the client is stopped later.
ReleaseLast(t) ==
  /\ regMu = None
  /\ entry[Wanted(t)] # None
  /\ refs[Wanted(t)] <= 1
  /\ Goto(t, "release", "cancel")
  /\ client' = [client EXCEPT ![t] = entry[Wanted(t)]]
  /\ entry' = [entry EXCEPT ![Wanted(t)] = None]
  /\ refs' = [refs EXCEPT ![Wanted(t)] = 0]
  /\ UNCHANGED <<arg, leaseVars, regMu, runtimeVars>>

\* Client.Stop: cancel the context ...
ClientCancel(t) ==
  /\ Goto(t, "cancel", "wait")
  /\ cancelled' = cancelled \cup {client[t]}
  /\ UNCHANGED <<arg, client, leaseVars, registryVars, goroutine>>

\* ... and wait for the goroutine; the runtime is garbage from here on.
ClientWaited(t) ==
  /\ Goto(t, "wait", "idle")
  /\ goroutine[client[t]] = "returned"
  /\ goroutine' = [goroutine EXCEPT ![client[t]] = "none"]
  /\ cancelled' = cancelled \ {client[t]}
  /\ client' = [client EXCEPT ![t] = None]
  /\ UNCHANGED <<arg, leaseVars, registryVars>>

\* RunClient returns: its context was cancelled, or it gave up with an error,
\* which the goroutine logs and keeps to itself.
RunClientReturns(rt) ==
  /\ goroutine[rt] = "running"
  /\ goroutine' = [goroutine EXCEPT ![rt] = "returned"]
  /\ UNCHANGED <<pc, arg, client, leaseVars, registryVars, cancelled>>

-----------------------------------------------------------------------------
StartStep(t) ==
  \/ StartAlreadyHeld(t)
  \/ StartLocksLease(t)
  \/ AcquireReuses(t)
  \/ AcquireMisses(t)
  \/ FactoryFails(t)
  \/ FactoryStartsClient(t)
  \/ StoreEntry(t)
  \/ StartCommits(t)

StopStep(t) ==
  \/ StopNothingHeld(t)
  \/ StopTakesRelease(t)
  \/ ReleaseShared(t)
  \/ ReleaseLast(t)
  \/ ClientCancel(t)
  \/ ClientWaited(t)

Next ==
  \/ \E t \in Thread, l \in Lease : StartCall(t, l) \/ StopCall(t, l)
  \/ \E t \in Thread : StartStep(t) \/ StopStep(t)
  \/ \E rt \in Runtime : RunClientReturns(rt)

Spec == Init /\ [][Next]_vars

\* A thread inside a call keeps running.  The steps that lock l.mu or r.mu are
\* enabled again and again, not always: sync.Mutex hands a contended mutex to
\* its longest waiter (starvation mode), hence strong fairness.  RunClient
\* returns once its context is cancelled.
LocksLease(t) ==
  \/ StartAlreadyHeld(t) \/ StartLocksLease(t)
  \/ StopNothingHeld(t) \/ StopTakesRelease(t)

LocksRegistry(t) ==
  \/ AcquireReuses(t) \/ AcquireMisses(t)
  \/ ReleaseShared(t) \/ ReleaseLast(t)

Fairness ==
  /\ \A t \in Thread :
       /\ WF_vars(StartStep(t) \/ StopStep(t))
       /\ SF_vars(LocksLease(t))
       /\ SF_vars(LocksRegistry(t))
  /\ \A rt \in Runtime : WF_vars(rt \in cancelled /\ RunClientReturns(rt))

FairSpec == Spec /\ Fairness

-----------------------------------------------------------------------------
(* Properties                                                              *)

HoldingLeases(i) == {l \in Lease : release[l] /\ IdentityOf[l] = i}

\* Threads between the registry's count and the lease's: the reference is
\* counted and not yet in l.release, or taken from it and not yet given back.
InFlight(i) ==
  {t \in Thread : pc[t] \in {"commit", "release"} /\ Wanted(t) = i}

\* The count of an entry is the number of leases that hold the identity plus
\* the threads about to commit or to give back a reference, whatever Starts and
\* Stops overlap; and there is an entry exactly when that number is not 0.
RefsCountHolders ==
  \A i \in Identity :
    /\ refs[i] = Cardinality(HoldingLeases(i)) + Cardinality(InFlight(i))
    /\ (entry[i] = None) <=> (refs[i] = 0)

\* A lease whose Start returned nil and that nobody stopped has a runtime in
\* the registry, and no one has cancelled that runtime.
HeldLeaseIsServed ==
  \A l \in Lease : release[l] =>
    LET rt == entry[IdentityOf[l]] IN
    rt # None /\ goroutine[rt] # "none" /\ rt \notin cancelled

\* A runtime whose goroutine was started is registered under one identity, or
\* else one thread alone still has to register it or to stop it: no runtime is
\* left behind with nobody to stop it, and none is stopped twice.
NoRuntimeLeaks ==
  \A rt \in Runtime : goroutine[rt] # "none" =>
    LET identities == {i \in Identity : entry[i] = rt}
        owners == {t \in Thread : client[t] = rt}
    IN  Cardinality(identities) + Cardinality(owners) = 1

\* As long as a lease holds its identity, Starts, failed Starts and Stops of
\* other leases leave it with the very runtime it has: streams survive a reload
\* that keeps the client's configuration.
HeldRuntimeKept ==
  [][\A l \in Lease : release[l] /\ release'[l] =>
       entry'[IdentityOf[l]] = entry[IdentityOf[l]]]_vars

\* The registry implements runtime sharing: a lease's release is its hold, the
\* entry is the runtime that serves the identity.
Sharing == INSTANCE RuntimeSharing WITH
  holding <- {l \in Lease : release[l]},
  serving <- entry,
  status <- [rt \in Runtime |->
               IF goroutine[rt] = "none" THEN "absent"
               ELSE IF rt \in cancelled THEN "cancelled" ELSE "live"]

\* Every step of the registry is a step of the abstract sharing or a stutter.
ImplementsSharing == Sharing!Spec

\* An identity nobody holds loses its runtime in the end, a runtime that serves
\* nothing ends up registered or cancelled, and a cancelled one goes away.
ImplementsFairSharing == Sharing!FairSpec

\* Every Lease.Start and Lease.Stop returns: no two of them wait for each other
\* over l.mu, r.mu and the wait for a client's goroutine.
CallsReturn == \A t \in Thread : pc[t] # "idle" ~> pc[t] = "idle"
=============================================================================
