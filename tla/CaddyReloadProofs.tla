-------------------------- MODULE CaddyReloadProofs --------------------------
(***************************************************************************)
(* Proofs about CaddyReload, for any identities and any set of             *)
(* configurations.  IInv is the inductive invariant: which apps of which   *)
(* configuration are up in each phase of a load, and that the references   *)
(* the registry counts are those of the client configurations that are up. *)
(***************************************************************************)
EXTENDS CaddyReload, FiniteSetTheorems, TLAPS

\* The current configuration is not the one being started or stopped, and all
\* its apps are up; only what was loaded is up, and what was loaded provisions.
LoadInv ==
  /\ current # None => current # pending /\ up[current] = App
  /\ \A s \in Slot : config[s] = None => up[s] = {}
  /\ \A s \in Slot : config[s] # None => AppProvisions(config[s])

\* A session is attached to a server that is up.
SessionInv ==
  session # None =>
    config[session] # None /\ IsServer(session) /\ "bifrost" \in up[session]

\* The configurations whose app holds a reference to the client of i.
Holders(i) ==
  {s \in Slot : config[s] # None /\ "bifrost" \in up[s] /\ config[s].client = i}

\* The references are the holders', and a runtime is there as long as any is.
RefsInv ==
  \A i \in Identity :
    /\ refs[i] = Cardinality(Holders(i))
    /\ (runtime[i] # None) <=> (refs[i] > 0)

IInv == TypeOK /\ LoadInv /\ SessionInv /\ RefsInv

-----------------------------------------------------------------------------
\* A slot that is added to the holders, or taken from them, changes their number
\* by one; there are two of them at most.
LEMMA HoldersCount ==
  ASSUME NEW S \in SUBSET Slot
  PROVE  /\ Cardinality(S) \in 0 .. 2
         /\ \A s \in Slot \ S : Cardinality(S \cup {s}) = Cardinality(S) + 1
         /\ \A s \in S : Cardinality(S \ {s}) = Cardinality(S) - 1
         /\ (Cardinality(S) = 0) <=> (S = {})
         /\ \A s, t \in S : s # t => Cardinality(S) > 1
<1>1. IsFiniteSet(S) /\ Cardinality(S) \in Nat /\ Cardinality(S) <= 2
  BY SlotAssumption, FS_Subset, FS_CardinalityType
<1>2. \A s \in Slot \ S : Cardinality(S \cup {s}) = Cardinality(S) + 1
  BY <1>1, FS_AddElement
<1>3. ASSUME NEW s \in S
      PROVE  /\ Cardinality(S \ {s}) = Cardinality(S) - 1
             /\ IsFiniteSet(S \ {s}) /\ Cardinality(S \ {s}) \in Nat
  BY <1>1, FS_RemoveElement, FS_CardinalityType
<1>4. (Cardinality(S) = 0) <=> (S = {})
  BY <1>1, FS_EmptySet
<1>5. ASSUME NEW s \in S, NEW t \in S, s # t PROVE Cardinality(S) > 1
  <2>1. Cardinality(S \ {s}) # 0
    BY <1>3, <1>5, FS_EmptySet
  <2> QED
    BY <2>1, <1>1, <1>3
<1> QED
  BY <1>1, <1>2, <1>3, <1>4, <1>5

-----------------------------------------------------------------------------
LEMMA InitIInv == Init => IInv
<1> SUFFICES ASSUME Init PROVE IInv
  OBVIOUS
<1> USE NoneAssumption DEF Init
<1>1. TypeOK
  BY DEF TypeOK
<1>2. LoadInv /\ SessionInv
  BY DEF LoadInv, SessionInv
<1>3. \A i \in Identity : Holders(i) = {}
  BY DEF Holders
<1>4. RefsInv
  BY <1>3, FS_EmptySet DEF RefsInv
<1> QED
  BY <1>1, <1>2, <1>4 DEF IInv

-----------------------------------------------------------------------------
(* Starting and stopping an app                                            *)

\* What the registry does to one identity when a holder comes or goes.
LEMMA AcquireHolds ==
  ASSUME IInv, NEW s \in Slot, NEW i \in Identity, s \notin Holders(i), Acquire(i, s),
         \A j \in Identity :
           Holders(j)' = IF j = i THEN Holders(i) \cup {s} ELSE Holders(j)
  PROVE  /\ RefsInv' /\ refs' \in [Identity -> Int]
         /\ runtime' \in [Identity -> Slot \cup {"unloaded", None}]
<1>1. \A j \in Identity : Holders(j) \in SUBSET Slot
  BY DEF Holders
<1>2. /\ refs[i] = Cardinality(Holders(i))
      /\ Cardinality(Holders(i) \cup {s}) = refs[i] + 1 /\ refs[i] \in Nat
  BY <1>1, HoldersCount DEF IInv, RefsInv
<1>3. refs'[i] = refs[i] + 1 /\ runtime'[i] # None
  BY NoneAssumption DEF Acquire, IInv, TypeOK
<1>4. \A j \in Identity \ {i} : refs'[j] = refs[j] /\ runtime'[j] = runtime[j]
  BY DEF Acquire, IInv, TypeOK
<1>5. ASSUME NEW j \in Identity
      PROVE  refs'[j] = Cardinality(Holders(j)') /\ ((runtime'[j] # None) <=> (refs'[j] > 0))
  <2>1. CASE j = i
    BY <1>2, <1>3, <2>1 DEF IInv, RefsInv
  <2>2. CASE j # i
    BY <1>4, <2>2 DEF IInv, RefsInv
  <2> QED
    BY <2>1, <2>2
<1>6. RefsInv'
  BY <1>5 DEF RefsInv
<1> QED
  BY <1>6 DEF Acquire, IInv, TypeOK

LEMMA ReleaseHolds ==
  ASSUME IInv, NEW s \in Slot, NEW i \in Identity, s \in Holders(i), Release(i),
         \A j \in Identity :
           Holders(j)' = IF j = i THEN Holders(i) \ {s} ELSE Holders(j)
  PROVE  /\ RefsInv' /\ refs' \in [Identity -> Int]
         /\ runtime' \in [Identity -> Slot \cup {"unloaded", None}]
<1>1. \A j \in Identity : Holders(j) \in SUBSET Slot
  BY DEF Holders
<1>2. /\ refs[i] = Cardinality(Holders(i))
      /\ Cardinality(Holders(i) \ {s}) = refs[i] - 1 /\ refs[i] \in Nat \ {0}
  BY <1>1, HoldersCount DEF IInv, RefsInv
<1>3. refs'[i] = refs[i] - 1 /\ runtime'[i] = IF refs[i] > 1 THEN runtime[i] ELSE None
  BY DEF Release, IInv, TypeOK
<1>4. \A j \in Identity \ {i} : refs'[j] = refs[j] /\ runtime'[j] = runtime[j]
  BY DEF Release, IInv, TypeOK
<1>5. ASSUME NEW j \in Identity
      PROVE  refs'[j] = Cardinality(Holders(j)') /\ ((runtime'[j] # None) <=> (refs'[j] > 0))
  <2>1. CASE j = i
    BY <1>2, <1>3, <2>1 DEF IInv, RefsInv
  <2>2. CASE j # i
    BY <1>4, <2>2 DEF IInv, RefsInv
  <2> QED
    BY <2>1, <2>2
<1>6. RefsInv'
  BY <1>5 DEF RefsInv
<1> QED
  BY <1>6 DEF Release, IInv, TypeOK

\* The types of the counts follow from what they count.
LEMMA RefsType ==
  ASSUME RefsInv', refs' \in [Identity -> Int]
  PROVE  refs' \in [Identity -> 0 .. 2]
<1>1. \A i \in Identity : Holders(i)' \in SUBSET Slot
  BY DEF Holders
<1> QED
  BY <1>1, HoldersCount DEF RefsInv

\* A configuration that provisions configures a client just if it is no server.
LEMMA ClientConfigured ==
  ASSUME IInv, NEW s \in Slot, config[s] # None
  PROVE  /\ config[s].server => \A i \in Identity : config[s].client # i
         /\ ~config[s].server => config[s].client \in Identity
         /\ config[s].server \in BOOLEAN
<1>1. config[s] \in Fields
  BY ConfigAssumption DEF IInv, TypeOK
<1> QED
  BY <1>1, NoneAssumption DEF IInv, LoadInv, AppProvisions, Fields

-----------------------------------------------------------------------------
(* The steps.  Those that change neither up nor what is up leave the       *)
(* holders alone; the others let one come or go.                           *)

\* With the holders and the registry unchanged, so is the account of them.
LEMMA RefsKept ==
  ASSUME IInv, UNCHANGED registryVars, \A i \in Identity : Holders(i)' = Holders(i)
  PROVE  RefsInv'
<1>1. ASSUME NEW i \in Identity
      PROVE  refs'[i] = Cardinality(Holders(i)') /\ ((runtime'[i] # None) <=> (refs'[i] > 0))
  BY DEF IInv, RefsInv, registryVars
<1> QED
  BY <1>1 DEF RefsInv

LEMMA LoadStep ==
  ASSUME IInv, NEW s \in Slot, NEW c \in Config, Load(s, c)
  PROVE  IInv'
<1> USE NoneAssumption
<1> USE DEF IInv, TypeOK, LoadInv, Load, registryVars
<1>1. config[s] = None /\ up[s] = {} /\ pending = None
  OBVIOUS
<1>2. TypeOK'
  BY <1>1
<1>3. LoadInv'
  BY <1>1
<1>4. SessionInv'
  BY <1>1 DEF SessionInv, IsServer
<1>5. \A i \in Identity : Holders(i)' = Holders(i)
  BY <1>1 DEF Holders
<1>6. RefsInv'
  BY <1>5, RefsKept
<1> QED
  BY <1>2, <1>3, <1>4, <1>6

LEMMA StartsStep ==
  ASSUME IInv, NEW a \in App, Starts(a)
  PROVE  IInv'
<1> USE NoneAssumption
<1>1. /\ pending \in Slot /\ config[pending] # None /\ pending # current
      /\ config' = config /\ pending' = pending /\ current' = current /\ phase' = phase
      /\ session' = session
      /\ up' \in [Slot -> SUBSET App]
      /\ up'[pending] = up[pending] \cup {a} /\ a \notin up[pending]
      /\ \A s \in Slot \ {pending} : up'[s] = up[s]
  BY DEF Starts, AppStarts, caddyVars, IInv, TypeOK, LoadInv
<1>2. LoadInv' /\ SessionInv'
  BY <1>1 DEF IInv, LoadInv, SessionInv, IsServer, TypeOK
<1>3. RefsInv' /\ refs' \in [Identity -> Int]
      /\ runtime' \in [Identity -> Slot \cup {"unloaded", None}]
  <2>1. CASE a = "bifrost" /\ ~IsServer(pending)
    <3> DEFINE i == config[pending].client
    <3>1. i \in Identity /\ pending \notin Holders(i) /\ Acquire(i, pending)
      BY <1>1, <2>1, ClientConfigured DEF Starts, AppStarts, IsServer, Holders
    <3>2. \A j \in Identity :
            Holders(j)' = IF j = i THEN Holders(i) \cup {pending} ELSE Holders(j)
      BY <1>1, <2>1 DEF Holders
    <3> HIDE DEF i
    <3> QED
      BY <1>1, <3>1, <3>2, AcquireHolds
  <2>2. CASE ~(a = "bifrost" /\ ~IsServer(pending))
    <3>1. UNCHANGED registryVars
      BY <2>2 DEF Starts, AppStarts
    <3>2. \A j \in Identity : Holders(j)' = Holders(j)
      BY <1>1, <2>2, ClientConfigured DEF Holders, IsServer, App
    <3> QED
      BY <3>1, <3>2, RefsKept DEF registryVars, IInv, TypeOK
  <2> QED
    BY <2>1, <2>2
<1>4. refs' \in [Identity -> 0 .. 2]
  BY <1>3, RefsType
<1>5. TypeOK'
  BY <1>1, <1>3, <1>4 DEF IInv, TypeOK
<1> QED
  BY <1>2, <1>3, <1>5 DEF IInv

LEMMA StopsStep ==
  ASSUME IInv, NEW a \in App, Stops(a)
  PROVE  IInv'
<1> USE NoneAssumption
<1>1. /\ pending \in Slot /\ config[pending] # None /\ pending # current
      /\ config' = config /\ pending' = pending /\ current' = current /\ phase' = phase
      /\ up' \in [Slot -> SUBSET App]
      /\ up'[pending] = up[pending] \ {a} /\ a \in up[pending]
      /\ \A s \in Slot \ {pending} : up'[s] = up[s]
  BY DEF Stops, AppStops, caddyVars, IInv, TypeOK, LoadInv
<1>2. LoadInv'
  BY <1>1 DEF IInv, LoadInv, TypeOK
<1>3. SessionInv' /\ session' \in Slot \cup {None}
  <2>1. CASE a = "bifrost"
    BY <1>1, <2>1 DEF Stops, AppStops, SessionInv, IsServer, IInv, TypeOK
  <2>2. CASE a # "bifrost"
    BY <1>1, <2>2 DEF Stops, SessionInv, IsServer, IInv, TypeOK
  <2> QED
    BY <2>1, <2>2
<1>4. RefsInv' /\ refs' \in [Identity -> Int]
      /\ runtime' \in [Identity -> Slot \cup {"unloaded", None}]
  <2>1. CASE a = "bifrost" /\ ~IsServer(pending)
    <3> DEFINE i == config[pending].client
    <3>1. i \in Identity /\ pending \in Holders(i) /\ Release(i)
      BY <1>1, <2>1, ClientConfigured DEF Stops, AppStops, IsServer, Holders
    <3>2. \A j \in Identity :
            Holders(j)' = IF j = i THEN Holders(i) \ {pending} ELSE Holders(j)
      BY <1>1, <2>1 DEF Holders
    <3> HIDE DEF i
    <3> QED
      BY <1>1, <3>1, <3>2, ReleaseHolds
  <2>2. CASE ~(a = "bifrost" /\ ~IsServer(pending))
    <3>1. UNCHANGED registryVars
      BY <2>2 DEF Stops, AppStops
    <3>2. \A j \in Identity : Holders(j)' = Holders(j)
      BY <1>1, <2>2, ClientConfigured DEF Holders, IsServer, App
    <3> QED
      BY <3>1, <3>2, RefsKept DEF registryVars, IInv, TypeOK
  <2> QED
    BY <2>1, <2>2
<1>5. refs' \in [Identity -> 0 .. 2]
  BY <1>4, RefsType
<1>6. TypeOK'
  BY <1>1, <1>3, <1>4, <1>5 DEF IInv, TypeOK
<1> QED
  BY <1>2, <1>3, <1>4, <1>6 DEF IInv

\* The configuration that is unloaded holds nothing any more.
LEMMA UnloadsStep ==
  ASSUME IInv, Unloads
  PROVE  IInv'
<1> USE NoneAssumption
<1>1. pending \in Slot /\ up[pending] = {} /\ pending # current
  BY DEF IInv, TypeOK, LoadInv, Unloads
<1>2. TypeOK'
  BY <1>1 DEF IInv, TypeOK, Unloads
<1>3. LoadInv' /\ SessionInv'
  BY <1>1 DEF IInv, TypeOK, LoadInv, SessionInv, IsServer, Unloads
<1>4. \A i \in Identity : Holders(i)' = Holders(i)
  BY <1>1 DEF Holders, Unloads, IInv, TypeOK
<1>5. ASSUME NEW i \in Identity
      PROVE  refs'[i] = Cardinality(Holders(i)') /\ ((runtime'[i] # None) <=> (refs'[i] > 0))
  BY <1>1, <1>4 DEF IInv, RefsInv, TypeOK, Unloads
<1> QED
  BY <1>2, <1>3, <1>5 DEF IInv, RefsInv

\* What Caddy decides, and a connector's attaching, changes nothing that is held.
LEMMA OtherStep ==
  ASSUME IInv,
         \/ \E a \in App : StartFails(a)
         \/ Switches \/ Shutdown
         \/ \E s \in Slot : ConnectorAttaches(s)
         \/ UNCHANGED vars
  PROVE  IInv'
<1> USE NoneAssumption
<1> USE DEF IInv, StartFails, Switches, Shutdown, ConnectorAttaches, vars, caddyVars,
            registryVars
<1>1. UNCHANGED <<config, up, registryVars>>
  OBVIOUS
<1>2. TypeOK'
  BY DEF TypeOK, LoadInv, IsServer
<1>3. LoadInv'
  BY DEF LoadInv, TypeOK, AppProvisions
<1>4. SessionInv'
  BY DEF SessionInv, TypeOK, LoadInv, IsServer
<1>5. \A i \in Identity : Holders(i)' = Holders(i)
  BY <1>1 DEF Holders
<1>6. RefsInv'
  BY <1>1, <1>5, RefsKept
<1> QED
  BY <1>2, <1>3, <1>4, <1>6

LEMMA StepIInv == IInv /\ [Next]_vars => IInv'
  BY LoadStep, StartsStep, StopsStep, UnloadsStep, OtherStep DEF Next

LEMMA Invariance == Spec => []IInv
  BY InitIInv, StepIInv, PTL DEF Spec

-----------------------------------------------------------------------------
\* Whatever is loaded, fails, is replaced or shut down, every variable keeps its
\* type, and there is a configuration in a slot just when it is current or about
\* to start or to stop.
THEOREM TypeCorrectness == Spec => []TypeOK
<1>1. IInv => TypeOK
  BY DEF IInv
<1> QED
  BY <1>1, Invariance, PTL

\* The current configuration has its runtime, though other configurations share
\* it, fail to load, and stop, and a connector's session is with a server that is
\* up (App.Start, App.Stop and the lease registry).
THEOREM CurrentKeepsRuntime == Spec => []CurrentIsServed
<1>1. IInv => CurrentIsServed
  <2> SUFFICES ASSUME IInv, current # None
               PROVE  /\ "bifrost" \in up[current]
                      /\ ~IsServer(current) => runtime[config[current].client] # None
    BY DEF CurrentIsServed, IInv, SessionInv
  <2>1. current \in Slot /\ config[current] # None /\ "bifrost" \in up[current]
    BY DEF IInv, TypeOK, LoadInv, App
  <2>2. ASSUME ~IsServer(current) PROVE runtime[config[current].client] # None
    <3> DEFINE i == config[current].client
    <3>1. i \in Identity
      BY <2>1, <2>2, ClientConfigured DEF IsServer
    <3>2. current \in Holders(i) /\ Holders(i) \in SUBSET Slot
      BY <2>1 DEF Holders
    <3>3. Cardinality(Holders(i)) \in 0 .. 2 /\ Cardinality(Holders(i)) # 0
      BY <3>2, HoldersCount
    <3> HIDE DEF i
    <3>4. runtime[i] # None
      BY <3>1, <3>3 DEF IInv, RefsInv
    <3> QED
      BY <3>4 DEF i
  <2> QED
    BY <2>1, <2>2
<1> QED
  BY <1>1, Invariance, PTL

\* Between two loads nothing is left of the configurations that failed to load
\* or were replaced: no app, no session, no reference and no runtime.
THEOREM NothingLeftBetweenLoads == Spec => []IdleRunsCurrentOnly
<1>1. IInv => IdleRunsCurrentOnly
  <2> SUFFICES ASSUME IInv, phase = "idle" PROVE IdleRunsCurrentOnly
    BY DEF IdleRunsCurrentOnly
  <2>1. pending = None /\ \A s \in Slot : config[s] # None <=> s = current
    BY NoneAssumption DEF IInv, TypeOK
  <2>2. \A s \in Slot : up[s] = IF s = current THEN App ELSE {}
    BY <2>1, NoneAssumption DEF IInv, LoadInv, TypeOK
  <2>3. session \in {None, current}
    BY <2>1 DEF IInv, SessionInv, TypeOK
  <2>4. ASSUME NEW i \in Identity
        PROVE  LET wanted == current # None /\ config[current].client = i IN
               /\ refs[i] = IF wanted THEN 1 ELSE 0
               /\ runtime[i] # None <=> wanted
    <3>1. current # None => current \in Slot
      BY DEF IInv, TypeOK
    <3>2. CASE current # None /\ config[current].client = i
      <4>1. Holders(i) = {current}
        BY <2>1, <2>2, <3>1, <3>2 DEF Holders, App
      <4>2. Cardinality(Holders(i)) = 1
        BY <4>1, FS_Singleton
      <4> QED
        BY <3>2, <4>2 DEF IInv, RefsInv
    <3>3. CASE ~(current # None /\ config[current].client = i)
      <4>1. Holders(i) = {}
        BY <2>1, <3>3, NoneAssumption DEF Holders
      <4>2. Cardinality(Holders(i)) = 0
        BY <4>1, FS_EmptySet
      <4> QED
        BY <3>3, <4>2 DEF IInv, RefsInv
    <3> QED
      BY <3>2, <3>3
  <2> QED
    BY <2>2, <2>3, <2>4 DEF IdleRunsCurrentOnly
<1> QED
  BY <1>1, Invariance, PTL

\* A reload with an unchanged client keeps its runtime, and so its streams: no
\* step replaces the runtime of an identity that is the current configuration's
\* before the step and after it.
THEOREM ReloadKeepsClient == Spec => UnchangedClientKept
<1>1. ASSUME IInv, [Next]_vars, NEW i \in Identity,
             current # None, config[current].client = i,
             current' # None, config'[current'].client = i
      PROVE  runtime'[i] \in {runtime[i], "unloaded"}
  <2>1. /\ current \in Slot /\ config[current] # None /\ "bifrost" \in up[current]
        /\ ~config[current].server /\ pending # current
    BY <1>1, ClientConfigured DEF IInv, TypeOK, LoadInv, App
  <2>2. current \in Holders(i) /\ Holders(i) \in SUBSET Slot /\ refs[i] > 0 /\ runtime[i] # None
    <3>1. current \in Holders(i) /\ Holders(i) \in SUBSET Slot
      BY <1>1, <2>1 DEF Holders
    <3>2. Cardinality(Holders(i)) \in 0 .. 2 /\ Cardinality(Holders(i)) # 0
      BY <3>1, HoldersCount
    <3> QED
      BY <1>1, <3>1, <3>2 DEF IInv, RefsInv
  <2>3. ASSUME NEW a \in App, Starts(a) PROVE runtime'[i] = runtime[i]
    BY <1>1, <2>2, <2>3 DEF Starts, AppStarts, Acquire, registryVars, IInv, TypeOK
  <2>4. ASSUME NEW a \in App, Stops(a) PROVE runtime'[i] = runtime[i]
    <3>1. CASE UNCHANGED registryVars
      BY <3>1 DEF registryVars
    <3>2. CASE a = "bifrost" /\ ~IsServer(pending) /\ config[pending].client = i
      <4>1. pending \in Holders(i)
        BY <1>1, <2>4, <3>2 DEF Holders, Stops, IInv, TypeOK
      <4>2. refs[i] > 1
        BY <1>1, <2>1, <2>2, <4>1, HoldersCount DEF IInv, RefsInv
      <4> QED
        BY <1>1, <2>4, <3>2, <4>2 DEF Stops, AppStops, Release, IInv, TypeOK
    <3>3. CASE a = "bifrost" /\ ~IsServer(pending) /\ config[pending].client # i
      BY <1>1, <2>4, <3>3 DEF Stops, AppStops, Release, IInv, TypeOK
    <3> QED
      BY <2>4, <3>1, <3>2, <3>3 DEF Stops, AppStops
  <2>5. ASSUME Unloads PROVE runtime'[i] \in {runtime[i], "unloaded"}
    BY <1>1, <2>5 DEF Unloads, IInv, TypeOK
  <2>6. ASSUME NEW s \in Slot, NEW c \in Config, Load(s, c) PROVE runtime' = runtime
    BY <2>6 DEF Load, registryVars
  <2>7. ASSUME \/ \E a \in App : StartFails(a)
               \/ Switches \/ Shutdown
               \/ \E s \in Slot : ConnectorAttaches(s)
               \/ UNCHANGED vars
        PROVE  runtime' = runtime
    BY <2>7 DEF StartFails, Switches, Shutdown, ConnectorAttaches, vars, registryVars
  <2> QED
    BY <1>1, <2>3, <2>4, <2>5, <2>6, <2>7 DEF Next
<1>2. IInv /\ [Next]_vars =>
        \A i \in Identity :
          /\ current # None /\ config[current].client = i
          /\ current' # None /\ config'[current'].client = i
          => runtime'[i] \in {runtime[i], "unloaded"}
  BY <1>1
<1> QED
  BY <1>2, Invariance, PTL DEF Spec, UnchangedClientKept
=============================================================================
