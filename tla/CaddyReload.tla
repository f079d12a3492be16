---------------------------- MODULE CaddyReload ----------------------------
(***************************************************************************)
(* The bifrost app through Caddy's configuration loads: App.Provision,     *)
(* App.Start and App.Stop (app.go), the transport that looks the app up    *)
(* (transport.go), and the client leases that two overlapping apps share.  *)
(*                                                                         *)
(* Caddy is external: it loads one configuration at a time, provisions it, *)
(* starts its apps in no particular order, and stops the previous          *)
(* configuration's apps only when all have started; if one fails, it stops *)
(* the ones that started and the previous configuration stays.  An app     *)
(* whose Start failed is not stopped.  Each configuration has a metrics    *)
(* registry of its own.                                                    *)
(*                                                                         *)
(* A call of Start or Stop is one step: ServerRuntime and ClientRegistry   *)
(* have the steps inside.                                                  *)
(***************************************************************************)
EXTENDS Naturals, FiniteSets

CONSTANTS
  Config,    \* configurations: [server, client, plugin, route] records
  Identity,  \* client runtime identities
  Slot,      \* places for the configurations that exist at one time
  None

App == {"bifrost", "http"}

Fields == [server : BOOLEAN,             \* a server runtime is configured
           client : Identity \cup {None},  \* the client runtime, if configured
           plugin : BOOLEAN,             \* accept provider or latency observer
           route : BOOLEAN]              \* an HTTP route uses the transport

ASSUME ConfigAssumption == Config \subseteq Fields
ASSUME SlotAssumption == IsFiniteSet(Slot) /\ Cardinality(Slot) = 2
ASSUME NoneAssumption ==
  None \notin Identity \cup Slot \cup {"unloaded"} /\ None \notin Config

VARIABLES
  phase,    \* what Caddy is doing
  config,   \* the configuration in each slot
  up,       \* the apps of each slot that are started
  current,  \* the slot of the running configuration
  pending,  \* the slot that is being started, rolled back or stopped
  runtime,  \* per identity: the slot whose lease started its client runtime
  refs,     \* per identity: the registry's reference count
  session   \* the server runtime a connector's session is attached to

caddyVars == <<phase, config, current, pending>>
registryVars == <<runtime, refs>>
vars == <<caddyVars, up, registryVars, session>>

TypeOK ==
  /\ phase \in {"idle", "start", "rollback", "stop"}
  /\ config \in [Slot -> Config \cup {None}]
  /\ up \in [Slot -> SUBSET App]
  /\ current \in Slot \cup {None} /\ pending \in Slot \cup {None}
  /\ runtime \in [Identity -> Slot \cup {"unloaded", None}]
  /\ refs \in [Identity -> 0 .. 2]
  /\ session \in Slot \cup {None}
  /\ (phase = "idle") <=> (pending = None)
  /\ \A s \in Slot : config[s] # None <=> s \in {current, pending}

Init ==
  /\ phase = "idle" /\ current = None /\ pending = None
  /\ config = [s \in Slot |-> None]
  /\ up = [s \in Slot |-> {}]
  /\ runtime = [i \in Identity |-> None]
  /\ refs = [i \in Identity |-> 0]
  /\ session = None

\* App.runtimeName and the checks of App.Provision: one runtime, and plugins
\* only for a server.
AppProvisions(c) ==
  /\ c.server # (c.client # None)
  /\ c.plugin => c.server

\* Transport.Provision looks the app up and wants a server runtime.
TransportProvisions(c) == c.route => c.server

IsServer(s) == config[s].server

-----------------------------------------------------------------------------
(* Faulty variants, which no specification uses: each is a bug the code    *)
(* could have, put in a definition's place to see that a property detects  *)
(* it.                                                                     *)

\* acquire starts a client without looking for an entry.
AcquireAnew(i, s) ==
  /\ runtime' = [runtime EXCEPT ![i] = s]
  /\ refs' = [refs EXCEPT ![i] = @ + 1]

\* release stops the client whoever else refers to it.
ReleaseAlways(i) ==
  /\ refs' = [refs EXCEPT ![i] = @ - 1]
  /\ runtime' = [runtime EXCEPT ![i] = None]

\* Stop of an app with a client runtime keeps the reference.
AppStopsServerOnly(s) ==
  /\ session' = IF IsServer(s) /\ session = s THEN None ELSE session
  /\ UNCHANGED registryVars

\* Stop of an app with a server runtime leaves its sessions open.
AppStopsDetached(s) ==
  /\ UNCHANGED session
  /\ IF IsServer(s) THEN UNCHANGED registryVars
     ELSE LET i == config[s].client IN
          /\ refs' = [refs EXCEPT ![i] = @ - 1]
          /\ runtime' = [runtime EXCEPT ![i] = IF refs[i] > 1 THEN @ ELSE None]

-----------------------------------------------------------------------------
(* App.Start and App.Stop                                                  *)

\* The runtime of an entry keeps the observer and the logger of the lease that
\* started it; the lease that comes to share it brings its own for nothing.
Acquire(i, s) ==
  /\ runtime' = [runtime EXCEPT ![i] = IF @ = None THEN s ELSE @]
  /\ refs' = [refs EXCEPT ![i] = @ + 1]

Release(i) ==
  /\ refs' = [refs EXCEPT ![i] = @ - 1]
  /\ runtime' = [runtime EXCEPT ![i] = IF refs[i] > 1 THEN @ ELSE None]

AppStarts(s) ==
  /\ UNCHANGED session
  /\ IF IsServer(s) THEN UNCHANGED registryVars
     ELSE Acquire(config[s].client, s)

\* A server that stops ends the sessions it accepted.
AppStops(s) ==
  /\ session' = IF IsServer(s) /\ session = s THEN None ELSE session
  /\ IF IsServer(s) THEN UNCHANGED registryVars
     ELSE Release(config[s].client)

-----------------------------------------------------------------------------
(* Caddy's loads                                                           *)

\* A configuration that does not provision is refused before anything changes.
Load(s, c) ==
  /\ phase = "idle" /\ s # current
  /\ AppProvisions(c) /\ TransportProvisions(c)
  /\ phase' = "start" /\ pending' = s
  /\ config' = [config EXCEPT ![s] = c]
  /\ UNCHANGED <<up, current, registryVars, session>>

Starts(a) ==
  /\ phase = "start" /\ a \notin up[pending]
  /\ up' = [up EXCEPT ![pending] = @ \cup {a}]
  /\ IF a = "bifrost" THEN AppStarts(pending)
     ELSE UNCHANGED <<registryVars, session>>
  /\ UNCHANGED caddyVars

\* Server.Start may fail, with nothing left behind; the lease of a provisioned
\* client cannot.
StartFails(a) ==
  /\ phase = "start" /\ a \notin up[pending]
  /\ a = "bifrost" => IsServer(pending)
  /\ phase' = "rollback"
  /\ UNCHANGED <<config, current, pending, up, registryVars, session>>

\* All apps have started: from here on the new configuration is the current one.
Switches ==
  /\ phase = "start" /\ up[pending] = App
  /\ current' = pending /\ pending' = current
  /\ phase' = IF current = None THEN "idle" ELSE "stop"
  /\ UNCHANGED <<config, up, registryVars, session>>

\* caddy.Stop
Shutdown ==
  /\ phase = "idle" /\ current # None
  /\ phase' = "stop" /\ pending' = current /\ current' = None
  /\ UNCHANGED <<config, up, registryVars, session>>

Stops(a) ==
  /\ phase \in {"rollback", "stop"} /\ a \in up[pending]
  /\ up' = [up EXCEPT ![pending] = @ \ {a}]
  /\ IF a = "bifrost" THEN AppStops(pending)
     ELSE UNCHANGED <<registryVars, session>>
  /\ UNCHANGED caddyVars

\* The configuration and its metrics registry are gone.
Unloads ==
  /\ phase \in {"rollback", "stop"} /\ up[pending] = {}
  /\ phase' = "idle" /\ pending' = None
  /\ config' = [config EXCEPT ![pending] = None]
  /\ runtime' = [i \in Identity |->
                   IF runtime[i] = pending THEN "unloaded" ELSE runtime[i]]
  /\ UNCHANGED <<up, current, refs, session>>

\* A connector dials the address, which both servers of an overlap listen on.
ConnectorAttaches(s) ==
  /\ session = None
  /\ "bifrost" \in up[s] /\ IsServer(s)
  /\ session' = s
  /\ UNCHANGED <<caddyVars, up, registryVars>>

-----------------------------------------------------------------------------
Next ==
  \/ \E s \in Slot, c \in Config : Load(s, c)
  \/ \E a \in App : Starts(a) \/ StartFails(a) \/ Stops(a)
  \/ Switches \/ Shutdown \/ Unloads
  \/ \E s \in Slot : ConnectorAttaches(s)

Spec == Init /\ [][Next]_vars

\* Connectors retry.  Nothing obliges anyone to load a configuration, and
\* nothing Caddy does has to happen for the properties below.
FairSpec == Spec /\ WF_vars(\E s \in Slot : ConnectorAttaches(s))

-----------------------------------------------------------------------------
(* Properties                                                              *)

\* The current configuration has its runtime from the moment Caddy switches to
\* it until Caddy stops it, whatever the loads, failed loads and stops of other
\* configurations do to the runtime the two may share; and in every phase of a
\* load, a rollback included, a connector that has a session has it with a server
\* that is up, the current one's or the one being loaded, rolled back or replaced.
CurrentIsServed ==
  /\ current # None =>
       /\ "bifrost" \in up[current]
       /\ ~IsServer(current) => runtime[config[current].client] # None
  /\ session # None => "bifrost" \in up[session] /\ IsServer(session)

\* Between two loads only the current configuration is there: a load that failed
\* and a configuration that was replaced have given back their references,
\* stopped their runtimes and lost their sessions.
IdleRunsCurrentOnly ==
  phase = "idle" =>
    /\ \A s \in Slot : up[s] = IF s = current THEN App ELSE {}
    /\ session \in {None, current}
    /\ \A i \in Identity :
         LET wanted == current # None /\ config[current].client = i IN
         /\ refs[i] = IF wanted THEN 1 ELSE 0
         /\ runtime[i] # None <=> wanted

\* client_reload_test.go:23 tries one reload: as long as the configurations that
\* succeed each other have the same client identity, its runtime is the one that
\* was started first, and so are its streams.
UnchangedClientKept ==
  [][\A i \in Identity :
       /\ current # None /\ config[current].client = i
       /\ current' # None /\ config'[current'].client = i
       => runtime'[i] \in {runtime[i], "unloaded"}]_vars

\* A connector comes to the server of a configuration that stays, though it may
\* have been attached to the server before it, or to one whose load failed.
ConnectorReturns ==
  \A s \in Slot :
    <>[](phase = "idle" /\ current = s /\ IsServer(s)) => <>[](session = s)

\* README.md:206 has Bifrost's metrics in the registry of Caddy's own: the
\* runtime of the current configuration reports to that configuration's.
MetricsReachCurrent ==
  phase = "idle" /\ current # None /\ ~IsServer(current) =>
    runtime[config[current].client] = current
=============================================================================
