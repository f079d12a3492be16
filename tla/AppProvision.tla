---------------------------- MODULE AppProvision ----------------------------
(***************************************************************************)
(* An app's configuration from what the user wrote, as JSON or in a        *)
(* Caddyfile (UnmarshalCaddyfile, caddyfile.go), to what its runtime runs  *)
(* with: App.Provision (app.go) chooses the runtime and builds it; a       *)
(* server (internal/runtime/server.go) has its certificate managed and its *)
(* endpoints converted; a client becomes a lease with the identity that    *)
(* keys the registry (client_runtime.go), and is validated, so normalised, *)
(* once more by NewClient when it is started (internal/runtime/client.go). *)
(*                                                                         *)
(* The registry compares identities field by field: its keys are right     *)
(* only if all spellings of an address come out the same, and if to        *)
(* normalise twice is to normalise once.                                   *)
(***************************************************************************)
EXTENDS Caddyfile

CONSTANTS
  Host,        \* hosts: names, and IPv6 addresses, which have colons
  Port,        \* ports, one character each
  AnyAddress,  \* addresses as such, malformed ones among them
  Text,        \* what a user may write for the token and for the target
  Server,      \* server configurations in JSON
  Body,        \* blocks of the bifrost option of a Caddyfile
  ClientBlock  \* blocks of "client <address>" of a Caddyfile

AppConfig ==
  [server : {None} \cup ServerConfig, client : {None} \cup ClientConfig,
   plugin : BOOLEAN]

\* A host, a port and a server that is valid are there for WritesOther.
ASSUME WritingAssumption ==
  /\ Host \subseteq Texts /\ Host # {} /\ Port \subseteq STRING
  /\ AnyAddress \subseteq Texts /\ Text \subseteq Texts
  /\ Server \subseteq ServerConfig
  /\ \E s \in Server : ServerValid(NormalizeServer(s), FALSE)
  /\ Body \subseteq Block
  /\ ClientBlock \subseteq {None} \cup Seq(Directive(Directive(Directive({}))))
ASSUME HostAssumption ==
  (\A h \in Host : IsHost(h)) /\ (\A q \in Port : IsPort(<<q>>))
ASSUME NoneAssumption ==
  None \notin Texts \cup ClientConfig \cup ServerConfig \cup BifrostServer \cup Block

VARIABLES
  phase,     \* from a text to a running app, or where it was refused
  body,      \* the block the user wrote in a Caddyfile, or None
  app,       \* the app's JSON configuration
  target,    \* the address the user means, if what is written says one
  cfg,       \* the runtime's configuration, as normalised so far
  identity,  \* a client's key in the registry
  managed,   \* the subject whose certificate Caddy manages
  built      \* what a server gives the bifrost library

vars == <<phase, body, app, target, cfg, identity, managed, built>>

-----------------------------------------------------------------------------
(* What a user may write                                                   *)

Spellings(h, p) ==
  LET spelled == {JoinHostPort(h, p)} \cup IF p = <<>> THEN {h, Bracket(h)} ELSE {}
  IN  spelled \cup {<<Blank>> \o s \o <<Blank>> : s \in spelled}

\* Written without a port, an address means the connector's default port.
Meaning(h, p) == JoinHostPort(h, IF p = <<>> THEN DefaultConnectorPort ELSE p)

AnyPort == {<<>>} \cup {<<q>> : q \in Port}

JSONClient(a, t, f) ==
  [server |-> None, plugin |-> FALSE,
   client |-> [EmptyClient EXCEPT !.connect = a, !.token = t, !.forward = f]]

WritesClient ==
  \E t, f \in Text :
    \/ \E a \in AnyAddress : app = JSONClient(a, t, f) /\ target = None
    \/ \E h \in Host, p \in AnyPort : \E a \in Spellings(h, p) :
         app = JSONClient(a, t, f) /\ target = Meaning(h, p)

WritesServer ==
  /\ \E s \in Server, provider \in BOOLEAN :
       app = [server |-> s, client |-> None, plugin |-> provider]
  /\ target = None

\* Neither runtime, both, or a client with a plugin only a server has.
WritesOther ==
  /\ LET server == CHOOSE s \in Server : ServerValid(NormalizeServer(s), FALSE)
         client == [EmptyClient EXCEPT !.connect = CHOOSE h \in Host : TRUE,
                                       !.token = <<"t">>, !.forward = <<"t">>]
     IN  app \in {[server |-> None, client |-> None, plugin |-> FALSE],
                  [server |-> server, client |-> client, plugin |-> FALSE],
                  [server |-> None, client |-> client, plugin |-> TRUE]}
  /\ target = None

WritesCaddyfile ==
  \/ body \in Body /\ target = None
  \/ \E h \in Host, p \in AnyPort, block \in ClientBlock :
       \E a \in Spellings(h, p) :
         /\ body = <<[name |-> "client", block |-> block,
                     args |-> <<[text |-> a, int |-> <<>>, duration |-> <<>>]>>]>>
         /\ target = Meaning(h, p)

Init ==
  /\ \/ /\ phase = "written" /\ body = None
        /\ WritesClient \/ WritesServer \/ WritesOther
     \/ phase = "caddyfile" /\ app = None /\ WritesCaddyfile
  /\ cfg = None /\ identity = None /\ managed = None /\ built = None

-----------------------------------------------------------------------------
(* Faulty variants of the definitions below.                               *)

\* The lease does not validate: NewClient will.
LeaseProvisionsUnchecked ==
  /\ phase = "written" /\ app.server = None /\ app.client # None /\ ~app.plugin
  /\ phase' = "provisioned"
  /\ cfg' = NormalizeClient(app.client)
  /\ identity' = NormalizeClient(app.client)
  /\ UNCHANGED <<body, app, target, managed, built>>

\* The lease of an app that configures both runtimes is made, too.
IsClientAppEither(a) == a.client # None /\ ~a.plugin

-----------------------------------------------------------------------------
(* The Caddyfile, App.Provision and App.Start                              *)

\* App.UnmarshalCaddyfile: the configuration that was adapted to JSON.
UnmarshalCaddyfile ==
  /\ phase = "caddyfile"
  /\ app' = ParseApp(body)
  /\ phase' = IF app' = None THEN "refused" ELSE "written"
  /\ UNCHANGED <<body, target, cfg, identity, managed, built>>

IsServerApp(a) == a.server # None /\ a.client = None
IsClientApp(a) == a.server = None /\ a.client # None /\ ~a.plugin

\* newClientRuntimeLease: the lease has the normalised copy of the configuration
\* and the identity read from it.
LeaseProvisions ==
  /\ phase = "written" /\ IsClientApp(app)
  /\ ClientValid(NormalizeClient(app.client))
  /\ phase' = "provisioned"
  /\ cfg' = NormalizeClient(app.client)
  /\ identity' = NormalizeClient(app.client)
  /\ UNCHANGED <<body, app, target, managed, built>>

\* NewServer has Caddy manage the certificate, then NewServerWithTLSConfig
\* validates and normalises the configuration and converts its endpoints; Start
\* converts the rest.
ServerProvisions ==
  /\ phase = "written" /\ IsServerApp(app)
  /\ TrimSpace(app.server.tls_subject) # <<>>
  /\ managed' = app.server.tls_subject
  /\ cfg' = NormalizeServer(app.server)
  /\ ServerValid(cfg', app.plugin)
  /\ built' = [clients |-> IF app.plugin THEN None ELSE StaticClients(cfg'),
               guardrails |-> BifrostGuardrails(cfg'.guardrails),
               runtime |-> BifrostRuntime(cfg'.runtime)]
  /\ phase' = "provisioned"
  /\ UNCHANGED <<body, app, target, identity>>

\* A wrong choice of runtime or an invalid configuration; or else Caddy cannot
\* manage the certificate, or the library refuses the static clients.
Refuses ==
  /\ phase = "written"
  /\ \/ ~IsServerApp(app) /\ ~IsClientApp(app)
     \/ IsClientApp(app) /\ ~ClientValid(NormalizeClient(app.client))
     \/ IsServerApp(app)
  /\ phase' = "refused"
  /\ UNCHANGED <<body, app, target, cfg, identity, managed, built>>

\* The factory of App.Start, if the registry has no entry: Validate normalises
\* the lease's configuration in place, again.
NewClient ==
  /\ phase = "provisioned" /\ identity # None
  /\ cfg' = NormalizeClient(cfg)
  /\ phase' = IF ClientValid(cfg') THEN "running" ELSE "startFailed"
  /\ UNCHANGED <<body, app, target, identity, managed, built>>

Next ==
  UnmarshalCaddyfile \/ LeaseProvisions \/ ServerProvisions \/ Refuses \/ NewClient

Spec == Init /\ [][Next]_vars

-----------------------------------------------------------------------------
(* Properties                                                              *)

\* The runtime that comes out of Provision is the one of the app's two that is
\* configured, with what belongs to it and nothing of the other's.
TypeOK ==
  /\ phase \in {"caddyfile", "written", "provisioned", "running", "refused",
                "startFailed"}
  /\ body \in {None} \cup Block /\ app \in {None} \cup AppConfig
  /\ target \in {None} \cup Texts /\ managed \in {None} \cup Texts
  /\ cfg \in {None} \cup ClientConfig \cup ServerConfig
  /\ identity \in {None} \cup ClientConfig /\ built \in {None} \cup BifrostServer
  /\ (cfg = None) <=> phase \in {"caddyfile", "written", "refused"}
  /\ (cfg # None) <=> (identity # None) # (managed # None)
  /\ (built # None) <=> (managed # None)
  /\ identity # None => app.server = None
  /\ managed # None => app.client = None

\* Whatever way the user writes a host and a port, or a host alone, in JSON or
\* in a Caddyfile, the runtime dials that host at that port, or at 8443; so two
\* spellings of one address have one identity, and a reload that only respells
\* it keeps the runtime.  The runtime of an identity runs with what the identity
\* names, though the configuration was normalised once more than the identity.
SpellingsShareIdentity ==
  identity # None /\ target # None =>
    identity.connect = target /\ cfg = identity

\* What the lease accepted the factory accepts, malformed addresses included: a
\* client app that was provisioned does not fail to start over its configuration
\* when the apps of the previous one are about to be replaced.
ProvisionedStarts == phase # "startFailed"

\* A Caddyfile's meaning, read off its text as a whole: the lines that say a name,
\* and of them the last.
Lines(block, name) ==
  IF block = None THEN {} ELSE {n \in DOMAIN block : block[n].name = name}

LastSaid(block, name, kind, default) ==
  LET lines == Lines(block, name) IN
  IF lines = {} THEN default ELSE block[Max(lines)].args[1][kind]

KindOf(name) ==
  IF name \in {"stream_idle_timeout", "min_stream_idle_timeout",
               "max_stream_idle_timeout", "handshake_timeout",
               "tunnel_keepalive_interval", "tunnel_keepalive_timeout"}
  THEN "duration" ELSE "int"

SaidNumber(block, name) == LastSaid(block, name, KindOf(name), <<0>>)[1]

\* What is said in blocks of a name, which need not be one.
SaidInside(block, outer, name) ==
  LET saying == {n \in Lines(block, outer) : Lines(block[n].block, name) # {}} IN
  IF saying = {} THEN 0 ELSE SaidNumber(block[Max(saying)].block, name)

SaidNumbers(block, outer, empty) ==
  [f \in DOMAIN empty |-> SaidInside(block, outer, f)]

SaidEndpoint(d) ==
  [key |-> d.args[1].text,
   token |-> LastSaid(d.block, "token", "text", <<>>),
   policy |-> LastSaid(d.block, "policy", "text", <<>>),
   max_parallel |-> SaidNumber(d.block, "max_parallel"),
   limits |-> SaidNumbers(d.block, "limits", EmptyLimits)]

\* Endpoints by the lines they are on.
SaidServer(d) ==
  [tls_subject |-> d.args[1].text,
   endpoints |-> [n \in Lines(d.block, "endpoint") |-> SaidEndpoint(d.block[n])],
   guardrails |-> SaidNumbers(d.block, "guardrails", EmptyGuardrails),
   runtime |-> SaidNumbers(d.block, "runtime", EmptyRuntime)]

\* The server configuration the user wrote, in whichever form.
Said == IF body = None THEN app.server ELSE SaidServer(body[1])

\* Which of the lines a line is: the first, the second ...
Rank(n, lines) == Cardinality({m \in lines : m <= n})

Admits(client, e) ==
  /\ client.endpointKey = TrimSpace(e.key) /\ client.token = TrimSpace(e.token)
  /\ client.mode = TrimSpace(e.policy) /\ client.maxParallel = e.max_parallel
  /\ client.limits.maxStreams = e.limits.max_streams
  /\ client.limits.maxBandwidthBPS = e.limits.max_bandwidth_bps
  /\ client.limits.streamIdleTimeoutSeconds * Second = e.limits.stream_idle_timeout

\* A server that was built admits one client per endpoint the user wrote, in their
\* order, under its own key and with the very limits written: no idle timeout is
\* rounded, and none that is written becomes the 0 that means no limit.  Its
\* guardrails and timeouts are those written, each in its place, and the
\* certificate of a Caddyfile's server is managed for the subject without its
\* blanks.
BuiltAsWritten ==
  built # None =>
    /\ built.clients # None =>
         /\ Len(built.clients) = Cardinality(DOMAIN Said.endpoints)
         /\ \A n \in DOMAIN Said.endpoints :
              Admits(built.clients[Rank(n, DOMAIN Said.endpoints)], Said.endpoints[n])
         /\ \A m, n \in DOMAIN built.clients :
              built.clients[m].endpointKey = built.clients[n].endpointKey => m = n
    /\ LET g == Said.guardrails IN
         /\ built.guardrails.maxSessions = g.max_sessions
         /\ built.guardrails.maxStreamsPerSession = g.max_streams_per_session
         /\ built.guardrails.maxBandwidthBPSPerSession = g.max_bandwidth_bps_per_session
         /\ built.guardrails.minStreamIdleTimeout = g.min_stream_idle_timeout
         /\ built.guardrails.maxStreamIdleTimeout = g.max_stream_idle_timeout
         /\ built.guardrails.maxHeaders = g.max_headers
         /\ built.guardrails.maxHeaderBytes = g.max_header_bytes
    /\ LET r == Said.runtime IN
         /\ built.runtime.handshakeTimeout = r.handshake_timeout
         /\ built.runtime.streamCopyBufferBytes = r.stream_copy_buffer_bytes
         /\ built.runtime.tunnelKeepAliveInterval = r.tunnel_keepalive_interval
         /\ built.runtime.tunnelKeepAliveTimeout = r.tunnel_keepalive_timeout
    /\ body # None => managed = TrimSpace(Said.tls_subject)
=============================================================================
