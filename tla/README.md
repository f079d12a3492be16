# A TLA+ model of caddy-bifrost

caddy-bifrost puts the Bifrost tunnel into Caddy: a Caddy *app* runs either a
public **server** runtime, which accepts outbound connector sessions, or a
private **client** runtime, which dials such a server; a reverse-proxy
*transport* and a TLS *listener wrapper* send requests and raw TLS connections
through a server. The tunnel itself (package `github.com/tunely-eu/bifrost`) and
Caddy are dependencies: the models treat them as the code in this repository
uses them, and `PROJECT.json` marks what stands for them as external.

## Inventory

| Component | State | Operations | Talks to | What is hard |
|---|---|---|---|---|
| Client registry and leases (`client_runtime.go`, `internal/runtime/client.go`) | `entries` (identity -> runtime, count) under `r.mu`; each lease's `release` under `l.mu`; each client's context and goroutine | `Lease.Start/Stop`, `acquire`, `release`, `Client.Start/Stop` | called by `App.Start/Stop`; runs `bifrost.RunClient` | two mutexes, one held across the factory; a stop after the unlock; release by identity |
| Server runtime (`internal/runtime/server.go`) | `server`, `ctx`, `stopOnce`, `wg`, two channels, the shared resolver | `Start`, `Stop`, `OpenStream`, `ProxyStream*`, `SetPassthroughResolver`, `ResolvePassthrough` | `bifrost.Server.Run`; transports and listeners | select with a timeout, cleanup of a half-finished Start, unsynchronised `s.server` |
| Listener wrapper and peek (`listener.go`, `internal/netutil`) | `observer`, `bifrostApp`; per connection the bytes read ahead | `Provision`, `Accept`, `handleConnection`, `PeekClientHelloServerName` | Caddy's accept loop; server runtime | blocking peek in the loop, ownership, replay, shared resolver |
| Passthrough stream lifecycle (`passthrough_observer.go`) | `started`, `ended` under `l.mu` | `AddBytes`, `End`, `end`, `reject` | called by the library's copies and by the handler; calls the observer | marks under the lock, delivers outside it, three callers |
| App (`app.go`), transport look-up (`transport.go`) | `a.runtime` | `Provision`, `Start`, `Stop` | Caddy's loads, registry, server | overlap of two configurations, failed loads |
| Configuration (`internal/config`) | none; rewrites its records in place | `Normalize`, `Validate*`, `StaticClients`, `NewRouteTable`, `Resolve` | app, lease, server | normalised more than once, and in an order; spellings; units |
| Transport dial (`internal/runtime/transport.go`) | connection pool | `RoundTrip`, `dialContext`, `Cleanup` | server runtime | timeout against a late stream |
| Client stream handler (`client.go`, `CloseOnContext`) | a watcher goroutine per stream | `handleStream` | library, private target | cancellation during the dial |
| Metrics (`internal/runtime/metrics.go`) | counters, a `sync.Once` per stream | observer callbacks | library, registry | concurrent `End` |
| Passive latency (`passive_latency.go`) | none | `ObserveLatency`, `PassiveLatencyObservation`, `PassiveLatencySnapshot` | library, observer module, embedding module | rounding; queries before Start and after Stop |
| Caddyfile (`internal/caddyfile`, `caddyfile.go`) | none | `ParseApp`, `ParseTransport`, the listener's `UnmarshalCaddyfile` | Caddy's adapter | repeated, nested and misplaced directives |
| Registration, logging, test utilities | none | glue | | nothing of its own |

What makes each correct, and what is hard to test in it, is listed line by line
under "hazards" in `PROJECT.json`, with the properties that cover it.

## Modules

| Module | Models | Checked by |
|---|---|---|
| `ClientRegistry` | the registry, its leases and clients, thread by thread | `registry` |
| `RuntimeSharing` | what the registry promises, abstractly | refined by `ClientRegistry` |
| `ClientRegistryProofs` | theorems about `ClientRegistry` | tlapm |
| `PassthroughStream` | one stream's observations | `stream`, `stream_order` |
| `PassthroughStreamProofs` | theorems about `PassthroughStream` | tlapm |
| `ServerRuntime` | one server's Start, Run, Stop and streams, and the latencies observed on them | `server`, `server_failure` |
| `AppRuntime` | what the interface `appRuntime` promises Caddy, abstractly | refined by `ServerRuntime` |
| `ServerRuntimeProofs` | theorems about `ServerRuntime` | tlapm |
| `PassiveLatency` | the conversions of `passive_latency.go` | through `ServerRuntime` |
| `Tunnel` | a stream from the transport's dial to the private target: timeout, metrics, session, `handleStream`, `CloseOnContext` | `tunnel` |
| `TunnelProofs` | theorems about `Tunnel` | tlapm |
| `Listener` | wrappers, accept loops, peek, resolver, replay | `listener`, `listener_shared`, `listener_stall` |
| `ListenerProofs` | theorems about `Listener` | tlapm |
| `Routes` | `internal/config/routes.go` | through `Listener` |
| `CaddyReload` | the app through loads, rollbacks and shutdown; composes registry and server, each call one step | `reload`, `reload_metrics` |
| `CaddyReloadProofs` | theorems about `CaddyReload` | tlapm |
| `Text` | the functions of Go's library that texts go through | through the modules below |
| `TextProofs` | lemmas about `Text` and `Routes`, for texts of any length | tlapm |
| `Config` | the functions of `internal/config/config.go` | through `AppProvision` |
| `Caddyfile` | the parsers: what a block of directives makes of a configuration | through `AppProvision`; `MCListener` and `MCTunnel` write their configurations in it |
| `AppProvision` | from JSON or a Caddyfile to identity, static clients and runtime | `provision` |
| `AppProvisionProofs` | theorems about `AppProvision`, and with it about the parsers and conversions of `Caddyfile` and `Config` | tlapm |
| `MC*` | instances of the above for TLC | |

Each module has a section of *faulty variants*: definitions with a bug the code
could have (a dropped guard, a missing count, a swapped order). No specification
uses them. `PROJECT.json` "mutants" says which one to put in place of which
definition, so that TLC finds the named property violated; this is how we know
that each property can fail.

### How state and actions correspond to the code

*ClientRegistry.* `pc`, `arg` and `client` are a thread's position in
`Lease.Start` / `Lease.Stop`, the lease and the client it holds in a local
variable. `leaseMu` is `l.mu` while `Start` holds it across `acquire`; `regMu` is
`r.mu` while `acquire` holds it across the factory; a critical section that calls
nothing is a single step. `entry` and `refs` are `r.entries`. `release` deletes
the entry (`ReleaseLast`), cancels (`ClientCancel`) and waits (`ClientWaited`) in
three steps, as `Client.Stop` runs after the unlock. `RunClientReturns` is the
goroutine of `Client.Start`; it may come without a cancellation, because
`RunClient` may give up, and the registry then keeps the dead runtime.

*PassthroughStream.* `pending[g]` is what goroutine `g` marked under `l.mu` and
has not yet handed to the observer. `joins` chooses, per behaviour, whether the
library waits for both copies before it calls `End`; properties that need it say
so.

*ServerRuntime.* `caddy` is the position in `Start` or `Stop`; `ready` and
`serverErr` are the buffered channels; `run` is the goroutine around
`server.Run`. A stream that is opened while `Start` writes `s.server` may see
either value: nothing orders the read before `Start` returns. `kept` is the last
observation the library keeps, in milliseconds of its own rounding, with the
latency that was measured; `told` is what the observer module was last told.
A query (`Pull`) changes nothing, so it is an expression in the property.

*Tunnel.* `ingress` and `egress` are the two ends of a stream, at the server and
at the client; a closed end is closed for both sides only when the copy, the
session or the watcher gets there. `handler`, `watcher` and `done` are
`handleStream`, the goroutine of `CloseOnContext` and the channel between them.
`ctx` is the context of each client runtime; `active`, `started`, `ended` and
`rejected` are the collectors of `metrics.go`. `means` is a ghost: the endpoint
that the upstream's address was written for, which `DialsMeant` compares with the
one that was derived from it. `DialContext` asks no server when the address has
no endpoint, as `RoundTrip` and `endpointFromDialAddress` do not.

*Listener.* A connection's bytes are chunks, numbered as they are sent: `sent`
counts those the peer sent, `taken` those read off the socket, by the peek's
`TeeReader` (`PeekReads`) or by whoever owns the connection afterwards
(`OwnerReads`, a read of `prefixConn`, which is Caddy's or the library's).
`replay` is what is left in the buffer the peek filled, and `got` what the owner
has read, which `ReplayComplete` compares with what was sent. `resolver` is the one
`s.resolver` all wrappers of an app share and `table` what it was made of: the
`NewRouteTable` of that wrapper's `routes`, or None for a resolver module.
`RoutedByInstalled` compares it with the routes as the user wrote them. `fate` is everything that was done
with a connection, so that doing two things with it is visible.

*CaddyReload.* A slot holds a configuration, `up` its started apps. `Load`,
`Switches`, `Shutdown` and `Unloads` are Caddy's; the app's part are
`AppProvisions`, `AppStarts`, `AppStops`, with `Acquire` and `Release` for
leases, here one step each. That is an abstraction and not a refinement:
`Release` counts down, deletes the entry and stops the client at once, which
`ClientRegistry` shows as three steps. Caddy makes these calls one at a time, so
nobody sees the states in between. `runtime[i]` names the configuration whose
lease started the runtime of identity `i`, which is where its observer comes
from.

*Config, Caddyfile, AppProvision.* Texts are sequences of the characters the code
looks at; `net.SplitHostPort` and its like are modelled by what they do (`Text`).
`NormalizeConnectAddress` follows `normalizeConnectAddress`. A Caddyfile block is a sequence of directives with
arguments and blocks; a parser goes through it with `ParseBlock`, the loop over
`NextBlock`, and ends in None at the first error. `body` is the block as written, `app` the JSON it becomes
(`UnmarshalCaddyfile`) or that the user wrote; `cfg` is the record the code
normalises in place. `BuiltAsWritten` reads a Caddyfile a second time, as a whole
and not in order (`Said`): the n-th endpoint is the one on the n-th line that says
`endpoint` (`Rank`), any other field what the last line that says its name says,
wherever among the blocks of one name that line is; and compares.

## Runs

The passing runs take at most about two minutes each with two workers; the
largest, `listener`, has 1 095 385 states.

| Run | Question | Bounds, and why they suffice |
|---|---|---|
| `registry` | Are the counts right, is a held runtime served and kept, does nothing leak, does every call return, and does the registry implement `RuntimeSharing` with its fairness (`ImplementsFairSharing`, of which `ImplementsSharing` is the part without fairness)? | 2 threads, 3 leases (two share an identity, one has another), 3 runtimes: two threads give every pair of overlapping sections, two sharers and a stranger give reuse, last release and a change of identity. Identifiers of waited-for runtimes are reused, so behaviours are not bounded in length. The inductive invariant was also checked with 3 threads, and the safety properties are proved for all sizes. |
| `stream` | Is the observer told one consistent story, are bytes conserved, is a start followed by an end? | 2 directions, up to `MaxBytes` bytes each way in chunks of any size: a first and a later chunk in each. |
| `stream_order` | Is the start delivered first? It is not (see findings). | as above |
| `server` | Does a failed Start clean up, does Stop, do both return, do streams find the server, does it implement `AppRuntime`, and are latencies told and read for what they are? | 2 streams; Start and Stop are called at most once each, as Caddy does. Latencies below, at and above a millisecond of two parts, 0 and a negative one. |
| `server_failure` | Is every failure of Run reported? It is not. | as above |
| `listener` | Has a connection one owner, does the owner read what the peer sent, in order, once and whole (`ReplayComplete`), is it routed as written, and is every hello of peers that go on served? | 1 wrapper with any of a set of route lists (spelled in capitals, with blanks and final dots, duplicate after normalisation, with a wildcard) or a resolver module, 2 connections (one waits behind the other), hellos of 2 chunks, which the peek takes in one read or two, with up to 1 chunk behind the hello of one connection (`Talker`), so that a hello is cut, over-read, or cut short by the end of the stream, and chunks come from the socket behind the replay (what an owner reads does not depend on other connections; one with a hello of 3 chunks out of up to 5 was checked by itself); names of one label and of two, the latter without a route. |
| `listener_shared` | Does each listener follow its own routes? It does not. | 2 wrappers, 1 connection |
| `listener_stall` | Is a hello served whatever other peers do? It is not. | 1 wrapper, 2 connections, 1 chunk |
| `reload` | Does a load, failed load or shutdown keep the current configuration served and take back everything else? | 2 slots (Caddy has at most two configurations at a time), 2 identities, 18 combinations of runtime, plugin and route (a plugin without a route is left out, since the two are checked independently), the ones that must be refused included. |
| `reload_metrics` | Does a kept runtime report to the current registry? It does not. | as above |
| `provision` | Do spellings of an address share an identity, does the runtime run with its identity's configuration, does what was provisioned start, is a server built as written, in JSON or in a Caddyfile? | names and IPv6 hosts in every spelling, all addresses of up to 4 characters out of brackets, colon and letter (malformed ones among them), up to 2 endpoints with every kind of defect; Caddyfile blocks of up to 2 directives, and an endpoint's of a token and 2 blocks of limits, repeated, misplaced and malformed ones among them, which is enough for a second directive to override, add to or contradict the first; half a second as the smallest part of a second. |
| `tunnel` | Does whatever a stream holds end with it, is the endpoint dialed that the address means (`DialsMeant`), do the counters tell what happened? | 2 streams to one endpoint, so that they share a session that is lost under both, and to one that no client serves; every spelling of their upstreams. One endpoint served is enough: streams of different endpoints share nothing. |

Deadlock is checked in `registry` and `reload`, whose systems go on for ever, and
in the runs whose cfg does not switch it off. `CHECK_DEADLOCK FALSE` is set only
where the modelled system ends: listeners close, an app is provisioned once.

### What the violation runs show

1. `stream_order`: `stream_usage_delta` may reach the observer before
   `stream_started`, since `AddBytes` delivers after the unlock
   (`passthrough_observer.go:83`); the integration test expects the opposite.
2. `server_failure`: an error of `server.Run` after a successful `Start` fills a
   channel nobody reads; the log line meant for it (`server.go:259`) is not
   reachable.
3. `listener_shared`: listener wrappers of one app overwrite each other's routes.
4. `listener_stall`: a silent connection holds up its listener's accept loop.
5. `reload_metrics`: a client runtime kept across a reload reports to the old
   configuration's metrics registry. This rests on Caddy giving each
   configuration a registry of its own.
Two smaller observations without a run. `normalizeConnectAddress` is not
idempotent on malformed addresses (`]` becomes `]:8443`, then `[]:8443]:8443`), so
that a runtime with such an address does not run with the address its identity
names; `SpellingsShareIdentity` is about addresses that mean something. And
`NewServer` has the certificate managed for the TLS subject before it is trimmed
(`server.go:117`): with JSON that has a blank in it the two differ, with a
Caddyfile, which `ParseApp` normalises, they do not, and `BuiltAsWritten` says so
of the latter.

## Fairness

* `ClientRegistry`: a thread inside a call goes on (weak fairness); a thread that
  waits for a mutex gets it if it is free again and again (strong fairness on the
  locking steps), as `sync.Mutex` guarantees in starvation mode; `RunClient`
  returns once its context is cancelled. Nobody is obliged to call.
* `PassthroughStream`: goroutines go on, and the copies return some time; nobody
  is obliged to send bytes.
* `ServerRuntime`: `Start` proceeds, its timer fires, a cancelled `Run` returns.
  `Run` is not obliged to become ready or to fail, and Caddy not obliged to stop.
* `Tunnel`: the watcher and the library's `End` go on,
  and a dial of the target, a copy and a session whose context is cancelled
  return, as does a copy one end of which is closed. Nothing makes a target
  answer, a stream open or a request end: a stream may stay open for ever while
  its client runs.
* `Listener`: accept loops go on. Peers that send or hang up are fair only in
  `FairPeersSpec`; with `FairSpec` alone `HelloServed` fails, which is the
  `listener_stall` run.
* `CaddyReload`: connectors retry. A session ends here only when its server
  stops; sessions lost for other reasons would only be retried once more.

## Proofs

A module `XProofs` extends `X` and proves its theorems for every value of its
constants: TLC shows a property on the instance of the run, the theorem for any
number of threads, streams, connections or bytes. All follow one argument. `IInv`
is an inductive invariant, the properties with what they lack to be inductive;
it is true of `Init`, each action preserves it (one lemma per action or part),
and so `Spec => []IInv`. TLC checked each `IInv` on the run's instance before it
was proved. Assumed are only the named assumptions in the modules, which TLC
evaluates in every run.

| Proofs | Theorems |
|---|---|
| `ClientRegistryProofs` | `TypeCorrectness`, `RefsAreHolders`, `HeldIsServed`, `NothingLeaks`, `HeldIsKept`, `Refinement` |
| `ServerRuntimeProofs` | `TypeCorrectness`, `FailedStartIsClean`, `StoppedIsClean`, `StreamsFindServer`, `LatenciesAreHonest`, `Refinement` |
| `PassthroughStreamProofs` | `TypeCorrectness`, `StreamHasOneOutcome`, `BytesAreConserved`, `EndComesLast`, `NothingIsOwed` |
| `ListenerProofs` | `TypeCorrectness`, `ConnectionHasOneOwner`, `ReplayIsComplete`, `RoutesAreFollowed` |
| `CaddyReloadProofs` | `TypeCorrectness`, `CurrentKeepsRuntime`, `NothingLeftBetweenLoads`, `ReloadKeepsClient` |
| `TunnelProofs` | `TypeCorrectness`, `HandlerIsClean`, `CountersAgree`, `DialsTheMeantEndpoint` |
| `AppProvisionProofs` | `TypeCorrectness`, `ProvisionedClientsStart`, `SpellingsAgree`, `ServersBuiltAsWritten` |
| `TextProofs` | lemmas on texts that `ListenerProofs`, `TunnelProofs` and `AppProvisionProofs` cite, above all `NormalizeMatches`, `SplitPorted` and `SplitUnported` |

*ClientRegistry.* Threads and leases are finite sets, every lease has an
identity, and `None` is neither a thread nor a runtime. The properties are not
inductive alone: `RefsCountHolders` says nothing of who may change a count next,
and `NoRuntimeLeaks` nothing of why two threads cannot own one runtime. `IInv` adds
* mutual exclusion: a thread past the lock of a lease is the one in `leaseMu`, a
  thread in the factory or about to store is the one in `regMu`, and the lease
  of a thread between acquire and commit is not yet released;
* ownership: a thread refers to a client exactly when it is about to store,
  cancel or wait; no two threads refer to one; no client referred to is
  registered; no runtime is registered twice; what is referred to or registered
  was started, and only a client that is being waited for is cancelled;
* the counts: `RefsCountHolders` itself.

`TypeStep`, `MutexStep`, `OwnerStep` and `RefsStep` show that each part is
preserved; the count is the delicate one, where a step moves a lease in or out of
the holders and a thread in or out of the references in flight. `RefinementStep`
maps each action to one of `RuntimeSharing` or to a stutter.

*ServerRuntime.* Latencies are integers, a millisecond has parts, and `None` is
none of the values the variables hold. `IInv` adds to the types, for each place
in `Start` and `Stop`, who has the listener (Start from `Listens` to `Creates`, then Run
while it runs), that a goroutine exists exactly when a server is kept, that only
a goroutine can have been ready, and what each result implies. That is what the
properties lack: that a `Start` about to return an error was cancelled, and that a
`Run` that returned has closed its listener. Streams and latencies change none of
it (`TrafficStep`), so that the cases that matter are the steps of the calls and of Run
(`CallStep`), each of which is mapped to a step of `AppRuntime` or to a stutter in
`CallRefines`. `LatencyInv` ties what the library keeps and what the observer was
told to the latency that was measured; `RoundsUp` is the arithmetic.

*PassthroughStream.* The handler is no direction. `IInv` says what the flags
`started` and `ended` mean: `PendingInv` which observations a goroutine can have
in hand, `StartInv` and `OutcomeInv` that a flag is set exactly when its
observation is in one place, in one hand or delivered, `CopyInv` and `HandlerInv`
who may still have something to hand over. The properties alone speak of what was
delivered, and the observations in hand are what the next step delivers.
`BytesIn`, a recursive function over a sequence, is characterised (`BytesAppended`) by induction
over its length from the well-foundedness of the naturals.

*Listener.* A hello has a chunk at least, `None` is no wrapper, connection or
name, and texts are texts. A name in a hello does not end with a blank
(`NameAssumption`), and a hello whose name ends with a dot is not valid, since
`crypto/tls` refuses it: without these two the table and its look-up would
normalise a name differently. `Place` says that a connection waits once, where it
came, or is with one loop, and that nothing was done with it yet; `Buffered` that
what the owner read and what is in the buffer are, together and in this order,
the chunks taken off the socket (`InOrder`), which is what `ReplayComplete` lacks:
it speaks of what was read, and the next read is of the buffer; `Arrival` that it came
after all was provisioned; `Fated` which ends there are; `Installed` that the
table is that of the wrapper provisioned last. `NormalizeMatches` shows for texts of
any length that a normalised name equals a normalised route just when they are
the same name, by trimming, lower case and a final dot.

*CaddyReload.* There are two slots, as Caddy has a current and a next
configuration at most. `LoadInv` says which apps are up in each phase of a load,
`SessionInv` that a session's server is up (the last part of `CurrentIsServed`), and `RefsInv` that a reference count is the
number of configurations up that hold the identity, and that a runtime is there as long as
it is not 0: without it `CurrentIsServed` does not survive the stop of the other
configuration.

*Tunnel.* Streams are a finite set. `EndsInv` says that both ends of a stream
come into being together, that a handler that is done has closed its own, and
that `End` is called for streams that were opened and closed; `CountInv` that the
counters are the cardinalities of the sets of streams opened, closed and failed,
from which the sums of `CountsAgree` follow. What an address means is an assumption
on the upstreams (`UpstreamAssumption`): a host, bare or in brackets or with a
port, or none. A host has no bracket, blank or "://", and not exactly one colon, and
of an address with brackets elsewhere, as "a]:80", nothing is claimed. `EndpointMeant` shows that what
`EndpointFromDialAddress` makes of each is the host or no endpoint; only
`DialContext` sets an endpoint (`MeantStep`).

Both this and the next module rest on what `SplitHostPort` chooses among the
colons of a text. `TextProofs` settles it for texts of any length: behind the colon it
chooses there is no other (`SplitAtPort`), so a host joined with a port comes apart
again (`SplitPorted`); and a host without a port does not come apart, in brackets or not
(`SplitUnported`).

*AppProvision.* Hosts, addresses and texts are texts, what is written has the
types of the JSON, and `None` is none of them (`WritingAssumption`,
`NoneAssumption`; `LiteralAssumption` in `Text` only says that the literals of the
code are strings); the hosts and ports whose spellings are compared are hosts and
ports (`HostAssumption`), whereas `AnyAddress` holds malformed ones, too. `IInv` adds to the types and to `ProvisionedStarts` what each
phase has (`Stages`): that a lease's configuration is a normalised client that was
valid. Three arguments carry it. `ParseBlock` returns a
configuration or None when the parser of one directive does, by induction over
the length of the block (`ParsesExist`, `ParsesKeepType`), so that the types of the
parsers follow one from another from `LimitsType` up to `AppType`. A valid client that
was normalised is valid when normalised again, malformed addresses included
(`NormalizedClient`): an address that is not empty does not become empty
(`ConnectType`), and a text that keeps a character that is no blank keeps it.
And what a parser returns, if no directive was refused (`NoneRefused`), can be read
off the block: of the steps that overwrite a field the last one counts
(`LastWins`), in one block (`NumbersParsed`, `TextParsed`) and in several nested ones
(`NumbersInside`), and what is appended is in the order of the lines
(`Appended`). So `ParseEndpoint` returns `SaidEndpoint` or None, and
`ParseServerBody` what `SaidServer` says (`AsSaid`), in each field. `Written`
keeps this until the server is provisioned: normalisation changes only blanks
(`SaidNormalized`), a valid endpoint's idle timeout is a whole number of seconds
(`AdmitsSaid`), and its trimmed keys differ (`ClientsSaid`). `BuiltAsWritten`
follows, and is in `IInv` itself, since it speaks of the configuration as written
when that has been left behind.
`Meant` is what `SpellingsShareIdentity` lacks: that the address written,
wherever it is by then, normalises to the one it means, which itself stays as it
is. Each spelling does (`ConnectSpelled`), the parser of a Caddyfile's client
normalises its address once (`ClientOf` in `AppType`), and a configuration whose
address stays as it is stays as it is (`NormalizedTwice`).

Only model-checked is
* liveness and anything with fairness, which tlapm does not handle together with
  ENABLED: `CallsReturn` (of both modules), the fairness of
  `ImplementsFairSharing`, whose safety part is `Refinement`, `StartedEnds`,
  `StreamsEnd`, `HelloServed`, `ConnectorReturns`.

Every other property of a passing run is stated by one of the theorems.

## Not modelled

* Of the transport, the pool of idle connections: it is `net/http`'s, a dialed
  stream serves one request in `Tunnel`, and `Cleanup` is one way in which it
  ends.
* Of the metrics, the byte counters, the classes of reasons (`safeReason`) and the
  registration of collectors: no control depends on them.
* Of `client.go`, that a runtime whose `RunClient` gave up is reused by the next
  configuration: `ClientRegistry` has the step, but whether the library ever gives
  up is not in this repository, and no document promises a restart.
* `ParseServer` and `ParseClient`, which only tests call; the network prefix of
  the target's address (`SplitAddress`).
* Registration, logging and the test utilities, which have no state of their own.
* The inside of the bifrost library and of Caddy, which is not in this repository.

## Plan

Done: the inventory; all the components above; the proofs of the registry, the
server runtime, the stream lifecycle, the listener, reload, the tunnel, and the
types, the start and the identities of what is provisioned, and what a server is
built from. All the safety properties of the passing runs are proved.

What remains is outside of the modules rather than in their proofs: the metrics
that no control depends on, and liveness, which stays with the runs.
