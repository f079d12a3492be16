-------------------------------- MODULE Tunnel --------------------------------
(***************************************************************************)
(* A stream from end to end: the transport that dials an endpoint          *)
(* (internal/runtime/transport.go) and counts the stream                   *)
(* (internal/runtime/metrics.go); and, at the private end, the handler of  *)
(* the client runtime (internal/runtime/client.go), which dials the target *)
(* and copies, beside the goroutine that closes the stream when the        *)
(* runtime's context is cancelled (CloseOnContext, internal/netutil).      *)
(*                                                                         *)
(* Each endpoint is one client runtime, with a session at most.  The       *)
(* session, the opening of a stream in it and the copying are the bifrost  *)
(* library's.  Bytes are not counted, and a dialed stream is used by one   *)
(* request: http.Transport's pool is left out.                             *)
(***************************************************************************)
EXTENDS Text

CONSTANTS
  Stream,    \* streams that the transport may dial
  Key,       \* endpoint keys
  Upstream,  \* upstream addresses, each with the key it means or None
  Transport  \* the transport's configuration

ASSUME StreamAssumption == IsFiniteSet(Stream)
ASSUME NoneAssumption == None \notin {"open", "closed"}

\* What an upstream's address says: a host, which is the endpoint's key, with or
\* without a port and between blanks or not; or, with or without a port, no host.
ASSUME UpstreamAssumption ==
  \A u \in Upstream :
    LET a == TrimSpace(u.address)
        ports == {p \in {SubSeq(a, n, Len(a)) : n \in 1 .. Len(a) + 1} : IsPort(p)}
    IN  /\ u.address \in Texts
        /\ \/ /\ u.means \in Texts /\ IsHost(u.means)
              /\ \/ a \in {u.means, Bracket(u.means)}
                 \/ \E p \in ports : a = JoinHostPort(u.means, p)
           \/ /\ u.means = None
              /\ \E b \in {<<>>, <<"[", "]">>} :
                   a = b \/ \E p \in ports : a = b \o <<":">> \o p

VARIABLES
  ctx,       \* the context of each client runtime
  active,    \* the sessions of each endpoint, as active_sessions counts them
  dial,      \* where dialContext is
  endpoint,  \* the endpoint it derived from the upstream's address
  means,     \* the endpoint that the address means
  ingress, egress,  \* the two ends of the stream, at the server and the client
  handler,   \* where handleStream is
  watcher,   \* CloseOnContext's goroutine
  done,      \* whether the channel it waits for is closed
  target,    \* the connection to the private target
  ends,      \* how often the library called End
  started, ended, rejected  \* the counters of each endpoint

dialVars == <<dial, endpoint, means>>
clientVars == <<handler, watcher, done, target>>
countVars == <<ends, started, ended, rejected>>
vars == <<ctx, active, dial, endpoint, means, ingress, egress, handler, watcher,
          done, target, ends, started, ended, rejected>>

Init ==
  /\ ctx = [k \in Key |-> "live"] /\ active = [k \in Key |-> 0]
  /\ dial = [s \in Stream |-> "new"]
  /\ endpoint = [s \in Stream |-> None] /\ means = [s \in Stream |-> None]
  /\ ingress = [s \in Stream |-> None] /\ egress = [s \in Stream |-> None]
  /\ handler = [s \in Stream |-> "new"] /\ watcher = [s \in Stream |-> "new"]
  /\ done = [s \in Stream |-> FALSE] /\ target = [s \in Stream |-> None]
  /\ ends = [s \in Stream |-> 0]
  /\ started = [k \in Key |-> 0] /\ ended = [k \in Key |-> 0]
  /\ rejected = [k \in Key |-> 0]

\* A function with one value more, or an end closed if there is one.
Set(f, x, value) == [f EXCEPT ![x] = value]
Closed(f, ss) == [s \in Stream |-> IF s \in ss /\ f[s] # None THEN "closed" ELSE f[s]]

-----------------------------------------------------------------------------
(* Faulty variants of the definitions below, which no specification uses.  *)

\* The host of an address ends with its first colon.
EndpointFromDialAddressCut(address) ==
  LET a == TrimSpace(address) IN
  IF Has(a, ":") THEN SubSeq(a, 1, Min({n \in DOMAIN a : a[n] = ":"}) - 1) ELSE a

\* The stream is not closed when its target cannot be dialed.
DialFailsOpen(s) ==
  /\ handler[s] = "dial"
  /\ handler' = Set(handler, s, "done") /\ done' = Set(done, s, TRUE)
  /\ UNCHANGED <<ctx, active, dialVars, ingress, egress, watcher, target, countVars>>

\* Each call of End is counted.
EndCountsAll(s) ==
  /\ dial[s] = "open" /\ ingress[s] = "closed" /\ ends[s] < 2
  /\ ends' = [ends EXCEPT ![s] = @ + 1]
  /\ ended' = [ended EXCEPT ![endpoint[s]] = @ + 1]
  /\ UNCHANGED <<ctx, active, dialVars, ingress, egress, clientVars, started, rejected>>

\* Nobody tells the watcher that the handler is done.
CopyEndsUntold(s) ==
  /\ handler[s] = "copy"
  /\ "closed" \in {ingress[s], egress[s], target[s]} \/ ctx[endpoint[s]] = "cancelled"
  /\ egress' = Closed(egress, {s}) /\ target' = Closed(target, {s})
  /\ handler' = Set(handler, s, "done")
  /\ UNCHANGED <<ctx, active, dialVars, ingress, watcher, done, countVars>>

-----------------------------------------------------------------------------
(* Transport.RoundTrip and dialContext                                     *)

\* endpointFromDialAddress: the host of an address, <<>> if it has none.
EndpointFromDialAddress(address) ==
  LET a == TrimSpace(address)
      split == SplitHostPort(a)
      First(ch) == Min({n \in DOMAIN a : a[n] = ch})
  IN  TrimSpace(
        IF split # {} THEN (CHOOSE hp \in split : TRUE)[1]
        ELSE IF Has(a, "]") /\ a[1] = "[" THEN SubSeq(a, 2, First("]") - 1)
        ELSE IF HasOne(a, ":") THEN SubSeq(a, 1, First(":") - 1)
        ELSE a)

\* Of an address without an endpoint the server is not asked.
DialContext(s) ==
  /\ dial[s] = "new"
  /\ \E u \in Upstream :
       LET e == EndpointFromDialAddress(u.address) IN
       /\ dial' = Set(dial, s, IF e = <<>> THEN "failed" ELSE "dialing")
       /\ endpoint' = Set(endpoint, s, IF e = <<>> THEN None ELSE e)
       /\ means' = Set(means, s, u.means)
  /\ UNCHANGED <<ctx, active, ingress, egress, clientVars, countVars>>

\* OpenStream reaches the client in a session of the endpoint, and later returns.
LibraryOpens(s) ==
  /\ dial[s] = "dialing" /\ ingress[s] = None
  /\ endpoint[s] \in Key /\ active[endpoint[s]] > 0
  /\ ingress' = Set(ingress, s, "open") /\ egress' = Set(egress, s, "open")
  /\ UNCHANGED <<ctx, active, dialVars, clientVars, countVars>>

\* StreamStarted.
OpenReturns(s) ==
  /\ dial[s] = "dialing" /\ ingress[s] = "open"
  /\ dial' = Set(dial, s, "open")
  /\ started' = [started EXCEPT ![endpoint[s]] = @ + 1]
  /\ UNCHANGED <<ctx, active, endpoint, means, ingress, egress, clientVars, ends,
                 ended, rejected>>

\* StreamRejected: there is no session, or none any more.
OpenFails(s) ==
  /\ dial[s] = "dialing"
  /\ \A k \in Key : k = endpoint[s] /\ active[k] > 0 => ingress[s] = "closed"
  /\ dial' = Set(dial, s, "failed")
  /\ rejected' = [k \in Key |-> rejected[k] + (IF k = endpoint[s] THEN 1 ELSE 0)]
  /\ UNCHANGED <<ctx, active, endpoint, means, ingress, egress, clientVars, ends,
                 started, ended>>

\* The context's timeout, if one is configured: a stream that opened too late is
\* closed, though the client may have it.
TimesOut(s) ==
  /\ dial[s] = "dialing" /\ Transport.dial_timeout > 0
  /\ dial' = Set(dial, s, "failed")
  /\ ingress' = Closed(ingress, {s})
  /\ UNCHANGED <<ctx, active, endpoint, means, egress, clientVars, countVars>>

\* The request is over, or Cleanup closes the idle connection.
IngressCloses(s) ==
  /\ dial[s] = "open" /\ ingress[s] = "open"
  /\ ingress' = Closed(ingress, {s})
  /\ UNCHANGED <<ctx, active, dialVars, egress, clientVars, countVars>>

\* caddyStreamObserver.End, called by the copies of both directions.
End(s) ==
  /\ dial[s] = "open" /\ ingress[s] = "closed" /\ ends[s] < 2
  /\ ends' = [ends EXCEPT ![s] = @ + 1]
  /\ ended' = IF ends[s] = 0 THEN [ended EXCEPT ![endpoint[s]] = @ + 1] ELSE ended
  /\ UNCHANGED <<ctx, active, dialVars, ingress, egress, clientVars, started, rejected>>

-----------------------------------------------------------------------------
(* Sessions: RunClient, SessionStarted and SessionEnded                    *)

SessionStarts(k) ==
  /\ ctx[k] = "live" /\ active[k] = 0
  /\ active' = [active EXCEPT ![k] = @ + 1]
  /\ UNCHANGED <<ctx, dialVars, ingress, egress, clientVars, countVars>>

\* Both ends of the session's streams are closed with it.
SessionEnds(k) ==
  /\ active[k] > 0
  /\ active' = [active EXCEPT ![k] = @ - 1]
  /\ LET lost == {s \in Stream : endpoint[s] = k} IN
     ingress' = Closed(ingress, lost) /\ egress' = Closed(egress, lost)
  /\ UNCHANGED <<ctx, dialVars, clientVars, countVars>>

\* Client.Stop.
ClientCancels(k) ==
  /\ ctx[k] = "live" /\ ctx' = Set(ctx, k, "cancelled")
  /\ UNCHANGED <<active, dialVars, ingress, egress, clientVars, countVars>>

-----------------------------------------------------------------------------
(* Client.handleStream and CloseOnContext                                  *)

\* The library hands the stream over, which may be closed by then.
HandlesStream(s) ==
  /\ handler[s] = "new" /\ egress[s] # None
  /\ handler' = Set(handler, s, "dial") /\ watcher' = Set(watcher, s, "watch")
  /\ UNCHANGED <<ctx, active, dialVars, ingress, egress, done, target, countVars>>

\* The target refuses, or the context is cancelled; the stream is closed.
DialFails(s) ==
  /\ handler[s] = "dial"
  /\ egress' = Closed(egress, {s})
  /\ handler' = Set(handler, s, "done") /\ done' = Set(done, s, TRUE)
  /\ UNCHANGED <<ctx, active, dialVars, ingress, watcher, target, countVars>>

DialSucceeds(s) ==
  /\ handler[s] = "dial"
  /\ target' = Set(target, s, "open") /\ handler' = Set(handler, s, "copy")
  /\ UNCHANGED <<ctx, active, dialVars, ingress, egress, watcher, done, countVars>>

TargetHangsUp(s) ==
  /\ target[s] = "open" /\ target' = Closed(target, {s})
  /\ UNCHANGED <<ctx, active, dialVars, ingress, egress, handler, watcher, done,
                 countVars>>

\* bifrost.Copy ends with one of its ends or the context, and closes both.
CopyEnds(s) ==
  /\ handler[s] = "copy"
  /\ "closed" \in {ingress[s], egress[s], target[s]} \/ ctx[endpoint[s]] = "cancelled"
  /\ egress' = Closed(egress, {s}) /\ target' = Closed(target, {s})
  /\ handler' = Set(handler, s, "done") /\ done' = Set(done, s, TRUE)
  /\ UNCHANGED <<ctx, active, dialVars, ingress, watcher, countVars>>

\* The two cases of the watcher's select.
WatcherCloses(s) ==
  /\ watcher[s] = "watch" /\ ctx[endpoint[s]] = "cancelled"
  /\ egress' = Closed(egress, {s}) /\ watcher' = Set(watcher, s, "ended")
  /\ UNCHANGED <<ctx, active, dialVars, ingress, handler, done, target, countVars>>

WatcherStops(s) ==
  /\ watcher[s] = "watch" /\ done[s]
  /\ watcher' = Set(watcher, s, "ended")
  /\ UNCHANGED <<ctx, active, dialVars, ingress, egress, handler, done, target,
                 countVars>>

-----------------------------------------------------------------------------
Next ==
  \/ \E s \in Stream :
       \/ DialContext(s) \/ LibraryOpens(s) \/ OpenReturns(s) \/ OpenFails(s)
       \/ TimesOut(s) \/ IngressCloses(s) \/ End(s)
       \/ HandlesStream(s) \/ DialFails(s) \/ DialSucceeds(s) \/ TargetHangsUp(s)
       \/ CopyEnds(s) \/ WatcherCloses(s) \/ WatcherStops(s)
  \/ \E k \in Key : SessionStarts(k) \/ SessionEnds(k) \/ ClientCancels(k)

Spec == Init /\ [][Next]_vars

DialCancelled(s) ==
  handler[s] = "dial" /\ ctx[endpoint[s]] = "cancelled" /\ DialFails(s)
Watcher(s) == WatcherCloses(s) \/ WatcherStops(s)
SessionCancelled(k) == ctx[k] = "cancelled" /\ SessionEnds(k)

\* The goroutines go on, a cancelled dial returns, and so do Copy and a cancelled
\* session.  Nothing makes a target answer, a session start, a stream open, a
\* transport's dial return or a request end.
Fairness ==
  /\ \A s \in Stream : WF_vars(DialCancelled(s)) /\ WF_vars(CopyEnds(s))
                       /\ WF_vars(Watcher(s)) /\ WF_vars(End(s))
  /\ \A k \in Key : WF_vars(SessionCancelled(k))

FairSpec == Spec /\ Fairness

-----------------------------------------------------------------------------
(* Properties                                                              *)

\* The handler owns a stream from its start to its end, with one watcher.
TypeOK ==
  /\ ctx \in [Key -> {"live", "cancelled"}] /\ active \in [Key -> {0, 1}]
  /\ dial \in [Stream -> {"new", "dialing", "open", "failed"}]
  /\ {ingress[s] : s \in Stream} \cup {egress[s] : s \in Stream}
       \cup {target[s] : s \in Stream} \subseteq {None, "open", "closed"}
  /\ \A s \in Stream :
       /\ handler[s] \in {"new", "dial", "copy", "done"}
       /\ watcher[s] \in {"new", "watch", "ended"}
       /\ handler[s] = "new" <=> watcher[s] = "new"
       /\ egress[s] = None => handler[s] = "new"
       /\ target[s] = "open" => handler[s] = "copy"
       /\ done[s] <=> handler[s] = "done"

\* A handler that is done has left nothing open, and it can be done no other way
\* than with its watcher told, whether the dial, the copy, the session or Stop
\* ended it: a watcher nobody tells would keep the stream until the runtime stops.
HandlerLeavesNothing ==
  \A s \in Stream : handler[s] = "done" =>
    egress[s] = "closed" /\ target[s] # "open" /\ done[s]

\* A stream is opened to the endpoint that its upstream's address means, however
\* that is spelled, with or without a port.
DialsMeant ==
  \A s \in Stream : dial[s] \in {"dialing", "open"} => endpoint[s] = means[s]

\* A stream is counted under its endpoint: as started once, as ended at most once
\* though two copies call End, and not before it ended.
CountsAgree ==
  \A k \in Key :
    LET streams(P(_)) == Cardinality({s \in Stream : endpoint[s] = k /\ P(s)}) IN
    /\ started[k] = streams(LAMBDA s : dial[s] = "open")
    /\ started[k] - ended[k] >=
         streams(LAMBDA s : dial[s] = "open" /\ ingress[s] = "open")
    /\ started[k] >= ended[k]
    /\ started[k] + rejected[k] <= streams(LAMBDA s : dial[s] # "new")

\* When the client runtime is stopped, at whatever moment of a dial or a copy, its
\* streams come to an end: both goroutines of each, its target, its session and
\* the count of streams that run; and a stream that the server no longer has, or
\* that opened after its dial had timed out, is not copied for ever.
Quiet(s) ==
  /\ handler[s] \in {"new", "done"} /\ watcher[s] \in {"new", "ended"}
  /\ "open" \notin {ingress[s], egress[s], target[s]}
  /\ dial[s] = "open" => ends[s] > 0

StreamsEnd ==
  \A s \in Stream :
    /\ endpoint[s] \in Key /\ ctx[endpoint[s]] = "cancelled" ~> Quiet(s)
    /\ handler[s] = "copy" /\ (ingress[s] = "closed" \/ dial[s] = "failed") ~>
         handler[s] = "done" /\ watcher[s] = "ended"
=============================================================================
