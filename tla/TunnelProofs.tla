----------------------------- MODULE TunnelProofs -----------------------------
(***************************************************************************)
(* Proofs about Tunnel, for any finite set of streams, any endpoint keys,  *)
(* any upstream addresses that mean something or nothing and any transport *)
(* configuration.  IInv is the inductive invariant: the two ends of a      *)
(* stream come into being together and stay closed once closed, each       *)
(* counter counts a set of streams, and a dial is to what is meant.        *)
(***************************************************************************)
EXTENDS Tunnel, TextProofs, FiniteSetTheorems

\* The types that TypeOK leaves out.
Types ==
  /\ ingress \in [Stream -> {None, "open", "closed"}]
  /\ egress \in [Stream -> {None, "open", "closed"}]
  /\ target \in [Stream -> {None, "open", "closed"}]
  /\ handler \in [Stream -> {"new", "dial", "copy", "done"}]
  /\ watcher \in [Stream -> {"new", "watch", "ended"}]
  /\ done \in [Stream -> BOOLEAN] /\ ends \in [Stream -> 0 .. 2]
  /\ endpoint = [s \in Stream |-> endpoint[s]]
  /\ started \in [Key -> Int] /\ ended \in [Key -> Int] /\ rejected \in [Key -> Int]

\* A stream has both its ends or none, the handler has closed its end when it is
\* done, and the library calls End for a stream that was opened and closed.
EndsInv ==
  \A s \in Stream :
    /\ (ingress[s] = None) <=> (egress[s] = None)
    /\ handler[s] = "done" => egress[s] = "closed"
    /\ dial[s] = "open" => ingress[s] # None
    /\ ends[s] > 0 => dial[s] = "open" /\ ingress[s] = "closed"

\* The streams that the counters of an endpoint count; a rejection is counted
\* for a dial that failed, a timeout is not.
Opened(k) == {s \in Stream : endpoint[s] = k /\ dial[s] = "open"}
Finished(k) == {s \in Stream : endpoint[s] = k /\ ends[s] > 0}
Failed(k) == {s \in Stream : endpoint[s] = k /\ dial[s] = "failed"}

CountInv ==
  \A k \in Key :
    /\ started[k] = Cardinality(Opened(k))
    /\ ended[k] = Cardinality(Finished(k))
    /\ rejected[k] <= Cardinality(Failed(k))

MeantInv == means = [s \in Stream |-> means[s]] /\ DialsMeant

IInv == Types /\ TypeOK /\ EndsInv /\ CountInv /\ MeantInv

-----------------------------------------------------------------------------
(* The endpoint of an address                                              *)

\* A host in brackets, without a port.
LEMMA HostEnclosed ==
  ASSUME NEW h \in Texts, NEW a, Encloses(a, "[", h, "]"), ~Has(h, "]")
  PROVE  /\ Has(a, "]") /\ a[1] = "["
         /\ SubSeq(a, 2, Min({n \in DOMAIN a : a[n] = "]"}) - 1) = h
<1>1. /\ a \in Texts /\ Len(a) = Len(h) + 2 /\ a[1] = "[" /\ a[Len(h) + 2] = "]"
      /\ \A n \in 1 .. Len(h) : a[n + 1] = h[n]
  BY DEF Encloses
<1>2. Len(h) \in Nat /\ DOMAIN a = 1 .. Len(a) /\ Len(h) + 2 \in 1 .. Len(a)
  BY <1>1 DEF Texts
<1>3. Has(a, "]")
  BY <1>1, <1>2, HasIs
<1>4. ASSUME NEW n \in DOMAIN a, a[n] = "]" PROVE n = Len(h) + 2
  <2>1. n # 1
    BY <1>1, <1>4
  <2>2. n - 1 \in 1 .. Len(h) => h[n - 1] = "]"
    BY <1>1, <1>2, <1>4, n - 1 + 1 = n
  <2>3. n - 1 \notin 1 .. Len(h)
    BY <2>2, HasIs
  <2> QED
    BY <1>1, <1>2, <2>1, <2>3
<1>5. {n \in DOMAIN a : a[n] = "]"} = {Len(h) + 2}
  BY <1>1, <1>2, <1>4
<1>6. Min({Len(h) + 2}) = Len(h) + 2
  BY <1>2 DEF Min
<1>7. SubSeq(a, 2, Len(h) + 1) = h
  <2> DEFINE p == SubSeq(a, 2, Len(h) + 1)
  <2>1. IsPart(p, a, 2, Len(h) + 1)
    <3>1. /\ 2 \in Nat /\ Len(h) + 1 \in Nat /\ 1 <= 2
          /\ 2 <= Len(h) + 1 + 1 /\ Len(h) + 1 <= Len(a)
      BY <1>1, <1>2
    <3> QED
      BY <1>1, <3>1, Part
  <2> HIDE DEF p
  <2>2. p \in Texts /\ Len(p) = Len(h)
    BY <1>2, <2>1 DEF IsPart
  <2>3. ASSUME NEW n \in 1 .. Len(h) PROVE p[n] = h[n]
    <3>1. n \in 1 .. Len(h) + 1 - 2 + 1 /\ 2 - 1 + n = n + 1
      BY <1>2
    <3>2. p[n] = a[2 - 1 + n]
      BY <2>1, <3>1 DEF IsPart
    <3> QED
      BY <1>1, <3>1, <3>2
  <2> QED
    BY <2>2, <2>3, SameText DEF p
<1>8. Min({n \in DOMAIN a : a[n] = "]"}) - 1 = Len(h) + 1
  <2>1. Min({n \in DOMAIN a : a[n] = "]"}) = Len(h) + 2
    BY <1>5, <1>6, Zenon
  <2> QED
    BY <1>2, <2>1
<1> QED
  BY <1>1, <1>3, <1>7, <1>8

\* An address comes apart into its host and something else.
LEMMA EndpointSplit ==
  ASSUME NEW address, NEW h, NEW p, TrimSpace(h) = h,
         SplitHostPort(TrimSpace(address)) = {<<h, p>>}
  PROVE  EndpointFromDialAddress(address) = h
<1>1. (CHOOSE hp \in {<<h, p>>} : TRUE) = <<h, p>>
  OBVIOUS
<1>2. SplitHostPort(TrimSpace(address)) # {}
  OBVIOUS
<1> QED
  BY <1>1, <1>2 DEF EndpointFromDialAddress

LEMMA EndpointOfHost ==
  ASSUME NEW address, NEW h \in Texts, IsHost(h),
         TrimSpace(address) \in {h, Bracket(h)}
  PROVE  EndpointFromDialAddress(address) = h
<1> DEFINE a == TrimSpace(address)
<1>1. TrimSpace(h) = h /\ SplitHostPort(h) = {} /\ SplitHostPort(Bracket(h)) = {}
  BY HostAddress, AddressTrimmed, SplitUnported
<1>2. ~Has(h, "]") /\ ~HasOne(h, ":")
  BY BracketIs DEF IsHost
<1>3. CASE a = h
  BY <1>1, <1>2, <1>3 DEF EndpointFromDialAddress
<1>4. CASE a = Bracket(h) /\ Encloses(a, "[", h, "]")
  <2>1. Has(a, "]") /\ a[1] = "[" /\ SubSeq(a, 2, Min({n \in DOMAIN a : a[n] = "]"}) - 1) = h
    BY <1>2, <1>4, HostEnclosed
  <2>2. SplitHostPort(a) = {}
    BY <1>1, <1>4
  <2> QED
    BY <1>1, <2>1, <2>2 DEF EndpointFromDialAddress
<1> QED
  BY <1>3, <1>4, BracketIs

LEMMA EndpointOfPorted ==
  ASSUME NEW address, NEW h \in Texts, IsHost(h), NEW p \in Texts, IsPort(p),
         TrimSpace(address) = JoinHostPort(h, p)
  PROVE  EndpointFromDialAddress(address) = h
<1>1. TrimSpace(h) = h
  BY HostAddress, AddressTrimmed
<1>2. SplitHostPort(TrimSpace(address)) = {<<h, p>>}
  BY SplitPorted
<1> QED
  BY <1>1, <1>2, EndpointSplit

LEMMA FrontAndTail ==
  ASSUME NEW a \in Texts, Len(a) = 2
  PROVE  Tail(Front(a)) = <<>>
<1>1. ASSUME NEW x \in Texts PROVE x = <<>> <=> Len(x) = 0
  BY DEF Texts
<1>2. Front(a) \in Texts /\ Len(Front(a)) = 1
  <2>1. a # <<>>
    BY <1>1
  <2>2. Front(a) \in Texts /\ Len(Front(a)) = Len(a) - 1
    BY <2>1, PartsType
  <2> QED
    BY <2>2
<1>3. ASSUME NEW f \in Texts, Len(f) = 1 PROVE Tail(f) \in Texts /\ Len(Tail(f)) = 0
  BY <1>1, <1>3, PartsType
<1> QED
  BY <1>1, <1>2, <1>3

\* Without a host there is no endpoint.
LEMMA EndpointOfNone ==
  ASSUME NEW address, NEW b \in {<<>>, <<"[", "]">>}, NEW p \in Texts, IsPort(p),
         TrimSpace(address) \in {b, b \o <<":">> \o p}
  PROVE  EndpointFromDialAddress(address) = <<>>
<1> DEFINE a == TrimSpace(address)
           bare == <<"[", "]">>
<1>1. <<>> \in Texts /\ TrimSpace(<<>>) = <<>>
  BY DEF Texts, TrimSpace
<1>2. bare \in Texts /\ Len(bare) = 2 /\ bare[1] = "[" /\ bare[2] = "]"
  BY LiteralAssumption DEF Texts
<1> HIDE DEF bare
<1>3. Encloses(bare, "[", <<>>, "]")
  <2>1. Last(bare) = "]"
    BY <1>2 DEF Last
  <2>2. Tail(Front(bare)) = <<>>
    BY <1>2, FrontAndTail
  <2> QED
    BY <1>2, <2>1, <2>2 DEF Encloses
<1>4. \A ch : ~Has(<<>>, ch)
  BY <1>1, HasIs
<1>5. Unmarked(<<>>) /\ ~Bracketed(<<>>)
  BY <1>4 DEF Unmarked, Bracketed
<1>6. Bracketed(bare) /\ ~Unmarked(bare) /\ Tail(Front(bare)) = <<>>
  <2>1. Last(bare) = "]" /\ Tail(Front(bare)) = <<>>
    BY <1>3 DEF Encloses
  <2>2. Bracketed(bare)
    <3>1. Len(bare) > 1 /\ bare[1] = "["
      BY <1>2
    <3> QED
      BY <1>4, <2>1, <3>1 DEF Bracketed
  <2>3. Has(bare, "[")
    BY <1>2, 1 \in 1 .. 2, HasIs
  <2> QED
    BY <2>1, <2>2, <2>3 DEF Unmarked
<1>7. CASE a = b \o <<":">> \o p
  <2>1. SplitHostPort(a) = {<< <<>>, p>>}
    <3>1. CASE b = <<>>
      BY <1>1, <1>5, <1>7, <3>1, SplitAtPort
    <3>2. CASE b = bare
      BY <1>2, <1>6, <1>7, <3>2, SplitAtPort
    <3> QED
      BY <3>1, <3>2 DEF bare
  <2> QED
    BY <1>1, <2>1, EndpointSplit
<1>8. CASE a = <<>>
  <2>1. SplitHostPort(<<>>) = {}
    BY <1>1, SplitIs
  <2>2. ~HasOne(<<>>, ":")
    BY DEF HasOne
  <2> QED
    BY <1>1, <1>4, <1>8, <2>1, <2>2 DEF EndpointFromDialAddress
<1>9. CASE a = bare
  <2>1. SplitHostPort(bare) = {}
    <3>1. \A n \in 1 .. Len(bare) : bare[n] # ":"
      BY <1>2
    <3> QED
      BY <1>2, <3>1, SplitIs
  <2>2. /\ Has(bare, "]") /\ bare[1] = "["
        /\ SubSeq(bare, 2, Min({n \in DOMAIN bare : bare[n] = "]"}) - 1) = <<>>
    BY <1>1, <1>3, <1>4, HostEnclosed
  <2> QED
    BY <1>1, <1>9, <2>1, <2>2 DEF EndpointFromDialAddress
<1> QED
  BY <1>7, <1>8, <1>9 DEF bare

\* What an upstream's address says is what it means.
LEMMA EndpointMeant ==
  ASSUME NEW u \in Upstream, EndpointFromDialAddress(u.address) # <<>>
  PROVE  EndpointFromDialAddress(u.address) = u.means
<1> DEFINE a == TrimSpace(u.address)
           ports == {p \in {SubSeq(a, n, Len(a)) : n \in 1 .. Len(a) + 1} : IsPort(p)}
<1>1. a \in Texts
  BY UpstreamAssumption, TrimSpaceType
<1>2. /\ \A p \in ports : p \in Texts /\ IsPort(p)
      /\ <<>> \in Texts /\ IsPort(<<>>)
  <2> HIDE DEF a
  <2>1. Len(a) \in Nat
    BY <1>1 DEF Texts
  <2>2. \A n \in 1 .. Len(a) + 1 : SubSeq(a, n, Len(a)) \in Texts
    BY <1>1, <2>1, PartsType
  <2>3. <<>> \in Texts /\ IsPort(<<>>)
    BY DEF Texts, IsPort
  <2> QED
    BY <2>2, <2>3
<1>3. \/ /\ u.means \in Texts /\ IsHost(u.means)
         /\ a \in {u.means, Bracket(u.means)} \/ \E p \in ports : a = JoinHostPort(u.means, p)
      \/ \E b \in {<<>>, <<"[", "]">>} : a = b \/ \E p \in ports : a = b \o <<":">> \o p
  BY UpstreamAssumption
<1> HIDE DEF a, ports
<1>4. CASE /\ u.means \in Texts /\ IsHost(u.means)
           /\ a \in {u.means, Bracket(u.means)} \/ \E p \in ports : a = JoinHostPort(u.means, p)
  BY <1>2, <1>4, EndpointOfHost, EndpointOfPorted DEF a
<1>5. ASSUME NEW b \in {<<>>, <<"[", "]">>}, a = b \/ \E p \in ports : a = b \o <<":">> \o p
      PROVE  FALSE
  <2>1. PICK p \in Texts : IsPort(p) /\ a \in {b, b \o <<":">> \o p}
    BY <1>2, <1>5
  <2> QED
    BY <2>1, EndpointOfNone DEF a
<1> QED
  BY <1>3, <1>4, <1>5

-----------------------------------------------------------------------------
LEMMA InitIInv == Init => IInv
<1> SUFFICES ASSUME Init PROVE IInv
  OBVIOUS
<1> USE NoneAssumption DEF Init
<1>1. Types
  BY DEF Types
<1>2. TypeOK
  BY DEF TypeOK
<1>3. EndsInv
  BY DEF EndsInv
<1>4. ASSUME NEW k \in Key
      PROVE  Opened(k) = {} /\ Finished(k) = {} /\ Failed(k) = {}
  BY DEF Opened, Finished, Failed
<1>5. CountInv
  BY <1>4, FS_EmptySet DEF CountInv
<1> QED
  BY <1>1, <1>2, <1>3, <1>5 DEF IInv, MeantInv, DialsMeant

-----------------------------------------------------------------------------
(* The steps                                                               *)

\* What SessionEnds and the handler's closing do to the ends of the streams.
LEMMA ClosedType ==
  ASSUME NEW f \in [Stream -> {None, "open", "closed"}], NEW ss \in SUBSET Stream
  PROVE  /\ Closed(f, ss) \in [Stream -> {None, "open", "closed"}]
         /\ \A s \in Stream :
              /\ (Closed(f, ss)[s] = None) <=> (f[s] = None)
              /\ s \notin ss => Closed(f, ss)[s] = f[s]
              /\ s \in ss /\ f[s] # None => Closed(f, ss)[s] = "closed"
              /\ f[s] = "closed" => Closed(f, ss)[s] = "closed"
              /\ Closed(f, ss)[s] = "open" => f[s] = "open"
  BY NoneAssumption DEF Closed

\* A counter that is incremented, though the endpoint may have none.
LEMMA Increment ==
  ASSUME NEW f \in [Key -> Int], NEW x
  PROVE  /\ [f EXCEPT ![x] = @ + 1] \in [Key -> Int]
         /\ \A k \in Key : [f EXCEPT ![x] = @ + 1][k] = IF k = x THEN f[k] + 1 ELSE f[k]
<1>1. CASE x \in Key
  BY <1>1
<1>2. CASE x \notin Key
  BY <1>2
<1> QED
  BY <1>1, <1>2

\* DialContext gives a stream a new place and an endpoint.
LEMMA Dials ==
  ASSUME NEW s \in Stream, DialContext(s)
  PROVE  \E d, e : /\ d \in {"dialing", "failed"}
                   /\ dial' = Set(dial, s, d) /\ endpoint' = Set(endpoint, s, e)
<1> DEFINE E(u) == EndpointFromDialAddress(u.address)
<1>1. PICK u \in Upstream :
        /\ dial' = Set(dial, s, IF E(u) = <<>> THEN "failed" ELSE "dialing")
        /\ endpoint' = Set(endpoint, s, IF E(u) = <<>> THEN None ELSE E(u))
  BY DEF DialContext
<1> HIDE DEF E
<1> QED
  BY <1>1

\* Every step keeps the types, and what the handler owns.
LEMMA TypeStep == IInv /\ [Next]_vars => Types' /\ TypeOK' /\ EndsInv'
<1> SUFFICES ASSUME IInv, [Next]_vars PROVE Types' /\ TypeOK' /\ EndsInv'
  OBVIOUS
<1> USE NoneAssumption
<1> USE DEF IInv, Types, TypeOK, EndsInv, Set, dialVars, clientVars, countVars
<1>1. ASSUME NEW s \in Stream, DialContext(s) PROVE Types' /\ TypeOK' /\ EndsInv'
  <2>1. PICK d, e : /\ d \in {"dialing", "failed"}
                    /\ dial' = Set(dial, s, d) /\ endpoint' = Set(endpoint, s, e)
    BY <1>1, Dials
  <2>2. /\ dial' \in [Stream -> {"new", "dialing", "open", "failed"}]
        /\ \A t \in Stream : t # s => dial'[t] = dial[t]
        /\ dial'[s] # "open" /\ dial[s] = "new"
    BY <1>1, <2>1 DEF DialContext
  <2>3. endpoint' = [t \in Stream |-> endpoint'[t]]
    BY <2>1
  <2>4. UNCHANGED <<ctx, active, ingress, egress, handler, watcher, done, target, ends,
                    started, ended, rejected>>
    BY <1>1 DEF DialContext
  <2> QED
    BY <2>2, <2>3, <2>4
<1>2. ASSUME NEW s \in Stream, LibraryOpens(s) PROVE Types' /\ TypeOK' /\ EndsInv'
  BY <1>2 DEF LibraryOpens
<1>3. ASSUME NEW s \in Stream, OpenReturns(s) PROVE Types' /\ TypeOK' /\ EndsInv'
  <2>1. started' \in [Key -> Int]
    BY <1>3, Increment DEF OpenReturns
  <2>2. /\ dial' \in [Stream -> {"new", "dialing", "open", "failed"}]
        /\ \A t \in Stream : dial'[t] = IF t = s THEN "open" ELSE dial[t]
    BY <1>3 DEF OpenReturns
  <2>3. UNCHANGED <<ctx, active, endpoint, ingress, egress, handler, watcher, done, target,
                    ends, ended, rejected>> /\ ingress[s] # None
    BY <1>3 DEF OpenReturns
  <2> QED
    BY <2>1, <2>2, <2>3
<1>4. ASSUME NEW s \in Stream, OpenFails(s) PROVE Types' /\ TypeOK' /\ EndsInv'
  BY <1>4 DEF OpenFails
<1>5. ASSUME NEW s \in Stream, TimesOut(s) PROVE Types' /\ TypeOK' /\ EndsInv'
  BY <1>5, ClosedType DEF TimesOut
<1>6. ASSUME NEW s \in Stream, IngressCloses(s) PROVE Types' /\ TypeOK' /\ EndsInv'
  BY <1>6, ClosedType DEF IngressCloses
<1>7. ASSUME NEW s \in Stream, End(s) PROVE Types' /\ TypeOK' /\ EndsInv'
  <2>1. ended' \in [Key -> Int] /\ ends' \in [Stream -> 0 .. 2]
    <3>1. ended' \in [Key -> Int]
      BY <1>7, Increment DEF End
    <3>2. ends' \in [Stream -> 0 .. 2]
      BY <1>7 DEF End
    <3> QED
      BY <3>1, <3>2
  <2>2. \A t \in Stream : t # s => ends'[t] = ends[t]
    BY <1>7 DEF End
  <2>3. UNCHANGED <<ctx, active, dial, endpoint, ingress, egress, handler, watcher, done,
                    target, started, rejected>> /\ dial[s] = "open" /\ ingress[s] = "closed"
    BY <1>7 DEF End
  <2> QED
    BY <2>1, <2>2, <2>3
<1>8. ASSUME NEW s \in Stream, HandlesStream(s) PROVE Types' /\ TypeOK' /\ EndsInv'
  BY <1>8 DEF HandlesStream
<1>9. ASSUME NEW s \in Stream, DialFails(s) PROVE Types' /\ TypeOK' /\ EndsInv'
  <2>1. /\ egress' = Closed(egress, {s})
        /\ egress' \in [Stream -> {None, "open", "closed"}]
        /\ \A t \in Stream : /\ egress'[t] = None <=> egress[t] = None
                             /\ egress[t] = "closed" => egress'[t] = "closed"
    BY <1>9, ClosedType DEF DialFails
  <2>2. /\ handler[s] = "dial" /\ handler'[s] = "done" /\ done'[s]
        /\ handler' \in [Stream -> {"new", "dial", "copy", "done"}]
        /\ done' \in [Stream -> BOOLEAN]
        /\ \A t \in Stream : t # s => handler'[t] = handler[t] /\ done'[t] = done[t]
    BY <1>9 DEF DialFails
  <2>3. egress'[s] = "closed" /\ target[s] # "open" /\ watcher[s] # "new"
    <3>1. egress[s] # None /\ target[s] # "open" /\ watcher[s] # "new"
      BY <2>2
    <3> QED
      BY <2>1, <3>1, ClosedType
  <2>4. UNCHANGED <<ctx, active, dial, endpoint, ingress, watcher, target, ends, started,
                    ended, rejected>>
    BY <1>9 DEF DialFails
  <2>5. Types'
    <3>1. endpoint' = [t \in Stream |-> endpoint'[t]]
      BY <2>4
    <3>2. /\ ingress' \in [Stream -> {None, "open", "closed"}]
          /\ target' \in [Stream -> {None, "open", "closed"}]
          /\ watcher' \in [Stream -> {"new", "watch", "ended"}]
          /\ ends' \in [Stream -> 0 .. 2]
      BY <2>4
    <3>3. started' \in [Key -> Int] /\ ended' \in [Key -> Int] /\ rejected' \in [Key -> Int]
      BY <2>4
    <3> QED
      BY <2>1, <2>2, <3>1, <3>2, <3>3
  <2>6. TypeOK'
    <3>1. {ingress'[t] : t \in Stream} \cup {egress'[t] : t \in Stream}
            \cup {target'[t] : t \in Stream} \subseteq {None, "open", "closed"}
      BY <2>5
    <3>2. ASSUME NEW t \in Stream
          PROVE  /\ handler'[t] \in {"new", "dial", "copy", "done"}
                 /\ watcher'[t] \in {"new", "watch", "ended"}
                 /\ handler'[t] = "new" <=> watcher'[t] = "new"
                 /\ egress'[t] = None => handler'[t] = "new"
                 /\ target'[t] = "open" => handler'[t] = "copy"
                 /\ done'[t] <=> handler'[t] = "done"
      <4>1. CASE t = s
        <5>1. watcher'[s] \in {"watch", "ended"} /\ target'[s] # "open"
          BY <2>3, <2>4
        <5> QED
          BY <2>2, <2>3, <4>1, <5>1
      <4>2. CASE t # s
        <5>1. /\ handler'[t] = handler[t] /\ done'[t] = done[t]
              /\ watcher'[t] = watcher[t] /\ target'[t] = target[t]
              /\ egress'[t] = None <=> egress[t] = None
          BY <2>1, <2>2, <2>4, <4>2
        <5>2. /\ handler[t] \in {"new", "dial", "copy", "done"}
              /\ watcher[t] \in {"new", "watch", "ended"}
              /\ handler[t] = "new" <=> watcher[t] = "new"
              /\ egress[t] = None => handler[t] = "new"
              /\ target[t] = "open" => handler[t] = "copy"
              /\ done[t] <=> handler[t] = "done"
          OBVIOUS
        <5> QED
          BY <5>1, <5>2
      <4> QED
        BY <4>1, <4>2
    <3> QED
      BY <2>4, <3>1, <3>2
  <2>7. EndsInv'
    <3> SUFFICES ASSUME NEW t \in Stream
                 PROVE  /\ (ingress'[t] = None) <=> (egress'[t] = None)
                        /\ handler'[t] = "done" => egress'[t] = "closed"
                        /\ dial'[t] = "open" => ingress'[t] # None
                        /\ ends'[t] > 0 => dial'[t] = "open" /\ ingress'[t] = "closed"
      OBVIOUS
    <3>1. (ingress'[t] = None) <=> (egress'[t] = None)
      BY <2>1, <2>4
    <3>2. handler'[t] = "done" => egress'[t] = "closed"
      BY <2>1, <2>2, <2>3
    <3> QED
      BY <2>4, <3>1, <3>2
  <2> QED
    BY <2>5, <2>6, <2>7
<1>10. ASSUME NEW s \in Stream, DialSucceeds(s) PROVE Types' /\ TypeOK' /\ EndsInv'
  <2>1. /\ target' \in [Stream -> {None, "open", "closed"}]
        /\ handler' \in [Stream -> {"new", "dial", "copy", "done"}]
        /\ \A t \in Stream : t # s => target'[t] = target[t] /\ handler'[t] = handler[t]
        /\ handler[s] = "dial" /\ handler'[s] = "copy"
    BY <1>10 DEF DialSucceeds
  <2>2. UNCHANGED <<ctx, active, dial, endpoint, ingress, egress, watcher, done, ends, started,
                    ended, rejected>>
    BY <1>10 DEF DialSucceeds
  <2>3. {target'[t] : t \in Stream} \subseteq {None, "open", "closed"}
    BY <2>1
  <2> QED
    BY <2>1, <2>2, <2>3
<1>11. ASSUME NEW s \in Stream, TargetHangsUp(s) PROVE Types' /\ TypeOK' /\ EndsInv'
  BY <1>11, ClosedType DEF TargetHangsUp
<1>12. ASSUME NEW s \in Stream, CopyEnds(s) PROVE Types' /\ TypeOK' /\ EndsInv'
  <2>1. /\ egress' = Closed(egress, {s}) /\ target' = Closed(target, {s})
        /\ egress' \in [Stream -> {None, "open", "closed"}]
        /\ target' \in [Stream -> {None, "open", "closed"}]
    BY <1>12, ClosedType DEF CopyEnds
  <2>2. /\ \A t \in Stream : /\ egress'[t] = None <=> egress[t] = None
                             /\ egress[t] = "closed" => egress'[t] = "closed"
                             /\ target'[t] = "open" => target[t] = "open"
        /\ egress'[s] = "closed" /\ target'[s] # "open"
    <3>1. egress[s] # None
      BY <1>12 DEF CopyEnds
    <3>2. target'[s] # "open"
      BY <2>1 DEF Closed
    <3> QED
      BY <2>1, <3>1, <3>2, ClosedType
  <2>3. /\ handler[s] = "copy" /\ handler'[s] = "done" /\ done'[s]
        /\ handler' \in [Stream -> {"new", "dial", "copy", "done"}]
        /\ \A t \in Stream : t # s => handler'[t] = handler[t] /\ done'[t] = done[t]
        /\ done' \in [Stream -> BOOLEAN]
    BY <1>12 DEF CopyEnds
  <2>4. UNCHANGED <<ctx, active, dial, endpoint, ingress, watcher, ends, started, ended,
                    rejected>>
    BY <1>12 DEF CopyEnds
  <2>5. Types'
    <3>1. endpoint' = [t \in Stream |-> endpoint'[t]]
      BY <2>4
    <3>2. /\ ingress' \in [Stream -> {None, "open", "closed"}]
          /\ watcher' \in [Stream -> {"new", "watch", "ended"}]
          /\ ends' \in [Stream -> 0 .. 2]
      BY <2>4
    <3>3. started' \in [Key -> Int] /\ ended' \in [Key -> Int] /\ rejected' \in [Key -> Int]
      BY <2>4
    <3> QED
      BY <2>1, <2>3, <3>1, <3>2, <3>3
  <2>6. TypeOK'
    <3>1. {ingress'[t] : t \in Stream} \cup {egress'[t] : t \in Stream}
            \cup {target'[t] : t \in Stream} \subseteq {None, "open", "closed"}
      BY <2>5
    <3>2. ASSUME NEW t \in Stream
          PROVE  /\ handler'[t] \in {"new", "dial", "copy", "done"}
                 /\ watcher'[t] \in {"new", "watch", "ended"}
                 /\ handler'[t] = "new" <=> watcher'[t] = "new"
                 /\ egress'[t] = None => handler'[t] = "new"
                 /\ target'[t] = "open" => handler'[t] = "copy"
                 /\ done'[t] <=> handler'[t] = "done"
      <4>1. CASE t = s
        BY <2>2, <2>3, <2>4, <4>1
      <4>2. CASE t # s
        BY <2>2, <2>3, <2>4, <4>2
      <4> QED
        BY <4>1, <4>2
    <3> QED
      BY <2>4, <3>1, <3>2
  <2>7. EndsInv'
    BY <2>2, <2>3, <2>4
  <2> QED
    BY <2>5, <2>6, <2>7
<1>13. ASSUME NEW s \in Stream, WatcherCloses(s) PROVE Types' /\ TypeOK' /\ EndsInv'
  BY <1>13, ClosedType DEF WatcherCloses
<1>14. ASSUME NEW s \in Stream, WatcherStops(s) PROVE Types' /\ TypeOK' /\ EndsInv'
  BY <1>14 DEF WatcherStops
<1>15. ASSUME NEW k \in Key, SessionStarts(k) PROVE Types' /\ TypeOK' /\ EndsInv'
  BY <1>15 DEF SessionStarts
<1>16. ASSUME NEW k \in Key, SessionEnds(k) PROVE Types' /\ TypeOK' /\ EndsInv'
  <2>1. /\ active' \in [Key -> {0, 1}]
        /\ UNCHANGED <<ctx, dial, endpoint, handler, watcher, done, target, ends, started,
                        ended, rejected>>
    BY <1>16 DEF SessionEnds
  <2>2. \E ss \in SUBSET Stream :
          ingress' = Closed(ingress, ss) /\ egress' = Closed(egress, ss)
    BY <1>16 DEF SessionEnds
  <2>3. /\ ingress' \in [Stream -> {None, "open", "closed"}]
        /\ egress' \in [Stream -> {None, "open", "closed"}]
        /\ \A t \in Stream :
             /\ (ingress'[t] = None) <=> (ingress[t] = None)
             /\ (egress'[t] = None) <=> (egress[t] = None)
             /\ ingress[t] = "closed" => ingress'[t] = "closed"
             /\ egress[t] = "closed" => egress'[t] = "closed"
    BY <2>2, ClosedType
  <2> QED
    BY <2>1, <2>3
<1>17. ASSUME NEW k \in Key, ClientCancels(k) PROVE Types' /\ TypeOK' /\ EndsInv'
  BY <1>17 DEF ClientCancels
<1>18. CASE UNCHANGED vars
  BY <1>18 DEF vars
<1> QED
  BY <1>1, <1>2, <1>3, <1>4, <1>5, <1>6, <1>7, <1>8, <1>9, <1>10, <1>11, <1>12, <1>13, <1>14, <1>15, <1>16, <1>17, <1>18 DEF Next

-----------------------------------------------------------------------------
\* The sets that are counted are finite, and counting a stream that was not
\* counted before adds one.
LEMMA StreamsCount ==
  ASSUME NEW S \in SUBSET Stream
  PROVE  /\ IsFiniteSet(S) /\ Cardinality(S) \in Nat
         /\ \A T \in SUBSET S : Cardinality(T) <= Cardinality(S)
         /\ \A s \in Stream \ S : Cardinality(S \cup {s}) = Cardinality(S) + 1
<1>1. IsFiniteSet(S) /\ Cardinality(S) \in Nat
  BY StreamAssumption, FS_Subset, FS_CardinalityType
<1>2. \A T \in SUBSET S : Cardinality(T) <= Cardinality(S)
  BY <1>1, FS_Subset
<1>3. \A s \in Stream \ S : Cardinality(S \cup {s}) = Cardinality(S) + 1
  BY <1>1, FS_AddElement
<1> QED
  BY <1>1, <1>2, <1>3

LEMMA CountedStreams ==
  ASSUME NEW k
  PROVE  /\ Opened(k) \in SUBSET Stream /\ Finished(k) \in SUBSET Stream
         /\ Failed(k) \in SUBSET Stream
  BY DEF Opened, Finished, Failed

\* The counters count the same if they and their sets stay as they are, and more
\* dials may have failed.
LEMMA CountKept ==
  ASSUME IInv, UNCHANGED <<started, ended, rejected>>, NEW k \in Key,
         Opened(k)' = Opened(k), Finished(k)' = Finished(k),
         Failed(k) \subseteq Failed(k)', Failed(k)' \subseteq Stream
  PROVE  /\ started'[k] = Cardinality(Opened(k)')
         /\ ended'[k] = Cardinality(Finished(k)')
         /\ rejected'[k] <= Cardinality(Failed(k)')
<1>1. Cardinality(Failed(k)) <= Cardinality(Failed(k)')
  BY StreamsCount
<1>2. Cardinality(Failed(k)) \in Nat /\ Cardinality(Failed(k)') \in Nat
  BY StreamsCount, CountedStreams
<1> QED
  BY <1>1, <1>2 DEF IInv, CountInv, Types

\* A dial that is over changes the sets of its endpoint, and End the set of the
\* streams that finished; no other step touches them.
LEMMA CountStep == IInv /\ [Next]_vars => CountInv'
<1> SUFFICES ASSUME IInv, [Next]_vars, NEW k \in Key
             PROVE  /\ started'[k] = Cardinality(Opened(k)')
                    /\ ended'[k] = Cardinality(Finished(k)')
                    /\ rejected'[k] <= Cardinality(Failed(k)')
  BY DEF CountInv
<1> USE DEF Set, dialVars, clientVars, countVars
<1>1. ASSUME NEW s \in Stream, DialContext(s)
      PROVE  /\ UNCHANGED <<started, ended, rejected>>
             /\ Opened(k)' = Opened(k) /\ Finished(k)' = Finished(k)
             /\ Failed(k) \subseteq Failed(k)' /\ Failed(k)' \subseteq Stream
  <2>1. PICK d, e : /\ d \in {"dialing", "failed"}
                    /\ dial' = Set(dial, s, d) /\ endpoint' = Set(endpoint, s, e)
    BY <1>1, Dials
  <2>2. /\ \A t \in Stream : t # s => dial'[t] = dial[t] /\ endpoint'[t] = endpoint[t]
        /\ dial'[s] \notin {"open", "new"} /\ dial[s] = "new"
    BY <1>1, <2>1 DEF DialContext, IInv, TypeOK, Types
  <2>3. UNCHANGED <<ends, started, ended, rejected>> /\ ~(ends[s] > 0)
    BY <1>1 DEF DialContext, IInv, EndsInv
  <2> QED
    BY <2>2, <2>3 DEF Opened, Finished, Failed
<1>2. ASSUME NEW s \in Stream, OpenReturns(s)
      PROVE  /\ started'[k] = Cardinality(Opened(k)')
             /\ ended'[k] = Cardinality(Finished(k)')
             /\ rejected'[k] <= Cardinality(Failed(k)')
  <2>1. /\ \A t \in Stream : dial'[t] = IF t = s THEN "open" ELSE dial[t]
        /\ dial[s] = "dialing"
        /\ UNCHANGED <<endpoint, ends, ended, rejected>>
    BY <1>2 DEF OpenReturns, IInv, TypeOK
  <2>2. started'[k] = IF endpoint[s] = k THEN started[k] + 1 ELSE started[k]
    BY <1>2, Increment DEF OpenReturns, IInv, Types
  <2>3. Opened(k)' = IF endpoint[s] = k THEN Opened(k) \cup {s} ELSE Opened(k)
    BY <2>1 DEF Opened
  <2>4. Finished(k)' = Finished(k) /\ Failed(k)' = Failed(k) /\ s \notin Opened(k)
    BY <2>1 DEF Finished, Failed, Opened
  <2>5. Cardinality(Opened(k) \cup {s}) = Cardinality(Opened(k)) + 1
    BY <2>4, CountedStreams, StreamsCount
  <2> QED
    BY <2>1, <2>2, <2>3, <2>4, <2>5 DEF IInv, CountInv
<1>3. ASSUME NEW s \in Stream, OpenFails(s)
      PROVE  /\ started'[k] = Cardinality(Opened(k)')
             /\ ended'[k] = Cardinality(Finished(k)')
             /\ rejected'[k] <= Cardinality(Failed(k)')
  <2>1. /\ \A t \in Stream : dial'[t] = IF t = s THEN "failed" ELSE dial[t]
        /\ dial[s] = "dialing"
        /\ UNCHANGED <<endpoint, ends, started, ended>>
    BY <1>3 DEF OpenFails, IInv, TypeOK
  <2>2. rejected'[k] = IF endpoint[s] = k THEN rejected[k] + 1 ELSE rejected[k]
    BY <1>3 DEF OpenFails, IInv, Types
  <2>3. Failed(k)' = IF endpoint[s] = k THEN Failed(k) \cup {s} ELSE Failed(k)
    BY <2>1 DEF Failed
  <2>4. Finished(k)' = Finished(k) /\ Opened(k)' = Opened(k) /\ s \notin Failed(k)
    BY <2>1 DEF Finished, Failed, Opened
  <2>5. /\ Cardinality(Failed(k) \cup {s}) = Cardinality(Failed(k)) + 1
        /\ Cardinality(Failed(k)) \in Nat
    BY <2>4, CountedStreams, StreamsCount
  <2>6. rejected[k] \in Int
    BY DEF IInv, Types
  <2> QED
    BY <2>1, <2>2, <2>3, <2>4, <2>5, <2>6 DEF IInv, CountInv
<1>4. ASSUME NEW s \in Stream, TimesOut(s)
      PROVE  /\ UNCHANGED <<started, ended, rejected>>
             /\ Opened(k)' = Opened(k) /\ Finished(k)' = Finished(k)
             /\ Failed(k) \subseteq Failed(k)' /\ Failed(k)' \subseteq Stream
  <2>1. /\ \A t \in Stream : dial'[t] = IF t = s THEN "failed" ELSE dial[t]
        /\ dial[s] = "dialing"
        /\ UNCHANGED <<endpoint, ends, started, ended, rejected>>
    BY <1>4 DEF TimesOut, IInv, TypeOK
  <2> QED
    BY <2>1 DEF Opened, Finished, Failed
<1>5. ASSUME NEW s \in Stream, End(s)
      PROVE  /\ started'[k] = Cardinality(Opened(k)')
             /\ ended'[k] = Cardinality(Finished(k)')
             /\ rejected'[k] <= Cardinality(Failed(k)')
  <2>1. /\ \A t \in Stream : ends'[t] = IF t = s THEN ends[t] + 1 ELSE ends[t]
        /\ UNCHANGED <<endpoint, dial, started, rejected>>
    BY <1>5 DEF End, IInv, Types
  <2>2. ended'[k] = IF ends[s] = 0 /\ endpoint[s] = k THEN ended[k] + 1 ELSE ended[k]
    BY <1>5, Increment DEF End, IInv, Types
  <2>3. Finished(k)' = IF endpoint[s] = k THEN Finished(k) \cup {s} ELSE Finished(k)
    BY <2>1 DEF Finished, IInv, Types
  <2>4. /\ Failed(k)' = Failed(k) /\ Opened(k)' = Opened(k)
        /\ endpoint[s] = k => (s \notin Finished(k) <=> ends[s] = 0)
    BY <2>1 DEF Finished, Failed, Opened, IInv, Types
  <2>5. s \notin Finished(k) => Cardinality(Finished(k) \cup {s}) = Cardinality(Finished(k)) + 1
    BY CountedStreams, StreamsCount
  <2>6. s \in Finished(k) => Finished(k) \cup {s} = Finished(k)
    OBVIOUS
  <2>7. ended'[k] = Cardinality(Finished(k)')
    BY <2>2, <2>3, <2>4, <2>5, <2>6 DEF IInv, CountInv
  <2> QED
    BY <2>1, <2>4, <2>7 DEF IInv, CountInv
<1>6. ASSUME \/ \E s \in Stream :
                  \/ LibraryOpens(s) \/ IngressCloses(s) \/ HandlesStream(s) \/ DialFails(s)
                  \/ DialSucceeds(s) \/ TargetHangsUp(s) \/ CopyEnds(s)
                  \/ WatcherCloses(s) \/ WatcherStops(s)
             \/ \E j \in Key : SessionStarts(j) \/ SessionEnds(j) \/ ClientCancels(j)
             \/ UNCHANGED vars
      PROVE  /\ UNCHANGED <<started, ended, rejected>>
             /\ Opened(k)' = Opened(k) /\ Finished(k)' = Finished(k)
             /\ Failed(k) \subseteq Failed(k)' /\ Failed(k)' \subseteq Stream
  <2>1. UNCHANGED <<dial, endpoint, ends, started, ended, rejected>>
    BY <1>6 DEF LibraryOpens, IngressCloses, HandlesStream, DialFails, DialSucceeds,
                TargetHangsUp, CopyEnds, WatcherCloses, WatcherStops, SessionStarts,
                SessionEnds, ClientCancels, vars
  <2> QED
    BY <2>1 DEF Opened, Finished, Failed
<1> QED
  BY <1>1, <1>2, <1>3, <1>4, <1>5, <1>6, CountKept DEF Next

\* Only DialContext chooses an endpoint, and no dial begins in any other step.
LEMMA MeantStep == IInv /\ [Next]_vars => MeantInv'
<1> SUFFICES ASSUME IInv, [Next]_vars PROVE MeantInv'
  OBVIOUS
<1> USE DEF Set, dialVars
<1>1. ASSUME NEW s \in Stream, DialContext(s) PROVE MeantInv'
  <2>1. PICK u \in Upstream :
          LET e == EndpointFromDialAddress(u.address) IN
          /\ dial' = Set(dial, s, IF e = <<>> THEN "failed" ELSE "dialing")
          /\ endpoint' = Set(endpoint, s, IF e = <<>> THEN None ELSE e)
          /\ means' = Set(means, s, u.means)
    BY <1>1 DEF DialContext
  <2> DEFINE e == EndpointFromDialAddress(u.address)
  <2>2. e # <<>> => e = u.means
    BY EndpointMeant
  <2> HIDE DEF e
  <2>3. /\ \A t \in Stream : t # s =>
              dial'[t] = dial[t] /\ endpoint'[t] = endpoint[t] /\ means'[t] = means[t]
        /\ dial'[s] = "failed" \/ (e # <<>> /\ endpoint'[s] = e /\ means'[s] = u.means)
    <3>1. /\ dial' = Set(dial, s, IF e = <<>> THEN "failed" ELSE "dialing")
          /\ endpoint' = Set(endpoint, s, IF e = <<>> THEN None ELSE e)
          /\ means' = Set(means, s, u.means)
      BY <2>1 DEF e
    <3>2. /\ dial \in [Stream -> {"new", "dialing", "open", "failed"}]
          /\ endpoint = [t \in Stream |-> endpoint[t]] /\ means = [t \in Stream |-> means[t]]
      BY DEF IInv, MeantInv, Types, TypeOK
    <3>3. ASSUME NEW f, f = [t \in Stream |-> f[t]], NEW v, NEW g, g = Set(f, s, v)
          PROVE  g[s] = v /\ \A t \in Stream : t # s => g[t] = f[t]
      BY <3>3
    <3>4. dial = [t \in Stream |-> dial[t]]
      BY <3>2
    <3> HIDE DEF Set
    <3>5. /\ dial'[s] = IF e = <<>> THEN "failed" ELSE "dialing"
          /\ \A t \in Stream : t # s => dial'[t] = dial[t]
      BY <3>1, <3>4, <3>3
    <3>6. /\ endpoint'[s] = IF e = <<>> THEN None ELSE e
          /\ \A t \in Stream : t # s => endpoint'[t] = endpoint[t]
      BY <3>1, <3>2, <3>3
    <3>7. means'[s] = u.means /\ \A t \in Stream : t # s => means'[t] = means[t]
      BY <3>1, <3>2, <3>3
    <3>8. \A t \in Stream : t # s =>
            dial'[t] = dial[t] /\ endpoint'[t] = endpoint[t] /\ means'[t] = means[t]
      BY <3>5, <3>6, <3>7
    <3>9. dial'[s] = "failed" \/ (e # <<>> /\ endpoint'[s] = e /\ means'[s] = u.means)
      BY <3>5, <3>6, <3>7
    <3> QED
      BY <3>8, <3>9
  <2>4. DialsMeant'
    BY <2>2, <2>3 DEF IInv, MeantInv, DialsMeant
  <2>5. means' = [t \in Stream |-> means'[t]]
    BY <2>1 DEF IInv, MeantInv
  <2> QED
    BY <2>4, <2>5 DEF MeantInv
<1>2. ASSUME NEW s \in Stream, OpenReturns(s) \/ OpenFails(s) \/ TimesOut(s)
      PROVE  MeantInv'
  <2>1. UNCHANGED <<endpoint, means>> /\ dial[s] = "dialing"
    BY <1>2 DEF OpenReturns, OpenFails, TimesOut
  <2>2. \A t \in Stream : t # s => dial'[t] = dial[t]
    BY <1>2 DEF OpenReturns, OpenFails, TimesOut, IInv, TypeOK
  <2> QED
    BY <2>1, <2>2 DEF IInv, MeantInv, DialsMeant
<1>3. ASSUME \/ \E s \in Stream :
                  \/ LibraryOpens(s) \/ IngressCloses(s) \/ End(s) \/ HandlesStream(s)
                  \/ DialFails(s) \/ DialSucceeds(s) \/ TargetHangsUp(s) \/ CopyEnds(s)
                  \/ WatcherCloses(s) \/ WatcherStops(s)
             \/ \E k \in Key : SessionStarts(k) \/ SessionEnds(k) \/ ClientCancels(k)
             \/ UNCHANGED vars
      PROVE  MeantInv'
  <2>1. UNCHANGED <<dial, endpoint, means>>
    BY <1>3 DEF LibraryOpens, IngressCloses, End, HandlesStream, DialFails, DialSucceeds,
                TargetHangsUp, CopyEnds, WatcherCloses, WatcherStops, SessionStarts,
                SessionEnds, ClientCancels, vars
  <2> QED
    BY <2>1 DEF IInv, MeantInv, DialsMeant
<1> QED
  BY <1>1, <1>2, <1>3 DEF Next

LEMMA Invariance == Spec => []IInv
<1>1. IInv /\ [Next]_vars => IInv'
  BY TypeStep, CountStep, MeantStep DEF IInv
<1> QED
  BY <1>1, InitIInv, PTL DEF Spec

-----------------------------------------------------------------------------
\* Every variable keeps its type; a handler and its watcher start together, and
\* the watcher is told exactly when the handler is done.
THEOREM TypeCorrectness == Spec => []TypeOK
<1>1. IInv => TypeOK
  BY DEF IInv
<1> QED
  BY <1>1, Invariance, PTL

\* For any upstreams: however the address of an upstream is spelled, the stream is
\* opened to the endpoint it means, and of an address without a host to none.
THEOREM DialsTheMeantEndpoint == Spec => []DialsMeant
<1>1. IInv => DialsMeant
  BY DEF IInv, MeantInv
<1> QED
  BY <1>1, Invariance, PTL

\* A handleStream that returned, whichever of the dial, the copy, the session and
\* Stop ended it, has closed its stream and its target and told its watcher.
THEOREM HandlerIsClean == Spec => []HandlerLeavesNothing
<1>1. IInv => HandlerLeavesNothing
  BY DEF IInv, TypeOK, EndsInv, HandlerLeavesNothing
<1> QED
  BY <1>1, Invariance, PTL

\* The stream counters of an endpoint are right, for any number of streams and
\* however opens, timeouts, closes and the two calls of End interleave.
THEOREM CountersAgree == Spec => []CountsAgree
<1>1. ASSUME IInv, NEW k \in Key
      PROVE  LET streams(P(_)) == Cardinality({s \in Stream : endpoint[s] = k /\ P(s)}) IN
             /\ started[k] = streams(LAMBDA s : dial[s] = "open")
             /\ started[k] - ended[k] >=
                  streams(LAMBDA s : dial[s] = "open" /\ ingress[s] = "open")
             /\ started[k] >= ended[k]
             /\ started[k] + rejected[k] <= streams(LAMBDA s : dial[s] # "new")
  <2> DEFINE Running == {s \in Stream : endpoint[s] = k /\ dial[s] = "open" /\ ingress[s] = "open"}
             Dialed == {s \in Stream : endpoint[s] = k /\ dial[s] # "new"}
  <2>1. started[k] = Cardinality(Opened(k)) /\ ended[k] = Cardinality(Finished(k))
        /\ rejected[k] <= Cardinality(Failed(k)) /\ rejected[k] \in Int
    BY <1>1 DEF IInv, CountInv, Types
  <2>2. /\ Finished(k) \cup Running \subseteq Opened(k) /\ Finished(k) \cap Running = {}
        /\ Opened(k) \cup Failed(k) \subseteq Dialed /\ Opened(k) \cap Failed(k) = {}
        /\ Running \in SUBSET Stream /\ Dialed \in SUBSET Stream
    BY <1>1 DEF Opened, Finished, Failed, IInv, EndsInv
  <2>3. /\ Cardinality(Finished(k) \cup Running) = Cardinality(Finished(k)) + Cardinality(Running)
        /\ Cardinality(Opened(k) \cup Failed(k)) = Cardinality(Opened(k)) + Cardinality(Failed(k))
    <3> HIDE DEF Running, Dialed
    <3>1. /\ IsFiniteSet(Finished(k)) /\ IsFiniteSet(Running)
          /\ IsFiniteSet(Opened(k)) /\ IsFiniteSet(Failed(k))
      BY <2>2, CountedStreams, StreamsCount
    <3>2. /\ Cardinality(Finished(k)) \in Nat /\ Cardinality(Running) \in Nat
          /\ Cardinality(Opened(k)) \in Nat /\ Cardinality(Failed(k)) \in Nat
      BY <3>1, FS_CardinalityType
    <3>3. Cardinality(Finished(k) \cap Running) = 0 /\ Cardinality(Opened(k) \cap Failed(k)) = 0
      BY <2>2, FS_EmptySet
    <3>4. Cardinality(Finished(k) \cup Running) =
            Cardinality(Finished(k)) + Cardinality(Running) - Cardinality(Finished(k) \cap Running)
      BY <3>1, FS_Union
    <3>5. Cardinality(Opened(k) \cup Failed(k)) =
            Cardinality(Opened(k)) + Cardinality(Failed(k)) - Cardinality(Opened(k) \cap Failed(k))
      BY <3>1, FS_Union
    <3> QED
      BY <3>2, <3>3, <3>4, <3>5
  <2>4. /\ Cardinality(Finished(k) \cup Running) <= Cardinality(Opened(k))
        /\ Cardinality(Opened(k) \cup Failed(k)) <= Cardinality(Dialed)
    BY <2>2, CountedStreams, StreamsCount
  <2>5. /\ Cardinality(Finished(k)) \in Nat /\ Cardinality(Running) \in Nat
        /\ Cardinality(Opened(k)) \in Nat /\ Cardinality(Failed(k)) \in Nat
        /\ Cardinality(Dialed) \in Nat
    BY <2>2, CountedStreams, StreamsCount
  <2>6. /\ started[k] - ended[k] >= Cardinality(Running) /\ started[k] >= ended[k]
        /\ started[k] + rejected[k] <= Cardinality(Dialed)
    <3> HIDE DEF Running, Dialed
    <3> QED
      BY <2>1, <2>3, <2>4, <2>5
  <2> QED
    BY <2>1, <2>6 DEF Opened
<1>2. IInv => CountsAgree
  BY <1>1 DEF CountsAgree
<1> QED
  BY <1>2, Invariance, PTL
=============================================================================
