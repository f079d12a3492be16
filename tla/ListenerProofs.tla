---------------------------- MODULE ListenerProofs ----------------------------
(***************************************************************************)
(* Proofs about Listener, for any wrappers, connections, names, routes and *)
(* sizes.  IInv is the inductive invariant: a connection is in one place,  *)
(* a backlog or with an accept loop, until its fate is sealed; and the     *)
(* table that the loops look names up in is that of the resolver which was *)
(* installed last, before the first connection came.  What was read off a  *)
(* socket is what its owner has read and what is still in the buffer.      *)
(***************************************************************************)
EXTENDS Listener, TextProofs, SequenceTheorems

\* The types that TypeOK leaves out.
Types ==
  /\ endpoint = [c \in Conn |-> endpoint[c]]
  /\ \A c \in Conn : valid[c] =>
       sni[c] \in Name /\ (sni[c] # <<>> => Last(sni[c]) # ".")

\* Each waiting connection waits once and on the listener it came to, and the
\* loop works on one that no longer waits.
Working ==
  \A w \in Wrapper :
    /\ loop[w] \in {"peek", "resolve"} <=> current[w] # None
    /\ loop[w] = "resolve" => Parsed(current[w])
    /\ current[w] # None => at[current[w]] = w /\ fate[current[w]] = {}

Waiting ==
  \A w \in Wrapper : \A i \in 1 .. Len(backlog[w]) :
    /\ at[backlog[w][i]] = w /\ fate[backlog[w][i]] = {}
    /\ backlog[w][i] # current[w]
    /\ \A j \in 1 .. Len(backlog[w]) : backlog[w][j] = backlog[w][i] => j = i

Place == Working /\ Waiting

\* A connection comes when all is provisioned and nothing was done with it before.
Arrival ==
  \A c \in Conn :
    /\ at[c] # None => Serving
    /\ at[c] = None => fate[c] = {}

Fated ==
  \A c \in Conn :
    /\ fate[c] \in {{}, {"caddy"}, {"closed"}, {"proxied"},
                    {"proxied", "refused"}, {"proxied", "finished"}}
    /\ fate[c] # {} /\ valid[c] =>
         taken[c] >= HelloLen \/ (hungUp[c] /\ taken[c] = sent[c])

\* The first t chunks, in their order: those in g and then those in r.
InOrder(g, r, t) ==
  /\ g \in Seq(Nat) /\ r \in Seq(Nat) /\ Len(g) + Len(r) = t
  /\ \A i \in 1 .. Len(g) : g[i] = i
  /\ \A i \in 1 .. Len(r) : r[i] = Len(g) + i

\* The chunks read off the socket are what the owner has read and then what is in
\* the buffer.
Buffered ==
  \A c \in Conn : taken[c] <= sent[c] /\ InOrder(got[c], replay[c], taken[c])

\* The server's resolver is a module or the table of the routes of one wrapper.
Installed ==
  resolver # None =>
    IF custom[resolver] THEN table = None
    ELSE table # None /\ table = NewRouteTable(routes[resolver])

IInv ==
  /\ TypeOK /\ Types /\ Place /\ Arrival /\ Fated /\ Buffered
  /\ Installed /\ RoutedByInstalled

-----------------------------------------------------------------------------
(* What the table of a wrapper's routes answers                            *)

LEMMA RouteTexts ==
  ASSUME NEW rs \in RouteSNI
  PROVE  /\ rs \in Seq(SNIRoute) /\ DOMAIN rs = 1 .. Len(rs)
         /\ \A n \in DOMAIN rs : rs[n].server_name \in Texts
<1>1. rs \in Seq(SNIRoute)
  BY RouteAssumption DEF SNIRoute
<1>2. \A n \in DOMAIN rs : rs[n] \in SNIRoute
  BY <1>1
<1> QED
  BY <1>1, <1>2 DEF SNIRoute

\* A name resolves to the endpoint of any route that denotes it, and to nothing
\* if no route does or there is no name.
LEMMA Routing ==
  ASSUME NEW rs \in RouteSNI, NewRouteTable(rs) # None,
         NEW name \in Name, name # <<>> => Last(name) # "."
  PROVE  /\ Resolve(NewRouteTable(rs), name) = {} <=> Denoting[rs][name] = {}
         /\ \A r \in Denoting[rs][name] :
              Resolve(NewRouteTable(rs), name) = {TrimSpace(r.endpoint)}
         /\ name = <<>> => Resolve(NewRouteTable(rs), name) = {}
         /\ \A e \in Resolve(NewRouteTable(rs), name) : TrimSpace(e) # <<>>
<1> DEFINE found == Resolve(NewRouteTable(rs), name)
           same(n) == NormalizeServerName(rs[n].server_name) = NormalizeServerName(name)
<1>1. name \in Texts /\ (name # <<>> => Last(name) \notin {Blank, "."})
  BY NameAssumption
<1>2. /\ found = {} <=> \A n \in DOMAIN rs : ~ same(n)
      /\ \A n \in DOMAIN rs : same(n) => found = {TrimSpace(rs[n].endpoint)}
      /\ \A n \in DOMAIN rs : NormalizeServerName(rs[n].server_name) # <<>>
      /\ \A e \in found : TrimSpace(e) # <<>>
  <2>1. rs \in Seq(SNIRoute)
    BY RouteTexts
  <2> QED
    BY <2>1, ResolveFinds
<1>3. ASSUME NEW n \in DOMAIN rs PROVE same(n) <=> Denotes(rs[n].server_name, name)
  <2>1. rs[n].server_name \in Texts
    BY RouteTexts
  <2> QED
    BY <1>1, <2>1, NormalizeMatches DEF Denotes
<1>4. Denoting[rs][name] = {rs[n] : n \in {m \in DOMAIN rs : same(m)}}
  <2>1. Denoting[rs][name] = {r \in Range(rs) : Denotes(r.server_name, name)}
    BY DEF Denoting
  <2> HIDE DEF same
  <2>2. Range(rs) = {rs[n] : n \in DOMAIN rs}
    BY DEF Range
  <2> QED
    BY <1>3, <2>1, <2>2
<1>5. NormalizeServerName(<<>>) = <<>>
  <2>1. TrimSpace(<<>>) = <<>>
    BY DEF TrimSpace
  <2>2. ToLower(<<>>) = <<>>
    <3>1. <<>> \in Texts /\ Len(<<>>) = 0
      BY DEF Texts
    <3>2. ToLower(<<>>) \in Texts /\ Len(ToLower(<<>>)) = 0
      BY <3>1, ToLowerType
    <3> QED
      BY <3>2 DEF Texts
  <2> QED
    BY <2>1, <2>2 DEF NormalizeServerName
<1> HIDE DEF found
<1>6. name = <<>> => \A n \in DOMAIN rs : ~ same(n)
  BY <1>2, <1>5
<1> HIDE DEF same
<1>7. found = {} <=> Denoting[rs][name] = {}
  BY <1>2, <1>4
<1>8. \A r \in Denoting[rs][name] : found = {TrimSpace(r.endpoint)}
  BY <1>2, <1>4
<1> QED
  BY <1>2, <1>6, <1>7, <1>8 DEF found

-----------------------------------------------------------------------------
(* What is read off a socket and what the owner gets                       *)

\* What the peek reads goes behind what is in the buffer.
LEMMA PeekInOrder ==
  ASSUME NEW g, NEW r, NEW t \in Nat, NEW n \in Nat, n > t, InOrder(g, r, t)
  PROVE  InOrder(g, r \o Chunks(t, n), n)
<1> DEFINE more == Chunks(t, n)
           all == r \o more
<1>1. /\ more \in Seq(Nat) /\ Len(more) = n - t
      /\ \A i \in 1 .. n - t : more[i] = t + i
  BY DEF Chunks
<1>2. /\ g \in Seq(Nat) /\ r \in Seq(Nat) /\ Len(g) \in Nat /\ Len(r) \in Nat
  BY DEF InOrder
<1>3. /\ Len(g) \in Nat /\ Len(r) \in Nat /\ Len(g) + Len(r) = t
      /\ \A i \in 1 .. Len(g) : g[i] = i
      /\ \A i \in 1 .. Len(r) : r[i] = Len(g) + i
  BY <1>2 DEF InOrder
<1> HIDE DEF more
<1>4. /\ all \in Seq(Nat) /\ Len(all) = Len(r) + Len(more)
      /\ \A i \in 1 .. Len(r) + Len(more) :
           all[i] = IF i <= Len(r) THEN r[i] ELSE more[i - Len(r)]
  BY <1>1, <1>2, ConcatProperties
<1> HIDE DEF all
<1>5. Len(all) = Len(r) + (n - t)
  BY <1>1, <1>4
<1>6. Len(g) + Len(all) = n
  <2>1. Len(g) \in Nat /\ Len(r) \in Nat /\ Len(g) + Len(r) = t
    BY <1>3
  <2> QED
    BY <1>5, <2>1
<1>7. ASSUME NEW i \in 1 .. Len(all) PROVE all[i] = Len(g) + i
  <2>1. i \in Nat /\ i >= 1 /\ i <= Len(r) + (n - t)
    BY <1>3, <1>5
  <2>2. all[i] = IF i <= Len(r) THEN r[i] ELSE more[i - Len(r)]
    BY <1>1, <1>4, <1>5
  <2>3. CASE i <= Len(r)
    BY <1>3, <2>1, <2>2, <2>3
  <2>4. CASE i > Len(r)
    <3>1. i - Len(r) \in 1 .. n - t /\ ~(i <= Len(r)) /\ t + (i - Len(r)) = Len(g) + i
      BY <1>3, <2>1, <2>4
    <3>2. all[i] = more[i - Len(r)]
      BY <2>2, <3>1
    <3>3. more[i - Len(r)] = t + (i - Len(r))
      BY <1>1, <3>1
    <3> QED
      BY <3>1, <3>2, <3>3
  <2> QED
    BY <1>3, <2>1, <2>3, <2>4
<1>8. InOrder(g, all, n)
  BY <1>2, <1>3, <1>4, <1>6, <1>7 DEF InOrder
<1> QED
  BY <1>8 DEF all, more

\* The owner reads the head of the buffer.
LEMMA BufferInOrder ==
  ASSUME NEW g, NEW r, NEW t \in Nat, InOrder(g, r, t), r # <<>>
  PROVE  InOrder(Append(g, Head(r)), Tail(r), t)
<1> DEFINE next == Head(r)
           new == Append(g, next)
           rest == Tail(r)
<1>1. g \in Seq(Nat) /\ r \in Seq(Nat)
  BY DEF InOrder
<1>2. /\ Len(g) \in Nat /\ Len(r) \in Nat /\ Len(r) >= 1 /\ Len(g) + Len(r) = t
      /\ \A i \in 1 .. Len(g) : g[i] = i
      /\ \A i \in 1 .. Len(r) : r[i] = Len(g) + i
  BY <1>1 DEF InOrder
<1>3. next \in Nat /\ next = r[1]
  BY <1>1
<1>4. /\ rest \in Seq(Nat) /\ Len(rest) = Len(r) - 1
      /\ \A i \in 1 .. Len(r) - 1 : rest[i] = r[i + 1]
  BY <1>1
<1> HIDE DEF next, rest
<1>5. /\ new \in Seq(Nat) /\ Len(new) = Len(g) + 1
      /\ \A i \in 1 .. Len(g) : new[i] = g[i]
      /\ new[Len(g) + 1] = next
  BY <1>1, <1>3
<1> HIDE DEF new
<1>6. next = Len(g) + 1
  BY <1>2, <1>3
<1>7. Len(new) + Len(rest) = t
  <2>1. /\ Len(g) \in Nat /\ Len(r) \in Nat /\ Len(g) + Len(r) = t
        /\ Len(new) = Len(g) + 1 /\ Len(rest) = Len(r) - 1
    BY <1>2, <1>4, <1>5
  <2> QED
    BY <2>1
<1>8. ASSUME NEW i \in 1 .. Len(new) PROVE new[i] = i
  <2>1. i \in 1 .. Len(g) \/ i = Len(g) + 1
    BY <1>2, <1>5
  <2> QED
    BY <1>2, <1>5, <1>6, <2>1
<1>9. ASSUME NEW i \in 1 .. Len(rest) PROVE rest[i] = Len(new) + i
  <2>1. i \in Nat /\ i + 1 \in 1 .. Len(r) /\ i \in 1 .. Len(r) - 1
    BY <1>2, <1>4
  <2>2. rest[i] = Len(g) + (i + 1)
    BY <1>2, <1>4, <2>1
  <2>3. Len(g) + (i + 1) = Len(new) + i
    BY <1>2, <1>5, <2>1
  <2> QED
    BY <2>2, <2>3
<1>10. InOrder(new, rest, t)
  BY <1>4, <1>5, <1>7, <1>8, <1>9 DEF InOrder
<1> QED
  BY <1>10 DEF next, new, rest

\* The owner reads the next chunk of the socket when the buffer is at its end.
LEMMA SocketInOrder ==
  ASSUME NEW g, NEW t \in Nat, InOrder(g, <<>>, t)
  PROVE  InOrder(Append(g, t + 1), <<>>, t + 1)
<1> DEFINE new == Append(g, t + 1)
<1>1. g \in Seq(Nat) /\ <<>> \in Seq(Nat) /\ Len(<<>>) = 0
  BY DEF InOrder
<1>2. Len(g) = t /\ \A i \in 1 .. t : g[i] = i
  BY <1>1 DEF InOrder
<1>3. /\ new \in Seq(Nat) /\ Len(new) = t + 1
      /\ \A i \in 1 .. t : new[i] = g[i]
      /\ new[t + 1] = t + 1
  BY <1>1, <1>2
<1> HIDE DEF new
<1>4. ASSUME NEW i \in 1 .. t + 1 PROVE new[i] = i
  <2>1. i \in 1 .. t \/ i = t + 1
    OBVIOUS
  <2> QED
    BY <1>2, <1>3, <2>1
<1>5. InOrder(new, <<>>, t + 1)
  BY <1>1, <1>3, <1>4 DEF InOrder
<1> QED
  BY <1>5 DEF new

-----------------------------------------------------------------------------
LEMMA InitIInv == Init => IInv
<1> SUFFICES ASSUME Init PROVE IInv
  OBVIOUS
<1> USE NoneAssumption, ChunkAssumption DEF Init
<1>1. TypeOK
  <2>1. <<>> \in Seq(Conn) /\ [w \in Wrapper |-> <<>>] \in [Wrapper -> Seq(Conn)]
    OBVIOUS
  <2>2. 0 \in 0 .. MaxChunk /\ <<>> \in Seq(Nat)
    OBVIOUS
  <2> QED
    BY <2>1, <2>2 DEF TypeOK
<1>2. Types
  BY DEF Types
<1>3. Place
  BY DEF Place, Working, Waiting
<1>4. Arrival /\ Fated /\ Installed
  BY DEF Arrival, Fated, Installed
<1>5. Buffered
  BY DEF Buffered, InOrder
<1>6. RoutedByInstalled
  BY DEF RoutedByInstalled
<1> QED
  BY <1>1, <1>2, <1>3, <1>4, <1>5, <1>6 DEF IInv

-----------------------------------------------------------------------------
(* The steps                                                               *)

\* What is in the buffer and what was read stays as long as nobody reads.
LEMMA BufferStays ==
  ASSUME Buffered, TypeOK, UNCHANGED readVars,
         \A c \in Conn : sent'[c] \in Nat /\ sent'[c] >= sent[c]
  PROVE  Buffered'
<1>1. \A c \in Conn : taken[c] \in Nat /\ sent[c] \in Nat
  BY ChunkAssumption DEF TypeOK
<1> QED
  BY <1>1 DEF Buffered, readVars

\* What is installed answers for the hello that a loop resolves.
LEMMA Answer ==
  ASSUME IInv, NEW w \in Wrapper, loop[w] = "resolve",
         resolver # None, ~custom[resolver]
  PROVE  LET name == sni[current[w]]
             found == RoutesOf(resolver, name)
         IN  /\ found = {} => Routed(name) = {<<"notOK">>}
             /\ found # {} => name # <<>>
             /\ \A r \in found : Routed(name) = {<<"ok", TrimSpace(r.endpoint)>>}
<1> DEFINE c == current[w]
           name == sni[c]
           rs == routes[resolver]
<1>1. c \in Conn /\ Parsed(c)
  BY DEF IInv, TypeOK, Place, Working, Waiting
<1>2. name \in Name /\ (name # <<>> => Last(name) # ".")
  BY <1>1 DEF IInv, Types, Parsed
<1>3. rs \in RouteSNI /\ table # None /\ table = NewRouteTable(rs)
  BY DEF IInv, TypeOK, Installed
<1> HIDE DEF name, rs
<1>4. /\ Resolve(table, name) = {} <=> Denoting[rs][name] = {}
      /\ \A r \in Denoting[rs][name] : Resolve(table, name) = {TrimSpace(r.endpoint)}
      /\ name = <<>> => Resolve(table, name) = {}
  BY <1>2, <1>3, Routing
<1>5. Routed(name) = IF Resolve(table, name) = {} THEN {<<"notOK">>}
                     ELSE {<<"ok", e>> : e \in Resolve(table, name)}
  BY <1>3 DEF Routed
<1>6. RoutesOf(resolver, name) = Denoting[rs][name]
  BY DEF RoutesOf, rs
<1>7. ASSUME NEW r \in Denoting[rs][name]
      PROVE  Routed(name) = {<<"ok", TrimSpace(r.endpoint)>>}
  BY <1>4, <1>5
<1> QED
  BY <1>4, <1>5, <1>6, <1>7 DEF name

\* A loop that is done with its connection, rightly so if routes are installed.
LEMMA DisposeIInv ==
  ASSUME IInv, NEW w \in Wrapper, loop[w] \in {"peek", "resolve"},
         NEW how \in {{"caddy"}, {"closed"}, {"proxied"}}, LoopDisposes(w, how),
         endpoint' = [c \in Conn |-> endpoint'[c]],
         \A c \in Conn : c # current[w] => endpoint'[c] = endpoint[c],
         LET c == current[w] IN
           /\ endpoint'[c] # endpoint[c] => TrimSpace(endpoint'[c]) # <<>>
           /\ valid[c] => taken[c] >= HelloLen \/ (hungUp[c] /\ taken[c] = sent[c]),
         UNCHANGED <<setupVars, backlog, closed, peerVars, readVars>>,
         resolver # None /\ ~custom[resolver] /\ hasServer /\ Parsed(current[w]) =>
           LET c == current[w]
               found == RoutesOf(resolver, sni[c])
           IN  /\ "proxied" \in how =>
                    /\ sni[c] # <<>> /\ found # {}
                    /\ \A r \in found : endpoint'[c] = TrimSpace(r.endpoint)
               /\ "caddy" \in how => found = {}
  PROVE  IInv'
<1> DEFINE c == current[w]
<1> USE NoneAssumption DEF setupVars, peerVars, readVars, LoopDisposes
<1>1. c \in Conn /\ c # None /\ at[c] = w /\ fate[c] = {}
  BY DEF IInv, TypeOK, Place, Working, Waiting
<1>2. /\ fate' = [fate EXCEPT ![c] = how] /\ fate'[c] = how
      /\ \A d \in Conn : d # c => fate'[d] = fate[d]
  BY <1>1 DEF IInv, TypeOK
<1>3. TypeOK'
  <2>1. fate' \in [Conn -> SUBSET Fates]
    BY <1>1, <1>2 DEF IInv, TypeOK, Fates
  <2>2. loop' \in [Wrapper -> {"accept", "peek", "resolve", "stopped"}]
    BY DEF IInv, TypeOK
  <2>3. current' \in [Wrapper -> Conn \cup {None}]
    BY DEF IInv, TypeOK
  <2>4. ASSUME NEW d \in Conn, endpoint'[d] # None PROVE TrimSpace(endpoint'[d]) # <<>>
    BY <2>4 DEF IInv, TypeOK
  <2> QED
    BY <2>1, <2>2, <2>3, <2>4 DEF IInv, TypeOK
<1>4. Types'
  BY DEF IInv, Types
<1>5. Place'
  <2>1. ASSUME NEW v \in Wrapper
        PROVE  /\ v = w => loop'[v] = "accept" /\ current'[v] = None
               /\ v # w => loop'[v] = loop[v] /\ current'[v] = current[v]
               /\ v # w /\ current[v] # None => current[v] \in Conn /\ current[v] # c
    BY <1>1 DEF IInv, TypeOK, Place, Working
  <2>2. ASSUME NEW v \in Wrapper, NEW i \in 1 .. Len(backlog[v])
        PROVE  /\ backlog[v][i] \in Conn /\ backlog[v][i] # c
               /\ at[backlog[v][i]] = v /\ fate[backlog[v][i]] = {}
               /\ backlog[v][i] # current[v]
               /\ \A j \in 1 .. Len(backlog[v]) : backlog[v][j] = backlog[v][i] => j = i
    <3>1. backlog[v] \in Seq(Conn)
      BY DEF IInv, TypeOK
    <3>2. backlog[v][i] \in Conn
      BY <3>1
    <3>3. /\ at[backlog[v][i]] = v /\ fate[backlog[v][i]] = {}
          /\ backlog[v][i] # current[v]
          /\ \A j \in 1 .. Len(backlog[v]) : backlog[v][j] = backlog[v][i] => j = i
      BY DEF IInv, Place, Waiting
    <3>4. backlog[v][i] # c
      BY <1>1, <3>3
    <3> QED
      BY <3>2, <3>3, <3>4
  <2>3. ASSUME NEW v \in Wrapper
        PROVE  /\ loop'[v] \in {"peek", "resolve"} <=> current'[v] # None
               /\ loop'[v] = "resolve" => Parsed(current'[v])
               /\ current'[v] # None => at[current'[v]] = v /\ fate'[current'[v]] = {}
    BY <1>2, <2>1 DEF IInv, Place, Working
  <2>4. ASSUME NEW v \in Wrapper, NEW i \in 1 .. Len(backlog[v])
        PROVE  /\ at[backlog[v][i]] = v /\ fate'[backlog[v][i]] = {}
               /\ backlog[v][i] # current'[v]
               /\ \A j \in 1 .. Len(backlog[v]) : backlog[v][j] = backlog[v][i] => j = i
    BY <1>2, <2>1, <2>2
  <2>5. UNCHANGED <<backlog, at, valid, taken>>
    OBVIOUS
  <2>6. Working'
    BY <2>3, <2>5 DEF Working, Parsed
  <2>7. Waiting'
    BY <2>4, <2>5 DEF Waiting
  <2> QED
    BY <2>6, <2>7 DEF Place
<1>6. Arrival' /\ Fated' /\ Installed' /\ Buffered'
  <2>1. Arrival' /\ Installed'
    BY <1>1, <1>2 DEF IInv, Arrival, Installed, Serving
  <2>2. Fated'
    BY <1>1, <1>2 DEF IInv, Fated
  <2>3. Buffered'
    BY DEF IInv, Buffered
  <2> QED
    BY <2>1, <2>2, <2>3
<1>7. RoutedByInstalled'
  <2> SUFFICES ASSUME resolver # None, ~custom[resolver], hasServer,
                      NEW d \in Conn, Parsed(d)
               PROVE  LET found == RoutesOf(resolver, sni[d]) IN
                      /\ "proxied" \in fate'[d] =>
                           /\ sni[d] # <<>> /\ found # {}
                           /\ \A r \in found : endpoint'[d] = TrimSpace(r.endpoint)
                      /\ "caddy" \in fate'[d] => found = {}
    BY DEF RoutedByInstalled, RoutesOf, Parsed
  <2>1. CASE d = c
    BY <1>2, <2>1
  <2>2. CASE d # c
    BY <1>2, <2>2 DEF IInv, RoutedByInstalled
  <2> QED
    BY <2>1, <2>2
<1> QED
  BY <1>3, <1>4, <1>5, <1>6, <1>7 DEF IInv

\* The loop's decisions.
LEMMA DecideIInv ==
  ASSUME IInv, NEW w \in Wrapper,
         \/ PeekFails(w) \/ NoServer(w)
         \/ ResolvesBadly(w) \/ ResolvesToCaddy(w) \/ ResolvesToEndpoint(w)
  PROVE  IInv'
<1> DEFINE c == current[w]
           name == sni[c]
<1>1. c \in Conn
  <2>1. loop[w] \in {"peek", "resolve"}
    BY DEF PeekFails, NoServer, ResolvesBadly, ResolvesToCaddy, ResolvesToEndpoint
  <2> QED
    BY <2>1 DEF IInv, TypeOK, Place, Working, Waiting
<1>2. /\ endpoint = [d \in Conn |-> endpoint[d]]
      /\ loop[w] = "resolve" => taken[c] >= HelloLen
  BY DEF IInv, Types, Place, Working, Parsed
<1>3. CASE PeekFails(w)
  <2>1. taken[c] \in Nat /\ sent[c] \in Nat /\ HelloLen \in Nat
    BY <1>1, ChunkAssumption DEF IInv, TypeOK
  <2>2. /\ ~ Parsed(c)
        /\ valid[c] => hungUp[c] /\ taken[c] = sent[c]
    BY <1>3, <2>1 DEF PeekFails, Parsed
  <2> QED
    BY <1>2, <1>3, <2>2, DisposeIInv DEF PeekFails
<1>4. CASE NoServer(w)
  BY <1>2, <1>4, DisposeIInv DEF NoServer
<1>5. CASE ResolvesBadly(w)
  BY <1>2, <1>5, DisposeIInv DEF ResolvesBadly
<1>6. CASE ResolvesToCaddy(w)
  <2>1. ASSUME resolver # None, ~custom[resolver] PROVE RoutesOf(resolver, name) = {}
    <3>1. \A r \in RoutesOf(resolver, name) : Routed(name) = {<<"ok", TrimSpace(r.endpoint)>>}
      BY <1>6, <2>1, Answer DEF ResolvesToCaddy
    <3>2. \A r : <<"notOK">> \notin {<<"ok", TrimSpace(r.endpoint)>>}
      OBVIOUS
    <3> QED
      BY <1>6, <3>1, <3>2 DEF ResolvesToCaddy
  <2> QED
    BY <1>2, <1>6, <2>1, DisposeIInv DEF ResolvesToCaddy
<1>7. CASE ResolvesToEndpoint(w)
  <2>1. PICK answer \in Routed(name) :
          /\ answer[1] = "ok" /\ TrimSpace(answer[2]) # <<>>
          /\ endpoint' = [endpoint EXCEPT ![c] = answer[2]]
    BY <1>7 DEF ResolvesToEndpoint
  <2>2. /\ endpoint' = [d \in Conn |-> endpoint'[d]]
        /\ endpoint'[c] = answer[2]
        /\ \A d \in Conn : d # c => endpoint'[d] = endpoint[d]
    BY <1>1, <1>2, <2>1
  <2>3. ASSUME resolver # None, ~custom[resolver]
        PROVE  LET found == RoutesOf(resolver, name) IN
               /\ name # <<>> /\ found # {}
               /\ \A r \in found : endpoint'[c] = TrimSpace(r.endpoint)
    <3>1. LET found == RoutesOf(resolver, name) IN
          /\ found = {} => Routed(name) = {<<"notOK">>}
          /\ found # {} => name # <<>>
          /\ \A r \in found : Routed(name) = {<<"ok", TrimSpace(r.endpoint)>>}
      BY <1>7, <2>3, Answer DEF ResolvesToEndpoint
    <3>2. answer # <<"notOK">>
      BY <2>1
    <3>3. ASSUME NEW r \in RoutesOf(resolver, name)
          PROVE  answer[2] = TrimSpace(r.endpoint)
      <4>1. Routed(name) = {<<"ok", TrimSpace(r.endpoint)>>}
        BY <3>1
      <4>2. answer = <<"ok", TrimSpace(r.endpoint)>>
        BY <4>1
      <4> QED
        BY <4>2
    <3>4. RoutesOf(resolver, name) # {}
      BY <3>1, <3>2
    <3> QED
      BY <2>2, <3>1, <3>3, <3>4
  <2>4. /\ loop[w] \in {"peek", "resolve"} /\ LoopDisposes(w, {"proxied"})
        /\ UNCHANGED <<setupVars, backlog, closed, peerVars, readVars>>
        /\ taken[c] >= HelloLen
    BY <1>2, <1>7 DEF ResolvesToEndpoint
  <2>5. TrimSpace(endpoint'[c]) # <<>>
    BY <2>1, <2>2
  <2> QED
    BY <2>2, <2>3, <2>4, <2>5, DisposeIInv
<1> QED
  BY <1>3, <1>4, <1>5, <1>6, <1>7

\* Nothing was done with any connection while Caddy still provisions.
LEMMA ProvisionIInv ==
  ASSUME IInv, NEW w \in Wrapper, Provision(w)
  PROVE  IInv'
<1> USE NoneAssumption DEF loopVars, peerVars, readVars
<1>1. \A c \in Conn : fate[c] = {} /\ at[c] = None
  BY DEF IInv, Arrival, Serving, Provision
<1>2. TypeOK'
  <2>1. (table' # None) <=> (resolver' # None /\ routes[resolver'] # <<>>)
    BY DEF IInv, TypeOK, Provision, Plain
  <2> QED
    BY <2>1 DEF IInv, TypeOK, Provision
<1>3. Types' /\ Arrival' /\ Fated' /\ Buffered'
  <2>1. UNCHANGED <<routes, custom, hasServer, loopVars, peerVars, readVars, fate, endpoint>>
    BY DEF Provision
  <2>2. Types' /\ Arrival'
    BY <1>1, <2>1 DEF IInv, Types, Arrival, Provision
  <2>3. Fated'
    BY <1>1, <2>1 DEF Fated
  <2>4. Buffered'
    BY <2>1 DEF IInv, Buffered
  <2> QED
    BY <2>2, <2>3, <2>4
<1>4. Place'
  <2>1. UNCHANGED <<loop, current, at, fate, backlog, valid, taken>>
    BY DEF Provision
  <2> QED
    BY <2>1 DEF IInv, Place, Working, Waiting, Parsed
<1>5. Installed'
  <2>1. CASE Plain(w)
    BY <2>1 DEF IInv, Installed, Provision
  <2>2. CASE ~Plain(w) /\ custom[w]
    BY <2>2 DEF Installed, Provision
  <2>3. CASE ~Plain(w) /\ ~custom[w]
    BY <2>3 DEF Installed, Provision, Plain
  <2> QED
    BY <2>1, <2>2, <2>3
<1>6. RoutedByInstalled'
  BY <1>1 DEF RoutedByInstalled, Provision
<1> QED
  BY <1>2, <1>3, <1>4, <1>5, <1>6 DEF IInv

\* Caddy's steps and those of the peers that leave the connections in place.
LEMMA AroundIInv ==
  ASSUME IInv,
         \/ ServerStarts
         \/ \E w \in Wrapper : CloseListener(w) \/ AcceptFails(w)
         \/ \E c \in Conn : Send(c) \/ HangUp(c)
  PROVE  IInv'
<1> USE NoneAssumption
<1>1. /\ loop' \in [Wrapper -> {"accept", "peek", "resolve", "stopped"}]
      /\ \A w \in Wrapper :
           loop'[w] = loop[w] \/ (loop[w] = "accept" /\ loop'[w] = "stopped")
  <2>1. CASE \E w \in Wrapper : AcceptFails(w)
    BY <2>1 DEF IInv, TypeOK, AcceptFails
  <2>2. CASE UNCHANGED loop
    BY <2>2 DEF IInv, TypeOK
  <2> QED
    BY <2>1, <2>2 DEF ServerStarts, CloseListener, Send, HangUp, loopVars
<1>2. UNCHANGED <<routes, custom, hasServer, provisioned, resolver, table, backlog, current,
                  at, sni, valid, readVars, fate, endpoint>>
  BY DEF ServerStarts, CloseListener, AcceptFails, Send, HangUp, setupVars, loopVars,
         peerVars
<1>3. TypeOK'
  <2>1. closed' \subseteq Wrapper /\ running' \in BOOLEAN
    BY DEF IInv, TypeOK, ServerStarts, CloseListener, AcceptFails, Send, HangUp,
           setupVars, loopVars
  <2>2. hungUp' \in [Conn -> BOOLEAN]
    BY DEF IInv, TypeOK, ServerStarts, CloseListener, AcceptFails, Send, HangUp, peerVars
  <2>3. sent' \in [Conn -> 0 .. MaxChunk]
    <3>1. CASE \E c \in Conn : Send(c)
      BY <3>1, ChunkAssumption DEF IInv, TypeOK, Send
    <3>2. CASE UNCHANGED sent
      BY <3>2 DEF IInv, TypeOK
    <3> QED
      BY <3>1, <3>2 DEF ServerStarts, CloseListener, AcceptFails, HangUp, peerVars
  <2> QED
    BY <1>1, <1>2, <2>1, <2>2, <2>3 DEF IInv, TypeOK, readVars
<1>4. Types' /\ Arrival' /\ Fated' /\ Installed' /\ Buffered'
  <2>1. Types' /\ Arrival' /\ Installed'
    BY <1>2 DEF IInv, Types, Arrival, Installed, Serving
  <2>2. ASSUME NEW d \in Conn
        PROVE  /\ sent'[d] \in Nat /\ sent'[d] >= sent[d]
               /\ hungUp[d] => hungUp'[d] /\ sent'[d] = sent[d]
    <3>1. sent[d] \in Nat
      BY ChunkAssumption DEF IInv, TypeOK
    <3>2. CASE \E c \in Conn : Send(c)
      BY <3>1, <3>2 DEF IInv, TypeOK, Send
    <3>3. CASE \E c \in Conn : HangUp(c)
      BY <3>1, <3>3 DEF IInv, TypeOK, HangUp
    <3>4. CASE UNCHANGED <<sent, hungUp>>
      BY <3>1, <3>4
    <3> QED
      BY <3>2, <3>3, <3>4 DEF ServerStarts, CloseListener, AcceptFails, peerVars
  <2>3. Fated'
    BY <1>2, <2>2 DEF IInv, Fated, readVars
  <2>4. Buffered'
    BY <1>2, <2>2, BufferStays DEF IInv
  <2> QED
    BY <2>1, <2>3, <2>4
<1>5. Place'
  <2>1. Working /\ Waiting
    BY DEF IInv, Place
  <2>2. Working'
    BY <1>1, <1>2, <2>1 DEF Working, Parsed, readVars
  <2>3. Waiting'
    BY <1>2, <2>1 DEF Waiting
  <2> QED
    BY <2>2, <2>3 DEF Place
<1>6. RoutedByInstalled'
  BY <1>2 DEF IInv, RoutedByInstalled, RoutesOf, Parsed, readVars
<1> QED
  BY <1>3, <1>4, <1>5, <1>6 DEF IInv

\* The goroutine of a connection that the loop let go of.
LEMMA ProxiesIInv ==
  ASSUME IInv, NEW c \in Conn, Proxies(c)
  PROVE  IInv'
<1> USE NoneAssumption DEF setupVars, loopVars, peerVars, readVars
<1>1. /\ fate' \in [Conn -> SUBSET Fates]
      /\ fate'[c] \in {{"proxied", "refused"}, {"proxied", "finished"}}
      /\ \A d \in Conn : d # c => fate'[d] = fate[d]
  BY DEF IInv, TypeOK, Proxies, Fates
<1>2. TypeOK'
  BY <1>1 DEF IInv, TypeOK, Proxies
<1>3. Types' /\ Installed'
  BY DEF IInv, Types, Installed, Proxies
<1>4. fate[c] # {} /\ at[c] # None
  BY DEF IInv, Arrival, Proxies
<1>5. Place'
  <2>1. ASSUME NEW w \in Wrapper, NEW i \in 1 .. Len(backlog[w])
        PROVE  backlog[w][i] \in Conn /\ backlog[w][i] # c
    <3>1. backlog[w] \in Seq(Conn)
      BY DEF IInv, TypeOK
    <3>2. fate[backlog[w][i]] = {}
      BY DEF IInv, Place, Waiting
    <3> QED
      BY <1>4, <3>1, <3>2
  <2>2. \A w \in Wrapper : current[w] # None => current[w] \in Conn /\ current[w] # c
    BY <1>4 DEF IInv, TypeOK, Place, Working, Waiting
  <2> QED
    BY <1>1, <2>1, <2>2 DEF IInv, Place, Working, Waiting, Proxies, Parsed
<1>6. Arrival' /\ Fated' /\ Buffered'
  BY <1>1, <1>4 DEF IInv, Arrival, Fated, Buffered, Proxies, Serving
<1>7. RoutedByInstalled'
  <2>1. /\ fate[c] = {"proxied"} /\ "caddy" \notin fate'[c]
    BY <1>1 DEF Proxies
  <2> QED
    BY <1>1, <2>1 DEF IInv, RoutedByInstalled, RoutesOf, Parsed, Proxies
<1> QED
  BY <1>2, <1>3, <1>5, <1>6, <1>7 DEF IInv

LEMMA ConnectIInv ==
  ASSUME IInv, NEW c \in Conn, NEW w \in Wrapper, Connect(c, w)
  PROVE  IInv'
<1> USE NoneAssumption DEF setupVars, readVars
<1>1. /\ at[c] = None /\ fate[c] = {} /\ Serving
      /\ at' \in [Conn -> Wrapper \cup {None}] /\ at'[c] = w
      /\ \A d \in Conn : d # c => at'[d] = at[d] /\ sni'[d] = sni[d] /\ valid'[d] = valid[d]
  BY DEF IInv, TypeOK, Arrival, Connect
<1>2. /\ backlog[w] \in Seq(Conn)
      /\ backlog' = [backlog EXCEPT ![w] = Append(@, c)]
      /\ backlog'[w] = Append(backlog[w], c)
      /\ \A v \in Wrapper : v # w => backlog'[v] = backlog[v]
  BY DEF IInv, TypeOK, Connect
<1>3. Append(backlog[w], c) \in Seq(Conn)
  BY <1>2
<1>4. TypeOK'
  <2>1. backlog' \in [Wrapper -> Seq(Conn)]
    BY <1>2, <1>3 DEF IInv, TypeOK
  <2>2. sni' \in [Conn -> Name \cup {None}] /\ valid' \in [Conn -> BOOLEAN]
    BY DEF IInv, TypeOK, Connect
  <2> QED
    BY <1>1, <2>1, <2>2 DEF IInv, TypeOK, Connect
<1>5. Types'
  <2>1. PICK n \in Name \cup {None} :
          /\ sni' = [sni EXCEPT ![c] = n]
          /\ valid' = [valid EXCEPT ![c] = n # None /\ (n # <<>> => Last(n) # ".")]
    BY DEF Connect
  <2>2. sni'[c] = n /\ (valid'[c] = (n # None /\ (n # <<>> => Last(n) # ".")))
    BY <2>1 DEF IInv, TypeOK
  <2>3. ASSUME NEW d \in Conn, valid'[d]
        PROVE  sni'[d] \in Name /\ (sni'[d] # <<>> => Last(sni'[d]) # ".")
    <3>1. CASE d = c
      BY <2>2, <2>3, <3>1
    <3>2. CASE d # c
      BY <1>1, <2>3, <3>2 DEF IInv, Types
    <3> QED
      BY <3>1, <3>2
  <2>4. UNCHANGED endpoint
    BY DEF Connect
  <2> QED
    BY <2>3, <2>4 DEF IInv, Types
<1>6. Place'
  <2>1. \A v \in Wrapper : current[v] # None => current[v] \in Conn /\ current[v] # c
    BY <1>1 DEF IInv, TypeOK, Place, Working, Waiting
  <2>2. ASSUME NEW v \in Wrapper, NEW i \in 1 .. Len(backlog[v])
        PROVE  backlog[v][i] \in Conn /\ backlog[v][i] # c
    <3>1. backlog[v] \in Seq(Conn)
      BY DEF IInv, TypeOK
    <3> QED
      BY <1>1, <3>1 DEF IInv, Place, Working, Waiting
  <2>3. ASSUME NEW v \in Wrapper
        PROVE  /\ loop[v] \in {"peek", "resolve"} <=> current[v] # None
               /\ loop[v] = "resolve" => Parsed(current[v])'
               /\ current[v] # None => at'[current[v]] = v /\ fate[current[v]] = {}
    BY <1>1, <2>1 DEF IInv, TypeOK, Place, Working, Waiting, Parsed, Connect
  <2>4. ASSUME NEW v \in Wrapper, NEW i \in 1 .. Len(backlog'[v])
        PROVE  /\ at'[backlog'[v][i]] = v /\ fate[backlog'[v][i]] = {}
               /\ backlog'[v][i] # current[v]
               /\ \A j \in 1 .. Len(backlog'[v]) : backlog'[v][j] = backlog'[v][i] => j = i
    <3>1. CASE v # w
      <4>1. backlog'[v] = backlog[v]
        BY <1>2, <3>1
      <4>2. i \in 1 .. Len(backlog[v]) /\ Waiting
        BY <4>1 DEF IInv, Place
      <4>3. at[backlog[v][i]] = v /\ fate[backlog[v][i]] = {} /\ backlog[v][i] # current[v]
            /\ \A j \in 1 .. Len(backlog[v]) : backlog[v][j] = backlog[v][i] => j = i
        BY <4>2 DEF Waiting
      <4>4. at'[backlog[v][i]] = at[backlog[v][i]]
        BY <1>1, <2>2, <4>2
      <4> QED
        BY <4>1, <4>3, <4>4
    <3>2. CASE v = w
      <4>1. /\ Len(backlog'[w]) = Len(backlog[w]) + 1 /\ Len(backlog[w]) \in Nat
            /\ backlog'[w][Len(backlog[w]) + 1] = c
            /\ \A j \in 1 .. Len(backlog[w]) : backlog'[w][j] = backlog[w][j]
        BY <1>2
      <4>2. CASE i = Len(backlog[w]) + 1
        <5>1. at'[c] = w /\ fate[c] = {} /\ current[w] # c
          BY <1>1, <2>1
        <5>2. ASSUME NEW j \in 1 .. Len(backlog'[w]), backlog'[w][j] = c
              PROVE  j = Len(backlog[w]) + 1
          <6>1. j \notin 1 .. Len(backlog[w])
            BY <2>2, <4>1, <5>2
          <6> QED
            BY <4>1, <6>1
        <5>3. backlog'[v][i] = c
          BY <3>2, <4>1, <4>2
        <5>4. ASSUME NEW j \in 1 .. Len(backlog'[v]), backlog'[v][j] = backlog'[v][i]
              PROVE  j = i
          <6>1. j \in 1 .. Len(backlog'[w]) /\ backlog'[w][j] = c
            BY <3>2, <5>3, <5>4
          <6> QED
            BY <4>2, <5>2, <6>1
        <5>5. at'[backlog'[v][i]] = v /\ fate[backlog'[v][i]] = {}
              /\ backlog'[v][i] # current[v]
          BY <3>2, <5>1, <5>3
        <5> QED
          BY <5>4, <5>5
      <4>3. CASE i \in 1 .. Len(backlog[w])
        <5>1. LET b == backlog[w][i] IN
              /\ at[b] = w /\ fate[b] = {} /\ b # current[w]
              /\ \A j \in 1 .. Len(backlog[w]) : backlog[w][j] = b => j = i
          BY <4>3 DEF IInv, Place, Working, Waiting
        <5>2. backlog'[v][i] = backlog[w][i] /\ backlog[w][i] # c
          BY <2>2, <3>2, <4>1, <4>3
        <5>3. at'[backlog[w][i]] = w
          BY <1>1, <2>2, <4>3, <5>1
        <5>4. ASSUME NEW j \in 1 .. Len(backlog'[v]), backlog'[v][j] = backlog'[v][i]
              PROVE  j = i
          <6>1. j \in 1 .. Len(backlog'[w]) /\ backlog'[w][j] = backlog[w][i]
            BY <3>2, <5>2, <5>4
          <6>2. j \in 1 .. Len(backlog[w])
            BY <4>1, <5>2, <6>1
          <6> QED
            BY <4>1, <5>1, <6>1, <6>2
        <5>5. at'[backlog'[v][i]] = v /\ fate[backlog'[v][i]] = {}
              /\ backlog'[v][i] # current[v]
          BY <3>2, <5>1, <5>2, <5>3
        <5> QED
          BY <5>4, <5>5
      <4>4. i = Len(backlog[w]) + 1 \/ i \in 1 .. Len(backlog[w])
        BY <3>2, <4>1
      <4> QED
        BY <4>2, <4>3, <4>4
    <3> QED
      BY <3>1, <3>2
  <2>5. Working'
    BY <2>3 DEF Working, Connect
  <2>6. Waiting'
    <3>1. UNCHANGED <<current, fate>>
      BY DEF Connect
    <3> QED
      BY <2>4, <3>1 DEF Waiting
  <2> QED
    BY <2>5, <2>6 DEF Place
<1>7. Arrival' /\ Fated' /\ Installed' /\ Buffered'
  BY <1>1 DEF IInv, Arrival, Fated, Installed, Buffered, Connect, Serving
<1>8. RoutedByInstalled'
  BY <1>1 DEF IInv, RoutedByInstalled, RoutesOf, Parsed, Connect
<1> QED
  BY <1>4, <1>5, <1>6, <1>7, <1>8 DEF IInv

LEMMA AcceptsIInv ==
  ASSUME IInv, NEW w \in Wrapper, Accepts(w)
  PROVE  IInv'
<1> USE NoneAssumption DEF setupVars, peerVars, readVars
<1>1. /\ backlog[w] \in Seq(Conn) /\ backlog[w] # <<>> /\ Len(backlog[w]) \in Nat \ {0}
      /\ Tail(backlog[w]) \in Seq(Conn) /\ Len(Tail(backlog[w])) = Len(backlog[w]) - 1
      /\ \A i \in 1 .. Len(backlog[w]) - 1 : Tail(backlog[w])[i] = backlog[w][i + 1]
      /\ Head(backlog[w]) = backlog[w][1]
  BY DEF IInv, TypeOK, Accepts
<1> DEFINE c == backlog[w][1]
<1>2. /\ c \in Conn /\ at[c] = w /\ fate[c] = {}
      /\ \A j \in 1 .. Len(backlog[w]) : backlog[w][j] = c => j = 1
  BY <1>1 DEF IInv, Place, Working, Waiting
<1>3. /\ loop'[w] = "peek" /\ current'[w] = c /\ backlog'[w] = Tail(backlog[w])
      /\ \A v \in Wrapper : v # w =>
           loop'[v] = loop[v] /\ current'[v] = current[v] /\ backlog'[v] = backlog[v]
  BY <1>1 DEF IInv, TypeOK, Accepts
<1>4. TypeOK'
  <2>1. loop' \in [Wrapper -> {"accept", "peek", "resolve", "stopped"}]
    BY DEF IInv, TypeOK, Accepts
  <2>2. current' \in [Wrapper -> Conn \cup {None}] /\ backlog' \in [Wrapper -> Seq(Conn)]
    BY <1>1, <1>2 DEF IInv, TypeOK, Accepts
  <2> QED
    BY <2>1, <2>2 DEF IInv, TypeOK, Accepts
<1>5. Types' /\ Arrival' /\ Fated' /\ Installed' /\ Buffered'
  BY DEF IInv, Types, Arrival, Fated, Installed, Buffered, Accepts, Serving
<1>6. Place'
  <2>1. ASSUME NEW v \in Wrapper
        PROVE  /\ loop'[v] \in {"peek", "resolve"} <=> current'[v] # None
               /\ loop'[v] = "resolve" => Parsed(current[v]) /\ current'[v] = current[v]
               /\ current'[v] # None => at[current'[v]] = v /\ fate[current'[v]] = {}
    BY <1>2, <1>3 DEF IInv, Place, Working, Waiting
  <2>2. ASSUME NEW v \in Wrapper, NEW i \in 1 .. Len(backlog'[v])
        PROVE  /\ at[backlog'[v][i]] = v /\ fate[backlog'[v][i]] = {}
               /\ backlog'[v][i] # current'[v]
               /\ \A j \in 1 .. Len(backlog'[v]) : backlog'[v][j] = backlog'[v][i] => j = i
    <3>1. CASE v # w
      <4>1. backlog'[v] = backlog[v] /\ current'[v] = current[v]
        BY <1>3, <3>1
      <4>2. i \in 1 .. Len(backlog[v]) /\ Waiting
        BY <4>1 DEF IInv, Place
      <4> HIDE DEF IInv, Place
      <4> QED
        BY <4>1, <4>2 DEF Waiting
    <3>2. CASE v = w
      <4>1. /\ Len(backlog'[w]) = Len(backlog[w]) - 1
            /\ \A j \in 1 .. Len(backlog'[w]) :
                 j + 1 \in 1 .. Len(backlog[w]) /\ backlog'[w][j] = backlog[w][j + 1]
        BY <1>1, <1>3
      <4>2. LET b == backlog[w][i + 1] IN
            /\ at[b] = w /\ fate[b] = {}
            /\ \A j \in 1 .. Len(backlog[w]) : backlog[w][j] = b => j = i + 1
        BY <3>2, <4>1 DEF IInv, Place, Working, Waiting
      <4>3. backlog[w][i + 1] # c
        BY <1>2, <3>2, <4>1
      <4>4. ASSUME NEW j \in 1 .. Len(backlog'[w]), backlog'[w][j] = backlog'[w][i]
            PROVE  j = i
        <5>1. j + 1 \in 1 .. Len(backlog[w]) /\ backlog[w][j + 1] = backlog[w][i + 1]
          BY <3>2, <4>1, <4>4
        <5>2. j + 1 = i + 1
          BY <4>2, <5>1
        <5> QED
          BY <1>1, <3>2, <4>1, <5>2
      <4>5. backlog'[w][i] = backlog[w][i + 1]
        BY <3>2, <4>1
      <4> QED
        BY <1>3, <3>2, <4>2, <4>3, <4>4, <4>5
    <3> QED
      BY <3>1, <3>2
  <2>3. Working'
    BY <2>1 DEF Working, Accepts, Parsed
  <2>4. Waiting'
    <3>1. UNCHANGED <<at, fate>>
      BY <1>3 DEF Accepts
    <3> QED
      BY <2>2, <3>1 DEF Waiting
  <2> QED
    BY <2>3, <2>4 DEF Place
<1>7. RoutedByInstalled'
  BY DEF IInv, RoutedByInstalled, RoutesOf, Parsed, Accepts
<1> QED
  BY <1>4, <1>5, <1>6, <1>7 DEF IInv

\* The peek keeps what it reads, and nothing was done with the connection yet.
LEMMA PeekIInv ==
  ASSUME IInv, NEW w \in Wrapper, PeekReads(w) \/ PeekParses(w)
  PROVE  IInv'
<1> USE NoneAssumption, ChunkAssumption DEF setupVars, peerVars
<1> DEFINE c == current[w]
<1>1. c \in Conn /\ at[c] = w /\ fate[c] = {} /\ loop[w] = "peek"
  <2>1. loop[w] = "peek"
    BY DEF PeekReads, PeekParses
  <2>2. c # None
    BY <2>1 DEF IInv, Place, Working
  <2>3. c \in Conn
    BY <2>2 DEF IInv, TypeOK
  <2> QED
    BY <2>1, <2>2, <2>3 DEF IInv, Place, Working
<1>2. CASE PeekReads(w)
  <2> USE <1>2 DEF PeekReads, loopVars
  <2>1. PICK n \in taken[c] + 1 .. sent[c] :
          /\ taken' = [taken EXCEPT ![c] = n]
          /\ replay' = [replay EXCEPT ![c] = @ \o Chunks(taken[c], n)]
    OBVIOUS
  <2>2. /\ taken[c] \in Nat /\ n \in Nat /\ n \in 0 .. MaxChunk /\ sent[c] <= MaxChunk
        /\ n > taken[c] /\ n <= sent[c]
    BY <1>1, <2>1 DEF IInv, TypeOK
  <2> DEFINE all == replay[c] \o Chunks(taken[c], n)
  <2>3. InOrder(got[c], all, n)
    <3>1. InOrder(got[c], replay[c], taken[c])
      BY <1>1 DEF IInv, Buffered
    <3> QED
      BY <2>2, <3>1, PeekInOrder
  <2>4. all \in Seq(Nat)
    BY <2>3 DEF InOrder
  <2> HIDE DEF all
  <2>5. taken' = [taken EXCEPT ![c] = n] /\ replay' = [replay EXCEPT ![c] = all]
    BY <2>1 DEF all
  <2>6. /\ taken'[c] = n /\ replay'[c] = all
        /\ \A d \in Conn : d # c => taken'[d] = taken[d] /\ replay'[d] = replay[d]
    BY <1>1, <2>5 DEF IInv, TypeOK
  <2>7. TypeOK'
    <3>1. taken' \in [Conn -> 0 .. MaxChunk] /\ replay' \in [Conn -> Seq(Nat)]
      BY <2>2, <2>4, <2>5 DEF IInv, TypeOK
    <3> QED
      BY <3>1 DEF IInv, TypeOK
  <2>8. Types' /\ Arrival' /\ Fated' /\ Installed'
    <3>1. Types' /\ Arrival' /\ Installed'
      BY DEF IInv, Types, Arrival, Installed, Serving
    <3>2. Fated'
      BY <1>1, <2>6 DEF IInv, Fated
    <3> QED
      BY <3>1, <3>2
  <2>9. Buffered'
    <3>1. UNCHANGED <<got, sent>>
      OBVIOUS
    <3>2. ASSUME NEW d \in Conn
          PROVE  taken'[d] <= sent[d] /\ InOrder(got[d], replay'[d], taken'[d])
      <4>1. CASE d = c
        BY <2>2, <2>3, <2>6, <4>1
      <4>2. CASE d # c
        BY <2>6, <4>2 DEF IInv, Buffered
      <4> QED
        BY <4>1, <4>2
    <3> QED
      BY <3>1, <3>2 DEF Buffered
  <2>10. \A d \in Conn : d # c => Parsed(d)' = Parsed(d)
    BY <1>1, <2>6 DEF IInv, TypeOK, Parsed
  <2>11. Place'
    <3>1. \A v \in Wrapper : loop[v] = "resolve" => current[v] \in Conn /\ current[v] # c
      BY <1>1 DEF IInv, TypeOK, Place, Working, Waiting
    <3> QED
      BY <2>10, <3>1 DEF IInv, Place, Working, Waiting
  <2>12. RoutedByInstalled'
    BY <1>1, <2>10 DEF IInv, RoutedByInstalled, RoutesOf
  <2> QED
    BY <2>7, <2>8, <2>9, <2>11, <2>12 DEF IInv
<1>3. CASE PeekParses(w)
  <2>1. /\ loop' = [loop EXCEPT ![w] = "resolve"] /\ Parsed(c)
        /\ UNCHANGED <<setupVars, backlog, closed, current, peerVars, readVars, fate,
                       endpoint>>
    BY <1>3 DEF PeekParses, Parsed
  <2> USE DEF readVars
  <2>2. TypeOK'
    BY <2>1 DEF IInv, TypeOK
  <2>3. Types' /\ Arrival' /\ Fated' /\ Installed' /\ Buffered'
    BY <2>1 DEF IInv, Types, Arrival, Fated, Installed, Buffered, Serving
  <2>4. Place'
    <3>1. /\ loop'[w] = "resolve" /\ current[w] # None
          /\ \A v \in Wrapper : v # w => loop'[v] = loop[v]
      BY <1>1, <2>1 DEF IInv, TypeOK, Place, Working
    <3>2. Working'
      BY <2>1, <3>1 DEF IInv, Place, Working, Parsed
    <3>3. Waiting'
      BY <2>1 DEF IInv, Place, Waiting
    <3> QED
      BY <3>2, <3>3 DEF Place
  <2>5. RoutedByInstalled'
    BY <2>1 DEF IInv, RoutedByInstalled, RoutesOf, Parsed
  <2> QED
    BY <2>2, <2>3, <2>4, <2>5 DEF IInv
<1> QED
  BY <1>2, <1>3

\* The owner's read takes the next chunk, wherever that is, and changes nothing
\* that was decided.
LEMMA OwnerReadsIInv ==
  ASSUME IInv, NEW c \in Conn, OwnerReads(c)
  PROVE  IInv'
<1> USE NoneAssumption DEF setupVars, loopVars, peerVars
<1>1. /\ fate[c] # {}
      /\ UNCHANGED <<setupVars, loopVars, peerVars, fate, endpoint>>
  BY DEF OwnerReads, Owned
<1>2. taken[c] \in Nat /\ sent[c] \in Nat /\ sent[c] <= MaxChunk /\ MaxChunk \in Nat
  BY ChunkAssumption DEF IInv, TypeOK
<1>3. taken[c] <= sent[c] /\ InOrder(got[c], replay[c], taken[c])
  BY DEF IInv, Buffered
<1> DEFINE Reads(g, rest, n) ==
             /\ got' = [got EXCEPT ![c] = g] /\ replay' = [replay EXCEPT ![c] = rest]
             /\ taken' = [taken EXCEPT ![c] = n] /\ InOrder(g, rest, n)
             /\ n \in Nat /\ n <= sent[c] /\ n >= taken[c]
             /\ taken[c] = sent[c] => n = taken[c]
<1>4. \E g, rest, n : Reads(g, rest, n)
  <2>1. CASE replay[c] # <<>>
    <3> DEFINE g == Append(got[c], Head(replay[c]))
    <3>1. InOrder(g, Tail(replay[c]), taken[c])
      BY <1>2, <1>3, <2>1, BufferInOrder
    <3>2. /\ got' = [got EXCEPT ![c] = g]
          /\ replay' = [replay EXCEPT ![c] = Tail(replay[c])]
          /\ taken' = [taken EXCEPT ![c] = taken[c]]
      BY <2>1 DEF OwnerReads, IInv, TypeOK
    <3> HIDE DEF g
    <3>3. Reads(g, Tail(replay[c]), taken[c])
      BY <1>2, <1>3, <3>1, <3>2
    <3> HIDE DEF Reads
    <3> QED
      BY <3>3
  <2>2. CASE replay[c] = <<>>
    <3> DEFINE g == Append(got[c], taken[c] + 1)
    <3>1. InOrder(g, <<>>, taken[c] + 1)
      BY <1>2, <1>3, <2>2, SocketInOrder
    <3>2. /\ taken[c] < sent[c] /\ got' = [got EXCEPT ![c] = g]
          /\ replay' = [replay EXCEPT ![c] = <<>>]
          /\ taken' = [taken EXCEPT ![c] = taken[c] + 1]
      BY <2>2 DEF OwnerReads, IInv, TypeOK
    <3> HIDE DEF g
    <3>3. Reads(g, <<>>, taken[c] + 1)
      BY <1>2, <3>1, <3>2
    <3> HIDE DEF Reads
    <3> QED
      BY <3>3
  <2> QED
    BY <2>1, <2>2
<1>5. PICK g, rest, n : Reads(g, rest, n)
  BY <1>4
<1>6. /\ got'[c] = g /\ replay'[c] = rest /\ taken'[c] = n
      /\ \A d \in Conn : d # c =>
           taken'[d] = taken[d] /\ replay'[d] = replay[d] /\ got'[d] = got[d]
  BY <1>5 DEF IInv, TypeOK
<1>7. g \in Seq(Nat) /\ rest \in Seq(Nat) /\ n \in 0 .. MaxChunk
  BY <1>2, <1>5 DEF InOrder
<1>8. TypeOK'
  <2>1. /\ taken' \in [Conn -> 0 .. MaxChunk]
        /\ replay' \in [Conn -> Seq(Nat)] /\ got' \in [Conn -> Seq(Nat)]
    BY <1>5, <1>7 DEF IInv, TypeOK
  <2> QED
    BY <1>1, <2>1 DEF IInv, TypeOK
<1>9. Buffered'
  <2>1. UNCHANGED sent
    BY <1>1
  <2>2. ASSUME NEW d \in Conn
        PROVE  taken'[d] <= sent[d] /\ InOrder(got'[d], replay'[d], taken'[d])
    <3>1. CASE d = c
      BY <1>5, <1>6, <3>1
    <3>2. CASE d # c
      BY <1>6, <3>2 DEF IInv, Buffered
    <3> QED
      BY <3>1, <3>2
  <2> QED
    BY <2>1, <2>2 DEF Buffered
<1>10. ASSUME NEW d \in Conn
       PROVE  /\ Parsed(d) => Parsed(d)'
              /\ fate[d] # {} /\ Parsed(d)' => Parsed(d)
  <2>1. UNCHANGED valid /\ HelloLen \in Nat
    BY <1>1, ChunkAssumption
  <2>2. CASE d = c
    BY <1>1, <1>2, <1>5, <1>6, <2>1, <2>2 DEF IInv, Fated, Parsed
  <2>3. CASE d # c
    BY <1>6, <2>1, <2>3 DEF Parsed
  <2> QED
    BY <2>2, <2>3
<1>11. Types' /\ Arrival' /\ Installed'
  BY <1>1 DEF IInv, Types, Arrival, Installed, Serving
<1>12. Fated'
  <2>1. UNCHANGED <<fate, valid, hungUp, sent>> /\ HelloLen \in Nat
    BY <1>1, ChunkAssumption
  <2>2. ASSUME NEW d \in Conn, fate[d] # {}, valid[d]
        PROVE  taken'[d] >= HelloLen \/ (hungUp[d] /\ taken'[d] = sent[d])
    <3>1. taken[d] >= HelloLen \/ (hungUp[d] /\ taken[d] = sent[d])
      BY <2>2 DEF IInv, Fated
    <3>2. CASE d = c
      BY <1>2, <1>5, <1>6, <2>1, <3>1, <3>2
    <3>3. CASE d # c
      BY <1>6, <3>1, <3>3
    <3> QED
      BY <3>2, <3>3
  <2> QED
    BY <2>1, <2>2 DEF IInv, Fated
<1>13. Place'
  <2>1. UNCHANGED <<loop, current, at, fate, backlog>>
    BY <1>1
  <2>2. Working'
    <3>1. \A w \in Wrapper : loop[w] = "resolve" => Parsed(current[w])'
      <4>1. ASSUME NEW w \in Wrapper, loop[w] = "resolve" PROVE Parsed(current[w])'
        <5>1. current[w] \in Conn /\ Parsed(current[w])
          BY <4>1 DEF IInv, TypeOK, Place, Working
        <5> QED
          BY <1>10, <2>1, <5>1
      <4> QED
        BY <4>1
    <3> QED
      BY <2>1, <3>1 DEF IInv, Place, Working
  <2>3. Waiting'
    BY <2>1 DEF IInv, Place, Waiting
  <2> QED
    BY <2>2, <2>3 DEF Place
<1>14. RoutedByInstalled'
  <2>1. UNCHANGED <<resolver, custom, hasServer, fate, sni, routes, endpoint>>
    BY <1>1
  <2>2. ASSUME NEW d \in Conn, fate[d] # {}, Parsed(d)' PROVE Parsed(d)
    BY <1>10, <2>2
  <2> QED
    BY <2>1, <2>2 DEF IInv, RoutedByInstalled, RoutesOf
<1> QED
  BY <1>8, <1>9, <1>11, <1>12, <1>13, <1>14 DEF IInv

LEMMA StepIInv == IInv /\ [Next]_vars => IInv'
<1> SUFFICES ASSUME IInv, [Next]_vars PROVE IInv'
  OBVIOUS
<1>1. CASE \E w \in Wrapper : Provision(w)
  BY <1>1, ProvisionIInv
<1>2. CASE \/ ServerStarts
           \/ \E w \in Wrapper : CloseListener(w) \/ AcceptFails(w)
           \/ \E c \in Conn : Send(c) \/ HangUp(c)
  BY <1>2, AroundIInv
<1>3. CASE \E c \in Conn : Proxies(c)
  BY <1>3, ProxiesIInv
<1>4. CASE \E c \in Conn, w \in Wrapper : Connect(c, w)
  BY <1>4, ConnectIInv
<1>5. CASE \E w \in Wrapper : Accepts(w)
  BY <1>5, AcceptsIInv
<1>6. CASE \E w \in Wrapper : PeekReads(w) \/ PeekParses(w)
  BY <1>6, PeekIInv
<1>7. CASE \E w \in Wrapper :
             \/ PeekFails(w) \/ NoServer(w)
             \/ ResolvesBadly(w) \/ ResolvesToCaddy(w) \/ ResolvesToEndpoint(w)
  BY <1>7, DecideIInv
<1>8. CASE \E c \in Conn : OwnerReads(c)
  BY <1>8, OwnerReadsIInv
<1>9. CASE UNCHANGED vars
  <2> USE <1>9 DEF vars
  <2>1. TypeOK'
    BY DEF IInv, TypeOK
  <2>2. Types' /\ Arrival' /\ Fated' /\ Installed' /\ Buffered'
    BY DEF IInv, Types, Arrival, Fated, Installed, Buffered, Serving
  <2>3. Place'
    BY DEF IInv, Place, Working, Waiting, Parsed
  <2>4. RoutedByInstalled'
    BY DEF IInv, RoutedByInstalled, RoutesOf, Parsed
  <2> QED
    BY <2>1, <2>2, <2>3, <2>4 DEF IInv
<1> QED
  BY <1>1, <1>2, <1>3, <1>4, <1>5, <1>6, <1>7, <1>8, <1>9 DEF Next, Handles

THEOREM Invariance == Spec => []IInv
  BY InitIInv, StepIInv, PTL DEF Spec

-----------------------------------------------------------------------------
\* Every variable keeps its type, the server has a table just when routes were
\* installed last, and nothing is proxied to a blank endpoint key.
THEOREM TypeCorrectness == Spec => []TypeOK
<1>1. IInv => TypeOK
  BY DEF IInv
<1> QED
  BY <1>1, Invariance, PTL

\* However the accepts, peeks and resolutions of the listeners interleave, no
\* connection is both returned to Caddy and closed or proxied by Accept, and
\* nothing is done with one that waits or is being peeked at.
THEOREM ConnectionHasOneOwner == Spec => []OneOwner
<1>1. ASSUME IInv PROVE OneOwner
  <2>1. ASSUME NEW c \in Conn, NEW w \in Wrapper, current[w] = c \/ Contains(backlog[w], c)
        PROVE  fate[c] = {}
    <3>1. CASE current[w] = c
      BY <1>1, <3>1, NoneAssumption DEF IInv, Place, Working
    <3>2. CASE Contains(backlog[w], c)
      BY <1>1, <3>2 DEF IInv, Place, Waiting, Contains
    <3> QED
      BY <2>1, <3>1, <3>2
  <2> QED
    BY <1>1, <2>1 DEF IInv, Fated, OneOwner
<1> QED
  BY <1>1, Invariance, PTL

\* For hellos and streams of any length, in however many reads the peek took them
\* and the owner reads them: the owner reads what the peer sent, in its order and
\* nothing twice, and all of it by the end of the stream.
THEOREM ReplayIsComplete == Spec => []ReplayComplete
<1>1. ASSUME IInv PROVE ReplayComplete
  <2>1. ASSUME NEW c \in Conn
        PROVE  /\ \A i \in DOMAIN got[c] : got[c][i] = i
               /\ EndOfStream(c) => Len(got[c]) = sent[c]
    <3>1. /\ got[c] \in Seq(Nat) /\ Len(got[c]) + Len(replay[c]) = taken[c]
          /\ \A i \in 1 .. Len(got[c]) : got[c][i] = i
      BY <1>1 DEF IInv, Buffered, InOrder
    <3>2. DOMAIN got[c] = 1 .. Len(got[c]) /\ Len(got[c]) \in Nat /\ Len(<<>>) = 0
      BY <3>1
    <3>3. replay[c] = <<>> => Len(got[c]) = taken[c]
      BY <3>1, <3>2
    <3> QED
      BY <3>1, <3>2, <3>3 DEF EndOfStream
  <2> QED
    BY <2>1 DEF ReplayComplete
<1> QED
  BY <1>1, Invariance, PTL

\* For any routes, however they and the names in the hellos are spelled: a
\* connection goes where the route of its name says, and to Caddy if none does.
THEOREM RoutesAreFollowed == Spec => []RoutedByInstalled
<1>1. IInv => RoutedByInstalled
  BY DEF IInv
<1> QED
  BY <1>1, Invariance, PTL
=============================================================================
