------------------------------- MODULE Listener -------------------------------
(***************************************************************************)
(* The listener wrappers (listener.go), the server's passthrough resolver  *)
(* they share (internal/runtime/server.go) and the ClientHello peek        *)
(* (internal/netutil).                                                     *)
(*                                                                         *)
(* Caddy provisions every wrapper, in any order, before it serves.  Then   *)
(* one loop per wrapped listener accepts connections, peeks at the hello   *)
(* of one at a time, and decides: replay the connection to Caddy, close    *)
(* it, or proxy it to an endpoint in a goroutine of its own.               *)
(*                                                                         *)
(* A connection's bytes are chunks, numbered as the peer sends them.  The  *)
(* peek takes them off the socket and keeps them in a buffer; whoever owns *)
(* the connection then reads from the buffer and from the socket.  A hello *)
(* is complete with its first HelloLen chunks; the peek may read past it.  *)
(* Observations are PassthroughStream's, and not repeated here.            *)
(***************************************************************************)
EXTENDS Routes

CONSTANTS
  Wrapper,   \* the listener wrappers, each on a listener of its own
  Conn,      \* connections
  Name,      \* server names in hellos, <<>> in one without
  Endpoint,  \* what a resolver module may answer for an endpoint key
  RouteSNI,  \* the routes that a wrapper may be configured with
  HelloLen,  \* chunks of a ClientHello
  MaxChunk,  \* bound on the chunks a peer sends
  Talker     \* the connections with more than HelloLen of them (a bound, too)

ASSUME ChunkAssumption == HelloLen \in Nat \ {0} /\ MaxChunk \in Nat
ASSUME TalkerAssumption == Talker \subseteq Conn
ASSUME NoneAssumption == None \notin Wrapper \cup Conn \cup Name
\* A host name in a hello does not end with a blank.
ASSUME NameAssumption ==
  \A n \in Name : n \in Texts /\ (n # <<>> => Last(n) # Blank)
ASSUME RouteAssumption ==
  \A rs \in RouteSNI :
    rs \in Seq([server_name : Texts, endpoint : Texts])

VARIABLES
  routes,       \* the routes each wrapper is configured with, as written
  custom,       \* whether it is configured with a resolver module
  hasServer,    \* whether the bifrost app has a server runtime
  provisioned,  \* the wrappers Provision returned for
  resolver,     \* the wrapper whose resolver s.resolver holds
  table,        \* the route table of that resolver, unless it is a module
  running,      \* whether the server runtime was started (s.server # nil)
  backlog,      \* connections not yet accepted, per listener
  closed,       \* the listeners that were closed
  loop,         \* what the accept loop of each listener does
  current,      \* the connection it does it with
  at, sni, valid,    \* listener, server name, whether the peer sends a hello
  sent, hungUp,      \* chunks the peer sent, whether it sends no more
  taken,        \* chunks read off the socket, by the peek and by the owner
  replay,       \* the chunks in the replay buffer that the owner has not read
  got,          \* the chunks that the owner has read
  fate,         \* everything that was done with a connection
  endpoint      \* the endpoint it was proxied to

setupVars == <<routes, custom, hasServer, provisioned, resolver, table, running>>
loopVars == <<backlog, closed, loop, current>>
peerVars == <<at, sni, valid, sent, hungUp>>
readVars == <<taken, replay, got>>
vars == <<routes, custom, hasServer, provisioned, resolver, table, running,
          backlog, closed, loop, current, at, sni, valid, sent, hungUp, taken, replay, got,
          fate, endpoint>>

Fates == {"caddy", "closed", "proxied", "refused", "finished"}

TypeOK ==
  /\ routes \in [Wrapper -> RouteSNI] /\ custom \in [Wrapper -> BOOLEAN]
  /\ hasServer \in BOOLEAN /\ running \in BOOLEAN
  /\ provisioned \subseteq Wrapper /\ closed \subseteq Wrapper
  /\ resolver \in Wrapper \cup {None}
  /\ (table # None) <=> (resolver # None /\ routes[resolver] # <<>>)
  /\ backlog \in [Wrapper -> Seq(Conn)]
  /\ loop \in [Wrapper -> {"accept", "peek", "resolve", "stopped"}]
  /\ current \in [Wrapper -> Conn \cup {None}]
  /\ at \in [Conn -> Wrapper \cup {None}]
  /\ sni \in [Conn -> Name \cup {None}] /\ valid \in [Conn -> BOOLEAN]
  /\ sent \in [Conn -> 0 .. MaxChunk] /\ hungUp \in [Conn -> BOOLEAN]
  /\ taken \in [Conn -> 0 .. MaxChunk]
  /\ replay \in [Conn -> Seq(Nat)] /\ got \in [Conn -> Seq(Nat)]
  /\ fate \in [Conn -> SUBSET Fates]
  \* No connection is proxied to a blank endpoint key.
  /\ \A c \in Conn : endpoint[c] # None => TrimSpace(endpoint[c]) # <<>>

Init ==
  /\ routes \in [Wrapper -> RouteSNI] /\ custom \in [Wrapper -> BOOLEAN]
  /\ hasServer \in BOOLEAN
  /\ provisioned = {} /\ resolver = None /\ table = None /\ running = FALSE
  /\ backlog = [w \in Wrapper |-> <<>>] /\ closed = {}
  /\ loop = [w \in Wrapper |-> "accept"]
  /\ current = [w \in Wrapper |-> None]
  /\ at = [c \in Conn |-> None]
  /\ sni = [c \in Conn |-> None] /\ valid = [c \in Conn |-> FALSE]
  /\ sent = [c \in Conn |-> 0] /\ hungUp = [c \in Conn |-> FALSE]
  /\ taken = [c \in Conn |-> 0]
  /\ replay = [c \in Conn |-> <<>>] /\ got = [c \in Conn |-> <<>>]
  /\ fate = [c \in Conn |-> {}]
  /\ endpoint = [c \in Conn |-> None]

Serving == provisioned = Wrapper

\* Caddy reads a connection, or the library does, once the server runs.
Owned(c) ==
  \/ fate[c] = {"caddy"}
  \/ fate[c] = {"proxied"} /\ running

-----------------------------------------------------------------------------
(* Faulty variants of the definitions below, which no specification uses:  *)
(* each is a bug the code could have, put in a definition's place to see   *)
(* that a property detects it.                                             *)

\* handleConnection closes the connection and Accept returns it all the same.
LoopDisposesTwice(w, how) ==
  /\ loop' = [loop EXCEPT ![w] = "accept"]
  /\ current' = [current EXCEPT ![w] = None]
  /\ fate' = [fate EXCEPT ![current[w]] =
                @ \cup how \cup (IF "closed" \in how THEN {"caddy"} ELSE {})]

\* The socket is read before what was read off it.
OwnerReadsSocketFirst(c) ==
  /\ Owned(c)
  /\ \/ /\ taken[c] < sent[c]
        /\ got' = [got EXCEPT ![c] = Append(@, taken[c] + 1)]
        /\ taken' = [taken EXCEPT ![c] = @ + 1] /\ UNCHANGED replay
     \/ /\ taken[c] = sent[c] /\ replay[c] # <<>>
        /\ got' = [got EXCEPT ![c] = Append(@, Head(replay[c]))]
        /\ replay' = [replay EXCEPT ![c] = Tail(@)] /\ UNCHANGED taken
  /\ UNCHANGED <<setupVars, loopVars, peerVars, fate, endpoint>>

\* A failed handshake is not a failed peek: the loop waits for more.
PeekFailsInvalid(w) ==
  LET c == current[w] IN
  /\ loop[w] = "peek" /\ hungUp[c] /\ taken[c] = sent[c] /\ taken[c] < HelloLen
  /\ loop' = [loop EXCEPT ![w] = "accept"]
  /\ current' = [current EXCEPT ![w] = None]
  /\ fate' = [fate EXCEPT ![c] = @ \cup {"caddy"}]
  /\ UNCHANGED <<setupVars, backlog, closed, peerVars, readVars, endpoint>>

-----------------------------------------------------------------------------
(* Provisioning                                                            *)

Plain(w) == ~custom[w] /\ routes[w] = <<>>

\* A wrapper with routes or a resolver, not both, installs them in the server it
\* needs, in place of what another wrapper installed; one with neither needs no
\* server.  Routes that make no table fail the configuration.
Provision(w) ==
  /\ w \notin provisioned
  /\ table' = IF Plain(w) THEN table
              ELSE IF custom[w] THEN None ELSE NewRouteTable(routes[w])
  /\ routes[w] # <<>> => ~custom[w] /\ table' # None
  /\ ~Plain(w) => hasServer
  /\ provisioned' = provisioned \cup {w}
  /\ resolver' = IF Plain(w) THEN resolver ELSE w
  /\ UNCHANGED <<routes, custom, hasServer, running, loopVars, peerVars, readVars,
                 fate, endpoint>>

\* App.Start of the bifrost app, before or after the listeners serve.
ServerStarts ==
  /\ hasServer /\ Serving /\ ~running
  /\ running' = TRUE
  /\ UNCHANGED <<routes, custom, hasServer, provisioned, resolver, table, loopVars, peerVars,
                 readVars, fate, endpoint>>

-----------------------------------------------------------------------------
(* Peers and Caddy                                                         *)

\* The peer sends a hello or something else; a name with a final dot makes the
\* hello invalid.
Connect(c, w) ==
  /\ Serving /\ at[c] = None /\ w \notin closed
  /\ at' = [at EXCEPT ![c] = w]
  /\ \E n \in Name \cup {None} :
       /\ sni' = [sni EXCEPT ![c] = n]
       /\ valid' = [valid EXCEPT ![c] = n # None /\ (n # <<>> => Last(n) # ".")]
  /\ backlog' = [backlog EXCEPT ![w] = Append(@, c)]
  /\ UNCHANGED <<setupVars, closed, loop, current, sent, hungUp, readVars, fate, endpoint>>

\* What a peer does is followed while somebody may read it.
Followed(c) == at[c] # None /\ fate[c] \in {{}, {"caddy"}, {"proxied"}}

Send(c) ==
  /\ Followed(c) /\ ~hungUp[c]
  /\ sent[c] < MaxChunk /\ (c \in Talker \/ sent[c] < HelloLen)
  /\ sent' = [sent EXCEPT ![c] = @ + 1]
  /\ UNCHANGED <<setupVars, loopVars, at, sni, valid, hungUp, readVars, fate, endpoint>>

HangUp(c) ==
  /\ Followed(c) /\ ~hungUp[c]
  /\ hungUp' = [hungUp EXCEPT ![c] = TRUE]
  /\ UNCHANGED <<setupVars, loopVars, at, sni, valid, sent, readVars, fate, endpoint>>

CloseListener(w) ==
  /\ Serving /\ w \notin closed
  /\ closed' = closed \cup {w}
  /\ UNCHANGED <<setupVars, backlog, loop, current, peerVars, readVars, fate, endpoint>>

-----------------------------------------------------------------------------
(* bifrostListener.Accept and handleConnection                             *)

Accepts(w) ==
  /\ loop[w] = "accept" /\ w \notin closed /\ backlog[w] # <<>>
  /\ loop' = [loop EXCEPT ![w] = "peek"]
  /\ current' = [current EXCEPT ![w] = Head(backlog[w])]
  /\ backlog' = [backlog EXCEPT ![w] = Tail(@)]
  /\ UNCHANGED <<setupVars, closed, peerVars, readVars, fate, endpoint>>

AcceptFails(w) ==
  /\ loop[w] = "accept" /\ w \in closed
  /\ loop' = [loop EXCEPT ![w] = "stopped"]
  /\ UNCHANGED <<setupVars, backlog, closed, current, peerVars, readVars, fate, endpoint>>

\* The loop is done with its connection and accepts the next.
LoopDisposes(w, how) ==
  /\ loop' = [loop EXCEPT ![w] = "accept"]
  /\ current' = [current EXCEPT ![w] = None]
  /\ fate' = [fate EXCEPT ![current[w]] = @ \cup how]

\* The chunks behind the first m, up to the n-th.
Chunks(m, n) == [i \in 1 .. n - m |-> m + i]

\* The peek blocks in a read until the peer sends; what it reads is kept.
PeekReads(w) ==
  LET c == current[w] IN
  /\ loop[w] = "peek" /\ taken[c] < HelloLen
  /\ \E n \in taken[c] + 1 .. sent[c] :
       /\ taken' = [taken EXCEPT ![c] = n]
       /\ replay' = [replay EXCEPT ![c] = @ \o Chunks(taken[c], n)]
  /\ UNCHANGED <<setupVars, loopVars, peerVars, got, fate, endpoint>>

PeekParses(w) ==
  LET c == current[w] IN
  /\ loop[w] = "peek" /\ valid[c] /\ taken[c] >= HelloLen
  /\ loop' = [loop EXCEPT ![w] = "resolve"]
  /\ UNCHANGED <<setupVars, backlog, closed, current, peerVars, readVars, fate, endpoint>>

\* Not a hello, or the end of the stream before there is one: Caddy's matter.
PeekFails(w) ==
  LET c == current[w] IN
  /\ loop[w] = "peek"
  /\ \/ ~valid[c] /\ taken[c] >= (IF sni[c] = None THEN 1 ELSE HelloLen)
     \/ hungUp[c] /\ taken[c] = sent[c] /\ taken[c] < HelloLen
  /\ LoopDisposes(w, {"caddy"})
  /\ UNCHANGED <<setupVars, backlog, closed, peerVars, readVars, endpoint>>

\* The app has no server runtime: nothing can be resolved.
NoServer(w) ==
  /\ loop[w] = "resolve" /\ ~hasServer
  /\ LoopDisposes(w, {"closed"})
  /\ UNCHANGED <<setupVars, backlog, closed, peerVars, readVars, endpoint>>

\* ResolvePassthrough: what the installed resolver may answer for a name.  No
\* resolver and no route are "not ok"; a module may answer anything.
Routed(n) ==
  IF resolver = None THEN {<<"notOK">>}
  ELSE IF table = None
       THEN {<<"error">>, <<"notOK">>} \cup {<<"ok", e>> : e \in Endpoint}
  ELSE LET found == Resolve(table, n) IN
       IF found = {} THEN {<<"notOK">>} ELSE {<<"ok", e>> : e \in found}

\* An error or an empty endpoint closes the connection.
ResolvesBadly(w) ==
  /\ loop[w] = "resolve" /\ hasServer
  /\ \E answer \in Routed(sni[current[w]]) :
       \/ answer[1] = "error"
       \/ answer[1] = "ok" /\ TrimSpace(answer[2]) = <<>>
  /\ LoopDisposes(w, {"closed"})
  /\ UNCHANGED <<setupVars, backlog, closed, peerVars, readVars, endpoint>>

ResolvesToCaddy(w) ==
  /\ loop[w] = "resolve" /\ hasServer
  /\ <<"notOK">> \in Routed(sni[current[w]])
  /\ LoopDisposes(w, {"caddy"})
  /\ UNCHANGED <<setupVars, backlog, closed, peerVars, readVars, endpoint>>

\* A faulty variant of the next action: any endpoint key is proxied to.
ResolvesUnnamed(w) ==
  /\ loop[w] = "resolve" /\ hasServer
  /\ \E answer \in Routed(sni[current[w]]) :
       answer[1] = "ok" /\ endpoint' = [endpoint EXCEPT ![current[w]] = answer[2]]
  /\ LoopDisposes(w, {"proxied"})
  /\ UNCHANGED <<setupVars, backlog, closed, peerVars, readVars>>

ResolvesToEndpoint(w) ==
  /\ loop[w] = "resolve" /\ hasServer
  /\ \E answer \in Routed(sni[current[w]]) :
       /\ answer[1] = "ok" /\ TrimSpace(answer[2]) # <<>>
       /\ endpoint' = [endpoint EXCEPT ![current[w]] = answer[2]]
  /\ LoopDisposes(w, {"proxied"})
  /\ UNCHANGED <<setupVars, backlog, closed, peerVars, readVars>>

\* A read of the prefixConn: its MultiReader goes on to the socket when the buffer
\* is at its end.
OwnerReads(c) ==
  /\ Owned(c)
  /\ \/ /\ replay[c] # <<>>
        /\ got' = [got EXCEPT ![c] = Append(@, Head(replay[c]))]
        /\ replay' = [replay EXCEPT ![c] = Tail(@)] /\ UNCHANGED taken
     \/ /\ replay[c] = <<>> /\ taken[c] < sent[c]
        /\ got' = [got EXCEPT ![c] = Append(@, taken[c] + 1)]
        /\ taken' = [taken EXCEPT ![c] = @ + 1] /\ UNCHANGED replay
  /\ UNCHANGED <<setupVars, loopVars, peerVars, fate, endpoint>>

\* The goroutine of a proxied connection: refused and closed before the server
\* runs, or else the library's until it is finished and closed.
Proxies(c) ==
  /\ fate[c] = {"proxied"}
  /\ fate' = [fate EXCEPT ![c] =
                @ \cup (IF running THEN {"finished"} ELSE {"refused"})]
  /\ UNCHANGED <<setupVars, loopVars, peerVars, readVars, endpoint>>

-----------------------------------------------------------------------------
Handles(w) ==
  \/ Accepts(w) \/ AcceptFails(w)
  \/ PeekReads(w) \/ PeekParses(w) \/ PeekFails(w)
  \/ NoServer(w)
  \/ ResolvesBadly(w) \/ ResolvesToCaddy(w) \/ ResolvesToEndpoint(w)

Next ==
  \/ \E w \in Wrapper : Provision(w) \/ CloseListener(w)
  \/ ServerStarts
  \/ \E c \in Conn : Send(c) \/ HangUp(c) \/ OwnerReads(c) \/ Proxies(c)
  \/ \E c \in Conn, w \in Wrapper : Connect(c, w)
  \/ \E w \in Wrapper : Handles(w)

Spec == Init /\ [][Next]_vars

\* Caddy keeps accepting; nobody makes a peer send or hang up.
Fairness == \A w \in Wrapper : WF_vars(Handles(w))

FairSpec == Spec /\ Fairness

\* The same with peers that send their hello or hang up.
PeersGoOn == \A c \in Conn : WF_vars(Send(c) \/ HangUp(c))
FairPeersSpec == FairSpec /\ PeersGoOn

-----------------------------------------------------------------------------
(* Properties                                                              *)

Parsed(c) == valid[c] /\ taken[c] >= HelloLen

\* A connection has one owner: the one Accept returned to Caddy is neither
\* closed nor proxied by the wrapper, a closed one is nobody's, and nothing was
\* done yet with one that waits or is being peeked at.
OneOwner ==
  \A c \in Conn :
    /\ fate[c] \in {{}, {"caddy"}, {"closed"}, {"proxied"},
                    {"proxied", "refused"}, {"proxied", "finished"}}
    /\ (\E w \in Wrapper : current[w] = c \/ Contains(backlog[w], c)) =>
         fate[c] = {}

\* Whoever goes on with a connection, Caddy or the endpoint, reads what the peer
\* sent: in its order, nothing twice and, by the end of the stream, everything.
\* It must not matter in how many reads the peek took the hello, what it took
\* behind it, and how much came when the connection had its owner already.
EndOfStream(c) == hungUp[c] /\ replay[c] = <<>> /\ taken[c] = sent[c]

ReplayComplete ==
  \A c \in Conn :
    /\ \A i \in DOMAIN got[c] : got[c][i] = i
    /\ EndOfStream(c) => Len(got[c]) = sent[c]

\* Two names are one host's whatever the case, the blanks around them and the
\* final dot of the route's.
Denotes(written, name) ==
  \E dot \in {<<>>, <<".">>} :
    ToLower(TrimSpace(written)) = ToLower(TrimSpace(name)) \o dot

Denoting ==
  [rs \in RouteSNI |->
     [name \in Name |-> {r \in Range(rs) : Denotes(r.server_name, name)}]]

RoutesOf(w, name) == Denoting[routes[w]][name]

\* While static routes are installed, a connection with a hello goes to the
\* endpoint of its name, however the route spells it and whichever of the routes
\* of that name one looks at; it goes to Caddy only if its name has no route or
\* it has no name.
RoutedByInstalled ==
  resolver # None /\ ~custom[resolver] =>
    \A c \in Conn : Parsed(c) /\ hasServer =>
      /\ "proxied" \in fate[c] =>
           /\ sni[c] # <<>> /\ RoutesOf(resolver, sni[c]) # {}
           /\ \A r \in RoutesOf(resolver, sni[c]) :
                endpoint[c] = TrimSpace(r.endpoint)
      /\ "caddy" \in fate[c] => RoutesOf(resolver, sni[c]) = {}

\* configuration.md: matching SNI is forwarded through Bifrost, by the wrapper
\* whose route_sni it matches.
MatchingForwarded ==
  \A c \in Conn, w \in Wrapper :
    at[c] = w /\ ~custom[w] /\ Parsed(c) /\ RoutesOf(w, sni[c]) # {} =>
      "caddy" \notin fate[c]

\* A connection whose hello arrived is dealt with, as long as its listener is
\* open: README.md lets Caddy go on serving the other routes of the listener.
HelloServed ==
  \A c \in Conn :
    at[c] # None /\ sent[c] >= HelloLen ~> fate[c] # {} \/ at[c] \in closed
=============================================================================
