------------------------------ MODULE Caddyfile ------------------------------
(***************************************************************************)
(* The Caddyfile parsers (internal/caddyfile/app.go, and listener.go for   *)
(* the listener wrapper): what a block of directives makes of a            *)
(* configuration, or None where the parser returns an error.               *)
(*                                                                         *)
(* A directive is its name, its arguments and its block, which is None or  *)
(* a sequence of directives.  An argument is a text, the integer that      *)
(* strconv reads in it and the duration that time.ParseDuration reads in   *)
(* it, each <<>> if there is none.  A directive that takes no block        *)
(* refuses one: its brace is taken for the next directive.                 *)
(***************************************************************************)
EXTENDS Config

\* Directives whose blocks, if they have one, consist of Inner.
Directive(Inner) ==
  [name : STRING,
   args : Seq([text : Texts, int : Seq(Int), duration : Seq(Int)]),
   block : {None} \cup Seq(Inner)]

\* A block three deep, as in "server", "endpoint" and "limits".
Block ==
  Seq(Directive(Directive(Directive(Directive({})))))

Single(d) == Len(d.args) = 1 /\ d.block = None
Flag(d) == d.args = <<>> /\ d.block = None

\* The loop over d.NextBlock: Parse one directive after the other, up to the
\* first error.
ParseBlock(Parse(_, _), cfg, block) ==
  IF block = None THEN cfg
  ELSE LET parsed[n \in 0 .. Len(block)] ==
             IF n = 0 THEN cfg
             ELSE LET c == parsed[n - 1]
                  IN  IF c = None THEN None ELSE Parse(c, block[n])
       IN  parsed[Len(block)]

-----------------------------------------------------------------------------
(* Faulty variants, which no specification uses.                           *)

\* The first endpoint of a name is replaced by the last.
AddEndpointReplaces(s, e) ==
  IF e = None THEN None
  ELSE [s EXCEPT !.endpoints = Append(SelectSeq(@, LAMBDA o : o.key # e.key), e)]

-----------------------------------------------------------------------------
(* singleArg, singleInt and singleInt64, singleDuration                    *)

SetText(c, d) ==
  IF Single(d) THEN [c EXCEPT ![d.name] = d.args[1].text] ELSE None

SetInt(c, d) ==
  IF Single(d) /\ d.args[1].int # <<>>
  THEN [c EXCEPT ![d.name] = d.args[1].int[1]] ELSE None

SetDuration(c, d) ==
  IF Single(d) /\ d.args[1].duration # <<>>
  THEN [c EXCEPT ![d.name] = d.args[1].duration[1]] ELSE None

\* The field a nested block was parsed into.
SetParsed(c, d, value) ==
  IF d.args # <<>> \/ value = None THEN None ELSE [c EXCEPT ![d.name] = value]

-----------------------------------------------------------------------------
(* The server's blocks                                                     *)

ParseLimits(limits, block) ==
  ParseBlock(LAMBDA l, d :
    CASE d.name \in {"max_streams", "max_bandwidth_bps"} -> SetInt(l, d)
      [] d.name = "stream_idle_timeout" -> SetDuration(l, d)
      [] OTHER -> None, limits, block)

ParseEndpoint(d) ==
  IF Len(d.args) # 1 THEN None
  ELSE ParseBlock(LAMBDA e, x :
         CASE x.name \in {"token", "policy"} -> SetText(e, x)
           [] x.name = "max_parallel" -> SetInt(e, x)
           [] x.name = "limits" -> SetParsed(e, x, ParseLimits(e.limits, x.block))
           [] OTHER -> None,
         [EmptyEndpoint EXCEPT !.key = d.args[1].text], d.block)

AddEndpoint(s, e) ==
  IF e = None THEN None ELSE [s EXCEPT !.endpoints = Append(@, e)]

ParseGuardrails(guardrails, block) ==
  ParseBlock(LAMBDA g, d :
    CASE d.name \in {"min_stream_idle_timeout", "max_stream_idle_timeout"} ->
           SetDuration(g, d)
      [] d.name \in {"max_sessions", "max_streams_per_session",
                     "max_bandwidth_bps_per_session", "max_headers",
                     "max_header_bytes"} -> SetInt(g, d)
      [] OTHER -> None, guardrails, block)

ParseRuntime(runtime, block) ==
  ParseBlock(LAMBDA r, d :
    CASE d.name = "stream_copy_buffer_bytes" -> SetInt(r, d)
      [] d.name \in {"handshake_timeout", "tunnel_keepalive_interval",
                     "tunnel_keepalive_timeout"} -> SetDuration(r, d)
      [] OTHER -> None, runtime, block)

\* "connector" and "tls" are refused like any other name.
ParseServerBody(server, block) ==
  ParseBlock(LAMBDA s, d :
    CASE d.name = "listen" -> SetText(s, d)
      [] d.name = "endpoint" -> AddEndpoint(s, ParseEndpoint(d))
      [] d.name = "guardrails" ->
           SetParsed(s, d, ParseGuardrails(s.guardrails, d.block))
      [] d.name = "runtime" -> SetParsed(s, d, ParseRuntime(s.runtime, d.block))
      [] OTHER -> None, server, block)

-----------------------------------------------------------------------------
(* The client's blocks                                                     *)

ParseClientTLS(client, block) ==
  ParseBlock(LAMBDA c, d :
    CASE d.name = "ca_file" /\ Single(d) ->
           [c EXCEPT !.tls_ca_file = d.args[1].text]
      [] d.name = "server_name" /\ Single(d) ->
           [c EXCEPT !.tls_server_name = d.args[1].text]
      [] d.name = "insecure_skip_verify" /\ Flag(d) ->
           [c EXCEPT !.tls_insecure_skip_verify = TRUE]
      [] OTHER -> None, client, block)

\* "connect" and the tls_ options outside of tls are refused, too.
ParseClientBody(client, block) ==
  ParseBlock(LAMBDA c, d :
    CASE d.name \in {"token", "forward"} -> SetText(c, d)
      [] d.name = "tls" /\ d.args = <<>> -> ParseClientTLS(c, d.block)
      [] OTHER -> None, client, block)

-----------------------------------------------------------------------------
(* The global option, the transport and the listener wrapper               *)

\* App.UnmarshalCaddyfile and ParseApp: one runtime at most, normalised.
ParseApp(body) ==
  ParseBlock(LAMBDA a, d :
    IF Len(d.args) # 1 \/ a.server # None \/ a.client # None THEN None
    ELSE LET arg == d.args[1].text IN
      CASE d.name = "server" ->
             LET s == ParseServerBody([EmptyServer EXCEPT !.tls_subject = arg], d.block)
             IN  IF s = None THEN None ELSE [a EXCEPT !.server = NormalizeServer(s)]
        [] d.name = "client" ->
             LET c == ParseClientBody([EmptyClient EXCEPT !.connect = arg], d.block)
             IN  IF c = None THEN None ELSE [a EXCEPT !.client = NormalizeClient(c)]
        [] OTHER -> None,
    [server |-> None, client |-> None, plugin |-> FALSE], body)

ParseTransport(body) ==
  ParseBlock(LAMBDA t, d :
    CASE d.name = "app" -> SetText(t, d)
      [] d.name = "dial_timeout" -> SetDuration(t, d)
      [] OTHER -> None, EmptyTransport, body)

ParseListener(body) ==
  ParseBlock(LAMBDA w, d :
    CASE d.name = "app" -> SetText(w, d)
      [] d.name = "route_sni" /\ Len(d.args) = 2 /\ d.block = None ->
           [w EXCEPT !.routes = Append(@, [server_name |-> d.args[1].text,
                                           endpoint |-> d.args[2].text])]
      [] OTHER -> None, [app |-> <<>>, routes |-> <<>>], body)
=============================================================================
