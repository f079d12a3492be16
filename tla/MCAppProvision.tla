--------------------------- MODULE MCAppProvision ---------------------------
(* Clients: names and IPv6 addresses, one port, and every address of up to *)
(* four characters.  Servers: up to two endpoints, valid or with a defect  *)
(* of any kind, or one endpoint and any guardrails.  Caddyfiles: server    *)
(* blocks of up to two directives, endpoint blocks of up to two, or of a   *)
(* token and two blocks of limits; directives repeated, out of place, with *)
(* no value, a value of the wrong kind or a block.  Half a second is the   *)
(* smallest part of one.                                                   *)
EXTENDS AppProvision

MCHost == {<<"h">>, <<"h", "k">>, <<":", ":", "h">>, <<"h", ":", ":">>, <<":", ":">>}
MCPort == {"443"}
MCText == {<<>>, <<" ">>, <<"t">>, <<" ", "t", " ">>}
MCAnyAddress ==
  UNION {[1 .. n -> {"[", "]", ":", "h"}] : n \in 0 .. 4}
    \cup {<<" ">>, <<"h", " ">>, <<"w", "://", "h">>, <<"w", "://", "h", ":">>}

MCEndpoint ==
  {[EmptyEndpoint EXCEPT !.key = k, !.token = t, !.limits.max_streams = n,
                         !.limits.stream_idle_timeout = i] :
     k \in {<<>>, <<"a">>, <<" ", "a">>, <<"b">>}, t \in {<<" ">>, <<"t">>},
     n \in {-1, 0}, i \in {-1, 0, 1, 2, 4}}

\* The values of a configuration nobody made a mistake in.
Endpoint ==
  [EmptyEndpoint EXCEPT !.key = <<"a">>, !.token = <<"t">>,
                        !.limits.max_streams = 1, !.limits.stream_idle_timeout = 6]

MCServer ==
  {[EmptyServer EXCEPT !.tls_subject = <<"s">>, !.endpoints = es] :
     es \in SeqOf(MCEndpoint, 1) \cup {<<Endpoint, e>> : e \in MCEndpoint}}
  \cup
  {[EmptyServer EXCEPT !.tls_subject = s, !.listen = l, !.endpoints = es,
                       !.guardrails.max_sessions = n,
                       !.guardrails.min_stream_idle_timeout = low,
                       !.guardrails.max_stream_idle_timeout = high,
                       !.runtime.handshake_timeout = t] :
     s \in {<<>>, <<" ">>, <<"s">>, <<" ", "s">>}, l \in {<<>>, <<" ">>, <<"l">>},
     n \in {-1, 1}, low, high \in {-1, 0, 1, 2}, t \in {-1, 1},
     es \in {<<>>, <<Endpoint>>}}

-----------------------------------------------------------------------------
(* Caddyfiles                                                              *)

Txt(t) == [text |-> t, int |-> <<>>, duration |-> <<>>]
Num(n) == [text |-> <<"n">>, int |-> <<n>>, duration |-> <<>>]
Dur(n) == [text |-> <<"s">>, int |-> <<>>, duration |-> <<n>>]

Line(name, args) == [name |-> name, args |-> args, block |-> None]
Nest(name, args, block) == [name |-> name, args |-> args, block |-> block]

Limits ==
  {Nest("limits", <<>>, b) :
     b \in {<<>>,
            <<Line("max_streams", <<Num(1)>>), Line("max_streams", <<Num(2)>>)>>,
            <<Line("stream_idle_timeout", <<Dur(4)>>),
              Line("max_bandwidth_bps", <<Num(3)>>)>>,
            <<Line("stream_idle_timeout", <<Num(4)>>)>>,
            <<Line("stream_idle_timeout", <<Dur(3)>>)>>}}

\* Lines in an endpoint's block, right and wrong.
EndpointLine ==
  Limits
    \cup {Line("token", <<Txt(t)>>) : t \in {<<"t">>, <<" ", "u">>}}
    \cup {Line("policy", <<Txt(<<" ", "p">>)>>), Line("max_parallel", <<Num(2)>>),
          Line("max_parallel", <<Txt(<<"p">>)>>), Line("token", <<>>),
          Nest("token", <<Txt(<<"t">>)>>, <<>>), Line("server", <<>>),
          Line("limits", <<>>)}

EndpointDirective ==
  {Nest("endpoint", <<Txt(k)>>, b) :
     k \in {<<"a">>},
     b \in {None} \cup SeqOf(EndpointLine, 2)
            \cup {<<Line("token", <<Txt(<<"t">>)>>), l, m>> : l, m \in Limits}}

Valid(k) == Nest("endpoint", <<Txt(k)>>, <<Line("token", <<Txt(k)>>)>>)

\* Lines in a server's block.
ServerLine ==
  {Valid(<<"a">>), Valid(<<"b">>), Valid(<<" ", "a">>), Line("endpoint", <<>>),
   Line("listen", <<Txt(<<" ", "l">>)>>), Line("connector", <<>>),
   Nest("guardrails", <<>>,
        <<Line("min_stream_idle_timeout", <<Dur(2)>>),
          Line("max_stream_idle_timeout", <<Dur(5)>>),
          Line("max_sessions", <<Num(6)>>),
          Line("max_streams_per_session", <<Num(7)>>),
          Line("max_bandwidth_bps_per_session", <<Num(8)>>),
          Line("max_headers", <<Num(9)>>), Line("max_header_bytes", <<Num(10)>>)>>),
   Nest("guardrails", <<>>, <<Line("max_stream_idle_timeout", <<Dur(1)>>)>>),
   Nest("guardrails", <<>>, <<Line("max_headers", <<Num(11)>>)>>),
   Nest("guardrails", <<Txt(<<"x">>)>>, <<>>),
   Nest("guardrails", <<>>, <<Line("max_sessions", <<Dur(1)>>)>>),
   Nest("runtime", <<>>, <<Line("handshake_timeout", <<Dur(1)>>),
                           Line("stream_copy_buffer_bytes", <<Num(9)>>),
                           Line("tunnel_keepalive_interval", <<Dur(3)>>),
                           Line("tunnel_keepalive_timeout", <<Dur(4)>>)>>),
   Nest("runtime", <<>>, <<Line("handshake_timeout", <<Dur(2)>>)>>),
   Nest("runtime", <<>>, <<Line("listen", <<Dur(1)>>)>>)}

ServerBlock ==
  {<<e>> : e \in EndpointDirective}
    \cup {<<Valid(<<"c">>)>> \o ls : ls \in SeqOf(ServerLine, 2)}

MCClientBlock ==
  LET needed == <<Line("token", <<Txt(<<" ", "t">>)>>), Line("forward", <<Txt(<<"f">>)>>)>>
      CATLS == <<Line("ca_file", <<Txt(<<"c", " ">>)>>),
                 Line("server_name", <<Txt(<<"n">>)>>),
                 Line("insecure_skip_verify", <<>>)>>
  IN  {None, needed, needed \o needed,
       needed \o <<Nest("tls", <<>>, CATLS)>>,
       needed \o <<Line("tls", <<>>), Line("connect", <<Txt(<<"h">>)>>)>>,
       needed \o <<Nest("tls", <<>>, <<Line("ca_file", <<>>)>>)>>,
       needed \o <<Nest("tls", <<>>, <<Line("insecure_skip_verify", <<Txt(<<"f">>)>>)>>)>>}

MCBody ==
  LET Runtime(name, b) == Nest(name, <<Txt(<<" ", "s">>)>>, b)
      server == Runtime("server", <<Valid(<<"a">>)>>)
      client == Runtime("client", CHOOSE b \in MCClientBlock : b # None)
  IN  {<<Runtime("server", b)>> : b \in {None} \cup ServerBlock}
        \cup {<<>>, <<server, client>>, <<client, server>>, <<server, server>>,
              <<Line("server", <<>>)>>, <<Line("endpoint", <<Txt(<<"a">>)>>)>>}
=============================================================================
