------------------------------- MODULE Config -------------------------------
(***************************************************************************)
(* What internal/config/config.go does to a configuration: normalisation,  *)
(* validation and the conversion to the bifrost library's values.  Fields  *)
(* are named as in the JSON.  A duration is a whole number of parts of a   *)
(* second.                                                                 *)
(***************************************************************************)
EXTENDS Text

CONSTANT Second  \* the parts of a second

ASSUME SecondAssumption == Second \in Nat \ {0}

DefaultConnectorPort == <<"8443">>
DefaultConnectorListen == <<":", "8443">>
DefaultAppName == <<"bifrost">>

-----------------------------------------------------------------------------
(* Faulty variants, which no specification uses: each is a bug the code    *)
(* could have, put in a definition's place to see that a property detects  *)
(* it.                                                                     *)

\* A final colon is cut from an IPv6 address, too.
HostOfUnportedCuts(a) ==
  IF Len(a) > 1 /\ a[1] = "[" /\ Last(a) = "]" THEN Tail(Front(a))
  ELSE IF a # <<>> /\ Last(a) = ":" THEN Front(a)
  ELSE a

-----------------------------------------------------------------------------
(* Client.Normalize and Client.Validate                                    *)

ClientConfig ==
  [connect : Texts, token : Texts, forward : Texts, tls_ca_file : Texts,
   tls_server_name : Texts, tls_insecure_skip_verify : BOOLEAN]

EmptyClient ==
  [connect |-> <<>>, token |-> <<>>, forward |-> <<>>, tls_ca_file |-> <<>>,
   tls_server_name |-> <<>>, tls_insecure_skip_verify |-> FALSE]

\* The host of an address that has no port: the brackets or a final colon go.
HostOfUnported(a) ==
  IF Len(a) > 1 /\ a[1] = "[" /\ Last(a) = "]" THEN Tail(Front(a))
  ELSE IF HasOne(a, ":") /\ Last(a) = ":" THEN Front(a)
  ELSE a

NormalizeConnectAddress(address) ==
  LET a == TrimSpace(address)
      split == SplitHostPort(a)
  IN  IF a = <<>> \/ Has(a, "://") THEN a
      ELSE IF split = {} THEN JoinHostPort(HostOfUnported(a), DefaultConnectorPort)
      ELSE LET hp == CHOOSE hp \in split : TRUE IN
           IF hp[2] = <<>> THEN JoinHostPort(hp[1], DefaultConnectorPort) ELSE a

NormalizeClient(c) ==
  [c EXCEPT !.connect = NormalizeConnectAddress(@), !.token = TrimSpace(@),
            !.forward = TrimSpace(@), !.tls_ca_file = TrimSpace(@),
            !.tls_server_name = TrimSpace(@)]

\* What Validate requires of a configuration it has normalised.
ClientValid(c) ==
  <<>> \notin {TrimSpace(c.connect), TrimSpace(c.token), TrimSpace(c.forward)}

-----------------------------------------------------------------------------
(* Server.Normalize, Server.ValidateWithProvider and the conversions       *)

LimitsConfig ==
  [max_streams : Int, max_bandwidth_bps : Int, stream_idle_timeout : Int]

EndpointConfig ==
  [key : Texts, token : Texts, policy : Texts, max_parallel : Int,
   limits : LimitsConfig]

GuardrailsConfig ==
  [max_sessions : Int, max_streams_per_session : Int,
   max_bandwidth_bps_per_session : Int, min_stream_idle_timeout : Int,
   max_stream_idle_timeout : Int, max_headers : Int, max_header_bytes : Int]

RuntimeConfig ==
  [handshake_timeout : Int, stream_copy_buffer_bytes : Int,
   tunnel_keepalive_interval : Int, tunnel_keepalive_timeout : Int]

ServerConfig ==
  [listen : Texts, tls_subject : Texts, endpoints : Seq(EndpointConfig),
   guardrails : GuardrailsConfig, runtime : RuntimeConfig]

EmptyLimits ==
  [max_streams |-> 0, max_bandwidth_bps |-> 0, stream_idle_timeout |-> 0]

EmptyEndpoint ==
  [key |-> <<>>, token |-> <<>>, policy |-> <<>>, max_parallel |-> 0,
   limits |-> EmptyLimits]

EmptyGuardrails ==
  [max_sessions |-> 0, max_streams_per_session |-> 0,
   max_bandwidth_bps_per_session |-> 0, min_stream_idle_timeout |-> 0,
   max_stream_idle_timeout |-> 0, max_headers |-> 0, max_header_bytes |-> 0]

EmptyRuntime ==
  [handshake_timeout |-> 0, stream_copy_buffer_bytes |-> 0,
   tunnel_keepalive_interval |-> 0, tunnel_keepalive_timeout |-> 0]

EmptyServer ==
  [listen |-> <<>>, tls_subject |-> <<>>, endpoints |-> <<>>,
   guardrails |-> EmptyGuardrails, runtime |-> EmptyRuntime]

NormalizeEndpoint(e) ==
  [e EXCEPT !.key = TrimSpace(@), !.token = TrimSpace(@), !.policy = TrimSpace(@)]

NormalizeServer(s) ==
  LET listen == TrimSpace(s.listen) IN
  [s EXCEPT !.listen = IF listen = <<>> THEN DefaultConnectorListen ELSE listen,
            !.tls_subject = TrimSpace(@),
            !.endpoints = [n \in DOMAIN @ |-> NormalizeEndpoint(@[n])]]

\* EndpointLimits.Validate: PlanLimits refuses what it cannot convert.
LimitsValid(l) ==
  /\ \A f \in DOMAIN l : l[f] >= 0
  /\ l.stream_idle_timeout % Second = 0

GuardrailsValid(g) ==
  /\ \A f \in DOMAIN g : g[f] >= 0
  /\ g.min_stream_idle_timeout > 0 /\ g.max_stream_idle_timeout > 0 =>
       g.max_stream_idle_timeout >= g.min_stream_idle_timeout

RuntimeValid(r) == \A f \in DOMAIN r : r[f] >= 0

\* What ValidateWithProvider requires of a configuration it has normalised:
\* static endpoints or else an accept provider.
ServerValid(s, provider) ==
  /\ s.tls_subject # <<>>
  /\ (s.endpoints = <<>>) <=> provider
  /\ \A n \in DOMAIN s.endpoints :
       LET e == s.endpoints[n] IN
       /\ e.key # <<>> /\ e.token # <<>>
       /\ \A m \in 1 .. n - 1 : s.endpoints[m].key # e.key
       /\ LimitsValid(e.limits)
  /\ GuardrailsValid(s.guardrails)
  /\ RuntimeValid(s.runtime)

\* What the library's values are.
BifrostClient ==
  [endpointKey : Texts, token : Texts, mode : Texts, maxParallel : Int,
   limits : [maxStreams : Int, maxBandwidthBPS : Int,
             streamIdleTimeoutSeconds : Int]]

BifrostServer ==
  [clients : {None} \cup Seq(BifrostClient),
   guardrails : [maxSessions : Int, maxStreamsPerSession : Int,
                 maxBandwidthBPSPerSession : Int, minStreamIdleTimeout : Int,
                 maxStreamIdleTimeout : Int, maxHeaders : Int,
                 maxHeaderBytes : Int],
   runtime : [handshakeTimeout : Int, streamCopyBufferBytes : Int,
              tunnelKeepAliveInterval : Int, tunnelKeepAliveTimeout : Int]]

\* EndpointLimits.PlanLimits, with the idle timeout in seconds.
PlanLimits(l) ==
  [maxStreams |-> l.max_streams, maxBandwidthBPS |-> l.max_bandwidth_bps,
   streamIdleTimeoutSeconds |->
     IF l.stream_idle_timeout > 0 THEN l.stream_idle_timeout \div Second ELSE 0]

StaticClient(e) ==
  [endpointKey |-> TrimSpace(e.key), token |-> TrimSpace(e.token),
   mode |-> TrimSpace(e.policy), maxParallel |-> e.max_parallel,
   limits |-> PlanLimits(e.limits)]

StaticClients(s) ==
  [n \in DOMAIN s.endpoints |-> StaticClient(s.endpoints[n])]

BifrostGuardrails(g) ==
  [maxSessions |-> g.max_sessions,
   maxStreamsPerSession |-> g.max_streams_per_session,
   maxBandwidthBPSPerSession |-> g.max_bandwidth_bps_per_session,
   minStreamIdleTimeout |-> g.min_stream_idle_timeout,
   maxStreamIdleTimeout |-> g.max_stream_idle_timeout,
   maxHeaders |-> g.max_headers, maxHeaderBytes |-> g.max_header_bytes]

BifrostRuntime(r) ==
  [handshakeTimeout |-> r.handshake_timeout,
   streamCopyBufferBytes |-> r.stream_copy_buffer_bytes,
   tunnelKeepAliveInterval |-> r.tunnel_keepalive_interval,
   tunnelKeepAliveTimeout |-> r.tunnel_keepalive_timeout]

-----------------------------------------------------------------------------
(* Transport.Normalize                                                     *)

EmptyTransport == [app |-> <<>>, dial_timeout |-> 0]

NormalizeTransport(t) ==
  [t EXCEPT !.app = IF TrimSpace(@) = <<>> THEN DefaultAppName ELSE TrimSpace(@)]

=============================================================================
