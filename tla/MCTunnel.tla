------------------------------- MODULE MCTunnel -------------------------------
(* Tunnel for TLC: an endpoint with the colons of an IPv6 address and one  *)
(* with a plain name that no client serves, upstreams that spell them in   *)
(* every way with and without a port, upstreams that name no endpoint, and *)
(* a transport with a timeout, as a Caddyfile configures it.               *)
EXTENDS Tunnel, Caddyfile

A == <<"a">>
B == <<":", ":", "b">>
MCKey == {B}

MCUpstream ==
  {[address |-> a, means |-> A] :
     a \in {A, A \o <<":">>, A \o <<":", "80">>, <<" ">> \o A \o <<":", "80", " ">>}}
  \cup
  {[address |-> b, means |-> B] :
     b \in {B, <<"[">> \o B \o <<"]">>, <<"[">> \o B \o <<"]", ":", "80">>}}
  \cup {[address |-> n, means |-> None] :
          n \in {<<>>, <<" ">>, <<":", "80">>, <<"[", "]">>, <<" ", ":", "80">>}}

MCTransport ==
  NormalizeTransport(ParseTransport(
    <<[name |-> "dial_timeout", block |-> None,
       args |-> <<[text |-> <<"5", "s">>, int |-> <<>>, duration |-> <<5>>]>>]>>))
=============================================================================
