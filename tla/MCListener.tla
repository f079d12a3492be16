------------------------------ MODULE MCListener ------------------------------
(***************************************************************************)
(* Listener for TLC: one wrapper, or two on listeners of their own, with   *)
(* the routes of route_sni blocks: names spelled with capitals, blanks, a  *)
(* final dot, twice, with a wildcard, without an endpoint or not at all.   *)
(***************************************************************************)
EXTENDS Listener, Caddyfile

Arg(t) == [text |-> t, int |-> <<>>, duration |-> <<>>]
RouteLine(name, e) ==
  [name |-> "route_sni", args |-> <<Arg(name), Arg(e)>>, block |-> None]

A == RouteLine(<<" ", "A", ".">>, <<"e", " ">>)
B == RouteLine(<<"b">>, <<"f">>)

MCRouteSNI ==
  {ParseListener(block).routes :
     block \in {<<>>, <<A, B>>, <<A, RouteLine(<<"a">>, <<"f">>)>>,
               <<RouteLine(<<"*", "b">>, <<"f">>)>>, <<RouteLine(<<"b">>, <<" ">>)>>,
               <<RouteLine(<<".">>, <<"f">>)>>}}

\* Wrappers whose routes, when they have some, are A's or B's.
MCRouteSNIShared == {<<>>, ParseListener(<<A>>).routes, ParseListener(<<B>>).routes}

MCName == {<<"a">>, <<"B">>, <<>>, <<"a", ".">>, <<"a", ".", "b">>}
MCEndpoint == {<<"e">>, <<" ">>}
=============================================================================
