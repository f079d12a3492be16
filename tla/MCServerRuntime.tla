--------------------------- MODULE MCServerRuntime ---------------------------
(* ServerRuntime for TLC, with latencies below, at and above a millisecond *)
(* of two parts, none at all and one that a clock set back would measure.  *)
EXTENDS ServerRuntime

MCLatency == {-1, 0, 1, 2, 3}
=============================================================================
