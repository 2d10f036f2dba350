---------------------------- MODULE MCTunnelLoop ----------------------------
(* TunnelLoop with the code's own delays and keepalive limit, and a circuit  *)
(* breaker that two errors trip, so that two streams can do it.              *)
EXTENDS TunnelLoop, TLC

CONSTANTS s1, s2

MCStreams == {s1, s2}

Symmetry == Permutations(MCStreams)
=============================================================================
