------------------------------ MODULE MCStreams ------------------------------
(* Streams with a connection and two queries, of which any two arrive, over  *)
(* two SSH sessions.                                                         *)
EXTENDS Streams

CONSTANTS k1, q1, q2

MCConns == {k1}
MCQueries == {q1, q2}
=============================================================================
