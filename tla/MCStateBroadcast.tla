-------------------------- MODULE MCStateBroadcast --------------------------
(* One setter beside the sampler; a prompt dashboard, one that may hang, and *)
(* the monitor.                                                              *)
EXTENDS StateBroadcast

CONSTANTS c1, c2

MCClients == {c1, c2}

MCPrompt == {c1, Monitor}
=============================================================================
