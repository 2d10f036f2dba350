--------------------------- MODULE MCTunnelControl --------------------------
(***************************************************************************)
(* Two control requests at a time and two tunnelLoop goroutines: enough    *)
(* for a request to overtake another one and for a loop to outlive its     *)
(* stop.  Where requests do not overlap one request is enough.             *)
(***************************************************************************)
EXTENDS TunnelControl, TLC

CONSTANTS r1, r2, g1, g2

MCRequests == {r1, r2}
MCLoops == {g1, g2}

Symmetry == Permutations(MCRequests) \cup Permutations(MCLoops)

\* What the goroutines act upon.  State, module.prop, the monitor and the
\* history are only written by them, so two states that differ in nothing else
\* have the same futures in this view.
ControlView == <<pc, kind, mine, waitOn, flagVars, loopVars, envVars>>
=============================================================================
