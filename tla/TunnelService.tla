---------------------------- MODULE TunnelService ----------------------------
(***************************************************************************)
(* What the rest of the daemon may rely on about a run of the tunnel,      *)
(* whatever happens to carriers, sessions and streams underneath: routing  *)
(* is established only through a connected tunnel, survives every loss of  *)
(* the connection, and is withdrawn only at the end of a run that was told *)
(* to stop; a run that was told to stop ends.                              *)
(***************************************************************************)
VARIABLES
    told,     \* the run was told to stop, or was left by a panic
    phase,    \* "connecting", "connected" or "stopped"
    routed    \* the device's traffic is redirected into the tunnel

vars == <<told, phase, routed>>

Init ==
    /\ told = FALSE
    /\ phase = "connecting"
    /\ routed = FALSE

\* A stop, a shutdown signal, or a panic of the run itself.
Tell ==
    /\ ~told
    /\ told' = TRUE
    /\ UNCHANGED <<phase, routed>>

Connect ==
    /\ phase = "connecting"
    /\ phase' = "connected"
    /\ UNCHANGED <<told, routed>>

\* The connection is lost; the routing stays.
Lose ==
    /\ phase = "connected"
    /\ phase' = "connecting"
    /\ UNCHANGED <<told, routed>>

EstablishRouting ==
    /\ phase = "connected"
    /\ ~routed
    /\ routed' = TRUE
    /\ UNCHANGED <<told, phase>>

\* The end of the run, which withdraws the routing in the same step.
Finish ==
    /\ told
    /\ phase # "stopped"
    /\ phase' = "stopped"
    /\ routed' = FALSE
    /\ UNCHANGED told

Next == Tell \/ Connect \/ Lose \/ EstablishRouting \/ Finish

SafeSpec == Init /\ [][Next]_vars

Liveness == WF_vars(Finish)

Spec == SafeSpec /\ Liveness
=============================================================================
