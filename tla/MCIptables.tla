----------------------------- MODULE MCIptables -----------------------------
(* Iptables with every configuration of the hotspot: the default interfaces, *)
(* or one of two of the user's own, one after the other.                     *)
EXTENDS Iptables

MCOwnIfaces == {"own1", "own2"}

MCConfigs == Configs
=============================================================================
