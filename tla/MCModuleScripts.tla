--------------------------- MODULE MCModuleScripts ---------------------------
(* ModuleScripts with two daemons and two watchdogs at a time, so that one    *)
(* can be replaced while it still runs, and a health check that fails twice   *)
(* before recovery.                                                          *)
EXTENDS ModuleScripts, TLC

CONSTANTS d1, d2, w1, w2

MCDaemons == {d1, d2}
MCWatchdogs == {w1, w2}

MCCommands == {"start", "stop", "network-pause"}

=============================================================================
