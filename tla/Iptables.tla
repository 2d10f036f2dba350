------------------------------ MODULE Iptables ------------------------------
(***************************************************************************)
(* internal/iptables and net_clean.sh: the command sequences that install  *)
(* and remove the redirect, and what the kernel makes of each command.     *)
(*                                                                         *)
(* A sequence is data, so that whoever runs it (the daemon, a script, an   *)
(* iptables process that outlived its parent) can be stopped between any   *)
(* two commands.  Commands that differ only in a CIDR, an address or a     *)
(* port are one command here; the hook shapes of versions that are no      *)
(* longer shipped are the one legacy chain PROXY.                          *)
(*                                                                         *)
(* The daemon may die between any two commands of Apply or Cleanup; the    *)
(* command it was waiting for then ends on its own, while a script already *)
(* cleans up.                                                              *)
(***************************************************************************)
EXTENDS Naturals, Sequences, Functions

CONSTANTS
    OwnIfaces,      \* interfaces that only the user's HotspotIfaces names
    UserConfigs,    \* the hotspot configurations that are saved
    MaxFailures     \* bound: commands of one Apply that fail

Chains == {"OUT", "PRE", "PROXY", "DNS"}

\* Hotspot interfaces: "std" stands for DefaultHotspotIfaces.
Ifaces == {"std"} \cup OwnIfaces

\* The jumps into the chains, in the built-in chains of the nat table.
OutputHooks == {"OUTPUT-tcp", "OUTPUT-PROXY", "OUTPUT-udp53"}
Hooks == OutputHooks \cup Ifaces

ChainOf ==
    [h \in Hooks |-> CASE h = "OUTPUT-tcp" -> "OUT" [] h = "OUTPUT-PROXY" -> "PROXY"
                       [] h = "OUTPUT-udp53" -> "DNS" [] OTHER -> "PRE"]

\* Config: whether the hotspot is shared, and on which interface.
Configs == [Hotspot: BOOLEAN, HotspotIfaces: Ifaces]

\* The rules of the two redirect chains and of the DNS chain, in order.
OutRules == <<"uid0", "private", "bypassIPs", "ports", "REDIRECT">>
PreRules == <<"private", "bypassIPs", "ports", "REDIRECT">>
DNSRules == <<"uid0", "DNAT">>

ASSUME ConfigAssumption ==
    /\ OwnIfaces \cap ({"std"} \cup OutputHooks) = {}
    /\ UserConfigs \subseteq Configs /\ UserConfigs # {}
    /\ MaxFailures \in Nat

VARIABLES
    kernel,     \* the tables and switches
    daemon,     \* the daemon's Apply or Cleanup in progress
    late,       \* the command a dead daemon was waiting for, or none
    script,     \* what is left of the script that cleans up
    cleaned     \* history: the script that ended last, none since a start

vars == <<kernel, daemon, late, script, cleaned>>

-----------------------------------------------------------------------------
(* The kernel (external): tables, counters of hooks, device-wide switches *)

\* "forward" counts the ACCEPT rules of the FORWARD chain, ours or not;
\* "holes" is a history: the chains that miss a rule whose command failed.
CleanKernel(forward) ==
    [exists |-> {}, rules |-> [c \in Chains |-> <<>>], holes |-> {},
     hooks |-> [h \in Hooks |-> 0], forward |-> forward,
     quicBlocked |-> FALSE, ipv6Off |-> FALSE, portalOff |-> FALSE]

Cmd(op, arg) == [op |-> op, arg |-> arg]

\* The commands the kernel refuses, which the callers ignore: iptables -N of
\* an existing chain, any use of a missing one, -X of a chain that is not
\* empty or is hooked, -D of a missing rule.
Refused(k, c) ==
    CASE c.op = "N" -> c.arg \in k.exists
      [] c.op = "F" -> c.arg \notin k.exists
      [] c.op = "A" -> c.arg[1] \notin k.exists
      [] c.op = "X" -> \/ c.arg \notin k.exists
                       \/ k.rules[c.arg] # <<>>
                       \/ \E h \in Hooks : ChainOf[h] = c.arg /\ k.hooks[h] > 0
      [] c.op = "I" -> ChainOf[c.arg] \notin k.exists
      [] c.op = "D" -> k.hooks[c.arg] = 0
      [] c.op = "-forward" -> k.forward = 0
      [] OTHER -> FALSE

Exec(k, c) ==
    IF Refused(k, c) THEN k
    ELSE CASE c.op = "N" -> [k EXCEPT !.exists = @ \cup {c.arg}]
           [] c.op = "F" -> [k EXCEPT !.rules[c.arg] = <<>>, !.holes = @ \ {c.arg}]
           [] c.op = "A" -> [k EXCEPT !.rules[c.arg[1]] = Append(@, c.arg[2])]
           [] c.op = "X" -> [k EXCEPT !.exists = @ \ {c.arg}, !.holes = @ \ {c.arg}]
           [] c.op = "I" -> [k EXCEPT !.hooks[c.arg] = @ + 1]
           [] c.op = "D" -> [k EXCEPT !.hooks[c.arg] = @ - 1]
           [] c.op = "+forward" -> [k EXCEPT !.forward = @ + 1]
           [] c.op = "-forward" -> [k EXCEPT !.forward = @ - 1]
           [] c.op = "quic" -> [k EXCEPT !.quicBlocked = c.arg]
           [] c.op = "ipv6" -> [k EXCEPT !.ipv6Off = c.arg]
           [] c.op = "portal" -> [k EXCEPT !.portalOff = c.arg]

NetOps == {"N", "F", "A", "X", "I", "D", "+forward", "-forward", "quic", "ipv6", "portal"}

-----------------------------------------------------------------------------
(* The command sequences *)

\* Mutation: the hooks of the hotspot interfaces are not detached.
DetachAndDeleteNoIfaces(iface) ==
    <<Cmd("D", "OUTPUT-tcp"), Cmd("D", "OUTPUT-PROXY"), Cmd("D", "OUTPUT-udp53"),
      Cmd("F", "OUT"), Cmd("X", "OUT"), Cmd("F", "PRE"), Cmd("X", "PRE"),
      Cmd("F", "PROXY"), Cmd("X", "PROXY"), Cmd("F", "DNS"), Cmd("X", "DNS")>>

\* Mutation: the DNS chain is missing from the list of chains.
DetachAndDeleteNoDNS(iface) ==
    <<Cmd("D", "OUTPUT-tcp"), Cmd("D", iface), Cmd("D", "OUTPUT-PROXY"),
      Cmd("F", "OUT"), Cmd("X", "OUT"), Cmd("F", "PRE"), Cmd("X", "PRE"),
      Cmd("F", "PROXY"), Cmd("X", "PROXY")>>

\* Phase 1 and 2 of the clean-up: detach every hook shape, then flush and
\* delete the chains.
DetachAndDelete(iface) ==
    <<Cmd("D", "OUTPUT-tcp"), Cmd("D", iface), Cmd("D", "OUTPUT-PROXY"), Cmd("D", "OUTPUT-udp53"),
      Cmd("F", "OUT"), Cmd("X", "OUT"), Cmd("F", "PRE"), Cmd("X", "PRE"),
      Cmd("F", "PROXY"), Cmd("X", "PROXY"), Cmd("F", "DNS"), Cmd("X", "DNS")>>

\* cleanupRules and the unblockQUIC it ends with.  The FORWARD rule is deleted
\* whether or not Apply inserted one.
cleanupRules(cfg) ==
    DetachAndDelete(cfg.HotspotIfaces) \o <<Cmd("-forward", ""), Cmd("quic", FALSE)>>

\* enableIPv6, with the removal of SSHC_DROP6, and restoreCaptivePortal.
Cleanup(cfg) == cleanupRules(cfg) \o <<Cmd("ipv6", FALSE), Cmd("portal", FALSE)>>

addBypasses(chain, rules) == [i \in 1..Len(rules) |-> Cmd("A", <<chain, rules[i]>>)]

\* -N fails on a chain that could not be deleted; -F then empties it.
createChains == <<Cmd("N", "OUT"), Cmd("F", "OUT"), Cmd("N", "PRE"), Cmd("F", "PRE")>>

\* The hooks go in after the chains are complete.
hookChains(cfg) ==
    <<Cmd("I", "OUTPUT-tcp")>>
      \o IF cfg.Hotspot THEN <<Cmd("I", cfg.HotspotIfaces), Cmd("+forward", "")>> ELSE <<>>

\* Delete-then-insert.  The -L that precedes -N only avoids an error message.
setupDNSForward ==
    <<Cmd("N", "DNS"), Cmd("F", "DNS")>> \o addBypasses("DNS", DNSRules)
      \o <<Cmd("D", "OUTPUT-udp53"), Cmd("I", "OUTPUT-udp53")>>

\* blockQUIC (REJECT, or DROP where REJECT is unknown), disableIPv6,
\* disableCaptivePortal.
preventLeaks == <<Cmd("quic", TRUE), Cmd("ipv6", TRUE), Cmd("portal", TRUE)>>

\* Mutation: the chains of an earlier run are not emptied.
ApplyNoPrepass(cfg) ==
    <<Cmd("N", "OUT"), Cmd("N", "PRE")>>
      \o addBypasses("OUT", OutRules) \o addBypasses("PRE", PreRules)
      \o hookChains(cfg) \o setupDNSForward \o preventLeaks

\* Mutation: the redirect is appended before the exemptions.
ApplyRedirectFirst(cfg) ==
    cleanupRules(cfg) \o createChains
      \o addBypasses("OUT", <<"REDIRECT", "uid0", "private", "bypassIPs", "ports">>)
      \o addBypasses("PRE", PreRules) \o hookChains(cfg) \o setupDNSForward \o preventLeaks

\* Apply: pre-pass, chains, hooks, leak prevention.
Apply(cfg) ==
    cleanupRules(cfg) \o createChains
      \o addBypasses("OUT", OutRules) \o addBypasses("PRE", PreRules)
      \o hookChains(cfg) \o setupDNSForward \o preventLeaks

\* The commands whose errors Apply collects; the others are best effort.
reported(cfg) ==
    Range(createChains \o addBypasses("OUT", OutRules) \o addBypasses("PRE", PreRules)
            \o hookChains(cfg)) \ {Cmd("+forward", "")}

\* The collected errors that Apply drops again: a kernel without the owner match
\* or the REDIRECT target answers "No chain/target/match by that name".
filtered(c) == c.op = "A" /\ c.arg[2] \in {"uid0", "REDIRECT"}

\* net_clean.sh, which knows the default interfaces only, and the chains of the
\* default prefix only: no other ChainsPrefix is modelled.
netClean ==
    DetachAndDelete("std")
      \o <<Cmd("-forward", ""), Cmd("ipv6", FALSE), Cmd("quic", FALSE), Cmd("portal", FALSE)>>

\* Mutation: stop without the second net_clean.
stopCleansOnce == netClean

\* The clean-up of sshcustom.sh stop: net_clean, a second's sleep, net_clean.
stopCleans == netClean \o <<Cmd("sleep", "")>> \o netClean

-----------------------------------------------------------------------------
(* The daemon.  job: "idle", "apply", "routed" (Apply returned) or "clean".  *)
(* failed: Apply returns an error; missed: commands of it that failed.       *)

NoDaemon ==
    [alive |-> FALSE, job |-> "idle", todo |-> <<>>, failed |-> FALSE, missed |-> 0,
     cfg |-> CHOOSE c \in UserConfigs : TRUE]

\* sshcustom.sh start, after its net_clean, or start-idle without one; the
\* second it sleeps first lets the last command of an earlier daemon end.
DaemonStarts ==
    /\ ~daemon.alive /\ script = <<>> /\ late = <<>>
    /\ daemon' = [NoDaemon EXCEPT !.alive = TRUE]
    /\ cleaned' = "none"
    /\ UNCHANGED <<kernel, late, script>>

\* The first connection of the tunnel: Apply with the configuration of now.
\* The configuration may have been changed at any time since it was last used.
applyTransparentRules(cfg) ==
    /\ daemon.alive /\ daemon.job = "idle"
    /\ daemon' = [daemon EXCEPT !.job = "apply", !.todo = Apply(cfg),
                                !.cfg = cfg, !.failed = FALSE, !.missed = 0]
    /\ UNCHANGED <<kernel, late, script, cleaned>>

\* The tunnel stops: Cleanup with the configuration of now, if Apply had
\* succeeded, and then stopTunnel's net_clean.sh.
cleanupTransparentRules(cfg) ==
    /\ daemon.alive /\ daemon.job = "routed"
    /\ daemon' = [daemon EXCEPT !.job = "clean",
         !.todo = (IF daemon.failed THEN <<>> ELSE Cleanup(cfg)) \o netClean]
    /\ UNCHANGED <<kernel, late, script, cleaned>>

DaemonRuns ==
    /\ daemon.alive /\ daemon.todo # <<>>
    /\ kernel' = Exec(kernel, Head(daemon.todo))
    /\ daemon' = [daemon EXCEPT !.todo = Tail(@)]
    /\ UNCHANGED <<late, script, cleaned>>

\* A command of Apply fails, and the others are run all the same.  Apply returns
\* an error if it collected this one and does not drop it (the xtables lock was
\* not released in 100 s, say); a filtered or a best-effort command fails without
\* a trace.  What the kernel refuses in any case is DaemonRuns.
CommandFails ==
    /\ daemon.alive /\ daemon.job = "apply" /\ daemon.missed < MaxFailures
    /\ daemon.todo # <<>>
    /\ Len(daemon.todo) <= Len(Apply(daemon.cfg)) - Len(cleanupRules(daemon.cfg))
    /\ LET c == Head(daemon.todo)
       IN  /\ ~Refused(kernel, c)
           /\ \E error \in {daemon.failed \/ c \in reported(daemon.cfg)}
                              \cup IF filtered(c) THEN {daemon.failed} ELSE {} :
                daemon' = [daemon EXCEPT !.todo = Tail(@), !.failed = error, !.missed = @ + 1]
           /\ kernel' = IF c.op = "A" THEN [kernel EXCEPT !.holes = @ \cup {c.arg[1]}] ELSE kernel
    /\ UNCHANGED <<late, script, cleaned>>

SequenceEnds ==
    /\ daemon.todo = <<>> /\ daemon.job \in {"apply", "clean"}
    /\ daemon' = IF daemon.job = "apply" THEN [daemon EXCEPT !.job = "routed"]
                 ELSE [NoDaemon EXCEPT !.alive = TRUE]
    /\ UNCHANGED <<kernel, late, script, cleaned>>

\* The process ends: a crash, SIGKILL, or main returning after a signal while
\* the loop's teardown is still running.  The iptables process it waits for is
\* not killed with it.
DaemonDies ==
    /\ daemon.alive
    /\ daemon' = NoDaemon
    /\ late' = IF daemon.todo = <<>> THEN <<>> ELSE <<Head(daemon.todo)>>
    /\ UNCHANGED <<kernel, script, cleaned>>

LateCommandEnds ==
    /\ late # <<>>
    /\ kernel' = Exec(kernel, late[1])
    /\ late' = <<>>
    /\ UNCHANGED <<daemon, script, cleaned>>

-----------------------------------------------------------------------------
(* The scripts, once they have killed the daemon *)

ScriptBegins(name, commands) ==
    /\ ~daemon.alive /\ script = <<>>
    /\ script' = commands \o <<Cmd("end", name)>>
    /\ cleaned' = "none"
    /\ UNCHANGED <<kernel, daemon, late>>

ScriptRuns ==
    /\ script # <<>> /\ Head(script).op \in NetOps
    /\ kernel' = Exec(kernel, Head(script))
    /\ script' = Tail(script)
    /\ UNCHANGED <<daemon, late, cleaned>>

\* The second lets the last command of the dead daemon end.
ScriptSleeps ==
    /\ script # <<>> /\ Head(script).op = "sleep"
    /\ late = <<>>
    /\ script' = Tail(script)
    /\ UNCHANGED <<kernel, daemon, late, cleaned>>

ScriptEnds ==
    /\ script # <<>> /\ Head(script).op = "end"
    /\ cleaned' = Head(script).arg
    /\ script' = <<>>
    /\ UNCHANGED <<kernel, daemon, late>>

-----------------------------------------------------------------------------
\* After an installation: nothing runs; an older version may have left its
\* chain, and another module its FORWARD rule.
Init ==
    /\ kernel \in {CleanKernel(0), CleanKernel(1),
                   [CleanKernel(0) EXCEPT !.exists = {"PROXY"}, !.hooks["OUTPUT-PROXY"] = 1,
                                          !.rules["PROXY"] = <<"REDIRECT">>]}
    /\ daemon = NoDaemon
    /\ late = <<>>
    /\ script = <<>>
    /\ cleaned = "none"

Next ==
    \/ DaemonStarts \/ DaemonRuns \/ CommandFails \/ SequenceEnds \/ DaemonDies
    \/ \E cfg \in UserConfigs : applyTransparentRules(cfg) \/ cleanupTransparentRules(cfg)
    \/ LateCommandEnds
    \/ ScriptBegins("once", netClean) \/ ScriptBegins("stop", stopCleans)
    \/ ScriptRuns \/ ScriptSleeps \/ ScriptEnds

Spec == Init /\ [][Next]_vars

-----------------------------------------------------------------------------
(* Properties *)

Hooked(k, c) == \E h \in Hooks : ChainOf[h] = c /\ k.hooks[h] > 0

\* Position of r in a sequence of rules, one past its end when it has none.
PositionOf(r, rules) ==
    CHOOSE i \in 1..(Len(rules) + 1) :
        /\ \A j \in 1..(i - 1) : rules[j] # r
        /\ i <= Len(rules) => rules[i] = r

\* The chains our daemon hooked, with the rules they must hold.
RulesOf == [c \in {"OUT", "PRE", "DNS"} |->
              CASE c = "OUT" -> OutRules [] c = "PRE" -> PreRules [] c = "DNS" -> DNSRules]

Rules == {"uid0", "private", "bypassIPs", "ports", "REDIRECT", "DNAT"}

\* hooks: no place has more than one jump of ours.
Kernels ==
    [exists: SUBSET Chains, rules: [Chains -> Seq(Rules)], holes: SUBSET Chains,
     hooks: [Hooks -> 0..1], forward: 0..1,
     quicBlocked: BOOLEAN, ipv6Off: BOOLEAN, portalOff: BOOLEAN]

TypeOK ==
    /\ kernel \in Kernels
    /\ \A c \in Chains : kernel.rules[c] # <<>> => c \in kernel.exists
    /\ \A h \in Hooks : kernel.hooks[h] > 0 => ChainOf[h] \in kernel.exists
    /\ daemon.alive \in BOOLEAN /\ daemon.failed \in BOOLEAN /\ daemon.missed \in 0..MaxFailures
    /\ daemon.job \in {"idle", "apply", "routed", "clean"} /\ daemon.cfg \in UserConfigs
    /\ Len(late) <= 1 /\ cleaned \in {"none", "once", "stop"}

\* The carrier is never redirected into itself: whenever a chain that rewrites
\* the device's own traffic is hooked, its exemptions (uid 0, private networks,
\* the SSH server's addresses, the daemon's ports) all stand before its
\* REDIRECT or DNAT, whatever crash or half-done clean-up the rules come from,
\* unless the command that appends an exemption failed.
CarrierExempt ==
    \A c \in {"OUT", "DNS"} :
        Hooked(kernel, c) /\ c \notin kernel.holes =>
            LET n == Len(RulesOf[c])
                redirect == PositionOf(RulesOf[c][n], kernel.rules[c])
            IN  redirect <= Len(kernel.rules[c]) =>
                    \A i \in 1..(n - 1) : PositionOf(RulesOf[c][i], kernel.rules[c]) < redirect

\* What Apply did not fail to install is in place exactly once, over whatever an
\* earlier daemon or an older version left in the tables: when it returns, with
\* whatever failures, a chain is missing, is known to miss a rule, or holds its
\* rules once and in order, and no jump of an older version is left; if no
\* command failed, the rule set is complete.
AppliedExactly ==
    daemon.job = "routed" =>
        /\ \A c \in {"OUT", "PRE", "DNS"} :
             c \in kernel.exists \ kernel.holes => kernel.rules[c] = RulesOf[c]
        /\ kernel.hooks["OUTPUT-PROXY"] = 0
        /\ daemon.missed = 0 =>
             /\ {"OUT", "PRE", "DNS"} \subseteq kernel.exists \ kernel.holes
             /\ kernel.hooks["OUTPUT-tcp"] = 1 /\ kernel.hooks["OUTPUT-udp53"] = 1
             /\ daemon.cfg.Hotspot => kernel.hooks[daemon.cfg.HotspotIfaces] = 1 /\ kernel.forward > 0
             /\ kernel.quicBlocked /\ kernel.ipv6Off /\ kernel.portalOff

\* After sshcustom.sh stop nothing of ours is left, although the daemon may
\* have died at any command of Apply or Cleanup and its last command may have
\* ended in the middle of the first clean-up: only a hook on an interface that
\* net_clean.sh does not know stays, with the empty chain it holds.
StopLeavesNothing ==
    cleaned = "stop" =>
        /\ \A h \in Hooks \ OwnIfaces : kernel.hooks[h] = 0
        /\ \A c \in kernel.exists : /\ c = "PRE" /\ kernel.rules[c] = <<>>
                                    /\ \E i \in OwnIfaces : kernel.hooks[i] > 0
        /\ ~kernel.quicBlocked /\ ~kernel.ipv6Off /\ ~kernel.portalOff

\* One net_clean, as the other scripts run it, may leave more behind, but
\* never a rule that rewrites the device's own traffic: a dead daemon's
\* redirect is gone once a script has cleaned up.  (Tethered traffic is left
\* out: a late REDIRECT can refill PRE behind a hook net_clean does not know.)
NoRedirectAfterClean ==
    cleaned # "none" =>
        \A c \in {"OUT", "DNS", "PROXY"} : Hooked(kernel, c) => kernel.rules[c] = <<>>
=============================================================================
