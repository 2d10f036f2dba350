--------------------------- MODULE IptablesProofs ----------------------------
(***************************************************************************)
(* Iptables for any interfaces and configurations of the user: every rule   *)
(* set that Apply installs is exact, the carrier is exempt whoever is       *)
(* stopped between which commands, and a clean-up leaves no redirect.       *)
(***************************************************************************)
EXTENDS Iptables, SequenceTheorems, TLAPS

-----------------------------------------------------------------------------
(* Sequences *)

Prefix(s, n) == [i \in 1..n |-> s[i]]

\* What is left of the commands s after n of them.
Drop(s, n) == [i \in 1..(Len(s) - n) |-> s[n + i]]

\* How many of the len commands that follow the first "from" are among the first n.
Count(n, from, len) ==
    IF n <= from THEN 0 ELSE IF n >= from + len THEN len ELSE n - from

-----------------------------------------------------------------------------
(* The kernel's part of the invariant, and the commands that keep it *)

\* Commands that take something away or turn a switch, and those that add.
Removals ==
    {Cmd("D", h) : h \in Hooks} \cup {Cmd("F", c) : c \in Chains} \cup {Cmd("X", c) : c \in Chains}
      \cup {Cmd("-forward", "")}
      \cup {Cmd("quic", b) : b \in BOOLEAN} \cup {Cmd("ipv6", b) : b \in BOOLEAN}
      \cup {Cmd("portal", b) : b \in BOOLEAN}

Additions ==
    {Cmd("N", c) : c \in Chains} \cup {Cmd("A", a) : a \in Chains \X Rules}
      \cup {Cmd("I", h) : h \in Hooks} \cup {Cmd("+forward", "")}

Commands == Removals \cup Additions

\* The chain c has the first of its rules, in their order, or is known to miss one.
InOrder(k, c) ==
    c \in k.holes \/ \E n \in 0..Len(RulesOf[c]) : k.rules[c] = Prefix(RulesOf[c], n)

\* A chain with rules, a hook or a missing rule exists; a hooked chain is in order.
KernelOK(k) ==
    /\ k \in Kernels
    /\ k.holes \subseteq k.exists
    /\ \A c \in Chains : k.rules[c] # <<>> => c \in k.exists
    /\ \A h \in Hooks : k.hooks[h] > 0 => ChainOf[h] \in k.exists
    /\ \A c \in {"OUT", "DNS"} : Hooked(k, c) => InOrder(k, c)

\* The command may be run now: no second hook, no hook to a chain out of order, no
\* rule for a chain of the device's own traffic that is hooked already.
Safe(k, c) ==
    /\ c.op = "I" => /\ k.hooks[c.arg] = 0 /\ ChainOf[c.arg] # "PROXY"
                     /\ ChainOf[c.arg] = "PRE" \/ InOrder(k, ChainOf[c.arg])
    /\ c.op = "A" => /\ c.arg[1] # "PROXY"
                     /\ c.arg[1] = "PRE" \/ ~Hooked(k, c.arg[1])
    /\ c.op = "+forward" => k.forward = 0

-----------------------------------------------------------------------------
(* The daemon's part *)

\* The number of commands of Apply before those for the DNS chain.
Base(cfg) == IF cfg.Hotspot THEN 30 ELSE 28

\* The kernel after n commands of Apply: what was taken away or put in place so far.
PrepassAt(k, cfg, n) ==
    /\ 1 <= n /\ n < 28 => k.hooks["OUTPUT-tcp"] = 0
    /\ 2 <= n /\ n < 29 => k.hooks[cfg.HotspotIfaces] = 0
    /\ 3 <= n => k.hooks["OUTPUT-PROXY"] = 0
    /\ 4 <= n /\ n < Base(cfg) + 6 => k.hooks["OUTPUT-udp53"] = 0
    /\ 13 <= n /\ n < 30 => k.forward = 0

ChainsAt(k, cfg, n) ==
    /\ 5 <= n /\ "OUT" \in k.exists \ k.holes => k.rules["OUT"] = Prefix(OutRules, Count(n, 18, 5))
    /\ 7 <= n /\ "PRE" \in k.exists \ k.holes => k.rules["PRE"] = Prefix(PreRules, Count(n, 23, 4))
    /\ 11 <= n /\ "DNS" \in k.exists \ k.holes =>
         k.rules["DNS"] = Prefix(DNSRules, Count(n, Base(cfg) + 2, 2))

InstalledAt(k, cfg, n) ==
    /\ 5 <= n => "OUT" \notin k.holes
    /\ 7 <= n => "PRE" \notin k.holes
    /\ 11 <= n => "DNS" \notin k.holes
    /\ 15 <= n => "OUT" \in k.exists
    /\ 17 <= n => "PRE" \in k.exists
    /\ 28 <= n => k.hooks["OUTPUT-tcp"] = 1
    /\ cfg.Hotspot /\ 29 <= n => k.hooks[cfg.HotspotIfaces] = 1
    /\ cfg.Hotspot /\ 30 <= n => k.forward = 1
    /\ Base(cfg) + 1 <= n => "DNS" \in k.exists
    /\ Base(cfg) + 6 <= n => k.hooks["OUTPUT-udp53"] = 1
    /\ Base(cfg) + 7 <= n => k.quicBlocked = TRUE
    /\ Base(cfg) + 8 <= n => k.ipv6Off = TRUE
    /\ Base(cfg) + 9 <= n => k.portalOff = TRUE

ApplyAt(k, cfg, n, missed) ==
    PrepassAt(k, cfg, n) /\ ChainsAt(k, cfg, n) /\ (missed = 0 => InstalledAt(k, cfg, n))

DaemonOK ==
    /\ daemon \in [alive: BOOLEAN, job: {"idle", "apply", "routed", "clean"},
                   todo: Seq(Commands), failed: BOOLEAN, missed: 0..MaxFailures, cfg: UserConfigs]
    /\ daemon.alive => script = <<>> /\ late = <<>>
    /\ ~daemon.alive => daemon = NoDaemon
    /\ daemon.job = "idle" => daemon.todo = <<>>
    /\ daemon.job = "apply" =>
         \E n \in 0..Len(Apply(daemon.cfg)) :
             /\ daemon.todo = Drop(Apply(daemon.cfg), n)
             /\ ApplyAt(kernel, daemon.cfg, n, daemon.missed)
             /\ n < 14 => daemon.missed = 0
    /\ daemon.job = "routed" =>
         daemon.todo = <<>> /\ ApplyAt(kernel, daemon.cfg, Base(daemon.cfg) + 9, daemon.missed)
    /\ daemon.job = "clean" => daemon.todo \in Seq(Removals)

LateOK == late # <<>> => late = <<late[1]>> /\ late[1] \in Commands /\ Safe(kernel, late[1])

-----------------------------------------------------------------------------
(* The scripts' part *)

\* The chain rewrites nothing, and the late command cannot make it do so.
Idle(c) == kernel.rules[c] = <<>> \/ (~Hooked(kernel, c) /\ late = <<>>)

\* After m commands, the first of which are those of net_clean.sh.
FirstPass(m) ==
    (5 <= m => Idle("OUT")) /\ (9 <= m => Idle("PROXY")) /\ (11 <= m => Idle("DNS"))

\* After m commands of sshcustom.sh stop: what the second net_clean.sh has removed.
SecondPass(m) ==
    /\ 17 <= m => late = <<>>
    /\ 18 <= m => kernel.hooks["OUTPUT-tcp"] = 0
    /\ 19 <= m => kernel.hooks["std"] = 0
    /\ 20 <= m => kernel.hooks["OUTPUT-PROXY"] = 0
    /\ 21 <= m => kernel.hooks["OUTPUT-udp53"] = 0
    /\ 22 <= m => kernel.rules["OUT"] = <<>>
    /\ 23 <= m => "OUT" \notin kernel.exists
    /\ 24 <= m => kernel.rules["PRE"] = <<>>
    /\ 25 <= m /\ "PRE" \in kernel.exists => \E i \in OwnIfaces : kernel.hooks[i] > 0
    /\ 26 <= m => kernel.rules["PROXY"] = <<>>
    /\ 27 <= m => "PROXY" \notin kernel.exists
    /\ 28 <= m => kernel.rules["DNS"] = <<>>
    /\ 29 <= m => "DNS" \notin kernel.exists
    /\ 31 <= m => kernel.ipv6Off = FALSE
    /\ 32 <= m => kernel.quicBlocked = FALSE
    /\ 33 <= m => kernel.portalOff = FALSE

Once == netClean \o <<Cmd("end", "once")>>
Stop == stopCleans \o <<Cmd("end", "stop")>>

ScriptOK ==
    script # <<>> =>
      /\ cleaned = "none"
      /\ \/ \E m \in 0..16 : script = Drop(Once, m) /\ FirstPass(m)
         \/ \E m \in 0..33 : script = Drop(Stop, m) /\ FirstPass(m) /\ SecondPass(m)

CleanedOK ==
    /\ cleaned \in {"none", "once", "stop"}
    /\ cleaned # "none" => ~daemon.alive /\ script = <<>> /\ FirstPass(17)
    /\ cleaned = "stop" => SecondPass(33)

Inv == KernelOK(kernel) /\ DaemonOK /\ LateOK /\ ScriptOK /\ CleanedOK

-----------------------------------------------------------------------------
(* What each command does to a kernel of the invariant *)

SameChains(k, k2) == k2.exists = k.exists /\ k2.rules = k.rules /\ k2.holes = k.holes
SameSwitches(k, k2) ==
    k2.quicBlocked = k.quicBlocked /\ k2.ipv6Off = k.ipv6Off /\ k2.portalOff = k.portalOff

\* Which chain a hook leads to.
LEMMA HookFacts ==
    /\ ChainOf["OUTPUT-tcp"] = "OUT" /\ ChainOf["OUTPUT-PROXY"] = "PROXY" /\ ChainOf["OUTPUT-udp53"] = "DNS"
    /\ \A i \in Ifaces : i \in Hooks /\ ChainOf[i] = "PRE"
    /\ \A i \in Ifaces : i # "OUTPUT-tcp" /\ i # "OUTPUT-PROXY" /\ i # "OUTPUT-udp53"
    /\ {"OUTPUT-tcp", "OUTPUT-PROXY", "OUTPUT-udp53", "std"} \subseteq Hooks
    /\ \A h \in Hooks : ChainOf[h] \in Chains
<1>1. \A i \in Ifaces : i # "OUTPUT-tcp" /\ i # "OUTPUT-PROXY" /\ i # "OUTPUT-udp53"
  BY ConfigAssumption DEF Ifaces, OutputHooks
<1> QED BY <1>1 DEF ChainOf, Hooks, OutputHooks, Ifaces, Chains

\* A chain of the device's own traffic has one hook.
LEMMA HookedFacts ==
    ASSUME NEW k
    PROVE  /\ Hooked(k, "OUT") <=> k.hooks["OUTPUT-tcp"] > 0
           /\ Hooked(k, "DNS") <=> k.hooks["OUTPUT-udp53"] > 0
           /\ Hooked(k, "PROXY") <=> k.hooks["OUTPUT-PROXY"] > 0
           /\ Hooked(k, "PRE") <=> \E i \in Ifaces : k.hooks[i] > 0
<1>1. \A h \in Hooks : h \in {"OUTPUT-tcp", "OUTPUT-PROXY", "OUTPUT-udp53"} \/ h \in Ifaces
  BY DEF Hooks, OutputHooks
<1> QED BY <1>1, HookFacts DEF Hooked

\* A kernel with other hooks, another FORWARD count or other switches.
LEMMA WithHooks ==
    ASSUME NEW k \in Kernels, NEW hk \in [Hooks -> 0..1], NEW k2, k2 = [k EXCEPT !.hooks = hk]
    PROVE  k2 \in Kernels /\ k2.hooks = hk /\ SameChains(k, k2) /\ k2.forward = k.forward /\ SameSwitches(k, k2)
<1>1. k2 \in Kernels
  BY DEF Kernels
<1>2. k2.hooks = hk /\ k2.forward = k.forward
  BY DEF Kernels
<1>3. SameChains(k, k2)
  BY DEF Kernels, SameChains
<1>4. SameSwitches(k, k2)
  BY DEF Kernels, SameSwitches
<1> QED BY <1>1, <1>2, <1>3, <1>4

\* The same, with another FORWARD count.
LEMMA WithForward ==
    ASSUME NEW k \in Kernels, NEW n \in 0..1, NEW k2, k2 = [k EXCEPT !.forward = n]
    PROVE  k2 \in Kernels /\ k2.hooks = k.hooks /\ SameChains(k, k2) /\ k2.forward = n /\ SameSwitches(k, k2)
<1>1. k2 \in Kernels
  BY DEF Kernels
<1>2. k2.hooks = k.hooks /\ k2.forward = n
  BY DEF Kernels
<1>3. SameChains(k, k2)
  BY DEF Kernels, SameChains
<1>4. SameSwitches(k, k2)
  BY DEF Kernels, SameSwitches
<1> QED BY <1>1, <1>2, <1>3, <1>4

\* -D: at most one hook was there.
LEMMA ExecD ==
    ASSUME NEW k, KernelOK(k), NEW h \in Hooks, NEW k2, k2 = Exec(k, Cmd("D", h))
    PROVE  /\ k2 \in Kernels /\ k2.hooks[h] = 0 /\ \A g \in Hooks : g # h => k2.hooks[g] = k.hooks[g]
           /\ SameChains(k, k2) /\ k2.forward = k.forward /\ SameSwitches(k, k2)
<1>1. k \in Kernels /\ k.hooks \in [Hooks -> 0..1]
  BY DEF KernelOK, Kernels
<1>2. CASE k.hooks[h] = 0
  BY <1>1, <1>2 DEF Exec, Refused, Cmd, SameChains, SameSwitches
<1>3. CASE k.hooks[h] # 0
  <2>1. k2 = [k EXCEPT !.hooks[h] = @ - 1]
    BY <1>3 DEF Exec, Refused, Cmd
  <2>2. k.hooks[h] = 1
    BY <1>1, <1>3
  <2>3. k2 = [k EXCEPT !.hooks = [k.hooks EXCEPT ![h] = 0]]
    BY <2>1, <2>2
  <2>4. [k.hooks EXCEPT ![h] = 0] \in [Hooks -> 0..1]
    BY <1>1
  <2>5. /\ k2 \in Kernels /\ k2.hooks = [k.hooks EXCEPT ![h] = 0]
        /\ SameChains(k, k2) /\ k2.forward = k.forward /\ SameSwitches(k, k2)
    BY <1>1, <2>3, <2>4, WithHooks
  <2> QED BY <1>1, <2>5
<1> QED BY <1>2, <1>3

\* -F: a chain that does not exist has no rules.
LEMMA ExecF ==
    ASSUME NEW k, KernelOK(k), NEW c \in Chains, NEW k2, k2 = Exec(k, Cmd("F", c))
    PROVE  /\ k2 \in Kernels /\ k2.rules[c] = <<>> /\ \A d \in Chains : d # c => k2.rules[d] = k.rules[d]
           /\ k2.holes = k.holes \ {c} /\ k2.exists = k.exists
           /\ k2.hooks = k.hooks /\ k2.forward = k.forward /\ SameSwitches(k, k2)
<1>1. k \in Kernels /\ k.rules \in [Chains -> Seq(Rules)] /\ k.holes \subseteq k.exists
  BY DEF KernelOK, Kernels
<1>2. CASE c \notin k.exists
  <2>1. k2 = k /\ k.rules[c] = <<>>
    BY <1>2 DEF Exec, Refused, Cmd, KernelOK
  <2> QED BY <1>1, <1>2, <2>1 DEF SameSwitches
<1>3. CASE c \in k.exists
  <2>1. k2 = [k EXCEPT !.rules[c] = <<>>, !.holes = @ \ {c}]
    BY <1>3 DEF Exec, Refused, Cmd
  <2> DEFINE rs == [k.rules EXCEPT ![c] = <<>>]
  <2>2. rs \in [Chains -> Seq(Rules)] /\ rs[c] = <<>> /\ \A d \in Chains : d # c => rs[d] = k.rules[d]
    <3>1. <<>> \in Seq(Rules)
      OBVIOUS
    <3> QED BY <1>1, <3>1
  <2>3. k2 = [k EXCEPT !.rules = rs, !.holes = k.holes \ {c}]
    BY <1>1, <2>1 DEF Kernels
  <2> HIDE DEF rs
  <2>4. k2.rules = rs /\ k2.holes = k.holes \ {c} /\ k2.exists = k.exists
    BY <1>1, <2>3 DEF Kernels
  <2>5. k2.hooks = k.hooks /\ k2.forward = k.forward /\ SameSwitches(k, k2)
    BY <1>1, <2>3 DEF Kernels, SameSwitches
  <2>6. k2 \in Kernels
    BY <1>1, <2>2, <2>3 DEF Kernels
  <2> QED BY <2>2, <2>4, <2>5, <2>6
<1> QED BY <1>2, <1>3

\* -X: an empty chain that is not hooked goes.
LEMMA ExecX ==
    ASSUME NEW k, KernelOK(k), NEW c \in Chains, NEW k2, k2 = Exec(k, Cmd("X", c))
    PROVE  /\ k2 \in Kernels /\ k2.rules = k.rules /\ k2.holes \subseteq k.holes
           /\ k2.hooks = k.hooks /\ k2.forward = k.forward /\ SameSwitches(k, k2)
           /\ \A d \in Chains : d # c => (d \in k2.exists <=> d \in k.exists)
           /\ \A d \in Chains : d # c => (d \in k2.holes <=> d \in k.holes)
           /\ c \in k2.exists => c \in k.exists /\ (k.rules[c] # <<>> \/ Hooked(k, c))
           /\ c \notin k2.exists => k.rules[c] = <<>> /\ c \notin k2.holes /\ ~Hooked(k, c)
<1>1. k \in Kernels /\ k.holes \subseteq k.exists
  BY DEF KernelOK
<1>2. c \notin k.exists => k.rules[c] = <<>> /\ ~Hooked(k, c)
  BY DEF KernelOK, Hooked
<1>3. CASE c \notin k.exists \/ k.rules[c] # <<>> \/ Hooked(k, c)
  <2>1. k2 = k
    BY <1>3 DEF Exec, Refused, Cmd, Hooked
  <2> QED BY <1>1, <1>2, <1>3, <2>1 DEF SameSwitches
<1>4. CASE ~(c \notin k.exists \/ k.rules[c] # <<>> \/ Hooked(k, c))
  <2>1. k2 = [k EXCEPT !.exists = @ \ {c}, !.holes = @ \ {c}]
    BY <1>4 DEF Exec, Refused, Cmd, Hooked
  <2> HIDE DEF Hooked
  <2> QED BY <1>1, <1>4, <2>1 DEF Kernels, SameSwitches
<1> QED BY <1>3, <1>4

\* -N: the chain exists afterwards.
LEMMA ExecN ==
    ASSUME NEW k, KernelOK(k), NEW c \in Chains, NEW k2, k2 = Exec(k, Cmd("N", c))
    PROVE  /\ k2 \in Kernels /\ k2.exists = k.exists \cup {c} /\ k2.rules = k.rules /\ k2.holes = k.holes
           /\ k2.hooks = k.hooks /\ k2.forward = k.forward /\ SameSwitches(k, k2)
<1>1. k \in Kernels
  BY DEF KernelOK
<1>2. CASE c \in k.exists
  <2>1. k2 = k
    BY <1>2 DEF Exec, Refused, Cmd
  <2> QED BY <1>1, <1>2, <2>1 DEF Kernels, SameSwitches
<1>3. CASE c \notin k.exists
  <2>1. k2 = [k EXCEPT !.exists = @ \cup {c}]
    BY <1>3 DEF Exec, Refused, Cmd
  <2> QED BY <1>1, <2>1 DEF Kernels, SameSwitches
<1> QED BY <1>2, <1>3

\* -A: the rule is the last of its chain, if there is the chain.
LEMMA ExecA ==
    ASSUME NEW k, KernelOK(k), NEW c \in Chains, NEW r \in Rules, NEW k2, k2 = Exec(k, Cmd("A", <<c, r>>))
    PROVE  /\ k2 \in Kernels /\ k2.exists = k.exists /\ k2.holes = k.holes
           /\ k2.rules[c] = IF c \in k.exists THEN Append(k.rules[c], r) ELSE k.rules[c]
           /\ \A d \in Chains : d # c => k2.rules[d] = k.rules[d]
           /\ k2.hooks = k.hooks /\ k2.forward = k.forward /\ SameSwitches(k, k2)
<1>1. k \in Kernels /\ k.rules \in [Chains -> Seq(Rules)]
  BY DEF KernelOK, Kernels
<1>2. CASE c \notin k.exists
  <2>1. k2 = k
    BY <1>2 DEF Exec, Refused, Cmd
  <2> QED BY <1>1, <1>2, <2>1 DEF SameSwitches
<1>3. CASE c \in k.exists
  <2>1. k2 = [k EXCEPT !.rules[c] = Append(@, r)]
    BY <1>3 DEF Exec, Refused, Cmd
  <2> DEFINE z == Append(k.rules[c], r)  rs == [k.rules EXCEPT ![c] = z]
  <2>2. z \in Seq(Rules)
    BY <1>1
  <2>3. k2 = [k EXCEPT !.rules = rs]
    BY <2>1
  <2> HIDE DEF z
  <2>4. rs \in [Chains -> Seq(Rules)] /\ rs[c] = z /\ \A d \in Chains : d # c => rs[d] = k.rules[d]
    BY <1>1, <2>2
  <2> HIDE DEF rs
  <2>5. k2.rules = rs /\ k2.holes = k.holes /\ k2.exists = k.exists
    BY <1>1, <2>3 DEF Kernels
  <2>6. k2.hooks = k.hooks /\ k2.forward = k.forward /\ SameSwitches(k, k2)
    BY <1>1, <2>3 DEF Kernels, SameSwitches
  <2>7. k2 \in Kernels
    BY <1>1, <2>3, <2>4 DEF Kernels
  <2> QED BY <1>3, <2>4, <2>5, <2>6, <2>7 DEF z
<1> QED BY <1>2, <1>3

\* -I where no hook is: one, if there is the chain.
LEMMA ExecI ==
    ASSUME NEW k, KernelOK(k), NEW h \in Hooks, k.hooks[h] = 0, NEW k2, k2 = Exec(k, Cmd("I", h))
    PROVE  /\ k2 \in Kernels /\ SameChains(k, k2) /\ k2.forward = k.forward /\ SameSwitches(k, k2)
           /\ k2.hooks[h] = IF ChainOf[h] \in k.exists THEN 1 ELSE 0
           /\ \A g \in Hooks : g # h => k2.hooks[g] = k.hooks[g]
<1>1. k \in Kernels /\ k.hooks \in [Hooks -> 0..1]
  BY DEF KernelOK, Kernels
<1>2. CASE ChainOf[h] \notin k.exists
  <2>1. k2 = k
    BY <1>2 DEF Exec, Refused, Cmd
  <2> QED BY <1>1, <1>2, <2>1 DEF SameChains, SameSwitches
<1>3. CASE ChainOf[h] \in k.exists
  <2>1. k2 = [k EXCEPT !.hooks[h] = @ + 1]
    BY <1>3 DEF Exec, Refused, Cmd
  <2>2. k2 = [k EXCEPT !.hooks = [k.hooks EXCEPT ![h] = 1]]
    BY <2>1
  <2>3. [k.hooks EXCEPT ![h] = 1] \in [Hooks -> 0..1]
    BY <1>1
  <2>4. /\ k2 \in Kernels /\ k2.hooks = [k.hooks EXCEPT ![h] = 1]
        /\ SameChains(k, k2) /\ k2.forward = k.forward /\ SameSwitches(k, k2)
    BY <1>1, <2>2, <2>3, WithHooks
  <2> QED BY <1>1, <1>3, <2>4
<1> QED BY <1>2, <1>3

\* The FORWARD rule.
LEMMA ExecForward ==
    ASSUME NEW k, KernelOK(k), NEW k2
    PROVE  /\ k2 = Exec(k, Cmd("-forward", "")) =>
                /\ k2 \in Kernels /\ k2.forward = 0
                /\ SameChains(k, k2) /\ k2.hooks = k.hooks /\ SameSwitches(k, k2)
           /\ k2 = Exec(k, Cmd("+forward", "")) /\ k.forward = 0 =>
                /\ k2 \in Kernels /\ k2.forward = 1
                /\ SameChains(k, k2) /\ k2.hooks = k.hooks /\ SameSwitches(k, k2)
<1>1. k \in Kernels /\ k.forward \in 0..1
  BY DEF KernelOK, Kernels
<1>2. ASSUME k2 = Exec(k, Cmd("-forward", ""))
      PROVE  /\ k2 \in Kernels /\ k2.forward = 0
             /\ SameChains(k, k2) /\ k2.hooks = k.hooks /\ SameSwitches(k, k2)
  <2>1. CASE k.forward = 0
    BY <1>1, <1>2, <2>1 DEF Exec, Refused, Cmd, SameChains, SameSwitches
  <2>2. CASE k.forward # 0
    <3>1. k2 = [k EXCEPT !.forward = @ - 1]
      BY <1>1, <1>2, <2>2 DEF Exec, Refused, Cmd
    <3>2. k2 = [k EXCEPT !.forward = 0]
      BY <1>1, <2>2, <3>1
    <3> QED BY <1>1, <3>2, WithForward
  <2> QED BY <2>1, <2>2
<1>3. ASSUME k2 = Exec(k, Cmd("+forward", "")), k.forward = 0
      PROVE  /\ k2 \in Kernels /\ k2.forward = 1
             /\ SameChains(k, k2) /\ k2.hooks = k.hooks /\ SameSwitches(k, k2)
  <2>1. k2 = [k EXCEPT !.forward = k.forward + 1]
    BY <1>3 DEF Exec, Refused, Cmd
  <2>. k.forward = 0
    BY <1>3
  <2>2. k.forward + 1 = 1
    OBVIOUS
  <2> QED BY <1>1, <2>1, <2>2, WithForward
<1> QED BY <1>2, <1>3

\* The device-wide switches.
LEMMA ExecSwitch ==
    ASSUME NEW k, KernelOK(k), NEW k2, NEW b \in BOOLEAN
    PROVE  /\ k2 = Exec(k, Cmd("quic", b)) =>
                /\ k2 \in Kernels /\ SameChains(k, k2) /\ k2.hooks = k.hooks /\ k2.forward = k.forward
                /\ k2.quicBlocked = b /\ k2.ipv6Off = k.ipv6Off /\ k2.portalOff = k.portalOff
           /\ k2 = Exec(k, Cmd("ipv6", b)) =>
                /\ k2 \in Kernels /\ SameChains(k, k2) /\ k2.hooks = k.hooks /\ k2.forward = k.forward
                /\ k2.quicBlocked = k.quicBlocked /\ k2.ipv6Off = b /\ k2.portalOff = k.portalOff
           /\ k2 = Exec(k, Cmd("portal", b)) =>
                /\ k2 \in Kernels /\ SameChains(k, k2) /\ k2.hooks = k.hooks /\ k2.forward = k.forward
                /\ k2.quicBlocked = k.quicBlocked /\ k2.ipv6Off = k.ipv6Off /\ k2.portalOff = b
<1>1. k \in Kernels
  BY DEF KernelOK
<1>2. /\ Exec(k, Cmd("quic", b)) = [k EXCEPT !.quicBlocked = b]
      /\ Exec(k, Cmd("ipv6", b)) = [k EXCEPT !.ipv6Off = b]
      /\ Exec(k, Cmd("portal", b)) = [k EXCEPT !.portalOff = b]
  BY DEF Exec, Refused, Cmd
<1>3. ASSUME k2 = [k EXCEPT !.quicBlocked = b]
      PROVE  /\ k2 \in Kernels /\ SameChains(k, k2) /\ k2.hooks = k.hooks /\ k2.forward = k.forward
             /\ k2.quicBlocked = b /\ k2.ipv6Off = k.ipv6Off /\ k2.portalOff = k.portalOff
  <2>1. k2 \in Kernels
    BY <1>1, <1>3 DEF Kernels
  <2> QED BY <1>1, <1>3, <2>1 DEF Kernels, SameChains
<1>4. ASSUME k2 = [k EXCEPT !.ipv6Off = b]
      PROVE  /\ k2 \in Kernels /\ SameChains(k, k2) /\ k2.hooks = k.hooks /\ k2.forward = k.forward
             /\ k2.quicBlocked = k.quicBlocked /\ k2.ipv6Off = b /\ k2.portalOff = k.portalOff
  <2>1. k2 \in Kernels
    BY <1>1, <1>4 DEF Kernels
  <2> QED BY <1>1, <1>4, <2>1 DEF Kernels, SameChains
<1>5. ASSUME k2 = [k EXCEPT !.portalOff = b]
      PROVE  /\ k2 \in Kernels /\ SameChains(k, k2) /\ k2.hooks = k.hooks /\ k2.forward = k.forward
             /\ k2.quicBlocked = k.quicBlocked /\ k2.ipv6Off = k.ipv6Off /\ k2.portalOff = b
  <2>1. k2 \in Kernels
    BY <1>1, <1>5 DEF Kernels
  <2> QED BY <1>1, <1>5, <2>1 DEF Kernels, SameChains
<1> QED BY <1>2, <1>3, <1>4, <1>5
-----------------------------------------------------------------------------
(* The command sequences, position by position *)

\* A concatenation, element by element.
LEMMA ConcatAt ==
    ASSUME NEW S, NEW s \in Seq(S), NEW t \in Seq(S), NEW z, z = s \o t
    PROVE  /\ z \in Seq(S) /\ Len(z) = Len(s) + Len(t)
           /\ \A i \in 1..Len(s) : z[i] = s[i]
           /\ \A i \in 1..Len(t) : z[Len(s) + i] = t[i]
<1>1. /\ z \in Seq(S) /\ Len(z) = Len(s) + Len(t)
      /\ \A i \in 1..(Len(s) + Len(t)) : z[i] = IF i <= Len(s) THEN s[i] ELSE t[i - Len(s)]
  BY ConcatProperties
<1>2. \A i \in 1..Len(t) : z[Len(s) + i] = t[i]
  <2> TAKE i \in 1..Len(t)
  <2>1. Len(s) + i \in 1..(Len(s) + Len(t)) /\ ~(Len(s) + i <= Len(s)) /\ (Len(s) + i) - Len(s) = i
    OBVIOUS
  <2> QED BY <1>1, <2>1
<1> QED BY <1>1, <1>2

\* Short sequences.
LEMMA One ==
    ASSUME NEW S, NEW a \in S
    PROVE  <<a>> \in Seq(S) /\ Len(<<a>>) = 1 /\ <<a>>[1] = a
  OBVIOUS

\* A sequence of two.
LEMMA Two ==
    ASSUME NEW S, NEW a \in S, NEW b \in S
    PROVE  <<a, b>> \in Seq(S) /\ Len(<<a, b>>) = 2 /\ <<a, b>>[1] = a /\ <<a, b>>[2] = b
  OBVIOUS

\* A sequence of three.
LEMMA Three ==
    ASSUME NEW S, NEW a \in S, NEW b \in S, NEW c \in S
    PROVE  /\ <<a, b, c>> \in Seq(S) /\ Len(<<a, b, c>>) = 3
           /\ <<a, b, c>>[1] = a /\ <<a, b, c>>[2] = b /\ <<a, b, c>>[3] = c
  OBVIOUS

\* A sequence of four.
LEMMA Four ==
    ASSUME NEW S, NEW a \in S, NEW b \in S, NEW c \in S, NEW d \in S
    PROVE  /\ <<a, b, c, d>> \in Seq(S) /\ Len(<<a, b, c, d>>) = 4
           /\ <<a, b, c, d>>[1] = a /\ <<a, b, c, d>>[2] = b /\ <<a, b, c, d>>[3] = c /\ <<a, b, c, d>>[4] = d
  OBVIOUS

\* What is left after one more command.
LEMMA DropStep ==
    ASSUME NEW S, NEW s \in Seq(S), NEW n \in 0..Len(s)
    PROVE  /\ Drop(s, n) \in Seq(S) /\ Len(Drop(s, n)) = Len(s) - n
           /\ Drop(s, n) # <<>> <=> n < Len(s)
           /\ n < Len(s) => Head(Drop(s, n)) = s[n + 1] /\ Tail(Drop(s, n)) = Drop(s, n + 1)
<1>1. Drop(s, n) \in Seq(S) /\ Len(Drop(s, n)) = Len(s) - n
  BY DEF Drop
<1>2. Drop(s, n) # <<>> <=> n < Len(s)
  BY <1>1
<1>3. ASSUME n < Len(s)
      PROVE  Head(Drop(s, n)) = s[n + 1] /\ Tail(Drop(s, n)) = Drop(s, n + 1)
  <2>1. Head(Drop(s, n)) = s[n + 1]
    BY <1>1, <1>3 DEF Drop
  <2>2. Len(Tail(Drop(s, n))) = Len(s) - (n + 1) /\ Tail(Drop(s, n)) \in Seq(S)
    BY <1>1, <1>2, <1>3, HeadTailProperties
  <2>3. Drop(s, n + 1) \in Seq(S) /\ Len(Drop(s, n + 1)) = Len(s) - (n + 1)
    BY <1>3 DEF Drop
  <2>4. \A i \in 1..(Len(s) - (n + 1)) : Tail(Drop(s, n))[i] = Drop(s, n)[i + 1]
    BY <1>1, <1>2, <1>3, <2>2, HeadTailProperties
  <2>5. \A i \in 1..(Len(s) - (n + 1)) : Drop(s, n)[i + 1] = s[n + 1 + i] /\ Drop(s, n + 1)[i] = s[n + 1 + i]
    BY <1>3 DEF Drop
  <2>6. \A i \in 1..Len(Tail(Drop(s, n))) : Tail(Drop(s, n))[i] = Drop(s, n + 1)[i]
    BY <2>2, <2>4, <2>5
  <2> QED BY <2>1, <2>2, <2>3, <2>6, SeqEqual
<1> QED BY <1>1, <1>2, <1>3

\* One more rule of a chain.
LEMMA PrefixStep ==
    ASSUME NEW S, NEW s \in Seq(S), NEW n \in 0..Len(s)
    PROVE  /\ Prefix(s, n) \in Seq(S) /\ Len(Prefix(s, n)) = n
           /\ n < Len(s) => Append(Prefix(s, n), s[n + 1]) = Prefix(s, n + 1)
           /\ Prefix(s, Len(s)) = s /\ Prefix(s, 0) = <<>>
<1>1. \A j \in 0..Len(s) : Prefix(s, j) \in Seq(S) /\ Len(Prefix(s, j)) = j
  BY DEF Prefix
<1>2. ASSUME n < Len(s)
      PROVE  Append(Prefix(s, n), s[n + 1]) = Prefix(s, n + 1)
  <2>1. s[n + 1] \in S
    BY <1>2
  <2>2. /\ Append(Prefix(s, n), s[n + 1]) \in Seq(S) /\ Len(Append(Prefix(s, n), s[n + 1])) = n + 1
        /\ \A i \in 1..n : Append(Prefix(s, n), s[n + 1])[i] = s[i]
        /\ Append(Prefix(s, n), s[n + 1])[n + 1] = s[n + 1]
    BY <1>1, <2>1 DEF Prefix
  <2>3. \A i \in 1..(n + 1) : Prefix(s, n + 1)[i] = s[i]
    BY DEF Prefix
  <2>4. Prefix(s, n + 1) \in Seq(S) /\ Len(Prefix(s, n + 1)) = n + 1
    BY <1>1, <1>2
  <2>5. \A i \in 1..(n + 1) : i \in 1..n \/ i = n + 1
    OBVIOUS
  <2> QED BY <2>2, <2>3, <2>4, <2>5, SeqEqual
<1>3. Prefix(s, Len(s)) = s
  BY DEF Prefix
<1>4. Prefix(s, 0) = <<>>
  BY <1>1
<1> QED BY <1>1, <1>2, <1>3, <1>4

\* The commands are what they are called.
LEMMA CommandFacts ==
    /\ \A h \in Hooks : Cmd("D", h) \in Removals /\ Cmd("I", h) \in Commands
    /\ \A c \in Chains : Cmd("F", c) \in Removals /\ Cmd("X", c) \in Removals /\ Cmd("N", c) \in Commands
    /\ \A c \in Chains, r \in Rules : Cmd("A", <<c, r>>) \in Commands
    /\ Cmd("-forward", "") \in Removals /\ Cmd("+forward", "") \in Commands
    /\ \A b \in BOOLEAN : Cmd("quic", b) \in Removals /\ Cmd("ipv6", b) \in Removals /\ Cmd("portal", b) \in Removals
    /\ Removals \subseteq Commands
<1>1. \A h \in Hooks : Cmd("D", h) \in Removals
  BY Zenon DEF Removals
<1>2. \A c \in Chains : Cmd("F", c) \in Removals
  BY Zenon DEF Removals
<1>3. \A c \in Chains : Cmd("X", c) \in Removals
  BY Zenon DEF Removals
<1>4. Cmd("-forward", "") \in Removals
  BY Zenon DEF Removals
<1>5. \A b \in BOOLEAN : Cmd("quic", b) \in Removals /\ Cmd("ipv6", b) \in Removals /\ Cmd("portal", b) \in Removals
  BY Zenon DEF Removals
<1>6. \A h \in Hooks : Cmd("I", h) \in Additions
  BY Zenon DEF Additions
<1>7. \A c \in Chains : Cmd("N", c) \in Additions
  BY Zenon DEF Additions
<1>8. \A c \in Chains, r \in Rules : Cmd("A", <<c, r>>) \in Additions
  <2>1. \A c \in Chains, r \in Rules : <<c, r>> \in Chains \X Rules
    OBVIOUS
  <2> QED BY <2>1, Zenon DEF Additions
<1>9. Cmd("+forward", "") \in Additions
  BY Zenon DEF Additions
<1> QED BY <1>1, <1>2, <1>3, <1>4, <1>5, <1>6, <1>7, <1>8, <1>9, Zenon DEF Commands

\* Twelve commands detach the hooks and delete the chains.
LEMMA DetachTable ==
    ASSUME NEW iface \in Ifaces, NEW s, s = DetachAndDelete(iface)
    PROVE  /\ s \in Seq(Removals) /\ Len(s) = 12
           /\ s[1] = Cmd("D", "OUTPUT-tcp") /\ s[2] = Cmd("D", iface)
           /\ s[3] = Cmd("D", "OUTPUT-PROXY") /\ s[4] = Cmd("D", "OUTPUT-udp53")
           /\ s[5] = Cmd("F", "OUT") /\ s[6] = Cmd("X", "OUT") /\ s[7] = Cmd("F", "PRE") /\ s[8] = Cmd("X", "PRE")
           /\ s[9] = Cmd("F", "PROXY") /\ s[10] = Cmd("X", "PROXY")
           /\ s[11] = Cmd("F", "DNS") /\ s[12] = Cmd("X", "DNS")
<1>1. /\ Cmd("D", "OUTPUT-tcp") \in Removals /\ Cmd("D", iface) \in Removals
      /\ Cmd("D", "OUTPUT-PROXY") \in Removals /\ Cmd("D", "OUTPUT-udp53") \in Removals
  BY CommandFacts, HookFacts
<1>2. /\ Cmd("F", "OUT") \in Removals /\ Cmd("X", "OUT") \in Removals
      /\ Cmd("F", "PRE") \in Removals /\ Cmd("X", "PRE") \in Removals
      /\ Cmd("F", "PROXY") \in Removals /\ Cmd("X", "PROXY") \in Removals
      /\ Cmd("F", "DNS") \in Removals /\ Cmd("X", "DNS") \in Removals
  BY CommandFacts DEF Chains
<1> QED BY <1>1, <1>2 DEF DetachAndDelete

\* The pre-pass of Apply.
LEMMA CleanupTable ==
    ASSUME NEW cfg \in Configs, NEW s, s = cleanupRules(cfg)
    PROVE  /\ s \in Seq(Removals) /\ Len(s) = 14
           /\ \A i \in 1..12 : s[i] = DetachAndDelete(cfg.HotspotIfaces)[i]
           /\ s[13] = Cmd("-forward", "") /\ s[14] = Cmd("quic", FALSE)
<1> DEFINE t == DetachAndDelete(cfg.HotspotIfaces)
           u == <<Cmd("-forward", ""), Cmd("quic", FALSE)>>
<1>1. t \in Seq(Removals) /\ Len(t) = 12
  BY DetachTable DEF Configs
<1>2. Cmd("-forward", "") \in Removals /\ Cmd("quic", FALSE) \in Removals
  BY CommandFacts
<1>3. u \in Seq(Removals) /\ Len(u) = 2 /\ u[1] = Cmd("-forward", "") /\ u[2] = Cmd("quic", FALSE)
  BY <1>2, Two, Zenon
<1>4. s = t \o u
  BY DEF cleanupRules
<1> HIDE DEF t, u
<1>5. /\ s \in Seq(Removals) /\ Len(s) = Len(t) + Len(u)
      /\ \A i \in 1..Len(t) : s[i] = t[i]
      /\ \A i \in 1..Len(u) : s[Len(t) + i] = u[i]
  <2>1. t \in Seq(Removals) /\ u \in Seq(Removals)
    BY <1>1, <1>3
  <2> QED BY <1>4, <2>1, ConcatAt
<1>. Len(t) = 12 /\ Len(u) = 2
  BY <1>1, <1>3
<1>6. Len(s) = 14 /\ s[13] = u[1] /\ s[14] = u[2] /\ \A i \in 1..12 : s[i] = t[i]
  BY <1>5
<1> QED BY <1>3, <1>5, <1>6, Zenon DEF t

\* net_clean.sh and the daemon's Cleanup only take away.
LEMMA NetCleanTable ==
    /\ netClean \in Seq(Removals) /\ Len(netClean) = 16
    /\ \A i \in 1..12 : netClean[i] = DetachAndDelete("std")[i]
    /\ netClean[13] = Cmd("-forward", "") /\ netClean[14] = Cmd("ipv6", FALSE)
    /\ netClean[15] = Cmd("quic", FALSE) /\ netClean[16] = Cmd("portal", FALSE)
<1> DEFINE t == DetachAndDelete("std")
           u == <<Cmd("-forward", ""), Cmd("ipv6", FALSE), Cmd("quic", FALSE), Cmd("portal", FALSE)>>
<1>1. t \in Seq(Removals) /\ Len(t) = 12
  BY DetachTable DEF Ifaces
<1>2. /\ Cmd("-forward", "") \in Removals /\ Cmd("ipv6", FALSE) \in Removals
      /\ Cmd("quic", FALSE) \in Removals /\ Cmd("portal", FALSE) \in Removals
  BY CommandFacts
<1>3. /\ u \in Seq(Removals) /\ Len(u) = 4 /\ u[1] = Cmd("-forward", "") /\ u[2] = Cmd("ipv6", FALSE)
      /\ u[3] = Cmd("quic", FALSE) /\ u[4] = Cmd("portal", FALSE)
  BY <1>2, Four, Zenon
<1>4. netClean = t \o u
  BY DEF netClean
<1> HIDE DEF t, u
<1>5. /\ netClean \in Seq(Removals) /\ Len(netClean) = Len(t) + Len(u)
      /\ \A i \in 1..Len(t) : netClean[i] = t[i]
      /\ \A i \in 1..Len(u) : netClean[Len(t) + i] = u[i]
  <2>1. t \in Seq(Removals) /\ u \in Seq(Removals)
    BY <1>1, <1>3
  <2> QED BY <1>4, <2>1, ConcatAt
<1>. Len(t) = 12 /\ Len(u) = 4
  BY <1>1, <1>3
<1>6. /\ Len(netClean) = 16 /\ \A i \in 1..12 : netClean[i] = t[i]
      /\ netClean[13] = u[1] /\ netClean[14] = u[2] /\ netClean[15] = u[3] /\ netClean[16] = u[4]
  BY <1>5
<1> QED BY <1>3, <1>5, <1>6, Zenon DEF t

\* Whatever the daemon runs when the tunnel stops only takes away.
LEMMA CleanupRemoves ==
    ASSUME NEW cfg \in Configs
    PROVE  Cleanup(cfg) \o netClean \in Seq(Removals) /\ <<>> \o netClean \in Seq(Removals)
<1> DEFINE u == <<Cmd("ipv6", FALSE), Cmd("portal", FALSE)>>
<1>1. Cmd("ipv6", FALSE) \in Removals /\ Cmd("portal", FALSE) \in Removals
  BY CommandFacts
<1>2. u \in Seq(Removals)
  BY <1>1, Two, Zenon
<1> HIDE DEF u
<1>3. cleanupRules(cfg) \in Seq(Removals)
  BY CleanupTable
<1>4. Cleanup(cfg) \in Seq(Removals)
  BY <1>2, <1>3, ConcatProperties DEF Cleanup, u
<1> QED BY <1>4, NetCleanTable, ConcatProperties, EmptySeq

\* The commands of Apply up to the first hook, with a function of the position.
Installs == createChains \o addBypasses("OUT", OutRules) \o addBypasses("PRE", PreRules)

\* The thirteen commands that make and fill the redirect chains.
LEMMA InstallsTable ==
    /\ Installs \in Seq(Commands) /\ Len(Installs) = 13
    /\ Installs[1] = Cmd("N", "OUT") /\ Installs[2] = Cmd("F", "OUT")
    /\ Installs[3] = Cmd("N", "PRE") /\ Installs[4] = Cmd("F", "PRE")
    /\ \A i \in 1..5 : Installs[4 + i] = Cmd("A", <<"OUT", OutRules[i]>>)
    /\ \A i \in 1..4 : Installs[9 + i] = Cmd("A", <<"PRE", PreRules[i]>>)
    /\ createChains \in Seq(Commands) /\ addBypasses("OUT", OutRules) \in Seq(Commands)
    /\ addBypasses("PRE", PreRules) \in Seq(Commands)
<1> DEFINE a == createChains  b == addBypasses("OUT", OutRules)  c == addBypasses("PRE", PreRules)
<1>1. /\ Cmd("N", "OUT") \in Commands /\ Cmd("F", "OUT") \in Commands
      /\ Cmd("N", "PRE") \in Commands /\ Cmd("F", "PRE") \in Commands
  BY CommandFacts DEF Chains
<1>2. /\ a \in Seq(Commands) /\ Len(a) = 4 /\ a[1] = Cmd("N", "OUT") /\ a[2] = Cmd("F", "OUT")
      /\ a[3] = Cmd("N", "PRE") /\ a[4] = Cmd("F", "PRE")
  BY <1>1 DEF createChains
<1>3. OutRules \in Seq(Rules) /\ Len(OutRules) = 5 /\ PreRules \in Seq(Rules) /\ Len(PreRules) = 4
  BY DEF OutRules, PreRules, Rules
<1>4. /\ \A i \in 1..5 : Cmd("A", <<"OUT", OutRules[i]>>) \in Commands
      /\ \A i \in 1..4 : Cmd("A", <<"PRE", PreRules[i]>>) \in Commands
  <2>1. \A i \in 1..5 : OutRules[i] \in Rules
    BY DEF OutRules, Rules
  <2>2. \A i \in 1..4 : PreRules[i] \in Rules
    BY DEF PreRules, Rules
  <2>3. \A x \in Chains, r \in Rules : Cmd("A", <<x, r>>) \in Commands
    BY CommandFacts
  <2> QED BY <2>1, <2>2, <2>3 DEF Chains
<1>5. b \in Seq(Commands) /\ Len(b) = 5 /\ \A i \in 1..5 : b[i] = Cmd("A", <<"OUT", OutRules[i]>>)
  BY <1>3, <1>4 DEF addBypasses
<1>6. c \in Seq(Commands) /\ Len(c) = 4 /\ \A i \in 1..4 : c[i] = Cmd("A", <<"PRE", PreRules[i]>>)
  BY <1>3, <1>4 DEF addBypasses
<1>7. Installs = (a \o b) \o c
  BY DEF Installs
<1> DEFINE d == a \o b
<1>0. d = a \o b
  OBVIOUS
<1> HIDE DEF a, b, c, d
<1>8. /\ d \in Seq(Commands) /\ Len(d) = Len(a) + Len(b)
      /\ \A i \in 1..Len(a) : d[i] = a[i]
      /\ \A i \in 1..Len(b) : d[Len(a) + i] = b[i]
  <2>1. a \in Seq(Commands) /\ b \in Seq(Commands)
    BY <1>2, <1>5
  <2> QED BY <1>0, <2>1, ConcatAt
<1>9. Installs = d \o c
  BY <1>0, <1>7
<1>10. Len(d) = 9 /\ (\A i \in 1..4 : d[i] = a[i]) /\ \A i \in 1..5 : d[4 + i] = b[i]
  <2>1. Len(a) = 4 /\ Len(b) = 5
    BY <1>2, <1>5
  <2> QED BY <1>8, <2>1
<1>11. /\ Installs \in Seq(Commands) /\ Len(Installs) = Len(d) + Len(c)
       /\ \A i \in 1..Len(d) : Installs[i] = d[i]
       /\ \A i \in 1..Len(c) : Installs[Len(d) + i] = c[i]
  <2>1. d \in Seq(Commands) /\ c \in Seq(Commands)
    BY <1>6, <1>8
  <2> QED BY <1>9, <2>1, ConcatAt
<1>12. /\ Len(Installs) = 13 /\ (\A i \in 1..9 : Installs[i] = d[i])
       /\ \A i \in 1..4 : Installs[9 + i] = c[i]
  <2>1. Len(d) = 9 /\ Len(c) = 4
    BY <1>6, <1>10
  <2> QED BY <1>11, <2>1
<1>13. Installs[1] = a[1] /\ Installs[2] = a[2] /\ Installs[3] = a[3] /\ Installs[4] = a[4]
  BY <1>10, <1>12
<1>14. \A i \in 1..5 : Installs[4 + i] = b[i]
  BY <1>10, <1>12
<1> QED BY <1>2, <1>5, <1>6, <1>11, <1>12, <1>13, <1>14 DEF a, b, c

\* The hooks of Apply.
LEMMA HooksTable ==
    ASSUME NEW cfg \in Configs, NEW s, s = hookChains(cfg)
    PROVE  /\ s \in Seq(Commands) /\ Len(s) = Base(cfg) - 27 /\ s[1] = Cmd("I", "OUTPUT-tcp")
           /\ cfg.Hotspot => s[2] = Cmd("I", cfg.HotspotIfaces) /\ s[3] = Cmd("+forward", "")
<1> DEFINE t == <<Cmd("I", "OUTPUT-tcp")>>  u == <<Cmd("I", cfg.HotspotIfaces), Cmd("+forward", "")>>
<1>1. /\ Cmd("I", "OUTPUT-tcp") \in Commands /\ Cmd("I", cfg.HotspotIfaces) \in Commands
      /\ Cmd("+forward", "") \in Commands
  BY CommandFacts, HookFacts DEF Configs
<1>2. t \in Seq(Commands) /\ Len(t) = 1 /\ t[1] = Cmd("I", "OUTPUT-tcp")
  BY <1>1, One, Zenon
<1>3. /\ u \in Seq(Commands) /\ Len(u) = 2
      /\ u[1] = Cmd("I", cfg.HotspotIfaces) /\ u[2] = Cmd("+forward", "")
  BY <1>1, Two, Zenon
<1>4. s = t \o IF cfg.Hotspot THEN u ELSE <<>>
  BY DEF hookChains
<1> HIDE DEF t, u
<1>5. CASE cfg.Hotspot
  <2>1. s = t \o u /\ t \in Seq(Commands) /\ u \in Seq(Commands)
    BY <1>2, <1>3, <1>4, <1>5
  <2>2. /\ s \in Seq(Commands) /\ Len(s) = Len(t) + Len(u)
        /\ \A i \in 1..Len(t) : s[i] = t[i]
        /\ \A i \in 1..Len(u) : s[Len(t) + i] = u[i]
    BY <2>1, ConcatAt
  <2>3. Len(t) = 1 /\ Len(u) = 2
    BY <1>2, <1>3
  <2>4. Len(s) = 3 /\ s[1] = t[1] /\ s[2] = u[1] /\ s[3] = u[2]
    BY <2>2, <2>3
  <2>5. Base(cfg) = 30
    BY <1>5 DEF Base
  <2>6. Len(s) = Base(cfg) - 27
    BY <2>4, <2>5
  <2> QED BY <1>2, <1>3, <1>5, <2>2, <2>4, <2>6, Zenon
<1>6. CASE ~cfg.Hotspot
  <2>1. s = t \o <<>> /\ t \in Seq(Commands)
    BY <1>2, <1>4, <1>6
  <2>2. s = t
    BY <2>1, ConcatEmptySeq
  <2>3. Base(cfg) = 28
    BY <1>6 DEF Base
  <2>4. Len(t) = 1
    BY <1>2
  <2>5. Len(s) = Base(cfg) - 27
    BY <2>2, <2>3, <2>4
  <2> QED BY <1>2, <1>6, <2>2, <2>5, Zenon
<1> QED BY <1>5, <1>6

\* The DNS chain and its hook.
LEMMA DNSTable ==
    /\ setupDNSForward \in Seq(Commands) /\ Len(setupDNSForward) = 6
    /\ setupDNSForward[1] = Cmd("N", "DNS") /\ setupDNSForward[2] = Cmd("F", "DNS")
    /\ \A i \in 1..2 : setupDNSForward[2 + i] = Cmd("A", <<"DNS", DNSRules[i]>>)
    /\ setupDNSForward[5] = Cmd("D", "OUTPUT-udp53") /\ setupDNSForward[6] = Cmd("I", "OUTPUT-udp53")
<1> DEFINE a == <<Cmd("N", "DNS"), Cmd("F", "DNS")>>  b == addBypasses("DNS", DNSRules)
           c == <<Cmd("D", "OUTPUT-udp53"), Cmd("I", "OUTPUT-udp53")>>  d == a \o b
<1>1. /\ Cmd("N", "DNS") \in Commands /\ Cmd("F", "DNS") \in Commands
      /\ Cmd("D", "OUTPUT-udp53") \in Commands /\ Cmd("I", "OUTPUT-udp53") \in Commands
  BY CommandFacts, HookFacts DEF Chains
<1>2. a \in Seq(Commands) /\ Len(a) = 2 /\ a[1] = Cmd("N", "DNS") /\ a[2] = Cmd("F", "DNS")
  BY <1>1
<1>3. c \in Seq(Commands) /\ Len(c) = 2 /\ c[1] = Cmd("D", "OUTPUT-udp53") /\ c[2] = Cmd("I", "OUTPUT-udp53")
  BY <1>1
<1>4. b \in Seq(Commands) /\ Len(b) = 2 /\ \A i \in 1..2 : b[i] = Cmd("A", <<"DNS", DNSRules[i]>>)
  <2>1. DNSRules \in Seq(Rules) /\ Len(DNSRules) = 2 /\ \A i \in 1..2 : DNSRules[i] \in Rules
    BY DEF DNSRules, Rules
  <2>2. \A i \in 1..2 : Cmd("A", <<"DNS", DNSRules[i]>>) \in Commands
    <3>1. \A x \in Chains, r \in Rules : Cmd("A", <<x, r>>) \in Commands
      BY CommandFacts
    <3> QED BY <2>1, <3>1 DEF Chains
  <2> QED BY <2>1, <2>2 DEF addBypasses
<1>5. d = a \o b /\ setupDNSForward = d \o c
  BY DEF setupDNSForward
<1> HIDE DEF a, b, c, d
<1>6. /\ d \in Seq(Commands) /\ Len(d) = Len(a) + Len(b)
      /\ \A i \in 1..Len(a) : d[i] = a[i]
      /\ \A i \in 1..Len(b) : d[Len(a) + i] = b[i]
  <2>1. a \in Seq(Commands) /\ b \in Seq(Commands)
    BY <1>2, <1>4
  <2> QED BY <1>5, <2>1, ConcatAt
<1>7. /\ setupDNSForward \in Seq(Commands) /\ Len(setupDNSForward) = Len(d) + Len(c)
      /\ \A i \in 1..Len(d) : setupDNSForward[i] = d[i]
      /\ \A i \in 1..Len(c) : setupDNSForward[Len(d) + i] = c[i]
  <2>1. d \in Seq(Commands) /\ c \in Seq(Commands)
    BY <1>3, <1>6
  <2> QED BY <1>5, <2>1, ConcatAt
<1>8. Len(a) = 2 /\ Len(b) = 2 /\ Len(c) = 2
  BY <1>2, <1>3, <1>4
<1>9. Len(d) = 4 /\ d[1] = a[1] /\ d[2] = a[2] /\ d[3] = b[1] /\ d[4] = b[2]
  BY <1>6, <1>8
<1>10. /\ Len(setupDNSForward) = 6 /\ setupDNSForward[1] = a[1] /\ setupDNSForward[2] = a[2]
       /\ setupDNSForward[3] = b[1] /\ setupDNSForward[4] = b[2]
       /\ setupDNSForward[5] = c[1] /\ setupDNSForward[6] = c[2]
  BY <1>7, <1>8, <1>9
<1>11. \A i \in 1..2 : i = 1 \/ i = 2
  OBVIOUS
<1>12. \A i \in 1..2 : setupDNSForward[2 + i] = b[i]
  BY <1>10, <1>11
<1> QED BY <1>2, <1>3, <1>4, <1>7, <1>10, <1>12, Zenon

\* The three commands against leaks.
LEMMA LeaksTable ==
    /\ preventLeaks \in Seq(Commands) /\ Len(preventLeaks) = 3
    /\ preventLeaks[1] = Cmd("quic", TRUE) /\ preventLeaks[2] = Cmd("ipv6", TRUE)
    /\ preventLeaks[3] = Cmd("portal", TRUE)
<1>1. Cmd("quic", TRUE) \in Commands /\ Cmd("ipv6", TRUE) \in Commands /\ Cmd("portal", TRUE) \in Commands
  BY CommandFacts, Zenon
<1> QED BY <1>1, Three, Zenon DEF preventLeaks

\* Five sequences in a row, each known by its length.
IsSeq(S, s, n) == s \in Seq(S) /\ Len(s) = n
Joins(z, s, m, t, n) == (\A i \in 1..m : z[i] = s[i]) /\ (\A i \in 1..n : z[m + i] = t[i])
JoinsFive(s, a, b, c, d, e, n) ==
    /\ \A i \in 1..14 : s[i] = a[i]
    /\ \A i \in 1..13 : s[14 + i] = b[i]
    /\ \A i \in 1..(n - 27) : s[27 + i] = c[i]
    /\ \A i \in 1..6 : s[n + i] = d[i]
    /\ \A i \in 1..3 : s[n + 6 + i] = e[i]

\* A concatenation of sequences of known lengths.
LEMMA Join ==
    ASSUME NEW S, NEW s, NEW t, NEW m, NEW n, NEW l, IsSeq(S, s, m), IsSeq(S, t, n), l = m + n
    PROVE  IsSeq(S, s \o t, l) /\ Joins(s \o t, s, m, t, n)
<1>1. s \in Seq(S) /\ t \in Seq(S) /\ Len(s) = m /\ Len(t) = n
  BY DEF IsSeq
<1> DEFINE z == s \o t
<1>2. /\ z \in Seq(S) /\ Len(z) = Len(s) + Len(t)
      /\ \A i \in 1..Len(s) : z[i] = s[i]
      /\ \A i \in 1..Len(t) : z[Len(s) + i] = t[i]
  BY <1>1, ConcatAt, SMTT(60)
<1> HIDE DEF z
<1>3. IsSeq(S, z, l) /\ Joins(z, s, m, t, n)
  BY <1>1, <1>2 DEF IsSeq, Joins
<1> QED BY <1>3 DEF z

\* Five sequences one after the other, as Apply joins its parts.
LEMMA ConcatFive ==
    ASSUME NEW S, NEW a, NEW b, NEW c, NEW d, NEW e, NEW n, n \in {28, 30},
           IsSeq(S, a, 14), IsSeq(S, b, 13), IsSeq(S, c, n - 27), IsSeq(S, d, 6), IsSeq(S, e, 3)
    PROVE  /\ IsSeq(S, (((a \o b) \o c) \o d) \o e, n + 9)
           /\ JoinsFive((((a \o b) \o c) \o d) \o e, a, b, c, d, e, n)
<1> DEFINE ab == a \o b  abc == ab \o c  abcd == abc \o d  s == abcd \o e
<1>1. IsSeq(S, ab, 27) /\ Joins(ab, a, 14, b, 13)
  <2>1. 27 = 14 + 13
    OBVIOUS
  <2> QED BY <2>1, Join, Zenon
<1>2. IsSeq(S, abc, n) /\ Joins(abc, ab, 27, c, n - 27)
  <2> HIDE DEF ab
  <2>1. n = 27 + (n - 27)
    OBVIOUS
  <2> QED BY <1>1, <2>1, Join, Zenon
<1>3. IsSeq(S, abcd, n + 6) /\ Joins(abcd, abc, n, d, 6)
  <2> HIDE DEF abc
  <2> QED BY <1>2, Join, Zenon
<1>4. IsSeq(S, s, n + 9) /\ Joins(s, abcd, n + 6, e, 3)
  <2> HIDE DEF abcd
  <2>1. n + 9 = (n + 6) + 3
    OBVIOUS
  <2> QED BY <1>3, <2>1, Join, Zenon
<1> HIDE DEF ab, abc, abcd, s
<1>5. \A i \in 1..n : s[i] = abc[i]
  BY <1>3, <1>4 DEF Joins
<1>6. \A i \in 1..27 : s[i] = ab[i]
  BY <1>2, <1>5 DEF Joins
<1>7. (\A i \in 1..14 : s[i] = a[i]) /\ (\A i \in 1..13 : s[14 + i] = b[i])
  BY <1>1, <1>6 DEF Joins
<1>8. \A i \in 1..(n - 27) : s[27 + i] = c[i]
  BY <1>2, <1>5 DEF Joins
<1>9. \A i \in 1..6 : s[n + i] = d[i]
  BY <1>3, <1>4 DEF Joins
<1>10. \A i \in 1..3 : s[n + 6 + i] = e[i]
  BY <1>4 DEF Joins
<1>11. JoinsFive(s, a, b, c, d, e, n)
  BY <1>7, <1>8, <1>9, <1>10 DEF JoinsFive
<1> QED BY <1>4, <1>11 DEF ab, abc, abcd, s

\* The first three of them, written as Apply writes them.
Regrouped(a, u, v, w) == ((a \o u) \o v) \o w = a \o ((u \o v) \o w)

\* Concatenation is associative, for the three parts that fill the chains.
LEMMA Regroup ==
    ASSUME NEW S, NEW a \in Seq(S), NEW u \in Seq(S), NEW v \in Seq(S), NEW w \in Seq(S)
    PROVE  Regrouped(a, u, v, w)
<1> DEFINE uv == u \o v
<1>1. (a \o u) \o v = a \o uv
  BY ConcatAssociative
<1>2. uv \in Seq(S)
  BY ConcatProperties
<1> HIDE DEF uv
<1>3. (a \o uv) \o w = a \o (uv \o w)
  BY <1>2, ConcatAssociative, SMTT(60)
<1> QED BY <1>1, <1>3, Zenon DEF uv, Regrouped

\* The commands of Apply, one after the other.
LEMMA ApplyTable ==
    ASSUME NEW cfg \in Configs
    PROVE  /\ Apply(cfg) \in Seq(Commands) /\ Len(Apply(cfg)) = Base(cfg) + 9
           /\ \A i \in 1..14 : Apply(cfg)[i] = cleanupRules(cfg)[i]
           /\ \A i \in 1..13 : Apply(cfg)[14 + i] = Installs[i]
           /\ \A i \in 1..(Base(cfg) - 27) : Apply(cfg)[27 + i] = hookChains(cfg)[i]
           /\ \A i \in 1..6 : Apply(cfg)[Base(cfg) + i] = setupDNSForward[i]
           /\ \A i \in 1..3 : Apply(cfg)[Base(cfg) + 6 + i] = preventLeaks[i]
<1>0. Base(cfg) \in {28, 30}
  BY DEF Base
<1>1. cleanupRules(cfg) \in Seq(Commands) /\ Len(cleanupRules(cfg)) = 14
  <2>1. cleanupRules(cfg) \in Seq(Removals) /\ Len(cleanupRules(cfg)) = 14
    BY CleanupTable
  <2>2. Removals \subseteq Commands
    BY CommandFacts
  <2> QED BY <2>1, <2>2
<1>2. Installs \in Seq(Commands) /\ Len(Installs) = 13
  BY InstallsTable
<1>3. hookChains(cfg) \in Seq(Commands) /\ Len(hookChains(cfg)) = Base(cfg) - 27
  BY HooksTable
<1>4. setupDNSForward \in Seq(Commands) /\ Len(setupDNSForward) = 6
  BY DNSTable
<1>5. preventLeaks \in Seq(Commands) /\ Len(preventLeaks) = 3
  BY LeaksTable
<1>6. /\ createChains \in Seq(Commands) /\ addBypasses("OUT", OutRules) \in Seq(Commands)
      /\ addBypasses("PRE", PreRules) \in Seq(Commands)
  BY InstallsTable
<1>7. ((cleanupRules(cfg) \o createChains) \o addBypasses("OUT", OutRules)) \o addBypasses("PRE", PreRules)
        = cleanupRules(cfg) \o Installs
  <2>1. Installs = (createChains \o addBypasses("OUT", OutRules)) \o addBypasses("PRE", PreRules)
    BY DEF Installs
  <2>2. cleanupRules(cfg) \in Seq(Commands)
    BY <1>1
  <2> DEFINE a == cleanupRules(cfg)  u == createChains
             v == addBypasses("OUT", OutRules)  w == addBypasses("PRE", PreRules)
  <2>3. a \in Seq(Commands) /\ u \in Seq(Commands) /\ v \in Seq(Commands) /\ w \in Seq(Commands)
    BY <1>6, <2>2
  <2> HIDE DEF a, u, v, w
  <2>4. Regrouped(a, u, v, w)
    BY <2>3, Regroup, Zenon
  <2> QED BY <2>1, <2>4, Zenon DEF a, u, v, w, Regrouped
<1>8. Apply(cfg) = (((cleanupRules(cfg) \o Installs) \o hookChains(cfg)) \o setupDNSForward) \o preventLeaks
  BY <1>7 DEF Apply
<1>9. /\ IsSeq(Commands, cleanupRules(cfg), 14) /\ IsSeq(Commands, Installs, 13)
      /\ IsSeq(Commands, hookChains(cfg), Base(cfg) - 27)
      /\ IsSeq(Commands, setupDNSForward, 6) /\ IsSeq(Commands, preventLeaks, 3)
  BY <1>1, <1>2, <1>3, <1>4, <1>5, Zenon DEF IsSeq
<1>10. /\ IsSeq(Commands, Apply(cfg), Base(cfg) + 9)
       /\ JoinsFive(Apply(cfg), cleanupRules(cfg), Installs, hookChains(cfg), setupDNSForward, preventLeaks, Base(cfg))
  BY <1>0, <1>8, <1>9, ConcatFive, ZenonT(60)
<1> QED BY <1>10, Zenon DEF IsSeq, JoinsFive

\* The scripts' commands.
ScriptCommands == Removals \cup {Cmd("sleep", ""), Cmd("end", "once"), Cmd("end", "stop")}

\* The sixteen commands of net_clean.sh.
LEMMA NetCleanSeq == IsSeq(ScriptCommands, netClean, 16)
<1>1. netClean \in Seq(Removals) /\ Len(netClean) = 16
  BY NetCleanTable
<1>2. Removals \subseteq ScriptCommands
  BY Zenon DEF ScriptCommands
<1> QED BY <1>1, <1>2 DEF IsSeq

\* The two scripts, position by position.
LEMMA ScriptTable ==
    /\ IsSeq(ScriptCommands, Once, 17) /\ IsSeq(ScriptCommands, Stop, 34)
    /\ \A i \in 1..16 : Once[i] = netClean[i] /\ Stop[i] = netClean[i] /\ Stop[17 + i] = netClean[i]
    /\ Once[17] = Cmd("end", "once") /\ Stop[17] = Cmd("sleep", "") /\ Stop[34] = Cmd("end", "stop")
<1> DEFINE o == <<Cmd("end", "once")>>  p == <<Cmd("end", "stop")>>  q == <<Cmd("sleep", "")>>
           nq == netClean \o q  nqn == nq \o netClean
<1>1. Cmd("sleep", "") \in ScriptCommands /\ Cmd("end", "once") \in ScriptCommands /\ Cmd("end", "stop") \in ScriptCommands
  BY Zenon DEF ScriptCommands
<1>2. /\ IsSeq(ScriptCommands, o, 1) /\ IsSeq(ScriptCommands, p, 1) /\ IsSeq(ScriptCommands, q, 1)
      /\ o[1] = Cmd("end", "once") /\ p[1] = Cmd("end", "stop") /\ q[1] = Cmd("sleep", "")
  BY <1>1, One, Zenon DEF IsSeq
<1>3. Once = netClean \o o /\ Stop = nqn \o p
  BY Zenon DEF Once, Stop, stopCleans
<1>4. 16 + 1 = 17 /\ 17 + 16 = 33 /\ 33 + 1 = 34
  OBVIOUS
<1> HIDE DEF o, p, q
<1>5. IsSeq(ScriptCommands, Once, 17) /\ Joins(Once, netClean, 16, o, 1)
  BY <1>2, <1>3, <1>4, NetCleanSeq, Join, Zenon
<1>6. IsSeq(ScriptCommands, nq, 17) /\ Joins(nq, netClean, 16, q, 1)
  BY <1>2, <1>4, NetCleanSeq, Join, Zenon
<1>7. IsSeq(ScriptCommands, nqn, 33) /\ Joins(nqn, nq, 17, netClean, 16)
  <2> HIDE DEF nq
  <2> QED BY <1>4, <1>6, NetCleanSeq, Join, Zenon
<1>8. IsSeq(ScriptCommands, Stop, 34) /\ Joins(Stop, nqn, 33, p, 1)
  <2> HIDE DEF nqn
  <2> QED BY <1>2, <1>3, <1>4, <1>7, Join, Zenon
<1> HIDE DEF nq, nqn
<1>9. (\A i \in 1..16 : Once[i] = netClean[i]) /\ Once[17] = o[1]
  BY <1>5 DEF Joins
<1>10. (\A i \in 1..16 : nqn[i] = netClean[i] /\ nqn[17 + i] = netClean[i]) /\ nqn[17] = q[1]
  BY <1>6, <1>7 DEF Joins
<1>11. (\A i \in 1..33 : Stop[i] = nqn[i]) /\ Stop[34] = p[1]
  BY <1>8 DEF Joins
<1>12. (\A i \in 1..16 : Stop[i] = netClean[i] /\ Stop[17 + i] = netClean[i]) /\ Stop[17] = q[1]
  BY <1>10, <1>11
<1> QED BY <1>2, <1>5, <1>8, <1>9, <1>11, <1>12, Zenon

-----------------------------------------------------------------------------
(* A safe command keeps the kernel's part of the invariant *)

\* A command takes away, or adds in one of four ways.
LEMMA CommandCases ==
    ASSUME NEW c \in Commands
    PROVE  \/ c \in Removals
           \/ \E h \in Hooks : c = Cmd("I", h)
           \/ \E d \in Chains : c = Cmd("N", d)
           \/ \E d \in Chains, r \in Rules : c = Cmd("A", <<d, r>>)
           \/ c = Cmd("+forward", "")
<1>1. c \in Removals \/ c \in Additions
  BY DEF Commands
<1>2. ASSUME c \in Additions
      PROVE  \/ \E h \in Hooks : c = Cmd("I", h)
             \/ \E d \in Chains : c = Cmd("N", d)
             \/ \E a \in Chains \X Rules : c = Cmd("A", a)
             \/ c = Cmd("+forward", "")
  BY <1>2, Zenon DEF Additions
<1>3. ASSUME NEW a \in Chains \X Rules, c = Cmd("A", a)
      PROVE  \E d \in Chains, r \in Rules : c = Cmd("A", <<d, r>>)
  <2>1. PICK d \in Chains, r \in Rules : a = <<d, r>>
    OBVIOUS
  <2> QED BY <1>3, <2>1
<1> QED BY <1>1, <1>2, <1>3

\* The commands that take away, or turn a switch.
LEMMA RemovalCases ==
    ASSUME NEW c \in Removals
    PROVE  \/ \E h \in Hooks : c = Cmd("D", h)
           \/ \E d \in Chains : c = Cmd("F", d)
           \/ \E d \in Chains : c = Cmd("X", d)
           \/ c = Cmd("-forward", "")
           \/ \E b \in BOOLEAN : c = Cmd("quic", b) \/ c = Cmd("ipv6", b) \/ c = Cmd("portal", b)
  BY Zenon DEF Removals

\* The parts of a command.
LEMMA CmdFields ==
    ASSUME NEW op, NEW arg
    PROVE  Cmd(op, arg).op = op /\ Cmd(op, arg).arg = arg
  BY DEF Cmd

\* A command that takes away adds nothing.
LEMMA RemovalOps ==
    ASSUME NEW c \in Removals
    PROVE  c.op \in {"D", "F", "X", "-forward", "quic", "ipv6", "portal"}
<1>1. ASSUME NEW op, NEW arg, c = Cmd(op, arg)
      PROVE  c.op = op
  BY <1>1, CmdFields
<1>2. \/ \E h : c = Cmd("D", h) \/ c = Cmd("F", h) \/ c = Cmd("X", h) \/ c = Cmd("-forward", h)
      \/ \E b : c = Cmd("quic", b) \/ c = Cmd("ipv6", b) \/ c = Cmd("portal", b)
  BY RemovalCases, Zenon
<1> QED BY <1>1, <1>2, Zenon

\* The rules of the chains, and how many they are.
LEMMA RulesOfFacts ==
    /\ RulesOf["OUT"] = OutRules /\ RulesOf["PRE"] = PreRules /\ RulesOf["DNS"] = DNSRules
    /\ OutRules \in Seq(Rules) /\ Len(OutRules) = 5
    /\ PreRules \in Seq(Rules) /\ Len(PreRules) = 4
    /\ DNSRules \in Seq(Rules) /\ Len(DNSRules) = 2
<1>1. RulesOf["OUT"] = OutRules /\ RulesOf["PRE"] = PreRules /\ RulesOf["DNS"] = DNSRules
  BY DEF RulesOf
<1>2. OutRules \in Seq(Rules) /\ Len(OutRules) = 5
  BY DEF OutRules, Rules
<1>3. PreRules \in Seq(Rules) /\ Len(PreRules) = 4
  BY DEF PreRules, Rules
<1>4. DNSRules \in Seq(Rules) /\ Len(DNSRules) = 2
  BY DEF DNSRules, Rules
<1> QED BY <1>1, <1>2, <1>3, <1>4

\* An empty chain is in order; a chain that is left alone stays so.
LEMMA InOrderFacts ==
    ASSUME NEW k, NEW k2, NEW c \in {"OUT", "PRE", "DNS"}
    PROVE  /\ k.rules[c] = <<>> => InOrder(k, c)
           /\ InOrder(k, c) /\ k2.rules[c] = k.rules[c] /\ (c \in k.holes => c \in k2.holes) => InOrder(k2, c)
           /\ \A n \in 0..Len(RulesOf[c]) : k.rules[c] = Prefix(RulesOf[c], n) => InOrder(k, c)
<1>1. RulesOf[c] \in Seq(Rules)
  BY RulesOfFacts
<1>2. 0 \in 0..Len(RulesOf[c]) /\ Prefix(RulesOf[c], 0) = <<>>
  BY <1>1, PrefixStep
<1> QED BY <1>2 DEF InOrder

\* Fewer hooks and the same chains.
LEMMA FewerHooksOK ==
    ASSUME NEW k, KernelOK(k), NEW k2 \in Kernels, SameChains(k, k2),
           \A h \in Hooks : k2.hooks[h] > 0 => k.hooks[h] > 0
    PROVE  KernelOK(k2)
<1>1. \A c : Hooked(k2, c) => Hooked(k, c)
  BY DEF Hooked
<1>2. \A c \in {"OUT", "DNS"} : InOrder(k, c) => InOrder(k2, c)
  BY DEF InOrder, SameChains
<1> QED BY <1>1, <1>2 DEF KernelOK, SameChains

\* -D is always safe.
LEMMA SafeD ==
    ASSUME NEW k, KernelOK(k), NEW h \in Hooks, NEW k2, k2 = Exec(k, Cmd("D", h))
    PROVE  KernelOK(k2)
<1>1. /\ k2 \in Kernels /\ k2.hooks[h] = 0 /\ SameChains(k, k2)
      /\ \A g \in Hooks : g # h => k2.hooks[g] = k.hooks[g]
  BY ExecD
<1>2. \A g \in Hooks : k2.hooks[g] > 0 => k.hooks[g] > 0
  BY <1>1
<1> QED BY <1>1, <1>2, FewerHooksOK

\* -F is always safe.
LEMMA SafeF ==
    ASSUME NEW k, KernelOK(k), NEW c \in Chains, NEW k2, k2 = Exec(k, Cmd("F", c))
    PROVE  KernelOK(k2)
<1>1. /\ k2 \in Kernels /\ k2.rules[c] = <<>> /\ \A d \in Chains : d # c => k2.rules[d] = k.rules[d]
      /\ k2.holes = k.holes \ {c} /\ k2.exists = k.exists /\ k2.hooks = k.hooks
  BY ExecF
<1>2. \A d : Hooked(k2, d) => Hooked(k, d)
  BY <1>1 DEF Hooked
<1>3. \A d \in {"OUT", "DNS"} : Hooked(k2, d) => InOrder(k2, d)
  <2> TAKE d \in {"OUT", "DNS"}
  <2>1. CASE d = c
    BY <1>1, <2>1, InOrderFacts
  <2>2. CASE d # c
    <3>1. Hooked(k2, d) => InOrder(k, d)
      BY <1>2 DEF KernelOK
    <3>2. k2.rules[d] = k.rules[d] /\ (d \in k.holes => d \in k2.holes)
      BY <1>1, <2>2 DEF Chains
    <3> QED BY <3>1, <3>2, InOrderFacts
  <2> QED BY <2>1, <2>2
<1> QED BY <1>1, <1>3 DEF KernelOK

\* -X is always safe.
LEMMA SafeX ==
    ASSUME NEW k, KernelOK(k), NEW c \in Chains, NEW k2, k2 = Exec(k, Cmd("X", c))
    PROVE  KernelOK(k2)
<1>1. /\ k2 \in Kernels /\ k2.rules = k.rules /\ k2.holes \subseteq k.holes /\ k2.hooks = k.hooks
      /\ \A d \in Chains : d # c => (d \in k2.exists <=> d \in k.exists)
      /\ \A d \in Chains : d # c => (d \in k2.holes <=> d \in k.holes)
      /\ c \in k2.exists => c \in k.exists
      /\ c \notin k2.exists => k.rules[c] = <<>> /\ c \notin k2.holes /\ ~Hooked(k, c)
  BY ExecX
<1>2. \A d : Hooked(k2, d) <=> Hooked(k, d)
  BY <1>1 DEF Hooked
<1>3. \A d \in {"OUT", "DNS"} : Hooked(k2, d) => InOrder(k2, d)
  <2> TAKE d \in {"OUT", "DNS"}
  <2>1. Hooked(k2, d) => InOrder(k, d)
    BY <1>2 DEF KernelOK
  <2>2. CASE k.rules[d] = <<>>
    BY <1>1, <2>2, InOrderFacts
  <2>3. CASE k.rules[d] # <<>>
    <3>1. k2.rules[d] = k.rules[d]
      BY <1>1
    <3>2. ASSUME d \in k.holes
          PROVE  InOrder(k2, d)
      <4>1. CASE d # c
        BY <1>1, <3>2, <4>1 DEF InOrder, Chains
      <4>2. CASE d = c
        <5>1. c \in k2.exists
          BY <1>1, <2>3, <4>2
        <5>2. k2 = k
          BY <2>3, <4>2 DEF Exec, Refused, Cmd
        <5> QED BY <3>2, <5>2 DEF InOrder
      <4> QED BY <4>1, <4>2
    <3> QED BY <2>1, <3>1, <3>2, InOrderFacts
  <2> QED BY <2>2, <2>3
<1>4. k2.holes \subseteq k2.exists
  <2>1. k.holes \subseteq k.exists /\ k2.holes \subseteq Chains
    BY <1>1 DEF KernelOK, Kernels
  <2> QED BY <1>1, <2>1
<1>5. \A d \in Chains : k2.rules[d] # <<>> => d \in k2.exists
  BY <1>1 DEF KernelOK
<1>6. \A h \in Hooks : k2.hooks[h] > 0 => ChainOf[h] \in k2.exists
  <2> TAKE h \in Hooks
  <2>1. k2.hooks[h] > 0 => ChainOf[h] \in k.exists /\ Hooked(k, ChainOf[h])
    BY <1>1 DEF KernelOK, Hooked
  <2>2. ChainOf[h] \in Chains
    BY HookFacts
  <2> HIDE DEF Hooked
  <2> QED BY <1>1, <2>1, <2>2
<1> QED BY <1>1, <1>3, <1>4, <1>5, <1>6 DEF KernelOK

\* -N is always safe.
LEMMA SafeN ==
    ASSUME NEW k, KernelOK(k), NEW c \in Chains, NEW k2, k2 = Exec(k, Cmd("N", c))
    PROVE  KernelOK(k2)
<1>1. /\ k2 \in Kernels /\ k2.exists = k.exists \cup {c} /\ k2.rules = k.rules
      /\ k2.holes = k.holes /\ k2.hooks = k.hooks
  BY ExecN
<1>2. \A d : (Hooked(k2, d) <=> Hooked(k, d)) /\ (InOrder(k, d) <=> InOrder(k2, d))
  BY <1>1 DEF Hooked, InOrder
<1> QED BY <1>1, <1>2 DEF KernelOK

\* -A is safe for a chain that is not hooked, and for PRE.
LEMMA SafeA ==
    ASSUME NEW k, KernelOK(k), NEW c \in Chains, NEW r \in Rules, Safe(k, Cmd("A", <<c, r>>)),
           NEW k2, k2 = Exec(k, Cmd("A", <<c, r>>))
    PROVE  KernelOK(k2)
<1>1. /\ k2 \in Kernels /\ k2.exists = k.exists /\ k2.holes = k.holes /\ k2.hooks = k.hooks
      /\ k2.rules[c] = IF c \in k.exists THEN Append(k.rules[c], r) ELSE k.rules[c]
      /\ \A d \in Chains : d # c => k2.rules[d] = k.rules[d]
  BY ExecA
<1>2. c # "PROXY" /\ (c = "PRE" \/ ~Hooked(k, c))
  BY DEF Safe, Cmd
<1>3. \A d : Hooked(k2, d) <=> Hooked(k, d)
  BY <1>1 DEF Hooked
<1>4. \A d \in {"OUT", "DNS"} : Hooked(k2, d) => InOrder(k2, d)
  <2> TAKE d \in {"OUT", "DNS"}
  <2>1. CASE d = c
    BY <1>2, <1>3, <2>1
  <2>2. CASE d # c
    <3>1. Hooked(k2, d) => InOrder(k, d)
      BY <1>3 DEF KernelOK
    <3>2. k2.rules[d] = k.rules[d] /\ (d \in k.holes => d \in k2.holes)
      BY <1>1, <2>2 DEF Chains
    <3> QED BY <3>1, <3>2, InOrderFacts
  <2> QED BY <2>1, <2>2
<1>5. \A d \in Chains : k2.rules[d] # <<>> => d \in k2.exists
  BY <1>1 DEF KernelOK
<1>6. k2.holes \subseteq k2.exists /\ \A h \in Hooks : k2.hooks[h] > 0 => ChainOf[h] \in k2.exists
  BY <1>1 DEF KernelOK
<1> QED BY <1>1, <1>4, <1>5, <1>6 DEF KernelOK

\* -I is safe where no hook is, for a chain in order.
LEMMA SafeI ==
    ASSUME NEW k, KernelOK(k), NEW h \in Hooks, Safe(k, Cmd("I", h)), NEW k2, k2 = Exec(k, Cmd("I", h))
    PROVE  KernelOK(k2)
<1>1. k.hooks[h] = 0 /\ ChainOf[h] # "PROXY" /\ (ChainOf[h] = "PRE" \/ InOrder(k, ChainOf[h]))
  BY DEF Safe, Cmd
<1>2. /\ k2 \in Kernels /\ SameChains(k, k2)
      /\ k2.hooks[h] = IF ChainOf[h] \in k.exists THEN 1 ELSE 0
      /\ \A g \in Hooks : g # h => k2.hooks[g] = k.hooks[g]
  BY <1>1, ExecI
<1>3. \A d : InOrder(k, d) => InOrder(k2, d)
  BY <1>2 DEF InOrder, SameChains
<1>4. \A d \in {"OUT", "DNS"} : Hooked(k2, d) => InOrder(k2, d)
  <2> TAKE d \in {"OUT", "DNS"}
  <2>1. CASE d = ChainOf[h]
    BY <1>1, <1>3, <2>1
  <2>2. CASE d # ChainOf[h]
    <3>1. Hooked(k2, d) => Hooked(k, d)
      BY <1>2, <2>2 DEF Hooked
    <3> QED BY <1>3, <3>1 DEF KernelOK
  <2> QED BY <2>1, <2>2
<1>5. \A g \in Hooks : k2.hooks[g] > 0 => ChainOf[g] \in k2.exists
  <2> TAKE g \in Hooks
  <2>1. k2.exists = k.exists /\ (k.hooks[g] > 0 => ChainOf[g] \in k.exists)
    BY <1>2 DEF SameChains, KernelOK
  <2> QED BY <1>2, <2>1
<1>6. k2.holes \subseteq k2.exists /\ \A d \in Chains : k2.rules[d] # <<>> => d \in k2.exists
  BY <1>2 DEF KernelOK, SameChains
<1> QED BY <1>2, <1>4, <1>5, <1>6 DEF KernelOK

\* What a command that takes away can change.
LEMMA RemovalEffect ==
    ASSUME NEW k, KernelOK(k), NEW c \in Removals, NEW k2, k2 = Exec(k, c)
    PROVE  /\ KernelOK(k2)
           /\ \A h \in Hooks : k2.hooks[h] = k.hooks[h] \/ k2.hooks[h] = 0
           /\ \A d \in Chains : k2.rules[d] = k.rules[d] \/ k2.rules[d] = <<>>
           /\ k2.exists \subseteq k.exists
           /\ k2.forward = k.forward \/ k2.forward = 0
           /\ \A d \in {"OUT", "PRE", "DNS"} : InOrder(k, d) => InOrder(k2, d)
<1>0. k \in Kernels /\ k.exists \subseteq Chains /\ k.holes \subseteq Chains
  BY DEF KernelOK, Kernels
<1>1. CASE \E h \in Hooks : c = Cmd("D", h)
  <2>1. PICK h \in Hooks : c = Cmd("D", h)
    BY <1>1
  <2>2. /\ k2.hooks[h] = 0 /\ \A g \in Hooks : g # h => k2.hooks[g] = k.hooks[g]
        /\ SameChains(k, k2) /\ k2.forward = k.forward
    BY <2>1, ExecD
  <2>3. KernelOK(k2)
    BY <2>1, SafeD
  <2>4. \A d : InOrder(k, d) => InOrder(k2, d)
    BY <2>2 DEF InOrder, SameChains
  <2> QED BY <2>2, <2>3, <2>4 DEF SameChains
<1>2. CASE \E d \in Chains : c = Cmd("F", d)
  <2>1. PICK e \in Chains : c = Cmd("F", e)
    BY <1>2
  <2>2. /\ k2.rules[e] = <<>> /\ \A d \in Chains : d # e => k2.rules[d] = k.rules[d]
        /\ k2.holes = k.holes \ {e} /\ k2.exists = k.exists
        /\ k2.hooks = k.hooks /\ k2.forward = k.forward
    BY <2>1, ExecF
  <2>3. KernelOK(k2)
    BY <2>1, SafeF
  <2>4. \A d \in {"OUT", "PRE", "DNS"} : InOrder(k, d) => InOrder(k2, d)
    <3> TAKE d \in {"OUT", "PRE", "DNS"}
    <3>1. CASE d = e
      BY <2>2, <3>1, InOrderFacts
    <3>2. CASE d # e
      BY <2>2, <3>2, InOrderFacts DEF Chains
    <3> QED BY <3>1, <3>2
  <2> QED BY <2>2, <2>3, <2>4
<1>3. CASE \E d \in Chains : c = Cmd("X", d)
  <2>1. PICK e \in Chains : c = Cmd("X", e)
    BY <1>3
  <2>2. /\ k2 \in Kernels /\ k2.rules = k.rules /\ k2.hooks = k.hooks /\ k2.forward = k.forward
        /\ \A d \in Chains : d # e => (d \in k2.exists <=> d \in k.exists)
        /\ \A d \in Chains : d # e => (d \in k2.holes <=> d \in k.holes)
        /\ e \in k2.exists => e \in k.exists
        /\ e \notin k2.exists => k.rules[e] = <<>>
    BY <2>1, ExecX
  <2>3. KernelOK(k2)
    BY <2>1, SafeX
  <2>4. \A d \in {"OUT", "PRE", "DNS"} : InOrder(k, d) => InOrder(k2, d)
    <3> TAKE d \in {"OUT", "PRE", "DNS"}
    <3>1. CASE k.rules[d] = <<>>
      BY <2>2, <3>1, InOrderFacts
    <3>2. CASE k.rules[d] # <<>> /\ d # e
      <4>1. k2.rules[d] = k.rules[d] /\ (d \in k.holes => d \in k2.holes)
        BY <2>2, <3>2 DEF Chains
      <4> QED BY <4>1, InOrderFacts
    <3>3. CASE k.rules[d] # <<>> /\ d = e
      <4>1. k2 = k
        BY <2>1, <3>3 DEF Exec, Refused, Cmd
      <4> QED BY <4>1
    <3> QED BY <3>1, <3>2, <3>3
  <2>5. k2.exists \subseteq k.exists
    BY <2>2 DEF Kernels
  <2> QED BY <2>2, <2>3, <2>4, <2>5
<1>4. ASSUME k2 \in Kernels, SameChains(k, k2), k2.hooks = k.hooks, k2.forward = k.forward \/ k2.forward = 0
      PROVE  /\ KernelOK(k2)
             /\ \A h \in Hooks : k2.hooks[h] = k.hooks[h] \/ k2.hooks[h] = 0
             /\ \A d \in Chains : k2.rules[d] = k.rules[d] \/ k2.rules[d] = <<>>
             /\ k2.exists \subseteq k.exists
             /\ k2.forward = k.forward \/ k2.forward = 0
             /\ \A d \in {"OUT", "PRE", "DNS"} : InOrder(k, d) => InOrder(k2, d)
  <2>1. KernelOK(k2)
    BY <1>4, FewerHooksOK
  <2>2. \A d : InOrder(k, d) => InOrder(k2, d)
    BY <1>4 DEF InOrder, SameChains
  <2> QED BY <1>4, <2>1, <2>2 DEF SameChains
<1>5. CASE c = Cmd("-forward", "")
  <2>1. k2 \in Kernels /\ SameChains(k, k2) /\ k2.hooks = k.hooks /\ k2.forward = 0
    BY <1>5, ExecForward
  <2> QED BY <1>4, <2>1
<1>6. CASE \E b \in BOOLEAN : c = Cmd("quic", b) \/ c = Cmd("ipv6", b) \/ c = Cmd("portal", b)
  <2>1. k2 \in Kernels /\ SameChains(k, k2) /\ k2.hooks = k.hooks /\ k2.forward = k.forward
    BY <1>6, ExecSwitch
  <2> QED BY <1>4, <2>1
<1> QED BY <1>1, <1>2, <1>3, <1>5, <1>6, RemovalCases

\* A safe command.
LEMMA SafeExec ==
    ASSUME NEW k, KernelOK(k), NEW c \in Commands, Safe(k, c)
    PROVE  KernelOK(Exec(k, c))
<1>1. CASE c \in Removals
  BY <1>1, RemovalEffect
<1>2. CASE \E h \in Hooks : c = Cmd("I", h)
  BY <1>2, SafeI
<1>3. CASE \E d \in Chains : c = Cmd("N", d)
  BY <1>3, SafeN
<1>4. CASE \E d \in Chains, r \in Rules : c = Cmd("A", <<d, r>>)
  BY <1>4, SafeA
<1>5. CASE c = Cmd("+forward", "")
  <2> DEFINE k2 == Exec(k, c)
  <2>1. k.forward = 0
    BY <1>5 DEF Safe, Cmd
  <2>2. k2 \in Kernels /\ SameChains(k, k2) /\ k2.hooks = k.hooks
    BY <1>5, <2>1, ExecForward
  <2> HIDE DEF k2
  <2>3. KernelOK(k2)
    BY <2>2, FewerHooksOK
  <2> QED BY <2>3 DEF k2
<1> QED BY <1>1, <1>2, <1>3, <1>4, <1>5, CommandCases

\* Commands that take away need no care, and leave a safe command safe.
LEMMA RemovalSafe ==
    ASSUME NEW k, KernelOK(k), NEW c \in Removals
    PROVE  Safe(k, c) /\ \A d \in Commands : Safe(k, d) => Safe(Exec(k, c), d)
<1>1. c.op # "I" /\ c.op # "A" /\ c.op # "+forward"
  BY RemovalOps
<1> DEFINE k2 == Exec(k, c)
<1>2. /\ \A h \in Hooks : k2.hooks[h] = k.hooks[h] \/ k2.hooks[h] = 0
      /\ k2.forward = k.forward \/ k2.forward = 0
      /\ \A d \in {"OUT", "PRE", "DNS"} : InOrder(k, d) => InOrder(k2, d)
  BY RemovalEffect
<1> HIDE DEF k2
<1>3. \A d : Hooked(k2, d) => Hooked(k, d)
  BY <1>2 DEF Hooked
<1>4. ASSUME NEW d \in Commands, Safe(k, d)
      PROVE  Safe(k2, d)
  <2>1. ASSUME d.op = "I"
        PROVE  /\ k2.hooks[d.arg] = 0 /\ ChainOf[d.arg] # "PROXY"
               /\ ChainOf[d.arg] = "PRE" \/ InOrder(k2, ChainOf[d.arg])
    <3>1. /\ k.hooks[d.arg] = 0 /\ ChainOf[d.arg] # "PROXY"
          /\ ChainOf[d.arg] = "PRE" \/ InOrder(k, ChainOf[d.arg])
      BY <1>4, <2>1 DEF Safe
    <3>2. PICK h \in Hooks : d = Cmd("I", h)
      <4>1. d \notin Removals
        BY <2>1, RemovalOps
      <4>2. /\ \A e : d = Cmd("N", e) => d.op = "N"
            /\ \A e : d = Cmd("A", e) => d.op = "A"
            /\ d = Cmd("+forward", "") => d.op = "+forward"
        <5>1. ASSUME NEW op, NEW arg, d = Cmd(op, arg)
              PROVE  d.op = op
          BY <5>1, CmdFields
        <5> QED BY <5>1, Zenon
      <4> QED BY <2>1, <4>1, <4>2, CommandCases, Zenon
    <3>3. d.arg \in Hooks /\ ChainOf[d.arg] \in {"OUT", "PRE", "DNS"}
      BY <3>1, <3>2, HookFacts DEF Cmd, Chains
    <3> QED BY <1>2, <3>1, <3>3
  <2>2. d.op = "A" => d.arg[1] # "PROXY" /\ (d.arg[1] = "PRE" \/ ~Hooked(k2, d.arg[1]))
    BY <1>3, <1>4 DEF Safe
  <2>3. d.op = "+forward" => k2.forward = 0
    BY <1>2, <1>4 DEF Safe
  <2> QED BY <2>1, <2>2, <2>3 DEF Safe
<1> QED BY <1>1, <1>4 DEF Safe, k2

-----------------------------------------------------------------------------
(* One command of Apply *)

\* The commands of Apply by their number.
CommandsOf(cfg, s, b) ==
    /\ s[1] = Cmd("D", "OUTPUT-tcp") /\ s[2] = Cmd("D", cfg.HotspotIfaces)
    /\ s[3] = Cmd("D", "OUTPUT-PROXY") /\ s[4] = Cmd("D", "OUTPUT-udp53")
    /\ s[5] = Cmd("F", "OUT") /\ s[6] = Cmd("X", "OUT") /\ s[7] = Cmd("F", "PRE") /\ s[8] = Cmd("X", "PRE")
    /\ s[9] = Cmd("F", "PROXY") /\ s[10] = Cmd("X", "PROXY")
    /\ s[11] = Cmd("F", "DNS") /\ s[12] = Cmd("X", "DNS")
    /\ s[13] = Cmd("-forward", "") /\ s[14] = Cmd("quic", FALSE)
    /\ s[15] = Cmd("N", "OUT") /\ s[16] = Cmd("F", "OUT") /\ s[17] = Cmd("N", "PRE") /\ s[18] = Cmd("F", "PRE")
    /\ \A i \in 1..5 : s[18 + i] = Cmd("A", <<"OUT", OutRules[i]>>)
    /\ \A i \in 1..4 : s[23 + i] = Cmd("A", <<"PRE", PreRules[i]>>)
    /\ s[28] = Cmd("I", "OUTPUT-tcp")
    /\ cfg.Hotspot => s[29] = Cmd("I", cfg.HotspotIfaces) /\ s[30] = Cmd("+forward", "")
    /\ s[b + 1] = Cmd("N", "DNS") /\ s[b + 2] = Cmd("F", "DNS")
    /\ \A i \in 1..2 : s[b + 2 + i] = Cmd("A", <<"DNS", DNSRules[i]>>)
    /\ s[b + 5] = Cmd("D", "OUTPUT-udp53") /\ s[b + 6] = Cmd("I", "OUTPUT-udp53")
    /\ s[b + 7] = Cmd("quic", TRUE) /\ s[b + 8] = Cmd("ipv6", TRUE) /\ s[b + 9] = Cmd("portal", TRUE)

\* Apply has these commands at these positions.
LEMMA ApplyCommand ==
    ASSUME NEW cfg \in Configs, NEW s, s = Apply(cfg), NEW b, b = Base(cfg)
    PROVE  CommandsOf(cfg, s, b)
<1> DEFINE a == cleanupRules(cfg)  d == DetachAndDelete(cfg.HotspotIfaces)  h == hookChains(cfg)
<1>1. /\ \A i \in 1..14 : s[i] = a[i]
      /\ \A i \in 1..13 : s[14 + i] = Installs[i]
      /\ \A i \in 1..(b - 27) : s[27 + i] = h[i]
      /\ \A i \in 1..6 : s[b + i] = setupDNSForward[i]
      /\ \A i \in 1..3 : s[b + 6 + i] = preventLeaks[i]
  BY ApplyTable, Zenon
<1>2. (\A i \in 1..12 : a[i] = d[i]) /\ a[13] = Cmd("-forward", "") /\ a[14] = Cmd("quic", FALSE)
  BY CleanupTable, Zenon
<1>3. b \in {28, 30} /\ (cfg.Hotspot => b = 30)
  BY DEF Base
<1> HIDE DEF a, d, h
<1>4. /\ s[1] = d[1] /\ s[2] = d[2] /\ s[3] = d[3] /\ s[4] = d[4] /\ s[5] = d[5] /\ s[6] = d[6]
      /\ s[7] = d[7] /\ s[8] = d[8] /\ s[9] = d[9] /\ s[10] = d[10] /\ s[11] = d[11] /\ s[12] = d[12]
  <2>1. \A i \in 1..14 : s[i] = a[i]
    BY <1>1
  <2>2. \A i \in 1..12 : a[i] = d[i]
    BY <1>2
  <2>3. \A i \in 1..12 : s[i] = d[i]
    BY <2>1, <2>2
  <2> QED BY <2>3
<1>5. s[13] = a[13] /\ s[14] = a[14]
  BY <1>1
<1>6. /\ s[15] = Installs[1] /\ s[16] = Installs[2] /\ s[17] = Installs[3] /\ s[18] = Installs[4]
      /\ \A i \in 1..5 : s[18 + i] = Installs[4 + i]
      /\ \A i \in 1..4 : s[23 + i] = Installs[9 + i]
  <2>1. \A i \in 1..13 : s[14 + i] = Installs[i]
    BY <1>1
  <2>2. s[14 + 1] = Installs[1] /\ s[14 + 2] = Installs[2] /\ s[14 + 3] = Installs[3] /\ s[14 + 4] = Installs[4]
    BY <2>1
  <2>3. \A i \in 1..5 : s[14 + (4 + i)] = Installs[4 + i]
    BY <2>1
  <2>4. \A i \in 1..4 : s[14 + (9 + i)] = Installs[9 + i]
    BY <2>1
  <2> QED BY <2>2, <2>3, <2>4
<1>7. s[28] = h[1] /\ (cfg.Hotspot => s[29] = h[2] /\ s[30] = h[3])
  <2>1. \A i \in 1..(b - 27) : s[27 + i] = h[i]
    BY <1>1
  <2>2. CASE b = 28
    BY <1>3, <2>1, <2>2
  <2>3. CASE b = 30
    BY <2>1, <2>3
  <2> QED BY <1>3, <2>2, <2>3
<1>8. /\ s[b + 1] = setupDNSForward[1] /\ s[b + 2] = setupDNSForward[2]
      /\ \A i \in 1..2 : s[b + 2 + i] = setupDNSForward[2 + i]
      /\ s[b + 5] = setupDNSForward[5] /\ s[b + 6] = setupDNSForward[6]
  <2>1. \A i \in 1..6 : s[b + i] = setupDNSForward[i]
    BY <1>1
  <2> QED BY <1>3, <2>1
<1>9. s[b + 7] = preventLeaks[1] /\ s[b + 8] = preventLeaks[2] /\ s[b + 9] = preventLeaks[3]
  <2>1. \A i \in 1..3 : s[b + 6 + i] = preventLeaks[i]
    BY <1>1
  <2> QED BY <1>3, <2>1
<1>10. /\ s[1] = Cmd("D", "OUTPUT-tcp") /\ s[2] = Cmd("D", cfg.HotspotIfaces)
       /\ s[3] = Cmd("D", "OUTPUT-PROXY") /\ s[4] = Cmd("D", "OUTPUT-udp53")
       /\ s[5] = Cmd("F", "OUT") /\ s[6] = Cmd("X", "OUT") /\ s[7] = Cmd("F", "PRE") /\ s[8] = Cmd("X", "PRE")
       /\ s[9] = Cmd("F", "PROXY") /\ s[10] = Cmd("X", "PROXY")
       /\ s[11] = Cmd("F", "DNS") /\ s[12] = Cmd("X", "DNS")
  <2>1. cfg.HotspotIfaces \in Ifaces
    BY DEF Configs
  <2> QED BY <1>4, <2>1, DetachTable, ZenonT(60) DEF d
<1>11. s[13] = Cmd("-forward", "") /\ s[14] = Cmd("quic", FALSE)
  BY <1>2, <1>5, Zenon
<1>12. /\ s[15] = Cmd("N", "OUT") /\ s[16] = Cmd("F", "OUT") /\ s[17] = Cmd("N", "PRE") /\ s[18] = Cmd("F", "PRE")
       /\ \A i \in 1..5 : s[18 + i] = Cmd("A", <<"OUT", OutRules[i]>>)
       /\ \A i \in 1..4 : s[23 + i] = Cmd("A", <<"PRE", PreRules[i]>>)
  BY <1>6, InstallsTable, Zenon
<1>13. s[28] = Cmd("I", "OUTPUT-tcp")
  BY <1>7, HooksTable, Zenon DEF h
<1>14. cfg.Hotspot => s[29] = Cmd("I", cfg.HotspotIfaces) /\ s[30] = Cmd("+forward", "")
  BY <1>7, HooksTable, Zenon DEF h
<1>15. /\ s[b + 1] = Cmd("N", "DNS") /\ s[b + 2] = Cmd("F", "DNS")
       /\ \A i \in 1..2 : s[b + 2 + i] = Cmd("A", <<"DNS", DNSRules[i]>>)
       /\ s[b + 5] = Cmd("D", "OUTPUT-udp53") /\ s[b + 6] = Cmd("I", "OUTPUT-udp53")
  BY <1>8, DNSTable, Zenon
<1>16. s[b + 7] = Cmd("quic", TRUE) /\ s[b + 8] = Cmd("ipv6", TRUE) /\ s[b + 9] = Cmd("portal", TRUE)
  BY <1>9, LeaksTable, Zenon
<1> QED BY <1>10, <1>11, <1>12, <1>13, <1>14, <1>15, <1>16, Zenon DEF CommandsOf

\* The numbers and the hooks that the cases below are about.
LEMMA ConfigFacts ==
    ASSUME NEW cfg \in Configs
    PROVE  /\ Base(cfg) \in {28, 30} /\ (cfg.Hotspot => Base(cfg) = 30) /\ (~cfg.Hotspot => Base(cfg) = 28)
           /\ cfg.HotspotIfaces \in Ifaces /\ cfg.HotspotIfaces \in Hooks
           /\ Prefix(OutRules, 0) = <<>> /\ Prefix(PreRules, 0) = <<>> /\ Prefix(DNSRules, 0) = <<>>
<1>1. Base(cfg) \in {28, 30} /\ (cfg.Hotspot => Base(cfg) = 30) /\ (~cfg.Hotspot => Base(cfg) = 28)
  BY DEF Base
<1>2. cfg.HotspotIfaces \in Ifaces /\ cfg.HotspotIfaces \in Hooks
  BY HookFacts DEF Configs
<1>3. Prefix(OutRules, 0) = <<>> /\ Prefix(PreRules, 0) = <<>> /\ Prefix(DNSRules, 0) = <<>>
  BY RulesOfFacts, PrefixStep
<1> QED BY <1>1, <1>2, <1>3

\* Apply detaches a hook.
LEMMA StepD ==
    ASSUME NEW k, KernelOK(k), NEW cfg \in Configs, NEW missed \in Nat, NEW n, ApplyAt(k, cfg, n, missed), NEW h,
           \/ (n = 0 /\ h = "OUTPUT-tcp")
           \/ (n = 1 /\ h = cfg.HotspotIfaces)
           \/ (n = 2 /\ h = "OUTPUT-PROXY")
           \/ (n = 3 /\ h = "OUTPUT-udp53")
           \/ n = Base(cfg) + 4 /\ h = "OUTPUT-udp53",
           NEW k2, k2 = Exec(k, Cmd("D", h))
    PROVE  ApplyAt(k2, cfg, n + 1, missed)
<1>1. h \in Hooks
  BY HookFacts, ConfigFacts
<1>2. /\ k2.hooks[h] = 0 /\ \A g \in Hooks : g # h => k2.hooks[g] = k.hooks[g]
      /\ SameChains(k, k2) /\ k2.forward = k.forward /\ SameSwitches(k, k2)
  BY <1>1, ExecD
<1>3. PrepassAt(k2, cfg, n + 1)
  BY <1>2, HookFacts, ConfigFacts DEF ApplyAt, PrepassAt
<1>4. ChainsAt(k2, cfg, n + 1)
  BY <1>2, ConfigFacts, SMTT(60) DEF ApplyAt, ChainsAt, Count, SameChains
<1>5. ASSUME missed = 0
      PROVE  InstalledAt(k2, cfg, n + 1)
  <2>1. CASE n < 4
    BY <2>1, ConfigFacts, SMTT(60) DEF InstalledAt
  <2>2. CASE n = Base(cfg) + 4 /\ h = "OUTPUT-udp53"
    BY <1>2, <1>5, <2>2, HookFacts, ConfigFacts, SMTT(60) DEF ApplyAt, InstalledAt, SameChains, SameSwitches
  <2> QED BY <2>1, <2>2
<1> QED BY <1>3, <1>4, <1>5 DEF ApplyAt

\* Apply empties a chain.
LEMMA StepF ==
    ASSUME NEW k, KernelOK(k), NEW cfg \in Configs, NEW missed \in Nat, NEW n, ApplyAt(k, cfg, n, missed), NEW c,
           \/ (n = 4 /\ c = "OUT") \/ (n = 6 /\ c = "PRE") \/ (n = 8 /\ c = "PROXY") \/ (n = 10 /\ c = "DNS")
           \/ (n = 15 /\ c = "OUT") \/ (n = 17 /\ c = "PRE") \/ (n = Base(cfg) + 1 /\ c = "DNS"),
           NEW k2, k2 = Exec(k, Cmd("F", c))
    PROVE  ApplyAt(k2, cfg, n + 1, missed)
<1>1. c \in Chains
  BY DEF Chains
<1>2. /\ k2.rules[c] = <<>> /\ \A d \in Chains : d # c => k2.rules[d] = k.rules[d]
      /\ k2.holes = k.holes \ {c} /\ k2.exists = k.exists
      /\ k2.hooks = k.hooks /\ k2.forward = k.forward /\ SameSwitches(k, k2)
  BY <1>1, ExecF
<1>3. PrepassAt(k2, cfg, n + 1)
  BY <1>2, ConfigFacts, SMTT(60) DEF ApplyAt, PrepassAt
<1>4. ChainsAt(k2, cfg, n + 1)
  BY <1>2, ConfigFacts, SMTT(30) DEF ApplyAt, ChainsAt, Count, Chains
<1>5. missed = 0 => InstalledAt(k2, cfg, n + 1)
  BY <1>2, ConfigFacts, SMTT(60) DEF ApplyAt, InstalledAt, SameSwitches
<1> QED BY <1>3, <1>4, <1>5 DEF ApplyAt

\* Apply deletes a chain.
LEMMA StepX ==
    ASSUME NEW k, KernelOK(k), NEW cfg \in Configs, NEW missed \in Nat, NEW n, ApplyAt(k, cfg, n, missed), NEW c,
           (n = 5 /\ c = "OUT") \/ (n = 7 /\ c = "PRE") \/ (n = 9 /\ c = "PROXY") \/ (n = 11 /\ c = "DNS"),
           NEW k2, k2 = Exec(k, Cmd("X", c))
    PROVE  ApplyAt(k2, cfg, n + 1, missed)
<1>1. c \in Chains
  BY DEF Chains
<1>2. /\ k2.rules = k.rules /\ k2.holes \subseteq k.holes
      /\ k2.hooks = k.hooks /\ k2.forward = k.forward /\ SameSwitches(k, k2)
      /\ \A d \in Chains : d # c => (d \in k2.exists <=> d \in k.exists)
      /\ \A d \in Chains : d # c => (d \in k2.holes <=> d \in k.holes)
      /\ c \in k2.exists => c \in k.exists
  BY <1>1, ExecX
<1>3. PrepassAt(k2, cfg, n + 1)
  BY <1>2, ConfigFacts DEF ApplyAt, PrepassAt
<1>4. c \in k2.exists \ k2.holes => c \in k.exists \ k.holes \/ k.rules[c] = <<>>
  <2>1. CASE k.rules[c] # <<>>
    <3>1. k2 = k
      BY <2>1 DEF Exec, Refused, Cmd
    <3> QED BY <3>1
  <2> QED BY <2>1
<1>5. ChainsAt(k2, cfg, n + 1)
  BY <1>2, <1>4, ConfigFacts DEF ApplyAt, ChainsAt, Count, Chains
<1>6. missed = 0 => InstalledAt(k2, cfg, n + 1)
  BY <1>2, ConfigFacts, SMTT(60) DEF ApplyAt, InstalledAt, SameSwitches, Chains
<1> QED BY <1>3, <1>5, <1>6 DEF ApplyAt

\* Apply makes a chain.
LEMMA StepN ==
    ASSUME NEW k, KernelOK(k), NEW cfg \in Configs, NEW missed \in Nat, NEW n, ApplyAt(k, cfg, n, missed), NEW c,
           (n = 14 /\ c = "OUT") \/ (n = 16 /\ c = "PRE") \/ (n = Base(cfg) /\ c = "DNS"),
           NEW k2, k2 = Exec(k, Cmd("N", c))
    PROVE  ApplyAt(k2, cfg, n + 1, missed)
<1>1. c \in Chains
  BY DEF Chains
<1>2. /\ k2.exists = k.exists \cup {c} /\ k2.rules = k.rules /\ k2.holes = k.holes
      /\ k2.hooks = k.hooks /\ k2.forward = k.forward /\ SameSwitches(k, k2)
  BY <1>1, ExecN
<1>3. c \notin k.exists => k.rules[c] = <<>>
  BY <1>1 DEF KernelOK
<1>4. PrepassAt(k2, cfg, n + 1)
  BY <1>2, ConfigFacts DEF ApplyAt, PrepassAt
<1>5. ChainsAt(k2, cfg, n + 1)
  BY <1>2, <1>3, ConfigFacts, SMTT(60) DEF ApplyAt, ChainsAt, Count
<1>6. missed = 0 => InstalledAt(k2, cfg, n + 1)
  BY <1>2, ConfigFacts, SMTT(60) DEF ApplyAt, InstalledAt, SameSwitches
<1> QED BY <1>4, <1>5, <1>6 DEF ApplyAt

\* The next rule of the chain; a chain that is not there gets none.
LEMMA StepA ==
    ASSUME NEW k, KernelOK(k), NEW cfg \in Configs, NEW missed \in Nat, NEW n, ApplyAt(k, cfg, n, missed),
           NEW c, NEW i,
           \/ c = "OUT" /\ i \in 1..5 /\ n = 17 + i
           \/ c = "PRE" /\ i \in 1..4 /\ n = 22 + i
           \/ c = "DNS" /\ i \in 1..2 /\ n = Base(cfg) + 1 + i,
           NEW k2, k2 = Exec(k, Cmd("A", <<c, RulesOf[c][i]>>))
    PROVE  ApplyAt(k2, cfg, n + 1, missed)
<1>0. n \in Nat /\ ((18 <= n /\ n < 27) \/ n \in {Base(cfg) + 2, Base(cfg) + 3})
  BY ConfigFacts
<1>1. /\ c \in Chains /\ RulesOf[c] \in Seq(Rules) /\ i \in 1..Len(RulesOf[c])
  BY RulesOfFacts DEF Chains
<1>2. RulesOf[c][i] \in Rules
  BY <1>1
<1>3. /\ k2.exists = k.exists /\ k2.holes = k.holes
      /\ k2.rules[c] = IF c \in k.exists THEN Append(k.rules[c], RulesOf[c][i]) ELSE k.rules[c]
      /\ \A d \in Chains : d # c => k2.rules[d] = k.rules[d]
      /\ k2.hooks = k.hooks /\ k2.forward = k.forward /\ SameSwitches(k, k2)
  BY <1>1, <1>2, ExecA
<1>4. Append(Prefix(RulesOf[c], i - 1), RulesOf[c][i]) = Prefix(RulesOf[c], i)
  <2> DEFINE s == RulesOf[c]  j == i - 1
  <2>1. s \in Seq(Rules) /\ j \in 0..Len(s) /\ j < Len(s) /\ j + 1 = i
    BY <1>1
  <2> HIDE DEF s, j
  <2>2. Append(Prefix(s, j), s[j + 1]) = Prefix(s, j + 1)
    BY <2>1, PrefixStep
  <2>3. Append(Prefix(s, j), s[i]) = Prefix(s, i)
    BY <2>1, <2>2
  <2> QED BY <2>3 DEF s, j
<1>5. PrepassAt(k2, cfg, n + 1)
  BY <1>3, ConfigFacts, SMTT(60) DEF ApplyAt, PrepassAt
<1>6. ASSUME missed = 0
      PROVE  InstalledAt(k2, cfg, n + 1)
  <2>1. InstalledAt(k, cfg, n)
    BY <1>6 DEF ApplyAt
  <2>2. InstalledAt(k, cfg, n + 1)
    <3>1. CASE n < 27 /\ 18 <= n
      BY <1>0, <2>1, <3>1, ConfigFacts, SMTT(60) DEF InstalledAt
    <3>2. CASE n \in {Base(cfg) + 2, Base(cfg) + 3}
      BY <1>0, <2>1, <3>2, ConfigFacts DEF InstalledAt
    <3> QED BY <1>0, <3>1, <3>2
  <2> QED BY <1>3, <2>2 DEF InstalledAt, SameSwitches
<1>7. ChainsAt(k, cfg, n)
  BY DEF ApplyAt
<1>8. ASSUME c \in k.exists \ k.holes => k.rules[c] = Prefix(RulesOf[c], i - 1)
      PROVE  c \in k2.exists \ k2.holes => k2.rules[c] = Prefix(RulesOf[c], i)
  BY <1>3, <1>4, <1>8
<1>9. CASE c = "OUT"
  <2>1. /\ Count(n, 18, 5) = i - 1 /\ Count(n + 1, 18, 5) = i
        /\ Count(n + 1, 23, 4) = Count(n, 23, 4) /\ 18 <= n
        /\ Count(n + 1, Base(cfg) + 2, 2) = Count(n, Base(cfg) + 2, 2)
    BY <1>9, ConfigFacts DEF Count
  <2>2. ChainsAt(k2, cfg, n + 1)
    BY <1>0, <1>3, <1>7, <1>8, <1>9, <2>1, RulesOfFacts DEF ChainsAt, Chains
  <2> QED BY <1>5, <1>6, <2>2 DEF ApplyAt
<1>10. CASE c = "PRE"
  <2>1. /\ Count(n, 23, 4) = i - 1 /\ Count(n + 1, 23, 4) = i
        /\ Count(n + 1, 18, 5) = Count(n, 18, 5) /\ 18 <= n
        /\ Count(n + 1, Base(cfg) + 2, 2) = Count(n, Base(cfg) + 2, 2)
    BY <1>10, ConfigFacts DEF Count
  <2>2. ChainsAt(k2, cfg, n + 1)
    BY <1>0, <1>3, <1>7, <1>8, <1>10, <2>1, RulesOfFacts DEF ChainsAt, Chains
  <2> QED BY <1>5, <1>6, <2>2 DEF ApplyAt
<1>11. CASE c = "DNS"
  <2>1. /\ Count(n, Base(cfg) + 2, 2) = i - 1 /\ Count(n + 1, Base(cfg) + 2, 2) = i
        /\ Count(n + 1, 18, 5) = Count(n, 18, 5) /\ 18 <= n
        /\ Count(n + 1, 23, 4) = Count(n, 23, 4)
    BY <1>11, ConfigFacts DEF Count
  <2>2. ChainsAt(k2, cfg, n + 1)
    BY <1>0, <1>3, <1>7, <1>8, <1>11, <2>1, RulesOfFacts DEF ChainsAt, Chains
  <2> QED BY <1>5, <1>6, <2>2 DEF ApplyAt
<1> QED BY <1>9, <1>10, <1>11

\* Apply inserts a hook.
LEMMA StepI ==
    ASSUME NEW k, KernelOK(k), NEW cfg \in Configs, NEW missed \in Nat, NEW n, ApplyAt(k, cfg, n, missed), NEW h,
           \/ (n = 27 /\ h = "OUTPUT-tcp")
           \/ n = 28 /\ h = cfg.HotspotIfaces /\ cfg.Hotspot
           \/ n = Base(cfg) + 5 /\ h = "OUTPUT-udp53",
           NEW k2, k2 = Exec(k, Cmd("I", h))
    PROVE  k.hooks[h] = 0 /\ ApplyAt(k2, cfg, n + 1, missed)
<1>0. n \in Nat
  BY ConfigFacts
<1>1. h \in Hooks
  BY HookFacts, ConfigFacts
<1>2. k.hooks[h] = 0
  BY ConfigFacts DEF ApplyAt, PrepassAt
<1>3. /\ SameChains(k, k2) /\ k2.forward = k.forward /\ SameSwitches(k, k2)
      /\ k2.hooks[h] = IF ChainOf[h] \in k.exists THEN 1 ELSE 0
      /\ \A g \in Hooks : g # h => k2.hooks[g] = k.hooks[g]
  BY <1>1, <1>2, ExecI
<1>4. missed = 0 => ChainOf[h] \in k.exists
  BY HookFacts, ConfigFacts DEF ApplyAt, InstalledAt
<1>5. PrepassAt(k2, cfg, n + 1)
  BY <1>3, HookFacts, ConfigFacts DEF ApplyAt, PrepassAt
<1>6. ChainsAt(k2, cfg, n + 1)
  <2>1. /\ Count(n + 1, 18, 5) = Count(n, 18, 5) /\ Count(n + 1, 23, 4) = Count(n, 23, 4) /\ 27 <= n
        /\ Count(n + 1, Base(cfg) + 2, 2) = Count(n, Base(cfg) + 2, 2)
    BY ConfigFacts DEF Count
  <2> QED BY <1>0, <1>3, <2>1 DEF ApplyAt, ChainsAt, SameChains
<1>7. missed = 0 => InstalledAt(k2, cfg, n + 1)
  BY <1>3, <1>4, HookFacts, ConfigFacts, SMTT(60) DEF ApplyAt, InstalledAt, SameChains, SameSwitches
<1> QED BY <1>2, <1>5, <1>6, <1>7 DEF ApplyAt

\* The pre-pass of Apply deletes the FORWARD rule.
LEMMA StepNoForward ==
    ASSUME NEW k, NEW cfg \in Configs, NEW missed \in Nat, NEW n, ApplyAt(k, cfg, n, missed), NEW k2,
           SameChains(k, k2), k2.hooks = k.hooks, SameSwitches(k, k2), n = 12, k2.forward = 0
    PROVE  ApplyAt(k2, cfg, n + 1, missed)
<1>1. PrepassAt(k2, cfg, n + 1)
  BY ConfigFacts DEF ApplyAt, PrepassAt
<1>2. ChainsAt(k2, cfg, n + 1)
  BY ConfigFacts DEF ApplyAt, ChainsAt, Count, SameChains
<1>3. missed = 0 => InstalledAt(k2, cfg, n + 1)
  BY ConfigFacts DEF ApplyAt, InstalledAt, SameChains, SameSwitches
<1> QED BY <1>1, <1>2, <1>3 DEF ApplyAt

\* Apply inserts the FORWARD rule.
LEMMA StepForward ==
    ASSUME NEW k, NEW cfg \in Configs, NEW missed \in Nat, NEW n, ApplyAt(k, cfg, n, missed), NEW k2,
           SameChains(k, k2), k2.hooks = k.hooks, SameSwitches(k, k2), n = 29, cfg.Hotspot, k2.forward = 1
    PROVE  ApplyAt(k2, cfg, n + 1, missed)
<1>1. PrepassAt(k2, cfg, n + 1)
  BY ConfigFacts DEF ApplyAt, PrepassAt
<1>2. ChainsAt(k2, cfg, n + 1)
  BY ConfigFacts DEF ApplyAt, ChainsAt, Count, SameChains
<1>3. missed = 0 => InstalledAt(k2, cfg, n + 1)
  BY ConfigFacts DEF ApplyAt, InstalledAt, SameChains, SameSwitches
<1> QED BY <1>1, <1>2, <1>3 DEF ApplyAt

\* Apply turns a switch.
LEMMA StepSwitch ==
    ASSUME NEW k, NEW cfg \in Configs, NEW missed \in Nat, NEW n, ApplyAt(k, cfg, n, missed), NEW k2,
           SameChains(k, k2), k2.hooks = k.hooks, k2.forward = k.forward,
           \/ n = 13
           \/ n = Base(cfg) + 6 /\ k2.quicBlocked = TRUE
           \/ n = Base(cfg) + 7 /\ k2.quicBlocked = k.quicBlocked /\ k2.ipv6Off = TRUE
           \/ /\ n = Base(cfg) + 8
              /\ k2.quicBlocked = k.quicBlocked /\ k2.ipv6Off = k.ipv6Off /\ k2.portalOff = TRUE
    PROVE  ApplyAt(k2, cfg, n + 1, missed)
<1>0. n \in Nat /\ (n = 13 \/ n \in {Base(cfg) + 6, Base(cfg) + 7, Base(cfg) + 8})
  BY ConfigFacts
<1>5. PrepassAt(k2, cfg, n + 1)
  BY <1>0, ConfigFacts DEF ApplyAt, PrepassAt
<1>6. ChainsAt(k2, cfg, n + 1)
  BY <1>0, ConfigFacts DEF ApplyAt, ChainsAt, Count, SameChains
<1>7. ASSUME missed = 0
      PROVE  InstalledAt(k2, cfg, n + 1)
  <2>1. InstalledAt(k, cfg, n)
    BY <1>7 DEF ApplyAt
  <2> QED BY <1>0, <2>1, ConfigFacts DEF InstalledAt, SameChains
<1> QED BY <1>5, <1>6, <1>7 DEF ApplyAt

\* The chain that the daemon is about to hook or to fill.
LEMMA ChainReady ==
    ASSUME NEW k, KernelOK(k), NEW cfg \in Configs, NEW missed \in Nat, NEW n, ApplyAt(k, cfg, n, missed)
    PROVE  /\ n = 27 => InOrder(k, "OUT")
           /\ n = Base(cfg) + 5 => InOrder(k, "DNS")
           /\ n \in 18..26 => ~Hooked(k, "OUT")
           /\ n \in {Base(cfg) + 2, Base(cfg) + 3} => ~Hooked(k, "DNS")
<1>1. ("OUT" \notin k.exists => k.rules["OUT"] = <<>>) /\ ("DNS" \notin k.exists => k.rules["DNS"] = <<>>)
  BY DEF KernelOK, Chains
<1>2. ASSUME n = 27
      PROVE  InOrder(k, "OUT")
  <2>1. "OUT" \in k.exists \ k.holes => k.rules["OUT"] = Prefix(OutRules, 5)
    BY <1>2 DEF ApplyAt, ChainsAt, Count
  <2>2. k.rules["OUT"] = Prefix(OutRules, 5) => InOrder(k, "OUT")
    BY RulesOfFacts DEF InOrder
  <2>3. k.rules["OUT"] = <<>> => InOrder(k, "OUT")
    BY InOrderFacts
  <2>4. "OUT" \in k.holes => InOrder(k, "OUT")
    BY DEF InOrder
  <2> QED BY <1>1, <2>1, <2>2, <2>3, <2>4
<1>3. ASSUME n = Base(cfg) + 5
      PROVE  InOrder(k, "DNS")
  <2>1. "DNS" \in k.exists \ k.holes => k.rules["DNS"] = Prefix(DNSRules, 2)
    BY <1>3, ConfigFacts DEF ApplyAt, ChainsAt, Count
  <2>2. k.rules["DNS"] = Prefix(DNSRules, 2) => InOrder(k, "DNS")
    BY RulesOfFacts DEF InOrder
  <2>3. k.rules["DNS"] = <<>> => InOrder(k, "DNS")
    BY InOrderFacts
  <2>4. "DNS" \in k.holes => InOrder(k, "DNS")
    BY DEF InOrder
  <2> QED BY <1>1, <2>1, <2>2, <2>3, <2>4
<1>4. n \in 18..26 => k.hooks["OUTPUT-tcp"] = 0
  BY DEF ApplyAt, PrepassAt
<1>5. n \in {Base(cfg) + 2, Base(cfg) + 3} => k.hooks["OUTPUT-udp53"] = 0
  BY ConfigFacts DEF ApplyAt, PrepassAt
<1> QED BY <1>2, <1>3, <1>4, <1>5, HookedFacts

\* Every command of Apply is safe, and leaves the kernel as far as Apply has got.
LEMMA ApplyStep ==
    ASSUME NEW k, KernelOK(k), NEW cfg \in Configs, NEW missed \in Nat,
           NEW n \in 0..(Base(cfg) + 8), ApplyAt(k, cfg, n, missed)
    PROVE  LET c == Apply(cfg)[n + 1] IN Safe(k, c) /\ ApplyAt(Exec(k, c), cfg, n + 1, missed)
<1> DEFINE s == Apply(cfg)  b == Base(cfg)  c == s[n + 1]  Goal == Safe(k, c) /\ ApplyAt(Exec(k, c), cfg, n + 1, missed)
<1>0. b \in {28, 30} /\ (cfg.Hotspot => b = 30) /\ (~cfg.Hotspot => b = 28)
  BY ConfigFacts
<1>. CommandsOf(cfg, s, b)
  BY ApplyCommand
<1>1. ASSUME NEW h,
             \/ (n = 0 /\ h = "OUTPUT-tcp") \/ (n = 1 /\ h = cfg.HotspotIfaces) \/ (n = 2 /\ h = "OUTPUT-PROXY")
             \/ (n = 3 /\ h = "OUTPUT-udp53") \/ (n = b + 4 /\ h = "OUTPUT-udp53")
      PROVE  Goal
  <2>1. /\ s[1] = Cmd("D", "OUTPUT-tcp") /\ s[2] = Cmd("D", cfg.HotspotIfaces)
        /\ s[3] = Cmd("D", "OUTPUT-PROXY") /\ s[4] = Cmd("D", "OUTPUT-udp53") /\ s[b + 5] = Cmd("D", "OUTPUT-udp53")
    BY Zenon DEF CommandsOf
  <2> HIDE DEF s, b
  <2>2. c = Cmd("D", h)
    BY <1>0, <1>1, <2>1
  <2>3. h \in Hooks
    BY <1>1, HookFacts, ConfigFacts
  <2>4. Safe(k, c)
    BY <2>2, <2>3, RemovalSafe, CommandFacts
  <2>5. ApplyAt(Exec(k, Cmd("D", h)), cfg, n + 1, missed)
    BY <1>1, StepD DEF b
  <2> QED BY <2>2, <2>4, <2>5
<1>2. ASSUME NEW d,
             \/ (n = 4 /\ d = "OUT") \/ (n = 6 /\ d = "PRE") \/ (n = 8 /\ d = "PROXY") \/ (n = 10 /\ d = "DNS")
             \/ (n = 15 /\ d = "OUT") \/ (n = 17 /\ d = "PRE") \/ (n = b + 1 /\ d = "DNS")
      PROVE  Goal
  <2>1. /\ s[5] = Cmd("F", "OUT") /\ s[7] = Cmd("F", "PRE") /\ s[9] = Cmd("F", "PROXY") /\ s[11] = Cmd("F", "DNS")
        /\ s[16] = Cmd("F", "OUT") /\ s[18] = Cmd("F", "PRE") /\ s[b + 2] = Cmd("F", "DNS")
    BY Zenon DEF CommandsOf
  <2> HIDE DEF s, b
  <2>2. c = Cmd("F", d)
    BY <1>0, <1>2, <2>1
  <2>3. d \in Chains
    BY <1>2 DEF Chains
  <2>4. Safe(k, c)
    BY <2>2, <2>3, RemovalSafe, CommandFacts
  <2>5. ApplyAt(Exec(k, Cmd("F", d)), cfg, n + 1, missed)
    BY <1>2, StepF DEF b
  <2> QED BY <2>2, <2>4, <2>5
<1>3. ASSUME NEW d, (n = 5 /\ d = "OUT") \/ (n = 7 /\ d = "PRE") \/ (n = 9 /\ d = "PROXY") \/ (n = 11 /\ d = "DNS")
      PROVE  Goal
  <2>1. s[6] = Cmd("X", "OUT") /\ s[8] = Cmd("X", "PRE") /\ s[10] = Cmd("X", "PROXY") /\ s[12] = Cmd("X", "DNS")
    BY Zenon DEF CommandsOf
  <2> HIDE DEF s, b
  <2>2. c = Cmd("X", d)
    BY <1>3, <2>1
  <2>3. d \in Chains
    BY <1>3 DEF Chains
  <2>4. Safe(k, c)
    BY <2>2, <2>3, RemovalSafe, CommandFacts
  <2>5. ApplyAt(Exec(k, Cmd("X", d)), cfg, n + 1, missed)
    BY <1>3, StepX
  <2> QED BY <2>2, <2>4, <2>5
<1>4. ASSUME NEW d, (n = 14 /\ d = "OUT") \/ (n = 16 /\ d = "PRE") \/ (n = b /\ d = "DNS")
      PROVE  Goal
  <2>1. s[15] = Cmd("N", "OUT") /\ s[17] = Cmd("N", "PRE") /\ s[b + 1] = Cmd("N", "DNS")
    BY Zenon DEF CommandsOf
  <2> HIDE DEF s, b
  <2>2. c = Cmd("N", d)
    BY <1>0, <1>4, <2>1
  <2>3. Safe(k, c)
    BY <2>2 DEF Safe, Cmd
  <2>4. ApplyAt(Exec(k, Cmd("N", d)), cfg, n + 1, missed)
    BY <1>4, StepN DEF b
  <2> QED BY <2>2, <2>3, <2>4
<1>5. ASSUME NEW d, NEW i,
             \/ d = "OUT" /\ i \in 1..5 /\ n = 17 + i
             \/ d = "PRE" /\ i \in 1..4 /\ n = 22 + i
             \/ d = "DNS" /\ i \in 1..2 /\ n = b + 1 + i
      PROVE  Goal
  <2>1. /\ \A j \in 1..5 : s[18 + j] = Cmd("A", <<"OUT", OutRules[j]>>)
        /\ \A j \in 1..4 : s[23 + j] = Cmd("A", <<"PRE", PreRules[j]>>)
        /\ \A j \in 1..2 : s[b + 2 + j] = Cmd("A", <<"DNS", DNSRules[j]>>)
    BY Zenon DEF CommandsOf
  <2> HIDE DEF s, b
  <2>2. c = Cmd("A", <<d, RulesOf[d][i]>>)
    <3>1. \/ d = "OUT" /\ i \in 1..5 /\ n + 1 = 18 + i
          \/ d = "PRE" /\ i \in 1..4 /\ n + 1 = 23 + i
          \/ d = "DNS" /\ i \in 1..2 /\ n + 1 = b + 2 + i
      BY <1>0, <1>5
    <3> QED BY <2>1, <3>1, RulesOfFacts, Zenon
  <2>3. d = "PRE" \/ (d \in {"OUT", "DNS"} /\ ~Hooked(k, d))
    <3>1. CASE d = "OUT"
      <4>1. n \in 18..26
        BY <1>5, <3>1
      <4> QED BY <3>1, <4>1, ChainReady
    <3>2. CASE d = "DNS"
      <4>1. n \in {b + 2, b + 3}
        BY <1>0, <1>5, <3>2
      <4> QED BY <3>2, <4>1, ChainReady DEF b
    <3> QED BY <1>5, <3>1, <3>2
  <2>4. Safe(k, c)
    BY <2>2, <2>3 DEF Safe, Cmd
  <2>5. ApplyAt(Exec(k, Cmd("A", <<d, RulesOf[d][i]>>)), cfg, n + 1, missed)
    BY <1>5, StepA DEF b
  <2> QED BY <2>2, <2>4, <2>5
<1>6. ASSUME NEW h,
             \/ (n = 27 /\ h = "OUTPUT-tcp")
             \/ n = 28 /\ h = cfg.HotspotIfaces /\ cfg.Hotspot
             \/ (n = b + 5 /\ h = "OUTPUT-udp53")
      PROVE  Goal
  <2>1. /\ s[28] = Cmd("I", "OUTPUT-tcp") /\ (cfg.Hotspot => s[29] = Cmd("I", cfg.HotspotIfaces))
        /\ s[b + 6] = Cmd("I", "OUTPUT-udp53")
    BY Zenon DEF CommandsOf
  <2> HIDE DEF s, b
  <2>2. c = Cmd("I", h)
    BY <1>0, <1>6, <2>1
  <2>3. k.hooks[h] = 0 /\ ApplyAt(Exec(k, Cmd("I", h)), cfg, n + 1, missed)
    BY <1>6, StepI DEF b
  <2>4. ChainOf[h] # "PROXY" /\ (ChainOf[h] = "PRE" \/ InOrder(k, ChainOf[h]))
    BY <1>6, HookFacts, ConfigFacts, ChainReady DEF b
  <2>5. Safe(k, c)
    BY <2>2, <2>3, <2>4 DEF Safe, Cmd
  <2> QED BY <2>2, <2>3, <2>5
<1>7. ASSUME n = 12 \/ (n = 29 /\ cfg.Hotspot)
      PROVE  Goal
  <2>1. s[13] = Cmd("-forward", "") /\ (cfg.Hotspot => s[30] = Cmd("+forward", ""))
    BY Zenon DEF CommandsOf
  <2> HIDE DEF s, b
  <2>2. CASE n = 12
    <3>1. c = Cmd("-forward", "")
      <4>1. n + 1 = 13
        BY <2>2
      <4> QED BY <2>1, <4>1, Zenon
    <3> DEFINE k2 == Exec(k, c)
    <3>2. SameChains(k, k2) /\ k2.hooks = k.hooks /\ SameSwitches(k, k2) /\ k2.forward = 0
      BY <3>1, ExecForward
    <3> HIDE DEF k2
    <3>3. ApplyAt(k2, cfg, n + 1, missed)
      BY <2>2, <3>2, StepNoForward, Zenon
    <3>4. Safe(k, c)
      BY <3>1, RemovalSafe, CommandFacts, Zenon
    <3> QED BY <3>3, <3>4 DEF k2
  <2>3. CASE n = 29 /\ cfg.Hotspot
    <3>1. c = Cmd("+forward", "")
      <4>1. n + 1 = 30
        BY <2>3
      <4> QED BY <2>1, <2>3, <4>1, Zenon
    <3>2. k.forward = 0
      BY <2>3 DEF ApplyAt, PrepassAt
    <3> DEFINE k2 == Exec(k, c)
    <3>3. SameChains(k, k2) /\ k2.hooks = k.hooks /\ SameSwitches(k, k2) /\ k2.forward = 1
      BY <3>1, <3>2, ExecForward
    <3> HIDE DEF k2
    <3>4. ApplyAt(k2, cfg, n + 1, missed)
      BY <2>3, <3>3, StepForward, Zenon
    <3>5. Safe(k, c)
      <4>1. c.op = "+forward"
        <5>1. Cmd("+forward", "").op = "+forward"
          BY CmdFields, Zenon
        <5> QED BY <3>1, <5>1, Zenon
      <4> QED BY <3>2, <4>1, Zenon DEF Safe
    <3> QED BY <3>4, <3>5 DEF k2
  <2> QED BY <1>7, <2>2, <2>3
<1>8. ASSUME n = 13 \/ n \in {b + 6, b + 7, b + 8}
      PROVE  Goal
  <2>1. /\ s[14] = Cmd("quic", FALSE) /\ s[b + 7] = Cmd("quic", TRUE)
        /\ s[b + 8] = Cmd("ipv6", TRUE) /\ s[b + 9] = Cmd("portal", TRUE)
    BY Zenon DEF CommandsOf
  <2> HIDE DEF s, b
  <2>2. /\ n = 13 => n + 1 = 14
        /\ n = b + 6 => n + 1 = b + 7
        /\ n = b + 7 => n + 1 = b + 8
        /\ n = b + 8 => n + 1 = b + 9
    BY <1>0
  <2>3. /\ n = 13 => c = Cmd("quic", FALSE)
        /\ n = b + 6 => c = Cmd("quic", TRUE)
        /\ n = b + 7 => c = Cmd("ipv6", TRUE)
        /\ n = b + 8 => c = Cmd("portal", TRUE)
    BY <2>1, <2>2, Zenon
  <2>4. n = 13 \/ n = b + 6 \/ n = b + 7 \/ n = b + 8
    BY <1>8
  <2> HIDE DEF c
  <2>5. c \in Removals
    BY <2>3, <2>4, CommandFacts, Zenon
  <2> DEFINE k2 == Exec(k, c)
  <2>6. /\ SameChains(k, k2) /\ k2.hooks = k.hooks /\ k2.forward = k.forward
        /\ \/ n = 13
           \/ n = b + 6 /\ k2.quicBlocked = TRUE
           \/ n = b + 7 /\ k2.quicBlocked = k.quicBlocked /\ k2.ipv6Off = TRUE
           \/ n = b + 8 /\ k2.quicBlocked = k.quicBlocked /\ k2.ipv6Off = k.ipv6Off /\ k2.portalOff = TRUE
    <3>1. CASE n = 13
      BY <2>3, <3>1, ExecSwitch, ZenonT(60)
    <3>2. CASE n = b + 6
      <4>1. k2 = Exec(k, Cmd("quic", TRUE))
        BY <2>3, <3>2, Zenon
      <4> HIDE DEF k2
      <4> QED BY <3>2, <4>1, ExecSwitch, Zenon
    <3>3. CASE n = b + 7
      <4>1. k2 = Exec(k, Cmd("ipv6", TRUE))
        BY <2>3, <3>3, Zenon
      <4> HIDE DEF k2
      <4> QED BY <3>3, <4>1, ExecSwitch, Zenon
    <3>4. CASE n = b + 8
      <4>1. k2 = Exec(k, Cmd("portal", TRUE))
        BY <2>3, <3>4, Zenon
      <4> HIDE DEF k2
      <4> QED BY <3>4, <4>1, ExecSwitch, Zenon
    <3> QED BY <2>4, <3>1, <3>2, <3>3, <3>4
  <2> HIDE DEF k2
  <2>7. ApplyAt(k2, cfg, n + 1, missed)
    BY <2>6, StepSwitch DEF b
  <2>8. Safe(k, c)
    BY <2>5, RemovalSafe
  <2> QED BY <2>7, <2>8 DEF k2
<1>9. Goal
  <2>1. \/ n \in {0, 1, 2, 3, b + 4} \/ n \in {4, 6, 8, 10, 15, 17, b + 1} \/ n \in {5, 7, 9, 11}
        \/ n \in {14, 16, b} \/ n \in 18..26 \/ n \in {b + 2, b + 3}
        \/ n = 27 \/ (n = 28 /\ cfg.Hotspot) \/ n = b + 5 \/ n = 12 \/ (n = 29 /\ cfg.Hotspot)
        \/ n = 13 \/ n \in {b + 6, b + 7, b + 8}
    <3> HIDE DEF s, c, Goal
    <3>1. CASE b = 28
      BY <1>0, <3>1
    <3>2. CASE b = 30
      BY <1>0, <3>2
    <3> QED BY <1>0, <3>1, <3>2
  <2> HIDE DEF s, b, c, Goal
  <2>2. CASE n \in {0, 1, 2, 3, b + 4}
    <3>1. n = 0 \/ n = 1 \/ n = 2 \/ n = 3 \/ n = b + 4
      BY <2>2
    <3> DEFINE h == IF n = 0 THEN "OUTPUT-tcp" ELSE IF n = 1 THEN cfg.HotspotIfaces
                    ELSE IF n = 2 THEN "OUTPUT-PROXY" ELSE "OUTPUT-udp53"
    <3>2. \/ (n = 0 /\ h = "OUTPUT-tcp") \/ (n = 1 /\ h = cfg.HotspotIfaces) \/ (n = 2 /\ h = "OUTPUT-PROXY")
          \/ (n = 3 /\ h = "OUTPUT-udp53") \/ (n = b + 4 /\ h = "OUTPUT-udp53")
      BY <1>0, <3>1
    <3> HIDE DEF h
    <3> QED BY <1>1, <3>2, Zenon
  <2>3. CASE n \in {4, 6, 8, 10, 15, 17, b + 1}
    <3>1. n = 4 \/ n = 6 \/ n = 8 \/ n = 10 \/ n = 15 \/ n = 17 \/ n = b + 1
      BY <2>3
    <3> DEFINE d == IF n \in {4, 15} THEN "OUT" ELSE IF n \in {6, 17} THEN "PRE"
                    ELSE IF n = 8 THEN "PROXY" ELSE "DNS"
    <3>2. \/ (n = 4 /\ d = "OUT") \/ (n = 6 /\ d = "PRE") \/ (n = 8 /\ d = "PROXY") \/ (n = 10 /\ d = "DNS")
          \/ (n = 15 /\ d = "OUT") \/ (n = 17 /\ d = "PRE") \/ (n = b + 1 /\ d = "DNS")
      BY <1>0, <3>1
    <3> HIDE DEF d
    <3> QED BY <1>2, <3>2, Zenon
  <2>4. CASE n \in {5, 7, 9, 11}
    <3>1. n = 5 \/ n = 7 \/ n = 9 \/ n = 11
      BY <2>4
    <3> DEFINE d == IF n = 5 THEN "OUT" ELSE IF n = 7 THEN "PRE" ELSE IF n = 9 THEN "PROXY" ELSE "DNS"
    <3>2. \/ (n = 5 /\ d = "OUT") \/ (n = 7 /\ d = "PRE")
          \/ (n = 9 /\ d = "PROXY") \/ (n = 11 /\ d = "DNS")
      BY <1>0, <3>1
    <3> HIDE DEF d
    <3> QED BY <1>3, <3>2, Zenon
  <2>5. CASE n \in {14, 16, b}
    <3>1. n = 14 \/ n = 16 \/ n = b
      BY <2>5
    <3> DEFINE d == IF n = 14 THEN "OUT" ELSE IF n = 16 THEN "PRE" ELSE "DNS"
    <3>2. \/ (n = 14 /\ d = "OUT") \/ (n = 16 /\ d = "PRE")
          \/ (n = b /\ d = "DNS")
      BY <1>0, <3>1
    <3> HIDE DEF d
    <3> QED BY <1>4, <3>2, Zenon
  <2>6. CASE n \in 18..26
    <3>1. CASE n \in 18..22
      <4>1. n - 17 \in 1..5 /\ n = 17 + (n - 17)
        BY <3>1
      <4> QED BY <1>5, <4>1, Zenon
    <3>2. CASE n \in 23..26
      <4>1. n - 22 \in 1..4 /\ n = 22 + (n - 22)
        BY <3>2
      <4> QED BY <1>5, <4>1, Zenon
    <3> QED BY <2>6, <3>1, <3>2
  <2>7. CASE n \in {b + 2, b + 3}
    <3>1. (1 \in 1..2 /\ n = b + 1 + 1) \/ (2 \in 1..2 /\ n = b + 1 + 2)
      BY <1>0, <2>7
    <3> QED BY <1>5, <3>1, Zenon
  <2>8. CASE n = 27 \/ (n = 28 /\ cfg.Hotspot) \/ n = b + 5
    BY <1>6, <2>8, Zenon
  <2>9. CASE n = 12 \/ (n = 29 /\ cfg.Hotspot)
    BY <1>7, <2>9, Zenon
  <2>10. CASE n = 13 \/ n \in {b + 6, b + 7, b + 8}
    BY <1>8, <2>10, Zenon
  <2> QED BY <2>1, <2>2, <2>3, <2>4, <2>5, <2>6, <2>7, <2>8, <2>9, <2>10, Zenon
<1> QED BY <1>9

\* A kernel where a chain is known to miss a rule.
LEMMA WithHole ==
    ASSUME NEW k, KernelOK(k), NEW d \in k.exists, NEW k2, k2 = [k EXCEPT !.holes = @ \cup {d}]
    PROVE  /\ KernelOK(k2) /\ k2.holes = k.holes \cup {d} /\ k2.exists = k.exists /\ k2.rules = k.rules
           /\ k2.hooks = k.hooks /\ k2.forward = k.forward
<1>1. k \in Kernels /\ d \in Chains
  BY DEF KernelOK, Kernels
<1>2. k2 \in Kernels
  BY <1>1 DEF Kernels
<1>3. /\ k2.holes = k.holes \cup {d} /\ k2.exists = k.exists /\ k2.rules = k.rules
      /\ k2.hooks = k.hooks /\ k2.forward = k.forward
  BY <1>1 DEF Kernels
<1>4. \A c : (Hooked(k2, c) <=> Hooked(k, c)) /\ (InOrder(k, c) => InOrder(k2, c))
  BY <1>3 DEF Hooked, InOrder
<1> QED BY <1>2, <1>3, <1>4 DEF KernelOK

\* A command of Apply that fails leaves a chain that is known to miss a rule.
LEMMA FailStep ==
    ASSUME NEW k, KernelOK(k), NEW cfg \in Configs, NEW n \in 14..(Base(cfg) + 8),
           NEW missed \in Nat, ApplyAt(k, cfg, n, missed),
           NEW k2, NEW c, c = Apply(cfg)[n + 1], ~Refused(k, c),
           k2 = IF c.op = "A" THEN [k EXCEPT !.holes = @ \cup {c.arg[1]}] ELSE k
    PROVE  KernelOK(k2) /\ ApplyAt(k2, cfg, n + 1, missed + 1)
<1> DEFINE s == Apply(cfg)  b == Base(cfg)
<1>0. b \in {28, 30}
  BY ConfigFacts
<1>1. CommandsOf(cfg, s, b)
  BY ApplyCommand
<1>2. PrepassAt(k, cfg, n) /\ ChainsAt(k, cfg, n) /\ missed + 1 # 0
  BY DEF ApplyAt
<1>3. PrepassAt(k, cfg, n + 1)
  BY <1>0, <1>2 DEF PrepassAt
<1>4. ASSUME NEW d, NEW i,
             \/ d = "OUT" /\ i \in 1..5 /\ n = 17 + i
             \/ d = "PRE" /\ i \in 1..4 /\ n = 22 + i
             \/ d = "DNS" /\ i \in 1..2 /\ n = b + 1 + i
      PROVE  KernelOK(k2) /\ ApplyAt(k2, cfg, n + 1, missed + 1)
  <2>1. /\ \A j \in 1..5 : s[18 + j] = Cmd("A", <<"OUT", OutRules[j]>>)
        /\ \A j \in 1..4 : s[23 + j] = Cmd("A", <<"PRE", PreRules[j]>>)
        /\ \A j \in 1..2 : s[b + 2 + j] = Cmd("A", <<"DNS", DNSRules[j]>>)
    BY <1>1, Zenon DEF CommandsOf
  <2>2. c = Cmd("A", <<d, RulesOf[d][i]>>)
    <3>1. \/ d = "OUT" /\ i \in 1..5 /\ n + 1 = 18 + i
          \/ d = "PRE" /\ i \in 1..4 /\ n + 1 = 23 + i
          \/ d = "DNS" /\ i \in 1..2 /\ n + 1 = b + 2 + i
      BY <1>0, <1>4
    <3> HIDE DEF b
    <3> QED BY <2>1, <3>1, RulesOfFacts, Zenon
  <2>3. d \in k.exists
    BY <2>2 DEF Refused, Cmd
  <2>4. k2 = [k EXCEPT !.holes = @ \cup {d}]
    BY <2>2 DEF Cmd
  <2>5. /\ KernelOK(k2) /\ k2.holes = k.holes \cup {d} /\ k2.exists = k.exists /\ k2.rules = k.rules
        /\ k2.hooks = k.hooks /\ k2.forward = k.forward
    BY <2>3, <2>4, WithHole
  <2>6. PrepassAt(k2, cfg, n + 1)
    BY <1>3, <2>5 DEF PrepassAt
  <2>7. /\ d # "OUT" => Count(n + 1, 18, 5) = Count(n, 18, 5)
        /\ d # "PRE" => Count(n + 1, 23, 4) = Count(n, 23, 4)
        /\ d # "DNS" => Count(n + 1, b + 2, 2) = Count(n, b + 2, 2)
    BY <1>0, <1>4 DEF Count
  <2>8. ChainsAt(k2, cfg, n + 1)
    BY <1>2, <2>5, <2>7 DEF ChainsAt
  <2> QED BY <2>5, <2>6, <2>8 DEF ApplyAt
<1>5. ASSUME n \in {14, 15, 16, 17, 27, 28, 29} \/ n \in {b, b + 1, b + 4, b + 5, b + 6, b + 7, b + 8}
      PROVE  KernelOK(k2) /\ ApplyAt(k2, cfg, n + 1, missed + 1)
  <2>1. c.op # "A"
    <3> HIDE DEF s, b
    <3>1. /\ s[15].op # "A" /\ s[16].op # "A" /\ s[17].op # "A" /\ s[18].op # "A" /\ s[28].op # "A"
          /\ cfg.Hotspot => s[29].op # "A" /\ s[30].op # "A"
      <4>1. /\ s[15] = Cmd("N", "OUT") /\ s[16] = Cmd("F", "OUT") /\ s[17] = Cmd("N", "PRE")
            /\ s[18] = Cmd("F", "PRE") /\ s[28] = Cmd("I", "OUTPUT-tcp")
        BY <1>1, Zenon DEF CommandsOf
      <4>2. cfg.Hotspot => s[29] = Cmd("I", cfg.HotspotIfaces) /\ s[30] = Cmd("+forward", "")
        BY <1>1, Zenon DEF CommandsOf
      <4>3. Cmd("I", cfg.HotspotIfaces).op = "I" /\ Cmd("+forward", "").op = "+forward"
        BY CmdFields, Zenon
      <4>4. s[15].op # "A" /\ s[16].op # "A" /\ s[17].op # "A" /\ s[18].op # "A" /\ s[28].op # "A"
        BY <4>1 DEF Cmd
      <4> QED BY <4>2, <4>3, <4>4, Zenon
    <3>2. /\ s[b + 1].op # "A" /\ s[b + 2].op # "A" /\ s[b + 5].op # "A" /\ s[b + 6].op # "A"
          /\ s[b + 7].op # "A" /\ s[b + 8].op # "A" /\ s[b + 9].op # "A"
      <4>1. /\ s[b + 1] = Cmd("N", "DNS") /\ s[b + 2] = Cmd("F", "DNS")
            /\ s[b + 5] = Cmd("D", "OUTPUT-udp53") /\ s[b + 6] = Cmd("I", "OUTPUT-udp53")
        BY <1>1, Zenon DEF CommandsOf
      <4>2. s[b + 7] = Cmd("quic", TRUE) /\ s[b + 8] = Cmd("ipv6", TRUE) /\ s[b + 9] = Cmd("portal", TRUE)
        BY <1>1, Zenon DEF CommandsOf
      <4>3. Cmd("quic", TRUE).op = "quic" /\ Cmd("ipv6", TRUE).op = "ipv6" /\ Cmd("portal", TRUE).op = "portal"
        BY CmdFields, Zenon
      <4>4. s[b + 1].op # "A" /\ s[b + 2].op # "A" /\ s[b + 5].op # "A" /\ s[b + 6].op # "A"
        BY <4>1 DEF Cmd
      <4> QED BY <4>2, <4>3, <4>4, Zenon
    <3>3. c = s[n + 1]
      BY DEF s
    <3>4. (cfg.Hotspot => b = 30) /\ (~cfg.Hotspot => b = 28)
      BY ConfigFacts DEF b
    <3> QED BY <1>0, <1>5, <3>1, <3>2, <3>3, <3>4
  <2>2. k2 = k
    BY <2>1
  <2>3. /\ Count(n + 1, 18, 5) = Count(n, 18, 5) /\ Count(n + 1, 23, 4) = Count(n, 23, 4)
        /\ Count(n + 1, b + 2, 2) = Count(n, b + 2, 2)
    BY <1>0, <1>5 DEF Count
  <2>4. ChainsAt(k, cfg, n + 1)
    BY <1>2, <2>3 DEF ChainsAt
  <2> QED BY <1>2, <1>3, <2>2, <2>4 DEF ApplyAt
<1> QED
  <2> HIDE DEF s, b
  <2>1. \/ n \in 18..22 \/ n \in 23..26 \/ n \in {b + 2, b + 3}
        \/ n \in {14, 15, 16, 17, 27, 28, 29} \/ n \in {b, b + 1, b + 4, b + 5, b + 6, b + 7, b + 8}
    BY <1>0 DEF b
  <2>2. CASE n \in 18..22
    <3>1. n - 17 \in 1..5 /\ n = 17 + (n - 17)
      BY <2>2
    <3> QED BY <1>4, <3>1, Zenon
  <2>3. CASE n \in 23..26
    <3>1. n - 22 \in 1..4 /\ n = 22 + (n - 22)
      BY <2>3
    <3> QED BY <1>4, <3>1, Zenon
  <2>4. CASE n \in {b + 2, b + 3}
    <3>1. (1 \in 1..2 /\ n = b + 1 + 1) \/ (2 \in 1..2 /\ n = b + 1 + 2)
      BY <1>0, <2>4
    <3> QED BY <1>4, <3>1, Zenon
  <2> QED BY <1>5, <2>1, <2>2, <2>3, <2>4

-----------------------------------------------------------------------------
(* The invariant, action by action *)

Daemons ==
    [alive: BOOLEAN, job: {"idle", "apply", "routed", "clean"},
     todo: Seq(Commands), failed: BOOLEAN, missed: 0..MaxFailures, cfg: UserConfigs]

\* A dead daemon, and one that has just started.
LEMMA NoDaemonFacts ==
    /\ NoDaemon \in Daemons /\ NoDaemon.job = "idle" /\ NoDaemon.todo = <<>> /\ ~NoDaemon.alive
    /\ [NoDaemon EXCEPT !.alive = TRUE] \in Daemons
    /\ [NoDaemon EXCEPT !.alive = TRUE].job = "idle" /\ [NoDaemon EXCEPT !.alive = TRUE].todo = <<>>
    /\ [NoDaemon EXCEPT !.alive = TRUE].alive
<1>1. (CHOOSE c \in UserConfigs : TRUE) \in UserConfigs
  BY ConfigAssumption
<1> DEFINE g == CHOOSE c \in UserConfigs : TRUE
<1>2. g \in UserConfigs /\ <<>> \in Seq(Commands)
  BY <1>1
<1>3. NoDaemon = [alive |-> FALSE, job |-> "idle", todo |-> <<>>, failed |-> FALSE, missed |-> 0, cfg |-> g]
  BY DEF NoDaemon
<1> HIDE DEF g
<1>4. NoDaemon \in Daemons
  BY <1>2, <1>3, ConfigAssumption DEF Daemons
<1>5. NoDaemon.job = "idle" /\ NoDaemon.todo = <<>> /\ ~NoDaemon.alive
  BY <1>3
<1>6. ASSUME NEW d \in Daemons
      PROVE  /\ [d EXCEPT !.alive = TRUE] \in Daemons /\ [d EXCEPT !.alive = TRUE].alive
             /\ [d EXCEPT !.alive = TRUE].job = d.job /\ [d EXCEPT !.alive = TRUE].todo = d.todo
  BY DEF Daemons
<1> QED BY <1>4, <1>5, <1>6, Zenon

\* Nothing runs while the daemon is alive but the daemon.
LEMMA AliveFacts ==
    ASSUME Inv, daemon.alive
    PROVE  script = <<>> /\ late = <<>> /\ cleaned = "none"
  BY DEF Inv, DaemonOK, CleanedOK

\* A step of a live daemon need only keep its own part.
LEMMA DaemonStep ==
    ASSUME script' = <<>>, late' = <<>>, cleaned' = "none", KernelOK(kernel'), DaemonOK'
    PROVE  Inv'
  BY DEF Inv, LateOK, ScriptOK, CleanedOK

\* A daemon starts with nothing to do.
LEMMA DaemonStartsInv == ASSUME Inv, DaemonStarts PROVE Inv'
<1>1. /\ script' = <<>> /\ late' = <<>> /\ cleaned' = "none" /\ kernel' = kernel
      /\ daemon' = [NoDaemon EXCEPT !.alive = TRUE]
  BY DEF DaemonStarts
<1>2. daemon' \in Daemons /\ daemon'.job = "idle" /\ daemon'.todo = <<>> /\ daemon'.alive
  BY <1>1, NoDaemonFacts
<1>3. DaemonOK'
  BY <1>1, <1>2 DEF DaemonOK, Daemons
<1>4. KernelOK(kernel')
  BY <1>1 DEF Inv
<1> QED BY <1>1, <1>3, <1>4, DaemonStep

\* Where the daemon is in Apply, and what it runs next.
LEMMA NextOfApply ==
    ASSUME Inv, daemon.alive, daemon.job = "apply"
    PROVE  \E n \in 0..(Base(daemon.cfg) + 9) :
              /\ daemon.cfg \in Configs /\ daemon.missed \in Nat
              /\ daemon.todo = Drop(Apply(daemon.cfg), n)
              /\ ApplyAt(kernel, daemon.cfg, n, daemon.missed)
              /\ n < 14 => daemon.missed = 0
              /\ Len(daemon.todo) = Base(daemon.cfg) + 9 - n
              /\ daemon.todo = <<>> <=> n = Base(daemon.cfg) + 9
              /\ daemon.todo # <<>> =>
                   /\ Head(daemon.todo) = Apply(daemon.cfg)[n + 1] /\ Head(daemon.todo) \in Commands
                   /\ Tail(daemon.todo) = Drop(Apply(daemon.cfg), n + 1)
                   /\ Tail(daemon.todo) \in Seq(Commands)
<1> DEFINE g == daemon.cfg  s == Apply(daemon.cfg)
<1>1. daemon \in Daemons /\ g \in Configs
  BY ConfigAssumption DEF Inv, DaemonOK, Daemons
<1>2. PICK n \in 0..Len(s) : /\ daemon.todo = Drop(s, n) /\ ApplyAt(kernel, g, n, daemon.missed)
                             /\ n < 14 => daemon.missed = 0
  BY DEF Inv, DaemonOK
<1>3. s \in Seq(Commands) /\ Len(s) = Base(g) + 9
  BY <1>1, ApplyTable
<1>4. Base(g) \in {28, 30}
  BY <1>1, ConfigFacts
<1> HIDE DEF s, g
<1>5. /\ Drop(s, n) \in Seq(Commands) /\ Len(Drop(s, n)) = Len(s) - n
      /\ Drop(s, n) # <<>> <=> n < Len(s)
      /\ n < Len(s) => Head(Drop(s, n)) = s[n + 1] /\ Tail(Drop(s, n)) = Drop(s, n + 1)
  BY <1>3, DropStep
<1>6. n \in 0..(Base(g) + 9) /\ Len(daemon.todo) = Base(g) + 9 - n /\ (daemon.todo = <<>> <=> n = Base(g) + 9)
  BY <1>2, <1>3, <1>4, <1>5
<1>7. ASSUME daemon.todo # <<>>
      PROVE  /\ Head(daemon.todo) = s[n + 1] /\ Head(daemon.todo) \in Commands
             /\ Tail(daemon.todo) = Drop(s, n + 1) /\ Tail(daemon.todo) \in Seq(Commands)
  <2>1. daemon.todo \in Seq(Commands)
    BY <1>2, <1>5
  <2> QED BY <1>2, <1>5, <1>7, <2>1
<1>8. daemon.missed \in Nat
  BY <1>1, ConfigAssumption DEF Daemons
<1> QED BY <1>1, <1>2, <1>6, <1>7, <1>8 DEF s, g

\* The daemon runs one command of Apply or Cleanup.
LEMMA DaemonRunsInv == ASSUME Inv, DaemonRuns PROVE Inv'
<1>1. /\ daemon.alive /\ daemon.todo # <<>> /\ kernel' = Exec(kernel, Head(daemon.todo))
      /\ daemon' = [daemon EXCEPT !.todo = Tail(@)]
      /\ late' = late /\ script' = script /\ cleaned' = cleaned
  BY DEF DaemonRuns
<1>2. script' = <<>> /\ late' = <<>> /\ cleaned' = "none"
  BY <1>1, AliveFacts
<1>3. daemon \in Daemons /\ KernelOK(kernel)
  BY DEF Inv, DaemonOK, Daemons
<1>4. /\ daemon'.alive = daemon.alive /\ daemon'.job = daemon.job /\ daemon'.missed = daemon.missed
      /\ daemon'.cfg = daemon.cfg /\ daemon'.todo = Tail(daemon.todo)
  BY <1>1, <1>3 DEF Daemons
<1>5. daemon.job \in {"apply", "clean"}
  BY <1>1, <1>3 DEF Inv, DaemonOK, Daemons
<1>6. CASE daemon.job = "apply"
  <2>1. PICK n \in 0..(Base(daemon.cfg) + 9) :
              /\ daemon.cfg \in Configs /\ daemon.missed \in Nat
              /\ ApplyAt(kernel, daemon.cfg, n, daemon.missed)
              /\ n < 14 => daemon.missed = 0
              /\ daemon.todo = <<>> <=> n = Base(daemon.cfg) + 9
              /\ daemon.todo # <<>> =>
                   /\ Head(daemon.todo) = Apply(daemon.cfg)[n + 1] /\ Head(daemon.todo) \in Commands
                   /\ Tail(daemon.todo) = Drop(Apply(daemon.cfg), n + 1)
                   /\ Tail(daemon.todo) \in Seq(Commands)
    BY <1>1, <1>6, NextOfApply
  <2>2. Base(daemon.cfg) \in {28, 30} /\ Len(Apply(daemon.cfg)) = Base(daemon.cfg) + 9
    BY <2>1, ConfigFacts, ApplyTable
  <2>3. n \in 0..(Base(daemon.cfg) + 8) /\ n + 1 \in 0..Len(Apply(daemon.cfg))
    BY <1>1, <2>1, <2>2
  <2>4. Safe(kernel, Head(daemon.todo)) /\ ApplyAt(kernel', daemon.cfg, n + 1, daemon.missed)
    BY <1>1, <1>3, <2>1, <2>3, ApplyStep
  <2>5. KernelOK(kernel')
    BY <1>1, <1>3, <2>1, <2>4, SafeExec
  <2>6. daemon' \in Daemons
    BY <1>1, <1>3, <2>1 DEF Daemons
  <2>7. /\ daemon'.todo = Drop(Apply(daemon'.cfg), n + 1) /\ ApplyAt(kernel', daemon'.cfg, n + 1, daemon'.missed)
        /\ n + 1 < 14 => daemon'.missed = 0
    BY <1>1, <1>4, <2>1, <2>3, <2>4
  <2>8. DaemonOK'
    BY <1>1, <1>2, <1>4, <1>6, <2>3, <2>6, <2>7 DEF DaemonOK, Daemons
  <2> QED BY <1>2, <2>5, <2>8, DaemonStep
<1>7. CASE daemon.job = "clean"
  <2>1. daemon.todo \in Seq(Removals)
    BY <1>7 DEF Inv, DaemonOK
  <2>2. Head(daemon.todo) \in Removals /\ Tail(daemon.todo) \in Seq(Removals)
    BY <1>1, <2>1
  <2>3. KernelOK(kernel')
    BY <1>1, <1>3, <2>2, RemovalEffect
  <2>4. Tail(daemon.todo) \in Seq(Commands)
    <3>1. Removals \subseteq Commands
      BY Zenon DEF Commands
    <3> QED BY <2>2, <3>1
  <2>5. daemon' \in Daemons
    BY <1>1, <1>3, <2>4 DEF Daemons
  <2>6. DaemonOK'
    BY <1>1, <1>2, <1>4, <1>7, <2>2, <2>5 DEF DaemonOK, Daemons
  <2> QED BY <1>2, <2>3, <2>6, DaemonStep
<1> QED BY <1>5, <1>6, <1>7

\* A command of Apply fails: the chain is known to miss its rule.
LEMMA CommandFailsInv == ASSUME Inv, CommandFails PROVE Inv'
<1> DEFINE c == Head(daemon.todo)
<1>1. /\ daemon.alive /\ daemon.job = "apply" /\ daemon.missed < MaxFailures /\ daemon.todo # <<>>
      /\ Len(daemon.todo) <= Len(Apply(daemon.cfg)) - Len(cleanupRules(daemon.cfg))
      /\ ~Refused(kernel, c)
      /\ kernel' = IF c.op = "A" THEN [kernel EXCEPT !.holes = @ \cup {c.arg[1]}] ELSE kernel
      /\ late' = late /\ script' = script /\ cleaned' = cleaned
  BY DEF CommandFails
<1>0. PICK error \in {daemon.failed \/ c \in reported(daemon.cfg)} \cup (IF filtered(c) THEN {daemon.failed} ELSE {}) :
          daemon' = [daemon EXCEPT !.todo = Tail(@), !.failed = error, !.missed = @ + 1]
  BY Zenon DEF CommandFails
<1> HIDE DEF c
<1>2. script' = <<>> /\ late' = <<>> /\ cleaned' = "none"
  BY <1>1, AliveFacts
<1>3. daemon \in Daemons /\ KernelOK(kernel)
  BY DEF Inv, DaemonOK, Daemons
<1>4. /\ daemon'.alive = daemon.alive /\ daemon'.job = daemon.job /\ daemon'.missed = daemon.missed + 1
      /\ daemon'.cfg = daemon.cfg /\ daemon'.todo = Tail(daemon.todo)
  BY <1>0, <1>3 DEF Daemons
<1>5. PICK n \in 0..(Base(daemon.cfg) + 9) :
            /\ daemon.cfg \in Configs
            /\ ApplyAt(kernel, daemon.cfg, n, daemon.missed)
            /\ Len(daemon.todo) = Base(daemon.cfg) + 9 - n
            /\ daemon.todo = <<>> <=> n = Base(daemon.cfg) + 9
            /\ daemon.todo # <<>> =>
                 /\ Head(daemon.todo) = Apply(daemon.cfg)[n + 1]
                 /\ Tail(daemon.todo) = Drop(Apply(daemon.cfg), n + 1)
                 /\ Tail(daemon.todo) \in Seq(Commands)
  BY <1>1, NextOfApply
<1>6. /\ Base(daemon.cfg) \in {28, 30} /\ Len(Apply(daemon.cfg)) = Base(daemon.cfg) + 9
      /\ Len(cleanupRules(daemon.cfg)) = 14
  BY <1>5, ConfigFacts, ApplyTable, CleanupTable
<1>7. n \in 14..(Base(daemon.cfg) + 8) /\ n + 1 \in 0..Len(Apply(daemon.cfg))
  BY <1>1, <1>5, <1>6, SMTT(60)
<1>8. daemon.missed \in Nat /\ daemon.missed + 1 \in 0..MaxFailures
  BY <1>1, <1>3, ConfigAssumption DEF Daemons
<1>9. KernelOK(kernel') /\ ApplyAt(kernel', daemon.cfg, n + 1, daemon.missed + 1)
  <2>1. c = Apply(daemon.cfg)[n + 1]
    BY <1>1, <1>5 DEF c
  <2> QED BY <1>1, <1>3, <1>5, <1>7, <1>8, <2>1, FailStep
<1>10. daemon' \in Daemons
  <2>1. error \in BOOLEAN
    <3>1. daemon.failed \in BOOLEAN
      BY <1>3 DEF Daemons
    <3> QED BY <1>0, <3>1
  <2> QED BY <1>0, <1>1, <1>3, <1>5, <1>8, <2>1 DEF Daemons
<1>11. /\ daemon'.todo = Drop(Apply(daemon'.cfg), n + 1) /\ ApplyAt(kernel', daemon'.cfg, n + 1, daemon'.missed)
       /\ ~(n + 1 < 14)
  <2>1. daemon'.todo = Drop(Apply(daemon'.cfg), n + 1)
    BY <1>1, <1>4, <1>5, Zenon
  <2>2. ApplyAt(kernel', daemon'.cfg, n + 1, daemon'.missed)
    BY <1>4, <1>9, Zenon
  <2>3. ~(n + 1 < 14)
    BY <1>7, <1>6
  <2> QED BY <2>1, <2>2, <2>3
<1>12. DaemonOK'
  BY <1>1, <1>2, <1>4, <1>7, <1>10, <1>11 DEF DaemonOK, Daemons
<1> QED BY <1>2, <1>9, <1>12, DaemonStep

\* Apply or Cleanup is over.
LEMMA SequenceEndsInv == ASSUME Inv, SequenceEnds PROVE Inv'
<1>1. /\ daemon.todo = <<>> /\ daemon.job \in {"apply", "clean"}
      /\ daemon' = IF daemon.job = "apply" THEN [daemon EXCEPT !.job = "routed"]
                   ELSE [NoDaemon EXCEPT !.alive = TRUE]
      /\ kernel' = kernel /\ late' = late /\ script' = script /\ cleaned' = cleaned
  BY DEF SequenceEnds
<1>2. daemon \in Daemons /\ KernelOK(kernel) /\ (~daemon.alive => daemon = NoDaemon)
  BY DEF Inv, DaemonOK, Daemons
<1>3. daemon.alive
  BY <1>1, <1>2, NoDaemonFacts
<1>4. script' = <<>> /\ late' = <<>> /\ cleaned' = "none" /\ KernelOK(kernel')
  BY <1>1, <1>2, <1>3, AliveFacts
<1>5. CASE daemon.job = "apply"
  <2>1. PICK n \in 0..(Base(daemon.cfg) + 9) :
              /\ ApplyAt(kernel, daemon.cfg, n, daemon.missed)
              /\ daemon.todo = <<>> <=> n = Base(daemon.cfg) + 9
    BY <1>3, <1>5, NextOfApply
  <2>2. ApplyAt(kernel, daemon.cfg, Base(daemon.cfg) + 9, daemon.missed)
    BY <1>1, <2>1, Zenon
  <2>3. /\ daemon' \in Daemons /\ daemon'.alive = daemon.alive /\ daemon'.job = "routed"
        /\ daemon'.todo = daemon.todo /\ daemon'.cfg = daemon.cfg /\ daemon'.missed = daemon.missed
    BY <1>1, <1>2, <1>5 DEF Daemons
  <2>4. ApplyAt(kernel', daemon'.cfg, Base(daemon'.cfg) + 9, daemon'.missed)
    BY <1>1, <2>2, <2>3, Zenon
  <2>5. DaemonOK'
    BY <1>1, <1>3, <1>4, <2>3, <2>4 DEF DaemonOK, Daemons
  <2> QED BY <1>4, <2>5, DaemonStep
<1>6. CASE daemon.job = "clean"
  <2>1. daemon' \in Daemons /\ daemon'.job = "idle" /\ daemon'.todo = <<>> /\ daemon'.alive
    BY <1>1, <1>6, NoDaemonFacts
  <2>2. DaemonOK'
    BY <1>4, <2>1 DEF DaemonOK, Daemons
  <2> QED BY <1>4, <2>2, DaemonStep
<1> QED BY <1>1, <1>5, <1>6

\* The command that outlives the daemon was safe when it was started.
LEMMA DaemonDiesInv == ASSUME Inv, DaemonDies PROVE Inv'
<1>1. /\ daemon.alive /\ daemon' = NoDaemon
      /\ late' = IF daemon.todo = <<>> THEN <<>> ELSE <<Head(daemon.todo)>>
      /\ kernel' = kernel /\ script' = script /\ cleaned' = cleaned
  BY DEF DaemonDies
<1>2. daemon \in Daemons /\ KernelOK(kernel)
  BY DEF Inv, DaemonOK, Daemons
<1>3. script' = <<>> /\ cleaned' = "none"
  BY <1>1, AliveFacts
<1>4. ASSUME daemon.todo # <<>>
      PROVE  Head(daemon.todo) \in Commands /\ Safe(kernel, Head(daemon.todo))
  <2>1. daemon.job \in {"apply", "clean"}
    BY <1>2, <1>4 DEF Inv, DaemonOK, Daemons
  <2>2. CASE daemon.job = "apply"
    <3>1. PICK n \in 0..(Base(daemon.cfg) + 9) :
                /\ daemon.cfg \in Configs /\ daemon.missed \in Nat
                /\ ApplyAt(kernel, daemon.cfg, n, daemon.missed)
                /\ n < 14 => daemon.missed = 0
                /\ daemon.todo = <<>> <=> n = Base(daemon.cfg) + 9
                /\ daemon.todo # <<>> =>
                     Head(daemon.todo) = Apply(daemon.cfg)[n + 1] /\ Head(daemon.todo) \in Commands
      BY <1>1, <2>2, NextOfApply
    <3>2. Base(daemon.cfg) \in {28, 30}
      BY <3>1, ConfigFacts
    <3>3. n \in 0..(Base(daemon.cfg) + 8)
      BY <1>4, <3>1, <3>2
    <3> QED BY <1>2, <1>4, <3>1, <3>3, ApplyStep
  <2>3. CASE daemon.job = "clean"
    <3>1. daemon.todo \in Seq(Removals)
      BY <2>3 DEF Inv, DaemonOK
    <3>2. Head(daemon.todo) \in Removals
      BY <1>4, <3>1
    <3>3. Head(daemon.todo) \in Commands
      BY <3>2, Zenon DEF Commands
    <3> QED BY <1>2, <3>2, <3>3, RemovalSafe
  <2> QED BY <2>1, <2>2, <2>3
<1>5. LateOK'
  <2>1. CASE daemon.todo = <<>>
    BY <1>1, <2>1 DEF LateOK
  <2>2. CASE daemon.todo # <<>>
    <3> DEFINE c == Head(daemon.todo)
    <3>1. late' = <<c>> /\ c \in Commands /\ Safe(kernel', c)
      BY <1>1, <1>4, <2>2
    <3> HIDE DEF c
    <3>2. late'[1] = c
      BY <3>1
    <3> QED BY <3>1, <3>2 DEF LateOK
  <2> QED BY <2>1, <2>2
<1>6. DaemonOK'
  BY <1>1, NoDaemonFacts DEF DaemonOK, Daemons
<1>7. ScriptOK' /\ CleanedOK'
  BY <1>3 DEF ScriptOK, CleanedOK
<1>8. KernelOK(kernel')
  BY <1>1, <1>2
<1> QED BY <1>5, <1>6, <1>7, <1>8 DEF Inv

\* Apply begins with all of its commands to do.
LEMMA applyTransparentRulesInv ==
    ASSUME Inv, NEW cfg \in UserConfigs, applyTransparentRules(cfg) PROVE Inv'
<1> DEFINE s == Apply(cfg)
<1>1. /\ daemon.alive /\ daemon' = [daemon EXCEPT !.job = "apply", !.todo = s, !.cfg = cfg, !.failed = FALSE, !.missed = 0]
      /\ kernel' = kernel /\ late' = late /\ script' = script /\ cleaned' = cleaned
  BY DEF applyTransparentRules
<1>2. daemon \in Daemons /\ KernelOK(kernel)
  BY DEF Inv, DaemonOK, Daemons
<1>3. script' = <<>> /\ late' = <<>> /\ cleaned' = "none" /\ KernelOK(kernel')
  BY <1>1, <1>2, AliveFacts
<1>4. cfg \in Configs
  BY ConfigAssumption
<1>5. s \in Seq(Commands) /\ Base(cfg) \in {28, 30}
  BY <1>4, ApplyTable, ConfigFacts
<1> HIDE DEF s
<1>6. Drop(s, 0) = s /\ 0 \in 0..Len(s)
  BY <1>5 DEF Drop
<1>7. \A k : ApplyAt(k, cfg, 0, 0)
  BY <1>5 DEF ApplyAt, PrepassAt, ChainsAt, InstalledAt
<1>8. /\ daemon' \in Daemons /\ daemon'.alive = daemon.alive /\ daemon'.job = "apply"
      /\ daemon'.todo = s /\ daemon'.cfg = cfg /\ daemon'.missed = 0
  <2>1. 0 \in 0..MaxFailures
    BY ConfigAssumption
  <2>2. daemon'.alive = daemon.alive /\ daemon'.job = "apply" /\ daemon'.todo = s /\ daemon'.cfg = cfg
    BY <1>1, <1>2 DEF Daemons
  <2>3. daemon'.missed = 0
    BY <1>1, <1>2 DEF Daemons
  <2>4. daemon' \in Daemons
    BY <1>1, <1>2, <1>5, <2>1 DEF Daemons
  <2> QED BY <2>2, <2>3, <2>4
<1>9. /\ daemon'.todo = Drop(Apply(daemon'.cfg), 0) /\ 0 \in 0..Len(Apply(daemon'.cfg))
      /\ ApplyAt(kernel', daemon'.cfg, 0, daemon'.missed)
  BY <1>6, <1>7, <1>8, Zenon DEF s
<1>10. DaemonOK'
  BY <1>1, <1>3, <1>8, <1>9 DEF DaemonOK, Daemons
<1> QED BY <1>3, <1>10, DaemonStep

\* Cleanup takes away only.
LEMMA cleanupTransparentRulesInv ==
    ASSUME Inv, NEW cfg \in UserConfigs, cleanupTransparentRules(cfg) PROVE Inv'
<1> DEFINE s == (IF daemon.failed THEN <<>> ELSE Cleanup(cfg)) \o netClean
<1>1. /\ daemon.alive /\ daemon' = [daemon EXCEPT !.job = "clean", !.todo = s]
      /\ kernel' = kernel /\ late' = late /\ script' = script /\ cleaned' = cleaned
  BY DEF cleanupTransparentRules
<1>2. daemon \in Daemons /\ KernelOK(kernel)
  BY DEF Inv, DaemonOK, Daemons
<1>3. script' = <<>> /\ late' = <<>> /\ cleaned' = "none" /\ KernelOK(kernel')
  BY <1>1, <1>2, AliveFacts
<1>4. cfg \in Configs /\ Removals \subseteq Commands
  BY ConfigAssumption, Zenon DEF Commands
<1>5. s \in Seq(Removals)
  BY <1>4, CleanupRemoves, Zenon
<1> HIDE DEF s
<1>6. s \in Seq(Commands)
  BY <1>4, <1>5
<1>7. /\ daemon' \in Daemons /\ daemon'.alive = daemon.alive /\ daemon'.job = "clean" /\ daemon'.todo = s
  BY <1>1, <1>2, <1>6 DEF Daemons
<1>8. DaemonOK'
  BY <1>1, <1>3, <1>5, <1>7 DEF DaemonOK, Daemons
<1> QED BY <1>3, <1>8, DaemonStep

-----------------------------------------------------------------------------
(* The late command and the scripts *)

\* With no daemon its part of the invariant holds.
LEMMA DeadOK == ASSUME daemon' = NoDaemon PROVE DaemonOK'
  BY NoDaemonFacts DEF DaemonOK, Daemons

\* A safe command does not make a chain rewrite the device's own traffic.
LEMMA SafeIdle ==
    ASSUME NEW k, KernelOK(k), NEW c \in Commands, Safe(k, c), NEW k2, k2 = Exec(k, c),
           NEW d \in {"OUT", "PROXY", "DNS"}, k.rules[d] = <<>>
    PROVE  k2.rules[d] = <<>> \/ ~Hooked(k2, d)
<1>0. d \in Chains /\ d # "PRE"
  BY DEF Chains
<1>1. CASE c \in Removals
  BY <1>0, <1>1, RemovalEffect
<1>2. CASE \E h \in Hooks : c = Cmd("I", h)
  <2>1. PICK h \in Hooks : c = Cmd("I", h)
    BY <1>2
  <2>2. k.hooks[h] = 0
    BY <2>1 DEF Safe, Cmd
  <2>3. SameChains(k, k2)
    BY <2>1, <2>2, ExecI
  <2> QED BY <2>3 DEF SameChains
<1>3. CASE \E e \in Chains : c = Cmd("N", e)
  BY <1>3, ExecN
<1>4. CASE \E e \in Chains, r \in Rules : c = Cmd("A", <<e, r>>)
  <2>1. PICK e \in Chains, r \in Rules : c = Cmd("A", <<e, r>>)
    BY <1>4
  <2>2. e = "PRE" \/ ~Hooked(k, e)
    BY <2>1 DEF Safe, Cmd
  <2>3. k2.hooks = k.hooks /\ \A f \in Chains : f # e => k2.rules[f] = k.rules[f]
    BY <2>1, ExecA
  <2>4. CASE d = e
    <3>1. ~Hooked(k, d)
      BY <1>0, <2>2, <2>4
    <3> QED BY <2>3, <3>1 DEF Hooked
  <2>5. CASE d # e
    BY <1>0, <2>3, <2>5
  <2> QED BY <2>4, <2>5
<1>5. CASE c = Cmd("+forward", "")
  <2>1. k.forward = 0
    BY <1>5 DEF Safe, Cmd
  <2>2. SameChains(k, k2)
    BY <1>5, <2>1, ExecForward
  <2> QED BY <2>2 DEF SameChains
<1> QED BY <1>1, <1>2, <1>3, <1>4, <1>5, CommandCases

\* The late command ends, while the daemon is dead and before a script's second pass.
LEMMA LateCommandEndsInv == ASSUME Inv, LateCommandEnds PROVE Inv'
<1>1. /\ late # <<>> /\ kernel' = Exec(kernel, late[1]) /\ late' = <<>>
      /\ daemon' = daemon /\ script' = script /\ cleaned' = cleaned
  BY DEF LateCommandEnds
<1>2. late[1] \in Commands /\ Safe(kernel, late[1]) /\ KernelOK(kernel)
  BY <1>1 DEF Inv, LateOK
<1>3. KernelOK(kernel')
  BY <1>1, <1>2, SafeExec
<1>4. DaemonOK'
  <2>1. daemon' = NoDaemon
    BY <1>1 DEF Inv, DaemonOK
  <2> QED BY <2>1, DeadOK
<1>5. \A d \in {"OUT", "PROXY", "DNS"} : Idle(d) => Idle(d)'
  <2> TAKE d \in {"OUT", "PROXY", "DNS"}
  <2>1. Idle(d) => kernel.rules[d] = <<>>
    BY <1>1 DEF Idle
  <2>2. kernel.rules[d] = <<>> => kernel'.rules[d] = <<>> \/ ~Hooked(kernel', d)
    BY <1>1, <1>2, SafeIdle
  <2> QED BY <1>1, <2>1, <2>2 DEF Idle
<1>6. \A m : FirstPass(m) => FirstPass(m)'
  BY <1>5 DEF FirstPass
<1>7. \A m \in 0..33 : SecondPass(m) => m < 17 /\ SecondPass(m)'
  <2>1. \A m \in 0..33 : SecondPass(m) => m < 17
    <3>1. \A m \in 0..33 : SecondPass(m) => (17 <= m => late = <<>>)
      BY DEF SecondPass
    <3> QED BY <1>1, <3>1
  <2>2. ASSUME NEW m \in 0..33, m < 17
        PROVE  SecondPass(m)'
    <3>1. \A j \in 17..33 : ~(j <= m)
      BY <2>2
    <3> QED BY <3>1 DEF SecondPass
  <2> QED BY <2>1, <2>2
<1>8. ScriptOK'
  BY <1>1, <1>6, <1>7 DEF Inv, ScriptOK
<1>9. CleanedOK'
  BY <1>1, <1>6, <1>7 DEF Inv, CleanedOK
<1> QED BY <1>1, <1>3, <1>4, <1>8, <1>9 DEF Inv, LateOK

\* A script begins with all of its commands to do.
LEMMA DropNone ==
    ASSUME NEW S, NEW s \in Seq(S)
    PROVE  Drop(s, 0) = s
  BY DEF Drop

\* Either script begins, over a dead daemon and its late command.
LEMMA ScriptBeginsInv ==
    ASSUME Inv, ScriptBegins("once", netClean) \/ ScriptBegins("stop", stopCleans)
    PROVE  Inv'
<1>1. /\ ~daemon.alive /\ cleaned' = "none" /\ kernel' = kernel /\ daemon' = daemon /\ late' = late
      /\ script' = Once \/ script' = Stop
  BY Zenon DEF ScriptBegins, Once, Stop
<1>2. Drop(Once, 0) = Once /\ Drop(Stop, 0) = Stop
  <2>1. Once \in Seq(ScriptCommands) /\ Stop \in Seq(ScriptCommands)
    BY ScriptTable DEF IsSeq
  <2> QED BY <2>1, DropNone
<1>3. FirstPass(0)' /\ SecondPass(0)'
  BY DEF FirstPass, SecondPass
<1>4. ScriptOK'
  <2>1. 0 \in 0..16 /\ 0 \in 0..33
    OBVIOUS
  <2> QED BY <1>1, <1>2, <1>3, <2>1, Zenon DEF ScriptOK
<1>5. DaemonOK'
  <2>1. daemon' = NoDaemon
    BY <1>1 DEF Inv, DaemonOK
  <2> QED BY <2>1, DeadOK
<1>6. CleanedOK'
  BY <1>1 DEF CleanedOK
<1>7. LateOK' /\ KernelOK(kernel')
  BY <1>1 DEF Inv, LateOK
<1> QED BY <1>4, <1>5, <1>6, <1>7 DEF Inv

\* An element of a sequence.
LEMMA ElementOf ==
    ASSUME NEW S, NEW s \in Seq(S), NEW i \in 1..Len(s)
    PROVE  s[i] \in S
  OBVIOUS

\* The commands of net_clean.sh by their number.
LEMMA NetCleanCommand ==
    /\ netClean[1] = Cmd("D", "OUTPUT-tcp") /\ netClean[2] = Cmd("D", "std")
    /\ netClean[3] = Cmd("D", "OUTPUT-PROXY") /\ netClean[4] = Cmd("D", "OUTPUT-udp53")
    /\ netClean[5] = Cmd("F", "OUT") /\ netClean[6] = Cmd("X", "OUT")
    /\ netClean[7] = Cmd("F", "PRE") /\ netClean[8] = Cmd("X", "PRE")
    /\ netClean[9] = Cmd("F", "PROXY") /\ netClean[10] = Cmd("X", "PROXY")
    /\ netClean[11] = Cmd("F", "DNS") /\ netClean[12] = Cmd("X", "DNS")
    /\ netClean[13] = Cmd("-forward", "") /\ netClean[14] = Cmd("ipv6", FALSE)
    /\ netClean[15] = Cmd("quic", FALSE) /\ netClean[16] = Cmd("portal", FALSE)
<1> DEFINE s == DetachAndDelete("std")
<1>1. /\ s[1] = Cmd("D", "OUTPUT-tcp") /\ s[2] = Cmd("D", "std")
      /\ s[3] = Cmd("D", "OUTPUT-PROXY") /\ s[4] = Cmd("D", "OUTPUT-udp53")
      /\ s[5] = Cmd("F", "OUT") /\ s[6] = Cmd("X", "OUT") /\ s[7] = Cmd("F", "PRE") /\ s[8] = Cmd("X", "PRE")
      /\ s[9] = Cmd("F", "PROXY") /\ s[10] = Cmd("X", "PROXY")
      /\ s[11] = Cmd("F", "DNS") /\ s[12] = Cmd("X", "DNS")
  <2>1. "std" \in Ifaces
    BY Zenon DEF Ifaces
  <2> QED BY <2>1, DetachTable, Zenon
<1> HIDE DEF s
<1>2. \A i \in 1..12 : netClean[i] = s[i]
  BY NetCleanTable, Zenon DEF s
<1>3. /\ netClean[1] = s[1] /\ netClean[2] = s[2] /\ netClean[3] = s[3] /\ netClean[4] = s[4]
      /\ netClean[5] = s[5] /\ netClean[6] = s[6] /\ netClean[7] = s[7] /\ netClean[8] = s[8]
      /\ netClean[9] = s[9] /\ netClean[10] = s[10] /\ netClean[11] = s[11] /\ netClean[12] = s[12]
  BY <1>2
<1> QED BY <1>1, <1>3, NetCleanTable, Zenon

\* A chain that was idle stays so under the commands of a script.
LEMMA RemovalIdle ==
    ASSUME KernelOK(kernel), NEW c \in Removals, kernel' = Exec(kernel, c), late' = late,
           NEW d \in Chains, Idle(d)
    PROVE  Idle(d)'
<1>1. /\ \A h \in Hooks : kernel'.hooks[h] = kernel.hooks[h] \/ kernel'.hooks[h] = 0
      /\ kernel'.rules[d] = kernel.rules[d] \/ kernel'.rules[d] = <<>>
  BY RemovalEffect
<1>2. Hooked(kernel', d) => Hooked(kernel, d)
  BY <1>1 DEF Hooked
<1> QED BY <1>1, <1>2 DEF Idle

\* One command of the first net_clean.sh.
LEMMA FirstPassStep ==
    ASSUME KernelOK(kernel), NEW m \in 0..15, FirstPass(m), kernel' = Exec(kernel, netClean[m + 1]), late' = late
    PROVE  FirstPass(m + 1)'
<1> DEFINE c == netClean[m + 1]
<1>1. c \in Removals
  <2>0. netClean \in Seq(Removals) /\ Len(netClean) = 16 /\ m + 1 \in 1..16
    <3>1. m + 1 \in 1..16
      OBVIOUS
    <3> QED BY <3>1, NetCleanTable, Zenon
  <2>1. netClean \in Seq(Removals) /\ m + 1 \in 1..Len(netClean)
    BY <2>0, Zenon
  <2> QED BY <2>1, ElementOf, Zenon
<1>2. kernel' = Exec(kernel, c)
  OBVIOUS
<1>3. (m = 4 => c = Cmd("F", "OUT")) /\ (m = 8 => c = Cmd("F", "PROXY")) /\ (m = 10 => c = Cmd("F", "DNS"))
  <2>1. 4 + 1 = 5 /\ 8 + 1 = 9 /\ 10 + 1 = 11
    OBVIOUS
  <2> QED BY <2>1, NetCleanCommand, Zenon
<1> HIDE DEF c
<1>4. \A d \in Chains : Idle(d) => Idle(d)'
  BY <1>1, <1>2, RemovalIdle
<1>5. \A d \in Chains : c = Cmd("F", d) => Idle(d)'
  BY <1>2, ExecF DEF Idle
<1>6. 5 <= m + 1 => Idle("OUT")'
  <2>1. m = 4 \/ (5 <= m + 1 => 5 <= m)
    OBVIOUS
  <2> QED BY <1>3, <1>4, <1>5, <2>1 DEF FirstPass, Chains
<1>7. 9 <= m + 1 => Idle("PROXY")'
  <2>1. m = 8 \/ (9 <= m + 1 => 9 <= m)
    OBVIOUS
  <2> QED BY <1>3, <1>4, <1>5, <2>1 DEF FirstPass, Chains
<1>8. 11 <= m + 1 => Idle("DNS")'
  <2>1. m = 10 \/ (11 <= m + 1 => 11 <= m)
    OBVIOUS
  <2> QED BY <1>3, <1>4, <1>5, <2>1 DEF FirstPass, Chains
<1> QED BY <1>6, <1>7, <1>8 DEF FirstPass

\* What a command of the second net_clean.sh leaves as it was, or takes away.
Shrinks(k, k2) ==
    /\ \A h \in Hooks : k2.hooks[h] = k.hooks[h] \/ k2.hooks[h] = 0
    /\ \A i \in OwnIfaces : k2.hooks[i] = k.hooks[i]
    /\ \A d \in Chains : k2.rules[d] = k.rules[d] \/ k2.rules[d] = <<>>
    /\ k2.exists \subseteq k.exists
    /\ k.quicBlocked = FALSE => k2.quicBlocked = FALSE
    /\ k.ipv6Off = FALSE => k2.ipv6Off = FALSE
    /\ k.portalOff = FALSE => k2.portalOff = FALSE

\* Every command of net_clean.sh takes away only, and knows no interface of the user.
LEMMA NetCleanShrinks ==
    ASSUME NEW k, KernelOK(k), NEW j \in 1..16, NEW k2, k2 = Exec(k, netClean[j])
    PROVE  Shrinks(k, k2)
<1> DEFINE c == netClean[j]
<1>1. c \in Removals
  <2>1. netClean \in Seq(Removals) /\ j \in 1..Len(netClean)
    BY NetCleanTable
  <2> QED BY <2>1, ElementOf, Zenon
<1>2. \/ \E h \in {"OUTPUT-tcp", "std", "OUTPUT-PROXY", "OUTPUT-udp53"} : c = Cmd("D", h)
      \/ \E d \in {"OUT", "PRE", "PROXY", "DNS"} : c = Cmd("F", d) \/ c = Cmd("X", d)
      \/ c = Cmd("-forward", "")
      \/ c = Cmd("ipv6", FALSE) \/ c = Cmd("quic", FALSE) \/ c = Cmd("portal", FALSE)
  <2>1. j \in {1, 2, 3, 4} \/ j \in {5, 7, 9, 11} \/ j \in {6, 8, 10, 12} \/ j \in {13, 14, 15, 16}
    OBVIOUS
  <2> QED BY <2>1, NetCleanCommand, Zenon
<1>3. k2 = Exec(k, c)
  OBVIOUS
<1> HIDE DEF c
<1>4. /\ \A h \in Hooks : k2.hooks[h] = k.hooks[h] \/ k2.hooks[h] = 0
      /\ \A d \in Chains : k2.rules[d] = k.rules[d] \/ k2.rules[d] = <<>>
      /\ k2.exists \subseteq k.exists
  BY <1>1, <1>3, RemovalEffect
<1>5. OwnIfaces \subseteq Hooks /\ \A i \in OwnIfaces : i \notin {"OUTPUT-tcp", "std", "OUTPUT-PROXY", "OUTPUT-udp53"}
  BY ConfigAssumption DEF Hooks, OutputHooks, Ifaces
<1>6. CASE \E h \in {"OUTPUT-tcp", "std", "OUTPUT-PROXY", "OUTPUT-udp53"} : c = Cmd("D", h)
  <2>1. PICK h \in {"OUTPUT-tcp", "std", "OUTPUT-PROXY", "OUTPUT-udp53"} : c = Cmd("D", h)
    BY <1>6
  <2>2. h \in Hooks
    BY HookFacts
  <2>3. k2 = Exec(k, Cmd("D", h))
    BY <1>3, <2>1, Zenon
  <2>4. (\A g \in Hooks : g # h => k2.hooks[g] = k.hooks[g]) /\ SameSwitches(k, k2)
    <3>1. KernelOK(k)
      OBVIOUS
    <3> QED BY ONLY <2>2, <2>3, <3>1, ExecD, ZenonT(60)
  <2> QED BY <1>4, <1>5, <2>4 DEF Shrinks, SameSwitches
<1>7. ASSUME k2.hooks = k.hooks, SameSwitches(k, k2)
      PROVE  Shrinks(k, k2)
  BY <1>4, <1>7 DEF Shrinks, SameSwitches
<1>8. CASE \E d \in {"OUT", "PRE", "PROXY", "DNS"} : c = Cmd("F", d) \/ c = Cmd("X", d)
  <2>1. k2.hooks = k.hooks /\ SameSwitches(k, k2)
    BY <1>3, <1>8, ExecF, ExecX DEF Chains
  <2> QED BY <1>7, <2>1
<1>9. CASE c = Cmd("-forward", "")
  BY <1>3, <1>7, <1>9, ExecForward
<1>10. CASE c = Cmd("ipv6", FALSE) \/ c = Cmd("quic", FALSE) \/ c = Cmd("portal", FALSE)
  <2>1. /\ k2.hooks = k.hooks
        /\ k2.quicBlocked = k.quicBlocked \/ k2.quicBlocked = FALSE
        /\ k2.ipv6Off = k.ipv6Off \/ k2.ipv6Off = FALSE
        /\ k2.portalOff = k.portalOff \/ k2.portalOff = FALSE
    <3>1. FALSE \in BOOLEAN
      OBVIOUS
    <3>2. CASE c = Cmd("ipv6", FALSE)
      BY <1>3, <3>1, <3>2, ExecSwitch
    <3>3. CASE c = Cmd("quic", FALSE)
      BY <1>3, <3>1, <3>3, ExecSwitch
    <3>4. CASE c = Cmd("portal", FALSE)
      BY <1>3, <3>1, <3>4, ExecSwitch
    <3> QED BY <1>10, <3>2, <3>3, <3>4
  <2> QED BY <1>4, <2>1 DEF Shrinks
<1> QED BY <1>2, <1>6, <1>8, <1>9, <1>10

\* What the second pass has removed stays removed.
LEMMA SecondPassKept ==
    ASSUME NEW m \in 17..32, SecondPass(m), Shrinks(kernel, kernel'), late' = late
    PROVE  SecondPass(m)'
<1>1. /\ kernel.hooks["OUTPUT-tcp"] = 0 => kernel'.hooks["OUTPUT-tcp"] = 0
      /\ kernel.hooks["std"] = 0 => kernel'.hooks["std"] = 0
      /\ kernel.hooks["OUTPUT-PROXY"] = 0 => kernel'.hooks["OUTPUT-PROXY"] = 0
      /\ kernel.hooks["OUTPUT-udp53"] = 0 => kernel'.hooks["OUTPUT-udp53"] = 0
  BY HookFacts DEF Shrinks
<1>2. \A c \in {"OUT", "PRE", "PROXY", "DNS"} :
         /\ kernel.rules[c] = <<>> => kernel'.rules[c] = <<>>
         /\ c \notin kernel.exists => c \notin kernel'.exists
  BY DEF Shrinks, Chains
<1>3. /\ "PRE" \in kernel'.exists => "PRE" \in kernel.exists
      /\ (\E i \in OwnIfaces : kernel.hooks[i] > 0) => \E i \in OwnIfaces : kernel'.hooks[i] > 0
  BY DEF Shrinks
<1>4. /\ kernel.quicBlocked = FALSE => kernel'.quicBlocked = FALSE
      /\ kernel.ipv6Off = FALSE => kernel'.ipv6Off = FALSE
      /\ kernel.portalOff = FALSE => kernel'.portalOff = FALSE
  BY DEF Shrinks
<1> QED BY <1>1, <1>2, <1>3, <1>4 DEF SecondPass

\* One command of the second net_clean.sh.
LEMMA SecondPassStep ==
    ASSUME KernelOK(kernel), NEW m \in 17..32, SecondPass(m), late' = late,
           NEW c, c = netClean[m - 16], kernel' = Exec(kernel, c)
    PROVE  SecondPass(m + 1)'
<1>1. SecondPass(m)'
  <2>1. m - 16 \in 1..16
    OBVIOUS
  <2>2. Shrinks(kernel, kernel')
    BY <2>1, NetCleanShrinks, Zenon
  <2> QED BY <2>2, SecondPassKept
<1>2. /\ 17 - 16 = 1 /\ 18 - 16 = 2 /\ 19 - 16 = 3 /\ 20 - 16 = 4 /\ 21 - 16 = 5 /\ 22 - 16 = 6
      /\ 23 - 16 = 7 /\ 24 - 16 = 8 /\ 25 - 16 = 9 /\ 26 - 16 = 10 /\ 27 - 16 = 11 /\ 28 - 16 = 12
      /\ 30 - 16 = 14 /\ 31 - 16 = 15 /\ 32 - 16 = 16
  OBVIOUS
<1>3. /\ m = 17 => c = Cmd("D", "OUTPUT-tcp")
      /\ m = 18 => c = Cmd("D", "std")
      /\ m = 19 => c = Cmd("D", "OUTPUT-PROXY")
      /\ m = 20 => c = Cmd("D", "OUTPUT-udp53")
  BY <1>2, NetCleanCommand, Zenon
<1>4. /\ m = 21 => c = Cmd("F", "OUT")
      /\ m = 22 => c = Cmd("X", "OUT")
      /\ m = 23 => c = Cmd("F", "PRE")
      /\ m = 24 => c = Cmd("X", "PRE")
      /\ m = 25 => c = Cmd("F", "PROXY")
      /\ m = 26 => c = Cmd("X", "PROXY")
      /\ m = 27 => c = Cmd("F", "DNS")
      /\ m = 28 => c = Cmd("X", "DNS")
  BY <1>2, NetCleanCommand, Zenon
<1>5. /\ m = 30 => c = Cmd("ipv6", FALSE)
      /\ m = 31 => c = Cmd("quic", FALSE)
      /\ m = 32 => c = Cmd("portal", FALSE)
  BY <1>2, NetCleanCommand, Zenon
<1>6. \A h \in Hooks : c = Cmd("D", h) => kernel'.hooks[h] = 0
  BY ExecD
<1>7. \A d \in Chains : c = Cmd("F", d) => kernel'.rules[d] = <<>>
  BY ExecF
<1>8. \A d \in Chains : c = Cmd("X", d) /\ d \in kernel'.exists => kernel.rules[d] # <<>> \/ Hooked(kernel, d)
  BY ExecX
<1>9. /\ m = 17 => kernel'.hooks["OUTPUT-tcp"] = 0
      /\ m = 18 => kernel'.hooks["std"] = 0
      /\ m = 19 => kernel'.hooks["OUTPUT-PROXY"] = 0
      /\ m = 20 => kernel'.hooks["OUTPUT-udp53"] = 0
  BY <1>3, <1>6, HookFacts
<1>10. /\ m = 21 => kernel'.rules["OUT"] = <<>>
       /\ m = 23 => kernel'.rules["PRE"] = <<>>
       /\ m = 25 => kernel'.rules["PROXY"] = <<>>
       /\ m = 27 => kernel'.rules["DNS"] = <<>>
  BY <1>4, <1>7 DEF Chains
<1>11. /\ m = 22 => "OUT" \notin kernel'.exists
       /\ m = 26 => "PROXY" \notin kernel'.exists
       /\ m = 28 => "DNS" \notin kernel'.exists
  <2>1. /\ m = 22 => kernel.hooks["OUTPUT-tcp"] = 0 /\ kernel.rules["OUT"] = <<>>
        /\ m = 26 => kernel.hooks["OUTPUT-PROXY"] = 0 /\ kernel.rules["PROXY"] = <<>>
        /\ m = 28 => kernel.hooks["OUTPUT-udp53"] = 0 /\ kernel.rules["DNS"] = <<>>
    BY DEF SecondPass
  <2>2. /\ m = 22 => ~Hooked(kernel, "OUT")
        /\ m = 26 => ~Hooked(kernel, "PROXY")
        /\ m = 28 => ~Hooked(kernel, "DNS")
    BY <2>1, HookedFacts
  <2> QED BY <1>4, <1>8, <2>1, <2>2 DEF Chains
<1>12. m = 24 /\ "PRE" \in kernel'.exists => \E i \in OwnIfaces : kernel'.hooks[i] > 0
  <2> SUFFICES ASSUME m = 24, "PRE" \in kernel'.exists
               PROVE  \E i \in OwnIfaces : kernel'.hooks[i] > 0
    OBVIOUS
  <2>1. kernel.hooks["std"] = 0 /\ kernel.rules["PRE"] = <<>>
    BY DEF SecondPass
  <2>2. Hooked(kernel, "PRE")
    BY <1>4, <1>8, <2>1 DEF Chains
  <2>3. \E i \in OwnIfaces : kernel.hooks[i] > 0
    BY <2>1, <2>2, HookedFacts DEF Ifaces
  <2>4. c = Cmd("X", "PRE") /\ "PRE" \in Chains
    BY <1>4 DEF Chains
  <2>5. kernel'.hooks = kernel.hooks
    BY <2>4, ExecX
  <2> QED BY <2>3, <2>5
<1>13. /\ m = 30 => kernel'.ipv6Off = FALSE
       /\ m = 31 => kernel'.quicBlocked = FALSE
       /\ m = 32 => kernel'.portalOff = FALSE
  <2>1. FALSE \in BOOLEAN
    OBVIOUS
  <2>2. CASE m = 30
    <3>1. c = Cmd("ipv6", FALSE)
      BY <1>5, <2>2
    <3>2. kernel'.ipv6Off = FALSE
      BY <2>1, <3>1, ExecSwitch
    <3> QED BY <2>2, <3>2
  <2>3. CASE m = 31
    <3>1. c = Cmd("quic", FALSE)
      BY <1>5, <2>3
    <3>2. kernel'.quicBlocked = FALSE
      BY <2>1, <3>1, ExecSwitch
    <3> QED BY <2>3, <3>2
  <2>4. CASE m = 32
    <3>1. c = Cmd("portal", FALSE)
      BY <1>5, <2>4
    <3>2. kernel'.portalOff = FALSE
      BY <2>1, <3>1, ExecSwitch
    <3> QED BY <2>4, <3>2
  <2> QED BY <2>2, <2>3, <2>4
<1>14. (17 <= m + 1 => late' = <<>>)
  BY <1>1 DEF SecondPass
<1>15. /\ 18 <= m + 1 => kernel'.hooks["OUTPUT-tcp"] = 0
       /\ 19 <= m + 1 => kernel'.hooks["std"] = 0
       /\ 20 <= m + 1 => kernel'.hooks["OUTPUT-PROXY"] = 0
       /\ 21 <= m + 1 => kernel'.hooks["OUTPUT-udp53"] = 0
  BY <1>1, <1>9 DEF SecondPass
<1>16. /\ 22 <= m + 1 => kernel'.rules["OUT"] = <<>>
       /\ 24 <= m + 1 => kernel'.rules["PRE"] = <<>>
       /\ 26 <= m + 1 => kernel'.rules["PROXY"] = <<>>
       /\ 28 <= m + 1 => kernel'.rules["DNS"] = <<>>
  BY <1>1, <1>10 DEF SecondPass
<1>17. /\ 23 <= m + 1 => "OUT" \notin kernel'.exists
       /\ 27 <= m + 1 => "PROXY" \notin kernel'.exists
       /\ 29 <= m + 1 => "DNS" \notin kernel'.exists
  BY <1>1, <1>11 DEF SecondPass
<1>18. 25 <= m + 1 /\ "PRE" \in kernel'.exists => \E i \in OwnIfaces : kernel'.hooks[i] > 0
  <2>1. 25 <= m /\ "PRE" \in kernel'.exists => \E i \in OwnIfaces : kernel'.hooks[i] > 0
    BY <1>1 DEF SecondPass
  <2> QED BY <1>12, <2>1
<1>19. /\ 31 <= m + 1 => kernel'.ipv6Off = FALSE
       /\ 32 <= m + 1 => kernel'.quicBlocked = FALSE
       /\ 33 <= m + 1 => kernel'.portalOff = FALSE
  <2>1. (31 <= m => kernel'.ipv6Off = FALSE) /\ (32 <= m => kernel'.quicBlocked = FALSE) /\ ~(33 <= m)
    BY <1>1 DEF SecondPass
  <2> QED BY <1>13, <2>1
<1> QED BY <1>14, <1>15, <1>16, <1>17, <1>18, <1>19, Zenon DEF SecondPass

\* Where a script is, and its next command.
LEMMA NextOfScript ==
    ASSUME Inv, script # <<>>
    PROVE  /\ daemon = NoDaemon /\ cleaned = "none" /\ KernelOK(kernel)
           /\ \/ \E m \in 0..16 : /\ FirstPass(m) /\ Head(script) = Once[m + 1]
                                  /\ Tail(script) = Drop(Once, m + 1)
              \/ \E m \in 0..33 : /\ FirstPass(m) /\ SecondPass(m) /\ Head(script) = Stop[m + 1]
                                  /\ Tail(script) = Drop(Stop, m + 1)
<1>1. daemon = NoDaemon /\ cleaned = "none" /\ KernelOK(kernel)
  BY DEF Inv, DaemonOK, ScriptOK
<1>2. /\ Once \in Seq(ScriptCommands) /\ Len(Once) = 17 /\ Stop \in Seq(ScriptCommands) /\ Len(Stop) = 34
  BY ScriptTable DEF IsSeq
<1>3. \A m \in 0..16 : Head(Drop(Once, m)) = Once[m + 1] /\ Tail(Drop(Once, m)) = Drop(Once, m + 1)
  <2> TAKE m \in 0..16
  <2>1. m \in 0..Len(Once) /\ m < Len(Once)
    BY <1>2
  <2> QED BY <1>2, <2>1, DropStep
<1>4. \A m \in 0..33 : Head(Drop(Stop, m)) = Stop[m + 1] /\ Tail(Drop(Stop, m)) = Drop(Stop, m + 1)
  <2> TAKE m \in 0..33
  <2>1. m \in 0..Len(Stop) /\ m < Len(Stop)
    BY <1>2
  <2> QED BY <1>2, <2>1, DropStep
<1>5. \/ \E m \in 0..16 : script = Drop(Once, m) /\ FirstPass(m)
      \/ \E m \in 0..33 : script = Drop(Stop, m) /\ FirstPass(m) /\ SecondPass(m)
  BY Zenon DEF Inv, ScriptOK
<1> QED BY <1>1, <1>3, <1>4, <1>5, Zenon

\* The commands of the scripts by what they are.
LEMMA ScriptOps ==
    /\ Once[17].op = "end" /\ Once[17].arg = "once" /\ Stop[17].op = "sleep"
    /\ Stop[34].op = "end" /\ Stop[34].arg = "stop"
    /\ \A i \in 1..16 : /\ Once[i] = netClean[i] /\ Stop[i] = netClean[i] /\ Stop[17 + i] = netClean[i]
                        /\ netClean[i] \in Removals /\ netClean[i].op \notin {"sleep", "end"}
<1>1. Once[17].op = "end" /\ Once[17].arg = "once" /\ Stop[17].op = "sleep"
  <2>1. Once[17] = Cmd("end", "once") /\ Stop[17] = Cmd("sleep", "")
    BY ScriptTable, Zenon
  <2>2. Cmd("end", "once").op = "end" /\ Cmd("end", "once").arg = "once" /\ Cmd("sleep", "").op = "sleep"
    BY CmdFields
  <2> QED BY <2>1, <2>2, Zenon
<1>2. Stop[34].op = "end" /\ Stop[34].arg = "stop"
  <2>1. Stop[34] = Cmd("end", "stop")
    BY ScriptTable, Zenon
  <2>2. Cmd("end", "stop").op = "end" /\ Cmd("end", "stop").arg = "stop"
    BY CmdFields
  <2> QED BY <2>1, <2>2, Zenon
<1>3. \A i \in 1..16 : Once[i] = netClean[i] /\ Stop[i] = netClean[i] /\ Stop[17 + i] = netClean[i]
  BY ScriptTable, Zenon
<1>4. \A i \in 1..16 : netClean[i] \in Removals
  <2>1. netClean \in Seq(Removals) /\ Len(netClean) = 16
    BY NetCleanTable, Zenon
  <2> QED BY <2>1, ElementOf, Zenon
<1>5. \A i \in 1..16 : netClean[i].op \notin {"sleep", "end"}
  <2> TAKE i \in 1..16
  <2> DEFINE c == netClean[i]
  <2>1. c \in Removals
    BY <1>4
  <2> HIDE DEF c
  <2>2. c.op \notin {"sleep", "end"}
    BY <2>1, RemovalOps
  <2> QED BY <2>2 DEF c
<1> QED BY <1>1, <1>2, <1>3, <1>4, <1>5, Zenon

\* One command of a script.
LEMMA ScriptRunsInv == ASSUME Inv, ScriptRuns PROVE Inv'
<1> DEFINE c == Head(script)
<1>1. /\ script # <<>> /\ c.op \in NetOps /\ kernel' = Exec(kernel, c) /\ script' = Tail(script)
      /\ daemon' = daemon /\ late' = late /\ cleaned' = cleaned
  BY DEF ScriptRuns
<1>2. c.op # "end" /\ c.op # "sleep"
  BY <1>1 DEF NetOps
<1>3. daemon' = NoDaemon /\ cleaned' = "none" /\ KernelOK(kernel)
  BY <1>1, NextOfScript
<1> HIDE DEF c
<1>4. c \in Removals /\ ScriptOK'
  <2>1. CASE \E m \in 0..16 : FirstPass(m) /\ c = Once[m + 1] /\ script' = Drop(Once, m + 1)
    <3>1. PICK m \in 0..16 : FirstPass(m) /\ c = Once[m + 1] /\ script' = Drop(Once, m + 1)
      BY <2>1
    <3>2. m # 16
      <4>1. 16 + 1 = 17
        OBVIOUS
      <4> QED BY <1>2, <3>1, <4>1, ScriptOps, Zenon
    <3>3. m \in 0..15 /\ m + 1 \in 1..16 /\ m + 1 \in 0..16
      BY <3>2
    <3>4. c = netClean[m + 1] /\ c \in Removals
      BY <3>1, <3>3, ScriptOps, Zenon
    <3>5. FirstPass(m + 1)'
      BY <1>1, <1>3, <3>1, <3>3, <3>4, FirstPassStep, Zenon
    <3> QED BY <1>3, <3>1, <3>3, <3>4, <3>5, Zenon DEF ScriptOK
  <2>2. CASE \E m \in 0..33 : FirstPass(m) /\ SecondPass(m) /\ c = Stop[m + 1] /\ script' = Drop(Stop, m + 1)
    <3>1. PICK m \in 0..33 : FirstPass(m) /\ SecondPass(m) /\ c = Stop[m + 1] /\ script' = Drop(Stop, m + 1)
      BY <2>2
    <3>2. m # 16 /\ m # 33
      <4>1. 16 + 1 = 17 /\ 33 + 1 = 34
        OBVIOUS
      <4> QED BY <1>2, <3>1, <4>1, ScriptOps, ZenonT(60)
    <3>3. m + 1 \in 0..33
      BY <3>2
    <3>4. CASE m \in 0..15
      <4>1. m + 1 \in 1..16
        BY <3>4
      <4>2. c = netClean[m + 1] /\ c \in Removals
        BY <3>1, <4>1, ScriptOps, Zenon
      <4>3. FirstPass(m + 1)'
        BY <1>1, <1>3, <3>1, <3>4, <4>2, FirstPassStep, Zenon
      <4>4. SecondPass(m + 1)'
        <5>1. \A j \in 17..33 : ~(j <= m + 1)
          BY <3>4
        <5> QED BY <5>1 DEF SecondPass
      <4> QED BY <1>3, <3>1, <3>3, <4>2, <4>3, <4>4, Zenon DEF ScriptOK
    <3>5. CASE m \in 17..32
      <4>1. m - 16 \in 1..16 /\ 17 + (m - 16) = m + 1
        BY <3>5
      <4>2. c = netClean[m - 16] /\ c \in Removals
        BY <3>1, <4>1, ScriptOps, ZenonT(60)
      <4>3. SecondPass(m + 1)'
        BY <1>1, <1>3, <3>1, <3>5, <4>2, SecondPassStep, Zenon
      <4>4. FirstPass(m + 1)'
        <5>1. Idle("OUT") /\ Idle("PROXY") /\ Idle("DNS")
          BY <3>1, <3>5 DEF FirstPass
        <5>2. Idle("OUT")' /\ Idle("PROXY")' /\ Idle("DNS")'
          <6>1. "OUT" \in Chains /\ "PROXY" \in Chains /\ "DNS" \in Chains
            BY DEF Chains
          <6> QED BY <1>1, <1>3, <4>2, <5>1, <6>1, RemovalIdle, Zenon
        <5> QED BY <5>2, Zenon DEF FirstPass
      <4> QED BY <1>3, <3>1, <3>3, <4>2, <4>3, <4>4, Zenon DEF ScriptOK
    <3> QED BY <3>2, <3>4, <3>5
  <2>3. \/ \E m \in 0..16 : FirstPass(m) /\ c = Once[m + 1] /\ script' = Drop(Once, m + 1)
        \/ \E m \in 0..33 : FirstPass(m) /\ SecondPass(m) /\ c = Stop[m + 1] /\ script' = Drop(Stop, m + 1)
    BY <1>1, NextOfScript, Zenon DEF c
  <2> QED BY <2>1, <2>2, <2>3, Zenon
<1>5. KernelOK(kernel')
  BY <1>1, <1>3, <1>4, RemovalEffect
<1>6. LateOK'
  <2>1. LateOK
    BY DEF Inv
  <2>2. \A d \in Commands : Safe(kernel, d) => Safe(kernel', d)
    BY <1>1, <1>3, <1>4, RemovalSafe, Zenon
  <2> QED BY <1>1, <2>1, <2>2, Zenon DEF LateOK
<1>7. DaemonOK' /\ CleanedOK'
  BY <1>3, DeadOK DEF CleanedOK
<1> QED BY <1>4, <1>5, <1>6, <1>7 DEF Inv

\* The second between the two passes.
LEMMA ScriptSleepsInv == ASSUME Inv, ScriptSleeps PROVE Inv'
<1> DEFINE c == Head(script)
<1>1. /\ script # <<>> /\ c.op = "sleep" /\ late = <<>> /\ script' = Tail(script)
      /\ kernel' = kernel /\ daemon' = daemon /\ late' = late /\ cleaned' = cleaned
  BY DEF ScriptSleeps
<1>2. daemon' = NoDaemon /\ cleaned' = "none" /\ KernelOK(kernel')
  BY <1>1, NextOfScript
<1>3. \/ \E m \in 0..16 : FirstPass(m) /\ c = Once[m + 1] /\ script' = Drop(Once, m + 1)
      \/ \E m \in 0..33 : FirstPass(m) /\ SecondPass(m) /\ c = Stop[m + 1] /\ script' = Drop(Stop, m + 1)
  BY <1>1, NextOfScript, Zenon
<1> HIDE DEF c
<1>4. \A m : FirstPass(m) => FirstPass(m)'
  BY <1>1 DEF FirstPass, Idle
<1>5. FirstPass(16) => FirstPass(17)
  BY DEF FirstPass
<1>6. SecondPass(17)'
  BY <1>1 DEF SecondPass
<1>7. ScriptOK'
  <2>0. "sleep" # "end" /\ 16 + 1 = 17 /\ 33 + 1 = 34 /\ 17 \in 0..33
    OBVIOUS
  <2>1. CASE \E m \in 0..16 : FirstPass(m) /\ c = Once[m + 1] /\ script' = Drop(Once, m + 1)
    <3>1. PICK m \in 0..16 : c = Once[m + 1]
      BY <2>1
    <3>2. m = 16 \/ m + 1 \in 1..16
      OBVIOUS
    <3> QED BY <1>1, <2>0, <3>1, <3>2, ScriptOps, ZenonT(60)
  <2>2. CASE \E m \in 0..33 : FirstPass(m) /\ SecondPass(m) /\ c = Stop[m + 1] /\ script' = Drop(Stop, m + 1)
    <3>1. PICK m \in 0..33 : FirstPass(m) /\ c = Stop[m + 1] /\ script' = Drop(Stop, m + 1)
      BY <2>2
    <3>2. m = 16 \/ m = 33 \/ m + 1 \in 1..16 \/ (m - 16 \in 1..16 /\ m + 1 = 17 + (m - 16))
      OBVIOUS
    <3>3. m = 16
      <4>1. m # 33
        BY <1>1, <2>0, <3>1, ScriptOps, Zenon
      <4>2. m + 1 \notin 1..16
        <5> SUFFICES ASSUME m + 1 \in 1..16 PROVE FALSE
          OBVIOUS
        <5>1. c = netClean[m + 1]
          BY <3>1, ScriptOps, Zenon
        <5> QED BY <1>1, <5>1, ScriptOps, Zenon
      <4>3. ~(m - 16 \in 1..16 /\ m + 1 = 17 + (m - 16))
        <5> SUFFICES ASSUME m - 16 \in 1..16, m + 1 = 17 + (m - 16) PROVE FALSE
          OBVIOUS
        <5>1. c = netClean[m - 16]
          BY <3>1, ScriptOps, Zenon
        <5> QED BY <1>1, <5>1, ScriptOps, Zenon
      <4> QED BY <3>2, <4>1, <4>2, <4>3, Zenon
    <3>4. FirstPass(17)' /\ script' = Drop(Stop, 17)
      BY <1>4, <1>5, <2>0, <3>1, <3>3, Zenon
    <3> QED BY <1>2, <1>6, <2>0, <3>4, Zenon DEF ScriptOK
  <2> QED BY <1>3, <2>1, <2>2
<1>8. LateOK'
  BY <1>1 DEF LateOK
<1>9. DaemonOK' /\ CleanedOK'
  BY <1>2, DeadOK DEF CleanedOK
<1> QED BY <1>2, <1>7, <1>8, <1>9 DEF Inv

\* A script is over.
LEMMA ScriptEndsInv == ASSUME Inv, ScriptEnds PROVE Inv'
<1> DEFINE c == Head(script)
<1>1. /\ script # <<>> /\ c.op = "end" /\ cleaned' = c.arg /\ script' = <<>>
      /\ kernel' = kernel /\ daemon' = daemon /\ late' = late
  BY DEF ScriptEnds
<1>2. daemon' = NoDaemon /\ KernelOK(kernel')
  BY <1>1, NextOfScript
<1>3. \/ \E m \in 0..16 : FirstPass(m) /\ c = Once[m + 1]
      \/ \E m \in 0..33 : FirstPass(m) /\ SecondPass(m) /\ c = Stop[m + 1]
  BY <1>1, NextOfScript, Zenon
<1> HIDE DEF c
<1>4. \A m : (FirstPass(m) => FirstPass(m)') /\ (SecondPass(m) => SecondPass(m)')
  BY <1>1 DEF FirstPass, Idle, SecondPass
<1>5. (FirstPass(16) => FirstPass(17)) /\ (FirstPass(33) => FirstPass(17))
  BY DEF FirstPass
<1>6. "sleep" # "end" /\ 16 + 1 = 17 /\ 33 + 1 = 34
  OBVIOUS
<1>7. \/ FirstPass(17)' /\ cleaned' = "once"
      \/ FirstPass(17)' /\ SecondPass(33)' /\ cleaned' = "stop"
  <2>1. CASE \E m \in 0..16 : FirstPass(m) /\ c = Once[m + 1]
    <3>1. PICK m \in 0..16 : FirstPass(m) /\ c = Once[m + 1]
      BY <2>1
    <3>2. m = 16 \/ m + 1 \in 1..16
      OBVIOUS
    <3>3. m = 16
      BY <1>1, <1>6, <3>1, <3>2, ScriptOps, ZenonT(60)
    <3> QED BY <1>1, <1>4, <1>5, <1>6, <3>1, <3>3, ScriptOps, Zenon
  <2>2. CASE \E m \in 0..33 : FirstPass(m) /\ SecondPass(m) /\ c = Stop[m + 1]
    <3>1. PICK m \in 0..33 : FirstPass(m) /\ SecondPass(m) /\ c = Stop[m + 1]
      BY <2>2
    <3>2. m = 16 \/ m = 33 \/ m + 1 \in 1..16 \/ (m - 16 \in 1..16 /\ m + 1 = 17 + (m - 16))
      OBVIOUS
    <3>3. m = 33
      <4>1. m # 16
        BY <1>1, <1>6, <3>1, ScriptOps, Zenon
      <4>2. m + 1 \notin 1..16
        <5> SUFFICES ASSUME m + 1 \in 1..16 PROVE FALSE
          OBVIOUS
        <5>1. c = netClean[m + 1]
          BY <3>1, ScriptOps, Zenon
        <5> QED BY <1>1, <5>1, ScriptOps, Zenon
      <4>3. ~(m - 16 \in 1..16 /\ m + 1 = 17 + (m - 16))
        <5> SUFFICES ASSUME m - 16 \in 1..16, m + 1 = 17 + (m - 16) PROVE FALSE
          OBVIOUS
        <5>1. c = netClean[m - 16]
          BY <3>1, ScriptOps, Zenon
        <5> QED BY <1>1, <5>1, ScriptOps, Zenon
      <4> QED BY <3>2, <4>1, <4>2, <4>3, Zenon
    <3> QED BY <1>1, <1>4, <1>5, <1>6, <3>1, <3>3, ScriptOps, Zenon
  <2> QED BY <1>3, <2>1, <2>2
<1>8. CleanedOK'
  BY <1>1, <1>2, <1>7, NoDaemonFacts DEF CleanedOK
<1>9. ScriptOK' /\ LateOK' /\ DaemonOK'
  BY <1>1, <1>2, DeadOK DEF ScriptOK, LateOK, Inv
<1> QED BY <1>2, <1>8, <1>9 DEF Inv

-----------------------------------------------------------------------------
(* The theorems *)

\* After an installation.
LEMMA InitInv == Init => Inv
<1> SUFFICES ASSUME Init PROVE Inv
  OBVIOUS
<1> DEFINE none == [c \in Chains |-> <<>>]  nohooks == [h \in Hooks |-> 0]
<1>1. ASSUME NEW f \in 0..1, NEW k, k = CleanKernel(f)
      PROVE  /\ k \in Kernels /\ k.exists = {} /\ k.holes = {} /\ k.rules = none /\ k.hooks = nohooks
  <2>1. <<>> \in Seq(Rules)
    OBVIOUS
  <2> QED BY <1>1, <2>1 DEF CleanKernel, Kernels
<1>2. ASSUME NEW f \in 0..1, NEW k, k = CleanKernel(f)
      PROVE  KernelOK(k)
  <2>1. /\ k \in Kernels /\ k.exists = {} /\ k.holes = {} /\ k.rules = none /\ k.hooks = nohooks
    BY <1>1, <1>2
  <2>2. \A c : ~Hooked(k, c)
    BY <2>1 DEF Hooked
  <2> QED BY <2>1, <2>2 DEF KernelOK
<1>3. ASSUME NEW k, k = [CleanKernel(0) EXCEPT !.exists = {"PROXY"}, !.hooks["OUTPUT-PROXY"] = 1,
                                               !.rules["PROXY"] = <<"REDIRECT">>]
      PROVE  KernelOK(k)
  <2> DEFINE k0 == CleanKernel(0)
  <2>0. 0 \in 0..1
    OBVIOUS
  <2>1. /\ k0 \in Kernels /\ k0.exists = {} /\ k0.holes = {} /\ k0.rules = none /\ k0.hooks = nohooks
    BY <1>1, <2>0
  <2>2. k = [k0 EXCEPT !.exists = {"PROXY"}, !.hooks["OUTPUT-PROXY"] = 1, !.rules["PROXY"] = <<"REDIRECT">>]
    BY <1>3
  <2> HIDE DEF k0
  <2>3. <<"REDIRECT">> \in Seq(Rules)
    BY DEF Rules
  <2>4. "PROXY" \in Chains /\ "OUTPUT-PROXY" \in Hooks
    BY HookFacts DEF Chains
  <2>5. /\ k \in Kernels /\ k.exists = {"PROXY"} /\ k.holes = {}
        /\ k.rules = [none EXCEPT !["PROXY"] = <<"REDIRECT">>]
        /\ k.hooks = [nohooks EXCEPT !["OUTPUT-PROXY"] = 1]
    <3> DEFINE rs == [none EXCEPT !["PROXY"] = <<"REDIRECT">>]  hk == [nohooks EXCEPT !["OUTPUT-PROXY"] = 1]
    <3>1. none \in [Chains -> Seq(Rules)] /\ nohooks \in [Hooks -> 0..1]
      <4>1. <<>> \in Seq(Rules)
        OBVIOUS
      <4> QED BY <4>1
    <3>2. rs \in [Chains -> Seq(Rules)] /\ hk \in [Hooks -> 0..1]
      <4>1. ASSUME NEW A, NEW B, NEW f \in [A -> B], NEW a, NEW b \in B
            PROVE  [f EXCEPT ![a] = b] \in [A -> B]
        OBVIOUS
      <4>2. 1 \in 0..1
        OBVIOUS
      <4> QED BY <2>3, <3>1, <4>1, <4>2, Zenon
    <3>3. k = [k0 EXCEPT !.exists = {"PROXY"}, !.hooks = hk, !.rules = rs]
      BY <2>1, <2>2
    <3> HIDE DEF rs, hk
    <3>4. k.exists = {"PROXY"} /\ k.holes = {} /\ k.rules = rs /\ k.hooks = hk
      BY <2>1, <3>3 DEF Kernels
    <3>5. k \in Kernels
      BY <2>1, <2>4, <3>2, <3>3 DEF Kernels
    <3> QED BY <3>4, <3>5 DEF rs, hk
  <2>6. \A c \in Chains : k.rules[c] # <<>> => c = "PROXY"
    BY <2>5
  <2>7. \A h \in Hooks : k.hooks[h] > 0 => h = "OUTPUT-PROXY"
    BY <2>5
  <2>8. \A c \in {"OUT", "DNS"} : ~Hooked(k, c)
    BY <2>7, HookFacts DEF Hooked
  <2> QED BY <2>5, <2>6, <2>7, <2>8, HookFacts DEF KernelOK
<1>4. KernelOK(kernel)
  <2>1. 0 \in 0..1 /\ 1 \in 0..1
    OBVIOUS
  <2> QED BY <1>2, <1>3, <2>1, Zenon DEF Init
<1>5. daemon = NoDaemon /\ late = <<>> /\ script = <<>> /\ cleaned = "none"
  BY DEF Init
<1>6. DaemonOK
  BY <1>5, NoDaemonFacts DEF DaemonOK, Daemons
<1> QED BY <1>4, <1>5, <1>6 DEF Inv, LateOK, ScriptOK, CleanedOK

\* Every step keeps the invariant.
LEMMA NextInv == Inv /\ [Next]_vars => Inv'
<1> SUFFICES ASSUME Inv, [Next]_vars PROVE Inv'
  OBVIOUS
<1>1. CASE UNCHANGED vars
  BY <1>1 DEF vars, Inv, DaemonOK, LateOK, ScriptOK, CleanedOK, FirstPass, SecondPass, Idle
<1>2. CASE \E cfg \in UserConfigs : applyTransparentRules(cfg) \/ cleanupTransparentRules(cfg)
  BY <1>2, applyTransparentRulesInv, cleanupTransparentRulesInv
<1>3. CASE ScriptBegins("once", netClean) \/ ScriptBegins("stop", stopCleans)
  BY <1>3, ScriptBeginsInv
<1> QED BY <1>1, <1>2, <1>3, DaemonStartsInv, DaemonRunsInv, CommandFailsInv, SequenceEndsInv, DaemonDiesInv,
           LateCommandEndsInv, ScriptRunsInv, ScriptSleepsInv, ScriptEndsInv, Zenon DEF Next

\* The invariant holds throughout.
THEOREM Invariant == Spec => []Inv
<1> QED BY InitInv, NextInv, PTL DEF Spec

\* The tables stay well formed: no place has two jumps of ours, rules and hooks
\* belong to chains that exist, and at most one command outlives its daemon.
THEOREM TypeCorrect == Spec => []TypeOK
<1>1. Inv => TypeOK
  <2> SUFFICES ASSUME Inv PROVE TypeOK
    OBVIOUS
  <2>1. /\ kernel \in Kernels
        /\ \A c \in Chains : kernel.rules[c] # <<>> => c \in kernel.exists
        /\ \A h \in Hooks : kernel.hooks[h] > 0 => ChainOf[h] \in kernel.exists
    BY DEF Inv, KernelOK
  <2>2. /\ daemon.alive \in BOOLEAN /\ daemon.failed \in BOOLEAN /\ daemon.missed \in 0..MaxFailures
        /\ daemon.job \in {"idle", "apply", "routed", "clean"} /\ daemon.cfg \in UserConfigs
    BY DEF Inv, DaemonOK
  <2>3. cleaned \in {"none", "once", "stop"}
    BY DEF Inv, CleanedOK
  <2>4. Len(late) <= 1
    <3>1. CASE late = <<>>
      BY <3>1
    <3>2. CASE late # <<>>
      <4> DEFINE c == late[1]
      <4>1. late = <<c>>
        BY <3>2 DEF Inv, LateOK
      <4> HIDE DEF c
      <4> QED BY <4>1
    <3> QED BY <3>1, <3>2
  <2> QED BY <2>1, <2>2, <2>3, <2>4 DEF TypeOK
<1> QED BY <1>1, Invariant, PTL

\* Where a rule stands among the first n of a chain that names each rule once.
LEMMA PositionInPrefix ==
    ASSUME NEW S, NEW s \in Seq(S), \A i, j \in 1..Len(s) : s[i] = s[j] => i = j,
           NEW n \in 0..Len(s), NEW j \in 1..Len(s)
    PROVE  PositionOf(s[j], Prefix(s, n)) = IF j <= n THEN j ELSE n + 1
<1> DEFINE r == s[j]  t == Prefix(s, n)
           P(i) == (\A l \in 1..(i - 1) : t[l] # r) /\ (i <= Len(t) => t[i] = r)
           p == IF j <= n THEN j ELSE n + 1
<1>1. Len(t) = n /\ \A i \in 1..n : t[i] = s[i]
  BY PrefixStep DEF Prefix
<1> HIDE DEF t
<1>2. p \in 1..(Len(t) + 1) /\ P(p)
  <2>1. CASE j <= n
    BY <1>1, <2>1
  <2>2. CASE ~(j <= n)
    BY <1>1, <2>2
  <2> QED BY <2>1, <2>2
<1>3. ASSUME NEW i \in 1..(Len(t) + 1), P(i)
      PROVE  i = p
  <2>1. CASE j <= n
    <3>1. t[j] = r
      BY <1>1, <2>1
    <3>2. i <= j
      BY <1>1, <1>3, <2>1, <3>1
    <3>3. t[i] = s[i] /\ t[i] = r
      BY <1>1, <1>3, <2>1, <3>2
    <3> QED BY <1>1, <2>1, <3>2, <3>3
  <2>2. CASE ~(j <= n)
    <3>1. ~(i <= n)
      BY <1>1, <1>3, <2>2
    <3> QED BY <1>1, <2>2, <3>1
  <2> QED BY <2>1, <2>2
<1>4. PositionOf(r, t) = CHOOSE i \in 1..(Len(t) + 1) : P(i)
  BY DEF PositionOf
<1> HIDE DEF P, p, r
<1>5. PositionOf(r, t) = p
  BY <1>2, <1>3, <1>4
<1> QED BY <1>5 DEF p, r, t

\* The carrier is never redirected into itself, whoever was stopped between which
\* commands, unless the command that appends an exemption failed.
THEOREM CarrierIsExempt == Spec => []CarrierExempt
<1>1. Inv => CarrierExempt
  <2> SUFFICES ASSUME Inv, NEW c \in {"OUT", "DNS"}, Hooked(kernel, c), c \notin kernel.holes
               PROVE  LET n == Len(RulesOf[c])
                          redirect == PositionOf(RulesOf[c][n], kernel.rules[c])
                      IN  redirect <= Len(kernel.rules[c]) =>
                              \A i \in 1..(n - 1) : PositionOf(RulesOf[c][i], kernel.rules[c]) < redirect
    BY DEF CarrierExempt
  <2> DEFINE s == RulesOf[c]  t == kernel.rules[c]
  <2>1. s \in Seq(Rules) /\ Len(s) \in {2, 5}
    BY RulesOfFacts
  <2>2. \A i, j \in 1..Len(s) : s[i] = s[j] => i = j
    <3>1. CASE c = "OUT"
      <4>1. s = <<"uid0", "private", "bypassIPs", "ports", "REDIRECT">>
        BY <3>1, RulesOfFacts DEF OutRules
      <4> QED BY <4>1
    <3>2. CASE c = "DNS"
      <4>1. s = <<"uid0", "DNAT">>
        BY <3>2, RulesOfFacts DEF DNSRules
      <4> QED BY <4>1
    <3> QED BY <3>1, <3>2
  <2>3. PICK m \in 0..Len(s) : t = Prefix(s, m)
    BY DEF Inv, KernelOK, InOrder
  <2> HIDE DEF s, t
  <2>4. \A j \in 1..Len(s) : PositionOf(s[j], t) = IF j <= m THEN j ELSE m + 1
    BY <2>1, <2>2, <2>3, PositionInPrefix
  <2>5. Len(t) = m
    BY <2>1, <2>3, PrefixStep
  <2>6. PositionOf(s[Len(s)], t) <= Len(t) =>
            \A i \in 1..(Len(s) - 1) : PositionOf(s[i], t) < PositionOf(s[Len(s)], t)
    BY <2>1, <2>4, <2>5
  <2> QED BY <2>6 DEF s, t
<1> QED BY <1>1, Invariant, PTL

\* When Apply returns, each chain that misses no rule holds its rules once and in
\* order, over whatever it found in the tables and with whatever failures; if no
\* command failed, the rule set is complete.
THEOREM AppliesExactly == Spec => []AppliedExactly
<1>1. Inv => AppliedExactly
  <2> SUFFICES ASSUME Inv, daemon.job = "routed"
               PROVE  AppliedExactly
    BY DEF AppliedExactly
  <2> DEFINE g == daemon.cfg  n == Base(g) + 9
  <2>1. g \in Configs
    BY ConfigAssumption DEF Inv, DaemonOK
  <2>2. Base(g) \in {28, 30} /\ (g.Hotspot => Base(g) = 30)
    BY <2>1, ConfigFacts DEF Base
  <2>3. PrepassAt(kernel, g, n) /\ ChainsAt(kernel, g, n) /\ (daemon.missed = 0 => InstalledAt(kernel, g, n))
    BY DEF Inv, DaemonOK, ApplyAt
  <2> HIDE DEF g
  <2>5. Count(n, 18, 5) = 5 /\ Count(n, 23, 4) = 4 /\ Count(n, Base(g) + 2, 2) = 2
    BY <2>2 DEF Count
  <2>6. /\ "OUT" \in kernel.exists \ kernel.holes => kernel.rules["OUT"] = Prefix(OutRules, 5)
        /\ "PRE" \in kernel.exists \ kernel.holes => kernel.rules["PRE"] = Prefix(PreRules, 4)
        /\ "DNS" \in kernel.exists \ kernel.holes => kernel.rules["DNS"] = Prefix(DNSRules, 2)
    BY <2>2, <2>3, <2>5 DEF ChainsAt
  <2>7. Prefix(OutRules, 5) = OutRules /\ Prefix(PreRules, 4) = PreRules /\ Prefix(DNSRules, 2) = DNSRules
    <3>1. ASSUME NEW r \in Seq(Rules)
          PROVE  Prefix(r, Len(r)) = r
      <4>1. 0 \in 0..Len(r)
        OBVIOUS
      <4> QED BY <4>1, PrefixStep
    <3>2. /\ Prefix(OutRules, Len(OutRules)) = OutRules /\ Prefix(PreRules, Len(PreRules)) = PreRules
          /\ Prefix(DNSRules, Len(DNSRules)) = DNSRules
      BY <3>1, RulesOfFacts, Zenon
    <3> QED BY <3>2, RulesOfFacts, Zenon
  <2>8. \A c \in {"OUT", "PRE", "DNS"} : c \in kernel.exists \ kernel.holes => kernel.rules[c] = RulesOf[c]
    BY <2>6, <2>7, RulesOfFacts
  <2>9. kernel.hooks["OUTPUT-PROXY"] = 0
    BY <2>2, <2>3 DEF PrepassAt
  <2>10. ASSUME daemon.missed = 0
         PROVE  /\ {"OUT", "PRE", "DNS"} \subseteq kernel.exists \ kernel.holes
                /\ kernel.hooks["OUTPUT-tcp"] = 1 /\ kernel.hooks["OUTPUT-udp53"] = 1
                /\ g.Hotspot => kernel.hooks[g.HotspotIfaces] = 1 /\ kernel.forward > 0
                /\ kernel.quicBlocked = TRUE /\ kernel.ipv6Off = TRUE /\ kernel.portalOff = TRUE
    BY <2>2, <2>3, <2>10 DEF InstalledAt
  <2> QED BY <2>8, <2>9, <2>10 DEF g, AppliedExactly
<1> QED BY <1>1, Invariant, PTL

\* After sshcustom.sh stop nothing is left but a hook on an interface that
\* net_clean.sh does not know, with the empty chain it holds.
THEOREM StopCleansUp == Spec => []StopLeavesNothing
<1>1. Inv => StopLeavesNothing
  <2> SUFFICES ASSUME Inv, cleaned = "stop"
               PROVE  /\ \A h \in Hooks \ OwnIfaces : kernel.hooks[h] = 0
                      /\ \A c \in kernel.exists : /\ c = "PRE" /\ kernel.rules[c] = <<>>
                                                  /\ \E i \in OwnIfaces : kernel.hooks[i] > 0
                      /\ ~kernel.quicBlocked /\ ~kernel.ipv6Off /\ ~kernel.portalOff
    BY DEF StopLeavesNothing
  <2>1. SecondPass(33)
    BY DEF Inv, CleanedOK
  <2>2. \A h \in Hooks \ OwnIfaces : h \in {"OUTPUT-tcp", "OUTPUT-PROXY", "OUTPUT-udp53", "std"}
    BY DEF Hooks, OutputHooks, Ifaces
  <2>3. \A h \in Hooks \ OwnIfaces : kernel.hooks[h] = 0
    BY <2>1, <2>2 DEF SecondPass
  <2>4. kernel.exists \subseteq {"OUT", "PRE", "PROXY", "DNS"}
    BY DEF Inv, KernelOK, Kernels, Chains
  <2>5. \A c \in kernel.exists : /\ c = "PRE" /\ kernel.rules[c] = <<>>
                                 /\ \E i \in OwnIfaces : kernel.hooks[i] > 0
    <3>1. "OUT" \notin kernel.exists /\ "PROXY" \notin kernel.exists /\ "DNS" \notin kernel.exists
      BY <2>1 DEF SecondPass
    <3>2. /\ kernel.rules["PRE"] = <<>>
          /\ "PRE" \in kernel.exists => \E i \in OwnIfaces : kernel.hooks[i] > 0
      BY <2>1 DEF SecondPass
    <3> QED BY <2>4, <3>1, <3>2
  <2>6. kernel.quicBlocked = FALSE /\ kernel.ipv6Off = FALSE /\ kernel.portalOff = FALSE
    BY <2>1 DEF SecondPass
  <2> QED BY <2>3, <2>5, <2>6
<1> QED BY <1>1, Invariant, PTL

\* Once a script has cleaned up, no rule rewrites the device's own traffic, even
\* if the dead daemon's last command ended in the middle of the clean-up.
THEOREM CleanLeavesNoRedirect == Spec => []NoRedirectAfterClean
<1>1. Inv => NoRedirectAfterClean
  <2> SUFFICES ASSUME Inv, cleaned # "none", NEW c \in {"OUT", "DNS", "PROXY"}, Hooked(kernel, c)
               PROVE  kernel.rules[c] = <<>>
    BY DEF NoRedirectAfterClean
  <2>1. FirstPass(17)
    BY DEF Inv, CleanedOK
  <2>2. Idle(c)
    BY <2>1 DEF FirstPass
  <2> QED BY <2>2 DEF Idle
<1> QED BY <1>1, Invariant, PTL
=============================================================================
