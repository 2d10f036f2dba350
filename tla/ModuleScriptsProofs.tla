-------------------------- MODULE ModuleScriptsProofs --------------------------
(***************************************************************************)
(* Proofs about ModuleScripts, for any number of daemons and watchdogs and  *)
(* any of the commands: sshcustom.sh stop stops, and an enabled module is   *)
(* watched.                                                                *)
(***************************************************************************)
EXTENDS ModuleScripts, SequenceTheorems, TLAPS

(* The watchdogs.  Only the one of the pid file runs, and past its start the  *)
(* token is its own.                                                         *)
WatchdogOK ==
    \A w \in Watchdogs :
        /\ wd[w].st # "none" => wdPidFile = w
        /\ wd[w].st \notin {"none", "new"} => token = w

(* What holds of the commands that any script has still to run. *)

\* The commands of t.
Uses(t) == {t[i] : i \in 1..Len(t)}

\* The commands after which an enabled module may be neither watched nor paused.
Unwatching == {"enable", "unpause", "kill watchdog"}

\* Each of them is followed by start_watchdog.
Rewatches(t) ==
    \A i \in 1..Len(t) :
        t[i] \in Unwatching =>
            \E j \in 1..Len(t) : j > i /\ t[j] = "start watchdog"

\* There is one.
Watches(t) == "start watchdog" \in Uses(t)

\* start_daemon is whole.
StartsWhole(t) ==
    \A i \in 1..Len(t) :
        t[i] = "check" =>
            i + 3 <= Len(t) /\ t[i + 1] = "stray" /\ t[i + 2] = "spawn" /\ t[i + 3] = "await"

\* Which scripts enable the module, which wait for a daemon they have started,
\* and what the idle one leaves alone.
Allowed(s) ==
    /\ "enable" \in Uses(s.todo) => s.name \in {"start", "restart"}
    /\ "await" \in Uses(s.todo) => s.name \notin {"", "stop", "network-pause"}
    /\ s.name = "start-idle" => Uses(s.todo) \cap {"start watchdog", "disable", "pause"} = {}

\* stop and service.sh need not start a watchdog: they have disabled the module.
Orderly(s) ==
    /\ s.name \notin {"stop", "boot"} => Rewatches(s.todo)
    /\ StartsWhole(s.todo)
    /\ Allowed(s)

ScriptOK == \A r \in Runners : Orderly(script[r])

ResumeOK == script["resume"].name \in {"", "network-resume"}

\* stop and boot disable the module first, and it stays disabled.
DisabledOK ==
    script["user"].name \in {"stop", "boot"} =>
        ~enabled \/ (script["user"].todo # <<>> /\ script["user"].todo[1] = "disable")

(* Watching. *)

\* The commands that start a watchdog, or say that there is none.
Keeping == {"start watchdog", "disable", "pause"}

\* The script will start a watchdog, or say that there is none.
Promise(s) == Uses(s.todo) \cap Keeping # {}

WatchOK ==
    enabled =>
        \/ \E w \in Watchdogs : wd[w].st # "none"
        \/ paused
        \/ \E r \in Runners : Promise(script[r])

(* Stopping. *)

\* No recovery has got anywhere beside the user's script.
AloneOK ==
    alone =>
        /\ script["user"].todo # <<>> => script["resume"].todo = <<>>
        /\ script["user"].name = "stop" /\ script["resume"].todo # <<>> =>
             script["resume"].todo[1] = "if enabled"

\* The script is an end of stop_module; past its killall all daemons are
\* leaving, and past its net_clean the redirect of before is gone.
StopOK ==
    script["user"].name = "stop" =>
        /\ Len(script["user"].todo) <= 7
        /\ \A i \in 1..Len(script["user"].todo) :
             script["user"].todo[i] = stop_module[7 - Len(script["user"].todo) + i]
        /\ alone /\ Len(script["user"].todo) <= 1 =>
             \A d \in Daemons : daemon[d].st \in {"none", "term"}
        /\ alone /\ script["user"].todo = <<>> => redirect # "set"

\* The inductive invariant.
Inv ==
    /\ TypeOK /\ WatchdogOK /\ ScriptOK /\ ResumeOK /\ DisabledOK /\ WatchOK /\ AloneOK /\ StopOK

-----------------------------------------------------------------------------
(* The scripts *)

\* The empty list uses nothing.
LEMMA NothingUsed == Uses(<<>>) = {}
BY DEF Uses

\* What a concatenation consists of.
LEMMA Joined ==
    ASSUME NEW S, NEW s \in Seq(S), NEW t \in Seq(S), NEW u, u = s \o t
    PROVE  /\ u \in Seq(S) /\ Len(u) = Len(s) + Len(t)
           /\ \A i \in 1..Len(u) : u[i] = IF i <= Len(s) THEN s[i] ELSE t[i - Len(s)]
BY ConcatProperties

\* A sequence of two commands, and of one.
LEMMA Listed ==
    ASSUME NEW S, NEW a \in S, NEW b \in S
    PROVE  /\ <<a, b>> \in Seq(S) /\ Len(<<a, b>>) = 2 /\ <<a, b>>[1] = a /\ <<a, b>>[2] = b
           /\ <<a>> \in Seq(S) /\ Len(<<a>>) = 1 /\ <<a>>[1] = a
OBVIOUS

\* The commands of stop_runtime and start_daemon.
LEMMA PartCommands ==
    /\ stop_runtime \in Seq(Commands) /\ Len(stop_runtime) = 4
    /\ stop_runtime[1] = "kill watchdog" /\ stop_runtime[2] = "term"
    /\ stop_runtime[3] = "reap" /\ stop_runtime[4] = "killall"
    /\ killDaemon \in Seq(Commands) /\ Len(killDaemon) = 3
    /\ killDaemon[1] = "term" /\ killDaemon[2] = "reap" /\ killDaemon[3] = "killall"
    /\ start_daemon \in Seq(Commands) /\ Len(start_daemon) = 4
    /\ start_daemon[1] = "check" /\ start_daemon[2] = "stray"
    /\ start_daemon[3] = "spawn" /\ start_daemon[4] = "await"
<1>1. killDaemon \in Seq(Commands)
  BY DEF killDaemon, Commands
<1>2. Len(killDaemon) = 3
  BY DEF killDaemon
<1>3. killDaemon[1] = "term" /\ killDaemon[2] = "reap" /\ killDaemon[3] = "killall"
  BY DEF killDaemon
<1>4. start_daemon \in Seq(Commands)
  BY DEF start_daemon, Commands
<1>5. Len(start_daemon) = 4
  BY DEF start_daemon
<1>6. /\ start_daemon[1] = "check" /\ start_daemon[2] = "stray"
      /\ start_daemon[3] = "spawn" /\ start_daemon[4] = "await"
  BY DEF start_daemon
<1> DEFINE k == <<"kill watchdog">>
<1>7. k \in Seq(Commands)
  BY DEF Commands
<1>8. Len(k) = 1
  OBVIOUS
<1>9. k[1] = "kill watchdog"
  OBVIOUS
<1>10. stop_runtime = k \o killDaemon
  BY DEF stop_runtime
<1> HIDE DEF k
<1>11. stop_runtime \in Seq(Commands) /\ Len(stop_runtime) = Len(k) + Len(killDaemon)
  BY <1>1, <1>7, <1>10, Joined
<1>12. \A i \in 1..Len(stop_runtime) :
         stop_runtime[i] = IF i <= Len(k) THEN k[i] ELSE killDaemon[i - Len(k)]
  BY <1>1, <1>7, <1>10, Joined
<1>13. Len(stop_runtime) = 4
  BY <1>2, <1>8, <1>11
<1>14. /\ stop_runtime[1] = k[1] /\ stop_runtime[2] = killDaemon[1]
       /\ stop_runtime[3] = killDaemon[2] /\ stop_runtime[4] = killDaemon[3]
  BY <1>8, <1>12, <1>13
<1>15. QED
  BY <1>1, <1>2, <1>3, <1>4, <1>5, <1>6, <1>9, <1>11, <1>13, <1>14

\* What every script but network_pause and start-idle begins with: its first
\* command, and then the rest of stop_module.
LEMMA CleanCommands ==
    ASSUME NEW first \in Commands
    PROVE  LET q == <<first, "unpause">> \o stop_runtime \o <<"net clean">>
           IN  /\ q \in Seq(Commands) /\ Len(q) = 7
               /\ q[1] = first /\ q[2] = "unpause" /\ q[3] = "kill watchdog" /\ q[4] = "term"
               /\ q[5] = "reap" /\ q[6] = "killall" /\ q[7] = "net clean"
<1> DEFINE h == <<first, "unpause">>
           n == <<"net clean">>
           m == h \o stop_runtime
           q == m \o n
<1>1. "unpause" \in Commands /\ "net clean" \in Commands
  BY DEF Commands
<1>2. h \in Seq(Commands) /\ Len(h) = 2
  BY <1>1, Listed
<1>3. h[1] = first /\ h[2] = "unpause"
  BY <1>1, Listed
<1>4. n \in Seq(Commands) /\ Len(n) = 1
  BY <1>1, Listed
<1>5. n[1] = "net clean"
  BY <1>1, Listed
<1>6. stop_runtime \in Seq(Commands) /\ Len(stop_runtime) = 4
  BY PartCommands
<1>7. q = <<first, "unpause">> \o stop_runtime \o <<"net clean">>
  OBVIOUS
<1> HIDE DEF h, n
<1>8. m = h \o stop_runtime /\ q = m \o n
  OBVIOUS
<1> HIDE DEF m, q
<1>9. /\ m \in Seq(Commands) /\ Len(m) = Len(h) + Len(stop_runtime)
      /\ \A i \in 1..Len(m) : m[i] = IF i <= Len(h) THEN h[i] ELSE stop_runtime[i - Len(h)]
  <2>1. m = h \o stop_runtime
    BY <1>8
  <2>2. h \in Seq(Commands) /\ stop_runtime \in Seq(Commands)
    BY <1>2, <1>6
  <2>3. QED
    BY <2>1, <2>2, Joined
<1>10. /\ q \in Seq(Commands) /\ Len(q) = Len(m) + Len(n)
       /\ \A i \in 1..Len(q) : q[i] = IF i <= Len(m) THEN m[i] ELSE n[i - Len(m)]
  <2>1. q = m \o n
    BY <1>8
  <2>2. m \in Seq(Commands) /\ n \in Seq(Commands)
    BY <1>4, <1>9
  <2>3. QED
    BY <2>1, <2>2, Joined
<1>11. Len(m) = 6 /\ Len(q) = 7
  BY <1>2, <1>4, <1>6, <1>9, <1>10
<1>12. /\ m[1] = h[1] /\ m[2] = h[2] /\ m[3] = stop_runtime[1] /\ m[4] = stop_runtime[2]
       /\ m[5] = stop_runtime[3] /\ m[6] = stop_runtime[4]
  <2>1. \A i \in 1..Len(m) : m[i] = IF i <= Len(h) THEN h[i] ELSE stop_runtime[i - Len(h)]
    BY <1>9
  <2>2. QED
    BY <2>1, <1>2, <1>11
<1>13. /\ q[1] = m[1] /\ q[2] = m[2] /\ q[3] = m[3] /\ q[4] = m[4] /\ q[5] = m[5]
       /\ q[6] = m[6] /\ q[7] = n[1]
  <2>1. \A i \in 1..Len(q) : q[i] = IF i <= Len(m) THEN m[i] ELSE n[i - Len(m)]
    BY <1>10
  <2>2. QED
    BY <2>1, <1>11
<1>14. /\ q \in Seq(Commands) /\ Len(q) = 7
       /\ q[1] = first /\ q[2] = "unpause" /\ q[3] = "kill watchdog" /\ q[4] = "term"
       /\ q[5] = "reap" /\ q[6] = "killall" /\ q[7] = "net clean"
  BY <1>3, <1>5, <1>10, <1>11, <1>12, <1>13, PartCommands
<1>15. QED
  BY <1>7, <1>14

\* The commands of stop_module.
LEMMA StopCommands ==
    /\ stop_module \in Seq(Commands) /\ Len(stop_module) = 7
    /\ stop_module[1] = "disable" /\ stop_module[2] = "unpause"
    /\ stop_module[3] = "kill watchdog" /\ stop_module[4] = "term" /\ stop_module[5] = "reap"
    /\ stop_module[6] = "killall" /\ stop_module[7] = "net clean"
<1>1. "disable" \in Commands
  BY DEF Commands
<1>2. stop_module = <<"disable", "unpause">> \o stop_runtime \o <<"net clean">>
  BY DEF stop_module
<1>3. QED
  BY <1>1, <1>2, CleanCommands

\* A list of commands that ends with one that starts a watchdog rewatches.
LEMMA JoinRewatches ==
    ASSUME NEW s \in Seq(Commands), NEW t \in Seq(Commands),
           Rewatches(t), Watches(t)
    PROVE  Rewatches(s \o t)
<1> DEFINE u == s \o t
<1>1. u \in Seq(Commands) /\ Len(u) = Len(s) + Len(t)
  BY ConcatProperties
<1>2. \A i \in 1..Len(u) : u[i] = IF i <= Len(s) THEN s[i] ELSE t[i - Len(s)]
  BY ConcatProperties
<1>3. Len(s) \in Nat /\ Len(t) \in Nat
  OBVIOUS
<1> HIDE DEF u
<1>4. SUFFICES ASSUME NEW i \in 1..Len(u), u[i] \in Unwatching
               PROVE  \E j \in 1..Len(u) : j > i /\ u[j] = "start watchdog"
  BY DEF Rewatches, u
<1>5. CASE i <= Len(s)
  <2>1. PICK k \in 1..Len(t) : t[k] = "start watchdog"
    BY DEF Watches, Uses
  <2>2. /\ Len(s) + k \in 1..Len(u) /\ Len(s) + k > i /\ ~(Len(s) + k <= Len(s))
        /\ (Len(s) + k) - Len(s) = k
    BY <1>1, <1>3, <1>5
  <2>3. u[Len(s) + k] = "start watchdog"
    BY <1>2, <2>1, <2>2
  <2>4. QED
    BY <2>2, <2>3
<1>6. CASE ~(i <= Len(s))
  <2>1. i - Len(s) \in 1..Len(t)
    BY <1>1, <1>3, <1>6
  <2>2. u[i] = t[i - Len(s)]
    BY <1>2, <1>6
  <2>3. PICK k \in 1..Len(t) : k > i - Len(s) /\ t[k] = "start watchdog"
    BY <1>4, <2>1, <2>2 DEF Rewatches
  <2>4. k > i - Len(s)
    BY <2>3
  <2>5. /\ Len(s) + k \in 1..Len(u) /\ Len(s) + k > i /\ ~(Len(s) + k <= Len(s))
        /\ (Len(s) + k) - Len(s) = k
    BY <1>1, <1>3, <1>6, <2>4
  <2>6. u[Len(s) + k] = "start watchdog"
    BY <1>2, <2>3, <2>5
  <2>7. QED
    BY <2>5, <2>6
<1>7. QED
  BY <1>5, <1>6

\* One that starts the daemon as a whole in both its parts does so.
LEMMA JoinStarts ==
    ASSUME NEW s \in Seq(Commands), NEW t \in Seq(Commands), StartsWhole(s), StartsWhole(t)
    PROVE  StartsWhole(s \o t)
<1> DEFINE u == s \o t
<1>1. u \in Seq(Commands) /\ Len(u) = Len(s) + Len(t)
  BY ConcatProperties
<1>2. \A i \in 1..Len(u) : u[i] = IF i <= Len(s) THEN s[i] ELSE t[i - Len(s)]
  BY ConcatProperties
<1> HIDE DEF u
<1>3. SUFFICES ASSUME NEW i \in 1..Len(u), u[i] = "check"
               PROVE  /\ i + 3 <= Len(u)
                      /\ u[i + 1] = "stray" /\ u[i + 2] = "spawn" /\ u[i + 3] = "await"
  BY DEF StartsWhole, u
<1>4. Len(s) \in Nat /\ Len(t) \in Nat
  OBVIOUS
<1>5. CASE i <= Len(s)
  <2>1. i \in 1..Len(s) /\ s[i] = "check"
    BY <1>2, <1>3, <1>4, <1>5
  <2>2. /\ i + 3 <= Len(s)
        /\ s[i + 1] = "stray" /\ s[i + 2] = "spawn" /\ s[i + 3] = "await"
    BY <2>1 DEF StartsWhole
  <2>3. \A k \in 1..3 : i + k \in 1..Len(u) /\ i + k <= Len(s)
    BY <1>1, <1>4, <2>1, <2>2
  <2>4. \A k \in 1..3 : u[i + k] = s[i + k]
    BY <1>2, <2>3
  <2>5. i + 3 <= Len(u)
    BY <1>1, <1>4, <2>1, <2>2
  <2>6. u[i + 1] = s[i + 1] /\ u[i + 2] = s[i + 2] /\ u[i + 3] = s[i + 3]
    BY <2>4
  <2>7. QED
    BY <2>2, <2>5, <2>6
<1>6. CASE ~(i <= Len(s))
  <2> DEFINE n == i - Len(s)
  <2>1. n \in 1..Len(t)
    BY <1>1, <1>4, <1>6
  <2>2. t[n] = "check"
    BY <1>2, <1>3, <1>6
  <2>3. i = Len(s) + n
    BY <1>4
  <2> HIDE DEF n
  <2>4. /\ n + 3 <= Len(t)
        /\ t[n + 1] = "stray" /\ t[n + 2] = "spawn" /\ t[n + 3] = "await"
    BY <2>1, <2>2 DEF StartsWhole
  <2>5. \A k \in 1..3 : i + k \in 1..Len(u) /\ ~(i + k <= Len(s)) /\ (i + k) - Len(s) = n + k
    BY <1>1, <1>4, <2>1, <2>3, <2>4
  <2>6. \A k \in 1..3 : u[i + k] = t[n + k]
    BY <1>2, <2>5
  <2>7. i + 3 <= Len(u)
    BY <1>1, <1>4, <2>1, <2>3, <2>4
  <2>8. u[i + 1] = t[n + 1] /\ u[i + 2] = t[n + 2] /\ u[i + 3] = t[n + 3]
    BY <2>6
  <2>9. QED
    BY <2>4, <2>7, <2>8
<1>7. QED
  BY <1>5, <1>6

\* It uses what its parts use.
LEMMA JoinUses ==
    ASSUME NEW s \in Seq(Commands), NEW t \in Seq(Commands)
    PROVE  Uses(s \o t) = Uses(s) \cup Uses(t)
<1> DEFINE u == s \o t
<1>1. u \in Seq(Commands) /\ Len(u) = Len(s) + Len(t)
  BY ConcatProperties
<1>2. \A i \in 1..Len(u) : u[i] = IF i <= Len(s) THEN s[i] ELSE t[i - Len(s)]
  BY ConcatProperties
<1> HIDE DEF u
<1>3. Len(s) \in Nat /\ Len(t) \in Nat
  OBVIOUS
<1>4. ASSUME NEW i \in 1..Len(u) PROVE u[i] \in Uses(s) \cup Uses(t)
  <2>1. CASE i <= Len(s)
    BY <1>1, <1>2, <1>3, <2>1 DEF Uses
  <2>2. CASE ~(i <= Len(s))
    <3>1. i - Len(s) \in 1..Len(t)
      BY <1>1, <1>3, <2>2
    <3>2. u[i] = t[i - Len(s)]
      BY <1>2, <2>2
    <3>3. QED
      BY <3>1, <3>2 DEF Uses
  <2>3. QED
    BY <2>1, <2>2
<1>5. ASSUME NEW i \in 1..Len(s) PROVE s[i] \in Uses(u)
  <2>1. i \in 1..Len(u) /\ i <= Len(s)
    BY <1>1, <1>3
  <2>2. QED
    BY <1>2, <2>1 DEF Uses
<1>6. ASSUME NEW i \in 1..Len(t) PROVE t[i] \in Uses(u)
  <2>1. Len(s) + i \in 1..Len(u) /\ ~(Len(s) + i <= Len(s)) /\ (Len(s) + i) - Len(s) = i
    BY <1>1, <1>3
  <2>2. u[Len(s) + i] = t[i]
    BY <1>2, <2>1
  <2>3. QED
    BY <2>1, <2>2 DEF Uses
<1>7. QED
  BY <1>4, <1>5, <1>6 DEF Uses, u

\* start_daemon, and the part of a script that ends with start_watchdog.
LEMMA StartDaemonUses ==
    /\ Uses(start_daemon) = {"check", "stray", "spawn", "await"}
    /\ Rewatches(start_daemon) /\ StartsWhole(start_daemon)
<1>1. \A i \in 1..4 : i = 1 \/ i = 2 \/ i = 3 \/ i = 4
  OBVIOUS
<1>2. Len(start_daemon) = 4
  BY PartCommands
<1>3. /\ start_daemon[1] = "check" /\ start_daemon[2] = "stray"
      /\ start_daemon[3] = "spawn" /\ start_daemon[4] = "await"
  BY PartCommands
<1>4. Uses(start_daemon) = {start_daemon[i] : i \in 1..4}
  BY <1>2 DEF Uses
<1>5. Uses(start_daemon) = {"check", "stray", "spawn", "await"}
  BY <1>1, <1>3, <1>4
<1>6. Rewatches(start_daemon)
  <2>1. SUFFICES ASSUME NEW i \in 1..4 PROVE start_daemon[i] \notin Unwatching
    BY <1>2 DEF Rewatches
  <2>2. QED
    BY <1>1, <1>3 DEF Unwatching
<1>7. StartsWhole(start_daemon)
  <2>1. SUFFICES ASSUME NEW i \in 1..4, start_daemon[i] = "check" PROVE i = 1
    BY <1>2, <1>3 DEF StartsWhole
  <2>2. QED
    BY <1>1, <1>3, <2>1
<1>8. QED
  BY <1>5, <1>6, <1>7

\* The commands it uses; it starts no daemon.
LEMMA CleanUses ==
    ASSUME NEW first \in Commands, first # "check"
    PROVE  LET q == <<first, "unpause">> \o stop_runtime \o <<"net clean">>
           IN  /\ Uses(q) = {first, "unpause", "kill watchdog", "term", "reap", "killall", "net clean"}
               /\ StartsWhole(q)
<1> DEFINE q == <<first, "unpause">> \o stop_runtime \o <<"net clean">>
<1>1. \A i \in 1..7 : i = 1 \/ i = 2 \/ i = 3 \/ i = 4 \/ i = 5 \/ i = 6 \/ i = 7
  OBVIOUS
<1>2. Len(q) = 7
  BY CleanCommands
<1>3. /\ q[1] = first /\ q[2] = "unpause" /\ q[3] = "kill watchdog" /\ q[4] = "term"
      /\ q[5] = "reap" /\ q[6] = "killall" /\ q[7] = "net clean"
  BY CleanCommands
<1> HIDE DEF q
<1>4. Uses(q) = {q[i] : i \in 1..7}
  BY <1>2 DEF Uses
<1>5. Uses(q) = {first, "unpause", "kill watchdog", "term", "reap", "killall", "net clean"}
  <2>1. Uses(q) = {q[1], q[2], q[3], q[4], q[5], q[6], q[7]}
    BY <1>1, <1>4
  <2>2. QED
    BY <1>3, <2>1
<1>6. StartsWhole(q)
  <2>1. SUFFICES ASSUME NEW i \in 1..7 PROVE q[i] # "check"
    BY <1>2 DEF StartsWhole
  <2>2. QED
    BY <1>1, <1>3
<1>7. QED
  BY <1>5, <1>6 DEF q

\* start_module and network_resume.
LEMMA WatchedScript ==
    ASSUME NEW first \in Commands, first # "check"
    PROVE  LET p == <<first, "unpause">> \o stop_runtime \o <<"net clean">>
                      \o start_daemon \o <<"start watchdog">>
           IN  /\ p \in Seq(Commands) /\ p[1] = first
               /\ Rewatches(p) /\ Watches(p) /\ StartsWhole(p)
               /\ Uses(p) = {first, "unpause", "kill watchdog", "term", "reap", "killall",
                             "net clean", "check", "stray", "spawn", "await", "start watchdog"}
<1> DEFINE q == <<first, "unpause">> \o stop_runtime \o <<"net clean">>
           m == q \o start_daemon
           e == <<"start watchdog">>
           p == m \o e
<1>1. q \in Seq(Commands) /\ q[1] = first /\ StartsWhole(q)
  BY CleanCommands, CleanUses
<1>2. Len(q) = 7
  BY CleanCommands
<1>3. Uses(q) = {first, "unpause", "kill watchdog", "term", "reap", "killall", "net clean"}
  BY CleanUses
<1>4. "start watchdog" \in Commands
  BY DEF Commands
<1>5. e \in Seq(Commands) /\ Len(e) = 1
  BY <1>4, Listed
<1>6. e[1] = "start watchdog"
  BY <1>4, Listed
<1>7. p = <<first, "unpause">> \o stop_runtime \o <<"net clean">>
            \o start_daemon \o <<"start watchdog">>
  OBVIOUS
<1> HIDE DEF q, e
<1>8. Uses(e) = {"start watchdog"} /\ Watches(e) /\ Rewatches(e) /\ StartsWhole(e)
  <2>1. (\A i \in 1..Len(e) : i = 1) /\ 1 \in 1..Len(e)
    BY <1>5
  <2>2. QED
    BY <1>6, <2>1 DEF Uses, Watches, Rewatches, Unwatching, StartsWhole
<1>9. start_daemon \in Seq(Commands) /\ Len(start_daemon) = 4
  BY PartCommands
<1>10. m \in Seq(Commands) /\ Len(m) = Len(q) + Len(start_daemon)
  BY <1>1, <1>9, ConcatProperties
<1>11. \A i \in 1..Len(q) + Len(start_daemon) :
         m[i] = IF i <= Len(q) THEN q[i] ELSE start_daemon[i - Len(q)]
  BY <1>1, <1>9, ConcatProperties
<1>12. StartsWhole(m)
  BY <1>1, <1>9, JoinStarts, StartDaemonUses
<1>13. Uses(m) = Uses(q) \cup Uses(start_daemon)
  BY <1>1, <1>9, JoinUses
<1> HIDE DEF m
<1>14. m[1] = q[1]
  BY <1>2, <1>9, <1>11
<1>15. Len(m) = 11
  BY <1>2, <1>9, <1>10
<1>16. p \in Seq(Commands)
  BY <1>5, <1>10, ConcatProperties
<1>17. \A i \in 1..Len(m) + Len(e) : p[i] = IF i <= Len(m) THEN m[i] ELSE e[i - Len(m)]
  BY <1>5, <1>10, ConcatProperties
<1>18. Rewatches(p) /\ StartsWhole(p)
  BY <1>5, <1>8, <1>10, <1>12, JoinRewatches, JoinStarts
<1>19. Uses(p) = Uses(m) \cup Uses(e)
  BY <1>5, <1>10, JoinUses
<1> HIDE DEF p
<1>20. p[1] = m[1]
  BY <1>5, <1>15, <1>17
<1>21. Uses(p) = {first, "unpause", "kill watchdog", "term", "reap", "killall",
                  "net clean", "check", "stray", "spawn", "await", "start watchdog"}
  BY <1>3, <1>8, <1>13, <1>19, StartDaemonUses
<1>22. Watches(p)
  BY <1>21 DEF Watches
<1>23. p[1] = first
  BY <1>1, <1>14, <1>20
<1>24. QED
  BY <1>7, <1>16, <1>18, <1>21, <1>22, <1>23

\* network_pause: nothing is unwatched, and no daemon is started.
LEMMA PauseCommands ==
    /\ network_pause \in Seq(Commands) /\ Rewatches(network_pause) /\ StartsWhole(network_pause)
    /\ Uses(network_pause) = {"if enabled", "term", "reap", "killall", "net clean", "pause"}
<1> DEFINE a == <<"if enabled">>
           b == a \o killDaemon
           c == <<"net clean", "pause">>
<1>1. "if enabled" \in Commands /\ "net clean" \in Commands /\ "pause" \in Commands
  BY DEF Commands
<1>2. a \in Seq(Commands) /\ c \in Seq(Commands)
  BY <1>1, Listed
<1>3. Len(a) = 1 /\ Len(c) = 2
  BY <1>1, Listed
<1>4. a[1] = "if enabled" /\ c[1] = "net clean" /\ c[2] = "pause"
  BY <1>1, Listed
<1>5. killDaemon \in Seq(Commands)
  BY PartCommands
<1>6. network_pause = b \o c
  BY DEF network_pause
<1> HIDE DEF a, c
<1>7. b \in Seq(Commands)
  BY <1>2, <1>5, ConcatProperties
<1>8. Uses(b) = Uses(a) \cup Uses(killDaemon)
  BY <1>2, <1>5, JoinUses
<1> HIDE DEF b
<1>9. network_pause \in Seq(Commands)
  BY <1>2, <1>6, <1>7, ConcatProperties
<1>10. Uses(network_pause) = Uses(b) \cup Uses(c)
  BY <1>2, <1>6, <1>7, JoinUses
<1>11. Uses(a) = {a[1]} /\ Uses(c) = {c[1], c[2]}
  <2>1. 1..1 = {1} /\ 1..2 = {1, 2}
    OBVIOUS
  <2>2. Uses(a) = {a[i] : i \in {1}} /\ Uses(c) = {c[i] : i \in {1, 2}}
    BY <1>3, <2>1 DEF Uses
  <2>3. QED
    BY <2>2
<1>12. Uses(killDaemon) = {killDaemon[1], killDaemon[2], killDaemon[3]}
  <2>1. 1..3 = {1, 2, 3}
    OBVIOUS
  <2>2. Len(killDaemon) = 3
    BY PartCommands
  <2>3. Uses(killDaemon) = {killDaemon[i] : i \in {1, 2, 3}}
    BY <2>1, <2>2 DEF Uses
  <2>4. QED
    BY <2>3
<1>13. Uses(killDaemon) = {"term", "reap", "killall"}
  BY <1>12, PartCommands
<1>14. Uses(network_pause) = {"if enabled", "term", "reap", "killall", "net clean", "pause"}
  BY <1>4, <1>8, <1>10, <1>11, <1>13
<1>15. \A i \in 1..Len(network_pause) : network_pause[i] \in Uses(network_pause)
  BY DEF Uses
<1>16. \A x \in Uses(network_pause) : x \notin Unwatching /\ x # "check"
  BY <1>14 DEF Unwatching
<1>17. Rewatches(network_pause) /\ StartsWhole(network_pause)
  BY <1>15, <1>16 DEF Rewatches, StartsWhole
<1>18. QED
  BY <1>9, <1>14, <1>17

\* stop_module, and the script of service.sh.
LEMMA StopScripts ==
    /\ StartsWhole(stop_module) /\ service \in Seq(Commands) /\ StartsWhole(service)
    /\ Uses(stop_module) = {"disable", "unpause", "kill watchdog", "term", "reap",
                            "killall", "net clean"}
    /\ Uses(service) = Uses(stop_module) \cup Uses(start_daemon)
    /\ service # <<>> /\ service[1] = "disable"
<1>1. "disable" \in Commands /\ "disable" # "check"
  BY DEF Commands
<1>2. stop_module = <<"disable", "unpause">> \o stop_runtime \o <<"net clean">>
  BY DEF stop_module
<1>3. /\ StartsWhole(stop_module)
      /\ Uses(stop_module) = {"disable", "unpause", "kill watchdog", "term", "reap",
                              "killall", "net clean"}
  BY <1>1, <1>2, CleanUses
<1>4. service = stop_module \o start_daemon
  BY <1>2 DEF service, boot_reset
<1>5. /\ stop_module \in Seq(Commands) /\ Len(stop_module) = 7
      /\ start_daemon \in Seq(Commands) /\ Len(start_daemon) = 4
  BY StopCommands, PartCommands
<1>6. service \in Seq(Commands) /\ Len(service) = Len(stop_module) + Len(start_daemon)
  BY <1>4, <1>5, ConcatProperties
<1>7. \A i \in 1..Len(stop_module) + Len(start_daemon) :
        service[i] = IF i <= Len(stop_module) THEN stop_module[i]
                     ELSE start_daemon[i - Len(stop_module)]
  BY <1>4, <1>5, ConcatProperties
<1>8. service[1] = stop_module[1]
  BY <1>5, <1>7
<1>9. stop_module[1] = "disable"
  BY StopCommands
<1>10. StartsWhole(service)
  BY <1>3, <1>4, <1>5, JoinStarts, StartDaemonUses
<1>11. Uses(service) = Uses(stop_module) \cup Uses(start_daemon)
  BY <1>4, <1>5, JoinUses
<1>12. service # <<>>
  BY <1>11, StartDaemonUses, NothingUsed
<1>13. QED
  BY <1>3, <1>6, <1>8, <1>9, <1>10, <1>11, <1>12

\* Every script is orderly when it begins.
LEMMA ScriptsOrderly ==
    ASSUME NEW name \in UserCommands
    PROVE  /\ Script(name) \in Seq(Commands)
           /\ \A s : s.name = name /\ s.todo = Script(name) => Orderly(s)
<1>1. name \in {"start", "start-idle", "stop", "restart", "network-pause", "network-resume"}
  BY ScriptAssumption
<1>2. /\ "enable" \in Commands /\ "enable" # "check"
      /\ "if enabled" \in Commands /\ "if enabled" # "check"
  BY DEF Commands
<1>3. /\ start_module \in Seq(Commands) /\ Rewatches(start_module) /\ Watches(start_module)
      /\ StartsWhole(start_module)
  BY <1>2, WatchedScript DEF start_module
<1>4. SUFFICES ASSUME NEW s
               PROVE  /\ Script(name) \in Seq(Commands)
                      /\ s.name = name /\ s.todo = Script(name) => Orderly(s)
  OBVIOUS
<1>5. CASE name = "start"
  <2>1. Script(name) = start_module
    BY <1>5 DEF Script
  <2>2. QED
    BY <1>3, <1>5, <2>1 DEF Orderly, Allowed
<1>6. CASE name = "start-idle"
  <2>1. Script(name) = start_daemon
    BY <1>6 DEF Script
  <2>2. start_daemon \in Seq(Commands)
    BY PartCommands
  <2>3. "enable" \notin Uses(start_daemon)
    BY StartDaemonUses
  <2>4. Uses(start_daemon) \cap {"start watchdog", "disable", "pause"} = {}
    BY StartDaemonUses
  <2>5. QED
    BY <1>6, <2>1, <2>2, <2>3, <2>4, StartDaemonUses DEF Orderly, Allowed
<1>7. CASE name = "stop"
  <2>1. Script(name) = stop_module
    BY <1>7 DEF Script
  <2>2. stop_module \in Seq(Commands)
    BY StopCommands
  <2>3. "enable" \notin Uses(stop_module) /\ "await" \notin Uses(stop_module)
    BY StopScripts
  <2>4. StartsWhole(stop_module)
    BY StopScripts
  <2>5. QED
    BY <1>7, <2>1, <2>2, <2>3, <2>4 DEF Orderly, Allowed
<1>8. CASE name = "restart"
  <2>1. Script(name) = stop_module \o start_module
    BY <1>8 DEF Script
  <2>2. stop_module \in Seq(Commands)
    BY StopCommands
  <2>3. Script(name) \in Seq(Commands)
    BY <1>3, <2>1, <2>2, ConcatProperties
  <2>4. Rewatches(Script(name)) /\ StartsWhole(Script(name))
    BY <1>3, <2>1, <2>2, JoinRewatches, JoinStarts, StopScripts
  <2>5. QED
    BY <1>8, <2>3, <2>4 DEF Orderly, Allowed
<1>9. CASE name = "network-pause"
  <2>1. Script(name) = network_pause
    BY <1>9 DEF Script
  <2>2. /\ network_pause \in Seq(Commands) /\ Rewatches(network_pause)
        /\ StartsWhole(network_pause)
    BY PauseCommands
  <2>3. "enable" \notin Uses(network_pause) /\ "await" \notin Uses(network_pause)
    BY PauseCommands
  <2>4. QED
    BY <1>9, <2>1, <2>2, <2>3 DEF Orderly, Allowed
<1>10. CASE name = "network-resume"
  <2>1. Script(name) = network_resume
    BY <1>10 DEF Script
  <2>2. /\ network_resume \in Seq(Commands) /\ Rewatches(network_resume)
        /\ StartsWhole(network_resume)
    BY <1>2, WatchedScript DEF network_resume
  <2>3. Uses(network_resume) =
          {"if enabled", "unpause", "kill watchdog", "term", "reap", "killall",
           "net clean", "check", "stray", "spawn", "await", "start watchdog"}
    BY <1>2, WatchedScript DEF network_resume
  <2>4. "enable" \notin Uses(network_resume)
    BY <2>3
  <2>5. QED
    BY <1>10, <2>1, <2>2, <2>4 DEF Orderly, Allowed
<1>11. QED
  BY <1>1, <1>5, <1>6, <1>7, <1>8, <1>9, <1>10

\* So is the one that a watchdog runs.
LEMMA ResumeOrderly ==
    /\ network_resume \in Seq(Commands) /\ network_resume # <<>>
    /\ network_resume[1] = "if enabled"
    /\ \A s : s.name = "network-resume" /\ s.todo = network_resume => Orderly(s)
<1>1. "if enabled" \in Commands /\ "if enabled" # "check"
  BY DEF Commands
<1>2. /\ network_resume \in Seq(Commands) /\ Rewatches(network_resume)
      /\ StartsWhole(network_resume)
  BY <1>1, WatchedScript DEF network_resume
<1>3. Uses(network_resume) =
        {"if enabled", "unpause", "kill watchdog", "term", "reap", "killall",
         "net clean", "check", "stray", "spawn", "await", "start watchdog"}
  BY <1>1, WatchedScript DEF network_resume
<1>4. network_resume[1] = "if enabled"
  BY <1>1, WatchedScript DEF network_resume
<1>5. network_resume # <<>>
  BY <1>3, NothingUsed
<1>6. "enable" \notin Uses(network_resume)
  BY <1>3
<1>7. ASSUME NEW s, s.name = "network-resume", s.todo = network_resume
      PROVE  Orderly(s)
  BY <1>2, <1>6, <1>7 DEF Orderly, Allowed
<1>8. QED
  BY <1>2, <1>4, <1>5, <1>7

\* And that of service.sh.
LEMMA ServiceOrderly ==
    \A s : s.name = "boot" /\ s.todo = service => Orderly(s)
<1>1. "enable" \notin Uses(service)
  BY StopScripts, StartDaemonUses
<1>2. StartsWhole(service)
  BY StopScripts
<1>3. ASSUME NEW s, s.name = "boot", s.todo = service
      PROVE  Orderly(s)
  BY <1>1, <1>2, <1>3 DEF Orderly, Allowed
<1>4. QED
  BY <1>3

-----------------------------------------------------------------------------
(* The steps of a script *)

\* What is left of a list that was orderly is so.
LEMMA LeftOver ==
    ASSUME NEW t \in Seq(Commands), NEW u \in Seq(Commands), NEW k \in Nat, k <= Len(t),
           Len(u) = Len(t) - k, \A i \in 1..Len(u) : u[i] = t[i + k]
    PROVE  /\ Uses(u) \subseteq Uses(t)
           /\ Rewatches(t) => Rewatches(u)
           /\ StartsWhole(t) => StartsWhole(u)
           /\ \A i \in 1..Len(t) : i > k => t[i] \in Uses(u)
<1>1. Len(t) \in Nat /\ Len(u) \in Nat
  OBVIOUS
<1>2. \A i \in 1..Len(u) : i + k \in 1..Len(t)
  BY <1>1
<1>3. \A i \in 1..Len(t) : i > k => i - k \in 1..Len(u) /\ (i - k) + k = i
  BY <1>1
<1>4. \A i \in 1..Len(t) : i > k => u[i - k] = t[i]
  BY <1>3
<1>5. Uses(u) \subseteq Uses(t)
  BY <1>2 DEF Uses
<1>6. \A i \in 1..Len(t) : i > k => t[i] \in Uses(u)
  BY <1>3, <1>4 DEF Uses
<1>7. ASSUME Rewatches(t), NEW i \in 1..Len(u), u[i] \in Unwatching
      PROVE  \E j \in 1..Len(u) : j > i /\ u[j] = "start watchdog"
  <2>1. i + k \in 1..Len(t) /\ t[i + k] \in Unwatching
    BY <1>2, <1>7
  <2>2. PICK n \in 1..Len(t) : n > i + k /\ t[n] = "start watchdog"
    BY <1>7, <2>1 DEF Rewatches
  <2>3. n > i + k
    BY <2>2
  <2>4. n > k /\ n - k > i
    BY <2>3
  <2>5. n - k \in 1..Len(u) /\ u[n - k] = t[n]
    BY <1>3, <1>4, <2>4
  <2>6. QED
    BY <2>2, <2>4, <2>5
<1>8. ASSUME StartsWhole(t), NEW i \in 1..Len(u), u[i] = "check"
      PROVE  i + 3 <= Len(u) /\ u[i + 1] = "stray" /\ u[i + 2] = "spawn" /\ u[i + 3] = "await"
  <2> DEFINE n == i + k
  <2>1. n \in 1..Len(t)
    BY <1>2
  <2>2. t[n] = "check"
    BY <1>8
  <2>3. n = i + k
    OBVIOUS
  <2> HIDE DEF n
  <2>4. n + 3 <= Len(t) /\ t[n + 1] = "stray" /\ t[n + 2] = "spawn" /\ t[n + 3] = "await"
    BY <1>8, <2>1, <2>2 DEF StartsWhole
  <2>5. n + 3 <= Len(t)
    BY <2>4
  <2>6. i + 3 <= Len(u)
    BY <1>1, <2>1, <2>3, <2>5
  <2>7. \A m \in 1..3 : i + m \in 1..Len(u) /\ (i + m) + k = n + m
    BY <1>1, <2>3, <2>6
  <2>8. \A m \in 1..3 : u[i + m] = t[n + m]
    BY <2>7
  <2>9. u[i + 1] = t[n + 1] /\ u[i + 2] = t[n + 2] /\ u[i + 3] = t[n + 3]
    BY <2>8
  <2>10. QED
    BY <2>4, <2>6, <2>9
<1>9. QED
  BY <1>5, <1>6, <1>7, <1>8 DEF Rewatches, StartsWhole

\* The tail of a list.
LEMMA TailLeft ==
    ASSUME NEW t \in Seq(Commands), t # <<>>
    PROVE  /\ Tail(t) \in Seq(Commands) /\ Head(t) = t[1] /\ Len(t) \in Nat \ {0}
           /\ Len(Tail(t)) = Len(t) - 1
           /\ \A i \in 1..Len(Tail(t)) : Tail(t)[i] = t[i + 1]
           /\ Uses(Tail(t)) \subseteq Uses(t)
           /\ Rewatches(t) => Rewatches(Tail(t))
           /\ StartsWhole(t) => StartsWhole(Tail(t))
           /\ \A i \in 1..Len(t) : i > 1 => t[i] \in Uses(Tail(t))
<1>1. Tail(t) \in Seq(Commands) /\ Head(t) = t[1] /\ Len(t) \in Nat \ {0}
  OBVIOUS
<1>2. Len(Tail(t)) = Len(t) - 1 /\ 1 <= Len(t)
  BY <1>1
<1>3. \A i \in 1..Len(Tail(t)) : Tail(t)[i] = t[i + 1]
  BY HeadTailProperties
<1>4. QED
  BY <1>1, <1>2, <1>3, LeftOver

\* What start_daemon skips when a daemon answers.
LEMMA SkipLeft ==
    ASSUME NEW t \in Seq(Commands), t # <<>>, StartsWhole(t)
    PROVE  LET u == SubSeq(t, 5, Len(t))
           IN  Head(t) = "check" =>
               /\ u \in Seq(Commands) /\ Uses(u) \subseteq Uses(t)
               /\ Rewatches(t) => Rewatches(u)
               /\ StartsWhole(u)
               /\ Uses(t) \subseteq Uses(u) \cup {"check", "stray", "spawn", "await"}
<1> DEFINE u == SubSeq(t, 5, Len(t))
<1>1. SUFFICES ASSUME Head(t) = "check"
               PROVE  /\ u \in Seq(Commands) /\ Uses(u) \subseteq Uses(t)
                      /\ Rewatches(t) => Rewatches(u)
                      /\ StartsWhole(u)
                      /\ Uses(t) \subseteq Uses(u) \cup {"check", "stray", "spawn", "await"}
  OBVIOUS
<1>2. Len(t) \in Nat /\ 1 \in 1..Len(t)
  BY TailLeft
<1>3. t[1] = "check"
  BY <1>1, TailLeft
<1>4. 1 + 3 <= Len(t) /\ t[1 + 1] = "stray" /\ t[1 + 2] = "spawn" /\ t[1 + 3] = "await"
  BY <1>2, <1>3 DEF StartsWhole
<1>5. 4 <= Len(t)
  BY <1>4
<1>6. \A i \in 5..Len(t) : t[i] \in Commands
  BY <1>2
<1>7. /\ u \in Seq(Commands)
      /\ Len(u) = IF 5 <= Len(t) THEN Len(t) - 5 + 1 ELSE 0
      /\ \A i \in 1..Len(t) - 5 + 1 : u[i] = t[5 + i - 1]
  BY <1>2, <1>6, SubSeqProperties
<1> HIDE DEF u
<1>8. Len(u) = Len(t) - 4
  <2>1. Len(u) = IF 5 <= Len(t) THEN Len(t) - 5 + 1 ELSE 0
    BY <1>7
  <2>2. \A n \in Nat : 4 <= n => (IF 5 <= n THEN n - 5 + 1 ELSE 0) = n - 4
    OBVIOUS
  <2>3. QED
    BY <1>2, <1>5, <2>1, <2>2
<1>9. \A i \in 1..Len(u) : u[i] = t[i + 4]
  <2>1. SUFFICES ASSUME NEW i \in 1..Len(u) PROVE u[i] = t[i + 4]
    OBVIOUS
  <2>2. i \in 1..Len(t) - 5 + 1 /\ 5 + i - 1 = i + 4
    BY <1>2, <1>8
  <2>3. QED
    BY <1>7, <2>2
<1>10. u \in Seq(Commands) /\ 4 \in Nat
  BY <1>7
<1>11. /\ Uses(u) \subseteq Uses(t)
       /\ Rewatches(t) => Rewatches(u)
       /\ StartsWhole(t) => StartsWhole(u)
       /\ \A i \in 1..Len(t) : i > 4 => t[i] \in Uses(u)
  BY <1>5, <1>8, <1>9, <1>10, LeftOver
<1>12. \A i \in 1..Len(t) : i > 4 \/ i = 1 \/ i = 2 \/ i = 3 \/ i = 4
  BY <1>2
<1>13. t[2] = "stray" /\ t[3] = "spawn" /\ t[4] = "await"
  BY <1>4
<1>14. Uses(t) \subseteq Uses(u) \cup {"check", "stray", "spawn", "await"}
  BY <1>3, <1>11, <1>12, <1>13 DEF Uses
<1>15. QED
  BY <1>10, <1>11, <1>14

\* What a script does after a start_daemon that failed.
LEMMA FailureUses ==
    ASSUME NEW name
    PROVE  /\ name \in {"start", "restart"} => Uses(AfterFailure(name)) = {"disable"}
           /\ name = "network-resume" => Uses(AfterFailure(name)) = {"pause"}
<1>1. \A c : Uses(<<c>>) = {c}
  <2>1. SUFFICES ASSUME NEW c PROVE Uses(<<c>>) = {c}
    OBVIOUS
  <2>2. Len(<<c>>) = 1 /\ <<c>>[1] = c /\ 1..1 = {1}
    OBVIOUS
  <2>3. QED
    BY <2>2 DEF Uses
<1>2. name \in {"start", "restart"} => AfterFailure(name) = <<"disable">>
  BY DEF AfterFailure
<1>3. name = "network-resume" => AfterFailure(name) = <<"pause">>
  BY DEF AfterFailure
<1>4. QED
  BY <1>1, <1>2, <1>3

\* Where a script goes on is orderly as well.
LEMMA RestOrderly ==
    ASSUME NEW s \in Scripts, s.todo # <<>>, Orderly(s)
    PROVE  /\ Rest(s) \in Seq(Commands)
           /\ \A p : Orderly([name |-> s.name, todo |-> Rest(s), pid |-> p])
<1>1. s.todo \in Seq(Commands) /\ s.name \in Names
  BY DEF Scripts
<1> DEFINE Fine(t) == /\ t \in Seq(Commands)
                      /\ s.name \notin {"stop", "boot"} => Rewatches(t)
                      /\ StartsWhole(t) /\ Uses(t) \subseteq Uses(s.todo)
<1>2. ASSUME NEW t, Fine(t), NEW p
      PROVE  t \in Seq(Commands) /\ Orderly([name |-> s.name, todo |-> t, pid |-> p])
  BY <1>2 DEF Orderly, Allowed
<1>3. Fine(Tail(s.todo))
  BY <1>1, TailLeft DEF Orderly
<1>4. Fine(<<>>)
  <2>1. <<>> \in Seq(Commands)
    OBVIOUS
  <2>2. Rewatches(<<>>) /\ StartsWhole(<<>>)
    BY DEF Rewatches, StartsWhole
  <2>3. QED
    BY <2>1, <2>2, NothingUsed
<1>5. Head(s.todo) = "check" => Fine(SubSeq(s.todo, 5, Len(s.todo)))
  BY <1>1, SkipLeft DEF Orderly
<1> HIDE DEF Fine
<1>6. ASSUME NEW p
      PROVE  /\ AfterFailure(s.name) \in Seq(Commands)
             /\ Orderly([name |-> s.name, todo |-> AfterFailure(s.name), pid |-> p])
  <2> DEFINE a == <<"disable">>
             b == <<"pause">>
  <2>1. "disable" \in Commands /\ "pause" \in Commands
    BY DEF Commands
  <2>2. a \in Seq(Commands) /\ b \in Seq(Commands)
    BY <2>1, Listed
  <2>3. Len(a) = 1 /\ Len(b) = 1 /\ 1..1 = {1}
    OBVIOUS
  <2>4. a[1] = "disable" /\ b[1] = "pause"
    OBVIOUS
  <2> HIDE DEF a, b
  <2>5. Rewatches(a) /\ StartsWhole(a) /\ Uses(a) = {"disable"}
    BY <2>3, <2>4 DEF Rewatches, StartsWhole, Uses, Unwatching
  <2>6. Rewatches(b) /\ StartsWhole(b) /\ Uses(b) = {"pause"}
    BY <2>3, <2>4 DEF Rewatches, StartsWhole, Uses, Unwatching
  <2>7. CASE s.name \in {"start", "restart"}
    <3>1. AfterFailure(s.name) = a
      BY <2>7 DEF AfterFailure, a
    <3>2. "enable" \notin Uses(a) /\ "await" \notin Uses(a)
      BY <2>5
    <3>3. s.name # "start-idle"
      BY <2>7
    <3>4. QED
      BY <2>2, <2>5, <3>1, <3>2, <3>3 DEF Orderly, Allowed
  <2>8. CASE s.name = "network-resume"
    <3>1. AfterFailure(s.name) = b
      BY <2>8 DEF AfterFailure, b
    <3>2. "enable" \notin Uses(b) /\ "await" \notin Uses(b)
      BY <2>6
    <3>3. s.name # "start-idle"
      BY <2>8
    <3>4. QED
      BY <2>2, <2>6, <3>1, <3>2, <3>3 DEF Orderly, Allowed
  <2>9. CASE s.name \notin {"start", "restart", "network-resume"}
    <3>1. AfterFailure(s.name) = <<>>
      BY <2>9 DEF AfterFailure
    <3>2. QED
      BY <1>2, <1>4, <3>1
  <2>10. QED
    BY <2>7, <2>8, <2>9
<1>7. \/ Rest(s) = Tail(s.todo) \/ Rest(s) = <<>> \/ Rest(s) = AfterFailure(s.name)
      \/ Head(s.todo) = "check" /\ Rest(s) = SubSeq(s.todo, 5, Len(s.todo))
  BY DEF Rest
<1>8. QED
  BY <1>2, <1>3, <1>4, <1>5, <1>6, <1>7

\* A script keeps its promise to watch the module, or to say that it is not
\* watched, until it does so; only a module that is disabled is let down.
LEMMA RestPromises ==
    ASSUME NEW s \in Scripts, s.todo # <<>>, Orderly(s), s.todo[1] \notin Keeping,
           enabled \/ s.todo[1] \in Unwatching
    PROVE  s.name # "boot" =>
             /\ Promise(s) => Uses(Rest(s)) \cap Keeping # {}
             /\ s.todo[1] \in Unwatching /\ s.name # "stop" => Uses(Rest(s)) \cap Keeping # {}
<1> DEFINE t == s.todo
<1>1. t \in Seq(Commands) /\ s.name \in Names /\ t # <<>>
  BY DEF Scripts
<1>2. Len(t) \in Nat \ {0}
  BY <1>1, TailLeft
<1>3. Head(t) = t[1] /\ \A i \in 1..Len(t) : i > 1 => t[i] \in Uses(Tail(t))
  BY <1>1, TailLeft
<1>4. t[1] \notin Keeping
  OBVIOUS
<1>5. StartsWhole(t) /\ (s.name \notin {"stop", "boot"} => Rewatches(t)) /\ Allowed(s)
  BY DEF Orderly
<1>6. 1 \in 1..Len(t)
  BY <1>2
<1>7. SUFFICES ASSUME s.name # "boot"
               PROVE  /\ Promise(s) => Uses(Rest(s)) \cap Keeping # {}
                      /\ t[1] \in Unwatching /\ s.name # "stop" => Uses(Rest(s)) \cap Keeping # {}
  OBVIOUS
<1> HIDE DEF t
<1>8. CASE Rest(s) = Tail(t)
  <2>1. ASSUME Promise(s) PROVE Uses(Rest(s)) \cap Keeping # {}
    <3>1. PICK i \in 1..Len(t) : t[i] \in Keeping
      BY <2>1 DEF Promise, Uses, t
    <3>2. i > 1
      BY <1>2, <1>4, <3>1
    <3>3. QED
      BY <1>3, <1>8, <3>1, <3>2
  <2>2. ASSUME t[1] \in Unwatching, s.name # "stop" PROVE Uses(Rest(s)) \cap Keeping # {}
    <3>1. Rewatches(t)
      BY <1>5, <1>7, <2>2
    <3>2. PICK i \in 1..Len(t) : i > 1 /\ t[i] = "start watchdog"
      BY <1>6, <2>2, <3>1 DEF Rewatches
    <3>3. "start watchdog" \in Uses(Tail(t))
      BY <1>3, <3>2
    <3>4. QED
      BY <1>8, <3>3 DEF Keeping
  <2>3. QED
    BY <2>1, <2>2
<1>9. CASE t[1] = "check" /\ Rest(s) = SubSeq(t, 5, Len(t))
  <2>1. Uses(t) \subseteq Uses(Rest(s)) \cup {"check", "stray", "spawn", "await"}
    BY <1>1, <1>3, <1>5, <1>9, SkipLeft
  <2>2. t[1] \notin Unwatching
    BY <1>9 DEF Unwatching
  <2>3. QED
    BY <2>1, <2>2 DEF Promise, Keeping, t
<1>10. CASE t[1] = "await" /\ Rest(s) = AfterFailure(s.name)
  <2>1. t[1] \notin Unwatching
    BY <1>10 DEF Unwatching
  <2>2. "await" \in Uses(t)
    BY <1>6, <1>10 DEF Uses
  <2>3. s.name \notin {"", "stop", "network-pause", "boot"}
    BY <1>5, <1>7, <2>2 DEF Allowed, t
  <2>4. CASE s.name = "start-idle"
    BY <1>5, <2>1, <2>4 DEF Allowed, Promise, Keeping, t
  <2>5. CASE s.name \in {"start", "restart"}
    BY <1>10, <2>1, <2>5, FailureUses DEF Keeping
  <2>6. CASE s.name = "network-resume"
    BY <1>10, <2>1, <2>6, FailureUses DEF Keeping
  <2>7. QED
    BY <1>1, <2>3, <2>4, <2>5, <2>6 DEF Names
<1>11. enabled \/ t[1] # "if enabled"
  BY DEF Unwatching, t
<1>12. QED
  BY <1>3, <1>8, <1>9, <1>10, <1>11 DEF Rest, t

-----------------------------------------------------------------------------
(* Type correctness *)

\* The scripts begin with their types.
LEMMA TypeInit == Init => TypeOK
<1>1. <<>> \in Seq(Commands)
  OBVIOUS
<1>2. 0 \in 0..(ApiFailLimit - 1)
  BY ScriptAssumption
<1>3. NoScript \in Scripts /\ NoProcess \in Processes /\ NoWatchdog \in WatchdogStates
  BY <1>1, <1>2 DEF NoScript, Scripts, Names, NoProcess, Processes, NoWatchdog, WatchdogStates
<1>4. QED
  BY <1>3 DEF Init, TypeOK

\* A script begins with its commands.
LEMMA NewScript ==
    ASSUME NEW n \in Names, NEW t \in Seq(Commands)
    PROVE  LET s == [NoScript EXCEPT !.name = n, !.todo = t]
           IN  s \in Scripts /\ s.name = n /\ s.todo = t
BY DEF NoScript, Scripts

\* A command changes one script, which goes on where Rest says.
LEMMA OneScript ==
    ASSUME TypeOK, ScriptOK, NEW r \in Runners, ScriptStep(r)
    PROVE  /\ script' \in [Runners -> Scripts]
           /\ script[r] \in Scripts /\ script[r].todo # <<>> /\ Orderly(script[r])
           /\ script'[r].name = script[r].name /\ script'[r].todo = Rest(script[r])
           /\ Orderly(script'[r])
           /\ \A q \in Runners : q # r => script'[q] = script[q]
           /\ alone' = alone
<1>1. script \in [Runners -> Scripts] /\ script[r] \in Scripts
  BY DEF TypeOK
<1>2. script[r].todo # <<>> /\ Orderly(script[r]) /\ alone' = alone
  BY DEF ScriptStep, ScriptOK
<1>3. PICK p \in Daemons \cup {None} :
        script' = [script EXCEPT ![r].todo = Rest(script[r]), ![r].pid = p]
  <2>1. script[r].pid \in Daemons \cup {None}
    BY <1>1 DEF Scripts
  <2>2. QED
    BY <2>1 DEF ScriptStep
<1>4. script'[r] = [name |-> script[r].name, todo |-> Rest(script[r]), pid |-> p]
  BY <1>1, <1>3 DEF Scripts
<1>5. Rest(script[r]) \in Seq(Commands)
  BY <1>1, <1>2, RestOrderly
<1>6. script'[r] \in Scripts
  BY <1>1, <1>4, <1>5 DEF Scripts
<1>7. Orderly(script'[r])
  BY <1>1, <1>2, <1>4, RestOrderly
<1>8. /\ script' \in [Runners -> Scripts]
      /\ \A q \in Runners : q # r => script'[q] = script[q]
  BY <1>1, <1>3, <1>6
<1>9. QED
  BY <1>1, <1>2, <1>4, <1>7, <1>8

\* What the commands do to the other variables keeps their types.
LEMMA TypeCommand ==
    ASSUME TypeOK, ScriptOK, NEW r \in Runners, ScriptStep(r)
    PROVE  TypeOK'
<1>1. script' \in [Runners -> Scripts] /\ alone' \in BOOLEAN
  BY OneScript DEF TypeOK
<1>2. 0 \in 0..(ApiFailLimit - 1)
  BY ScriptAssumption
<1>3. /\ NoProcess \in Processes /\ NoWatchdog \in WatchdogStates
      /\ [NoWatchdog EXCEPT !.st = "new"] \in WatchdogStates
      /\ [NoProcess EXCEPT !.st = "starting"] \in Processes
  BY <1>2 DEF NoProcess, Processes, NoWatchdog, WatchdogStates
<1>4. \A D : Signalled(D) \in [Daemons -> Processes]
  BY DEF TypeOK, Signalled, Processes
<1> DEFINE c == Head(script[r].todo)
<1>5. CASE MarkerCmd(c)
  BY <1>1, <1>5 DEF TypeOK, MarkerCmd, daemonVars
<1>6. CASE KillWatchdog(c)
  BY <1>1, <1>3, <1>6 DEF TypeOK, KillWatchdog, daemonVars
<1>7. CASE StartWatchdog(c)
  BY <1>1, <1>3, <1>7 DEF TypeOK, StartWatchdog, daemonVars
<1>8. CASE SignalDaemon(c)
  BY <1>1, <1>4, <1>8 DEF TypeOK, SignalDaemon, markerVars
<1>9. CASE ReapDaemon(c)
  BY <1>1, <1>3, <1>9 DEF TypeOK, ReapDaemon, markerVars
<1>10. CASE NetClean(c)
  BY <1>1, <1>10 DEF TypeOK, NetClean, markerVars
<1>11. CASE Test(c, script[r].pid)
  BY <1>1, <1>11 DEF TypeOK, Test, markerVars
<1>12. CASE \E d \in Daemons : SpawnDaemon(c, d)
  BY <1>1, <1>3, <1>12 DEF TypeOK, SpawnDaemon, markerVars
<1>13. QED
  BY <1>5, <1>6, <1>7, <1>8, <1>9, <1>10, <1>11, <1>12 DEF ScriptStep

\* So does every other step.
LEMMA TypeDaemon ==
    ASSUME TypeOK, NEW d \in Daemons, DaemonNext(d)
    PROVE  TypeOK'
<1>1. NoProcess \in Processes
  BY DEF NoProcess, Processes
<1>2. CASE DaemonReady(d)
  BY <1>2 DEF TypeOK, DaemonReady, Processes, markerVars
<1>3. CASE TunnelConnects(d)
  BY <1>3 DEF TypeOK, TunnelConnects, Processes, markerVars
<1>4. CASE ApiStop(d)
  BY <1>4 DEF TypeOK, ApiStop, Processes, markerVars
<1>5. CASE DaemonExits(d)
  BY <1>1, <1>5 DEF TypeOK, DaemonExits, markerVars
<1>6. CASE DaemonCrashes(d)
  BY <1>1, <1>6 DEF TypeOK, DaemonCrashes, markerVars
<1>7. QED
  BY <1>2, <1>3, <1>4, <1>5, <1>6 DEF DaemonNext

\* What a recovery request does.
LEMMA Requested ==
    ASSUME TypeOK, NEW w \in Watchdogs, RequestResume(w)
    PROVE  /\ script' \in [Runners -> Scripts]
           /\ script["resume"].todo = <<>>
           /\ script'["resume"].name = "network-resume" /\ script'["resume"].todo = network_resume
           /\ script'["user"] = script["user"]
           /\ wd' \in [Watchdogs -> WatchdogStates]
<1> DEFINE s == [NoScript EXCEPT !.name = "network-resume", !.todo = network_resume]
<1>1. "network-resume" \in Names /\ network_resume \in Seq(Commands)
  BY ResumeOrderly DEF Names
<1>2. s \in Scripts /\ s.name = "network-resume" /\ s.todo = network_resume
  BY <1>1, NewScript
<1>3. script' = [script EXCEPT !["resume"] = s] /\ script["resume"].todo = <<>>
  BY DEF RequestResume, Resuming
<1> HIDE DEF s
<1>4. /\ script' \in [Runners -> Scripts] /\ script'["resume"] = s
      /\ script'["user"] = script["user"]
  BY <1>2, <1>3 DEF TypeOK, Runners
<1>5. 0 \in 0..(ApiFailLimit - 1)
  BY ScriptAssumption
<1>6. [NoWatchdog EXCEPT !.st = "wait"] \in WatchdogStates
  BY <1>5 DEF NoWatchdog, WatchdogStates
<1>7. wd' \in [Watchdogs -> WatchdogStates]
  BY <1>6 DEF RequestResume, TypeOK
<1>8. QED
  BY <1>2, <1>3, <1>4, <1>7

\* The steps of a watchdog; the failures it counts stay below the limit.
LEMMA TypeWatchdog ==
    ASSUME TypeOK, NEW w \in Watchdogs, WatchdogNext(w)
    PROVE  TypeOK'
<1>1. 0 \in 0..(ApiFailLimit - 1)
  BY ScriptAssumption
<1>2. /\ NoWatchdog \in WatchdogStates /\ [NoWatchdog EXCEPT !.st = "loop"] \in WatchdogStates
  BY <1>1 DEF NoWatchdog, WatchdogStates
<1>3. is_running \in BOOLEAN
  BY DEF is_running, Alive
<1>4. CASE WatchdogStarts(w)
  BY <1>4 DEF TypeOK, WatchdogStarts, WatchdogStates, daemonVars
<1>5. CASE WatchdogEnds(w)
  BY <1>2, <1>5 DEF TypeOK, WatchdogEnds, daemonVars, markerVars
<1>6. CASE WatchdogOffline(w)
  BY <1>1, <1>6 DEF TypeOK, WatchdogOffline, WatchdogStates, daemonVars
<1>7. CASE WatchdogOnline(w)
  BY <1>3, <1>7 DEF TypeOK, WatchdogOnline, WatchdogStates, daemonVars, markerVars
<1>8. CASE RequestResume(w)
  BY <1>8, Requested DEF TypeOK, RequestResume, daemonVars, markerVars
<1>9. CASE WatchdogApiDown(w) /\ ~RequestResume(w)
  <2>1. wd[w].fails + 1 \in 0..(ApiFailLimit - 1)
    BY <1>9, ScriptAssumption DEF WatchdogApiDown, TypeOK, WatchdogStates
  <2>2. [NoWatchdog EXCEPT !.st = "loop", !.fails = wd[w].fails + 1] \in WatchdogStates
    BY <2>1 DEF NoWatchdog, WatchdogStates
  <2>3. QED
    BY <1>9, <2>2 DEF TypeOK, WatchdogApiDown, daemonVars, markerVars
<1>10. CASE WatchdogApiUp(w) /\ ~RequestResume(w)
  BY <1>2, <1>10 DEF TypeOK, WatchdogApiUp, daemonVars
<1>11. CASE WatchdogGoesOn(w)
  BY <1>11 DEF TypeOK, WatchdogGoesOn, WatchdogStates, daemonVars, markerVars
<1>12. QED
  BY <1>4, <1>5, <1>6, <1>7, <1>8, <1>9, <1>10, <1>11 DEF WatchdogNext

\* A command of the user: its script takes the place of the last one, which has ended.
LEMMA TypeUser ==
    ASSUME TypeOK, NEW name \in UserCommands, UserRuns(name)
    PROVE  /\ TypeOK'
           /\ script["user"].todo = <<>>
           /\ script'["user"].name = name /\ script'["user"].todo = Script(name)
           /\ script'["resume"] = script["resume"]
<1> DEFINE s == [NoScript EXCEPT !.name = name, !.todo = Script(name)]
<1>1. name \in Names /\ Script(name) \in Seq(Commands)
  BY ScriptAssumption, ScriptsOrderly DEF Names
<1>2. s \in Scripts /\ s.name = name /\ s.todo = Script(name)
  BY <1>1, NewScript
<1>3. script' = [script EXCEPT !["user"] = s] /\ script["user"].todo = <<>>
  BY DEF UserRuns
<1> HIDE DEF s
<1>4. /\ script' \in [Runners -> Scripts] /\ script'["user"] = s
      /\ script'["resume"] = script["resume"]
  BY <1>2, <1>3 DEF TypeOK, Runners
<1>5. TypeOK'
  BY <1>4 DEF UserRuns, TypeOK, Resuming, daemonVars, markerVars
<1>6. QED
  BY <1>2, <1>3, <1>4, <1>5

\* A reboot leaves the script of service.sh only.
LEMMA TypeReboot ==
    ASSUME TypeOK, Reboot
    PROVE  /\ TypeOK'
           /\ script'["user"].name = "boot" /\ script'["user"].todo = service
           /\ script'["resume"] = NoScript
<1> DEFINE s == [NoScript EXCEPT !.name = "boot", !.todo = service]
<1>1. "boot" \in Names /\ service \in Seq(Commands)
  BY StopScripts DEF Names
<1>2. s \in Scripts /\ s.name = "boot" /\ s.todo = service
  BY <1>1, NewScript
<1>3. script' = [r \in Runners |-> IF r = "user" THEN s ELSE NoScript]
  BY DEF Reboot
<1>4. <<>> \in Seq(Commands)
  OBVIOUS
<1>5. 0 \in 0..(ApiFailLimit - 1)
  BY ScriptAssumption
<1>6. NoScript \in Scripts /\ NoProcess \in Processes /\ NoWatchdog \in WatchdogStates
  BY <1>4, <1>5 DEF NoScript, Scripts, Names, NoProcess, Processes, NoWatchdog, WatchdogStates
<1> HIDE DEF s
<1>7. script' \in [Runners -> Scripts] /\ script'["user"] = s /\ script'["resume"] = NoScript
  BY <1>2, <1>3, <1>6 DEF Runners
<1>8. QED
  BY <1>2, <1>6, <1>7 DEF Reboot, TypeOK, markerVars

-----------------------------------------------------------------------------
(* The invariant *)

\* No script is an orderly one.
LEMMA NothingOrderly == Orderly(NoScript) /\ NoScript.todo = <<>> /\ NoScript.name = ""
<1>1. NoScript.todo = <<>> /\ NoScript.name = ""
  BY DEF NoScript
<1>2. Rewatches(<<>>) /\ StartsWhole(<<>>)
  BY DEF Rewatches, StartsWhole
<1>3. Allowed(NoScript)
  BY <1>1, NothingUsed DEF Allowed
<1>4. QED
  BY <1>1, <1>2, <1>3 DEF Orderly

\* The invariant holds before the first command.
LEMMA InvInit == Init => Inv
<1>1. SUFFICES ASSUME Init PROVE Inv
  OBVIOUS
<1>2. \A r \in Runners : script[r] = NoScript
  BY <1>1 DEF Init
<1>3. "user" \in Runners /\ "resume" \in Runners
  BY DEF Runners
<1>4. ScriptOK /\ ResumeOK /\ DisabledOK /\ StopOK
  BY <1>2, <1>3, NothingOrderly DEF ScriptOK, ResumeOK, DisabledOK, StopOK
<1>5. AloneOK
  BY <1>2, <1>3, NothingOrderly DEF AloneOK
<1>6. WatchdogOK /\ WatchOK
  BY <1>1 DEF Init, WatchdogOK, WatchOK, NoWatchdog
<1>7. QED
  BY <1>1, <1>4, <1>5, <1>6, TypeInit DEF Inv

\* What a command does to the markers.
LEMMA CommandMarks ==
    ASSUME TypeOK, NEW r \in Runners, ScriptStep(r)
    PROVE  LET c == Head(script[r].todo)
           IN  /\ enabled' => c = "enable" \/ (enabled /\ c # "disable")
               /\ paused /\ c # "unpause" => paused'
               /\ c = "pause" => paused'
<1> DEFINE c == Head(script[r].todo)
<1>1. enabled \in BOOLEAN /\ paused \in BOOLEAN
  BY DEF TypeOK
<1>2. CASE MarkerCmd(c)
  BY <1>1, <1>2 DEF MarkerCmd
<1>3. CASE /\ c \notin {"enable", "disable", "pause", "unpause"}
           /\ UNCHANGED <<enabled, paused>>
  BY <1>3
<1>4. \/ MarkerCmd(c) \/ KillWatchdog(c) \/ StartWatchdog(c) \/ SignalDaemon(c)
      \/ ReapDaemon(c) \/ NetClean(c) \/ Test(c, script[r].pid)
      \/ \E d \in Daemons : SpawnDaemon(c, d)
  BY DEF ScriptStep
<1>5. MarkerCmd(c) \/ (/\ c \notin {"enable", "disable", "pause", "unpause"}
                       /\ UNCHANGED <<enabled, paused>>)
  BY <1>4 DEF KillWatchdog, StartWatchdog, SignalDaemon, ReapDaemon, NetClean, Test, SpawnDaemon,
              markerVars
<1>6. QED
  BY <1>2, <1>3, <1>5

\* To the watchdogs.
LEMMA CommandWatches ==
    ASSUME TypeOK, WatchdogOK, NEW r \in Runners, ScriptStep(r)
    PROVE  LET c == Head(script[r].todo)
           IN  /\ WatchdogOK'
               /\ c = "start watchdog" => \E w \in Watchdogs : wd'[w].st # "none"
               /\ c \notin {"start watchdog", "kill watchdog"} => wd' = wd
<1> DEFINE c == Head(script[r].todo)
<1>1. CASE KillWatchdog(c)
  <2>1. WatchdogOK'
    BY <1>1 DEF KillWatchdog, WatchdogOK, NoWatchdog, TypeOK
  <2>2. c = "kill watchdog"
    BY <1>1 DEF KillWatchdog
  <2>3. QED
    BY <2>1, <2>2
<1>2. CASE StartWatchdog(c)
  <2>1. PICK w \in Watchdogs :
          /\ wd' = [v \in Watchdogs |->
                      IF v = w THEN [NoWatchdog EXCEPT !.st = "new"]
                      ELSE IF v = wdPidFile THEN NoWatchdog ELSE wd[v]]
          /\ wdPidFile' = w
    BY <1>2 DEF StartWatchdog
  <2>2. c = "start watchdog" /\ token' = token
    BY <1>2 DEF StartWatchdog
  <2>3. wd'[w].st = "new"
    BY <2>1 DEF NoWatchdog
  <2>4. \A v \in Watchdogs : v # w => wd'[v].st = "none"
    BY <2>1 DEF NoWatchdog, WatchdogOK
  <2>5. WatchdogOK'
    BY <2>1, <2>2, <2>3, <2>4 DEF WatchdogOK
  <2>6. QED
    BY <2>2, <2>3, <2>5
<1>3. CASE /\ c \notin {"start watchdog", "kill watchdog"}
           /\ UNCHANGED <<wd, wdPidFile, token>>
  BY <1>3 DEF WatchdogOK
<1>4. \/ MarkerCmd(c) \/ KillWatchdog(c) \/ StartWatchdog(c) \/ SignalDaemon(c)
      \/ ReapDaemon(c) \/ NetClean(c) \/ Test(c, script[r].pid)
      \/ \E d \in Daemons : SpawnDaemon(c, d)
  BY DEF ScriptStep
<1>5. \/ KillWatchdog(c) \/ StartWatchdog(c)
      \/ c \notin {"start watchdog", "kill watchdog"} /\ UNCHANGED <<wd, wdPidFile, token>>
  BY <1>4 DEF MarkerCmd, SignalDaemon, ReapDaemon, NetClean, Test, SpawnDaemon, markerVars
<1>6. QED
  BY <1>1, <1>2, <1>3, <1>5

\* To the daemons and the redirect, of the commands that matter to a stop.
LEMMA CommandKills ==
    ASSUME TypeOK, NEW r \in Runners, ScriptStep(r)
    PROVE  LET c == Head(script[r].todo)
           IN  /\ c \in {"if enabled", "net clean"} => daemon' = daemon
               /\ c = "if enabled" => redirect' = redirect
               /\ c = "net clean" => redirect' # "set"
               /\ c = "killall" => \A d \in Daemons : daemon'[d].st \in {"none", "term"}
<1> DEFINE c == Head(script[r].todo)
<1>1. \/ MarkerCmd(c) \/ KillWatchdog(c) \/ StartWatchdog(c) \/ SignalDaemon(c)
      \/ ReapDaemon(c) \/ NetClean(c) \/ Test(c, script[r].pid)
      \/ \E d \in Daemons : SpawnDaemon(c, d)
  BY DEF ScriptStep
<1>2. ASSUME c = "if enabled" PROVE daemon' = daemon /\ redirect' = redirect
  BY <1>1, <1>2 DEF MarkerCmd, KillWatchdog, StartWatchdog, SignalDaemon, ReapDaemon, NetClean,
                    Test, SpawnDaemon
<1>3. ASSUME c = "net clean" PROVE daemon' = daemon /\ redirect' = "none"
  BY <1>1, <1>3 DEF MarkerCmd, KillWatchdog, StartWatchdog, SignalDaemon, ReapDaemon, NetClean,
                    Test, SpawnDaemon
<1>4. ASSUME c = "killall" PROVE \A d \in Daemons : daemon'[d].st \in {"none", "term"}
  <2>1. SignalDaemon(c)
    BY <1>1, <1>4 DEF MarkerCmd, KillWatchdog, StartWatchdog, ReapDaemon, NetClean, Test, SpawnDaemon
  <2>2. daemon' = Signalled(Daemons)
    BY <1>4, <2>1 DEF SignalDaemon
  <2>3. QED
    BY <2>2 DEF Signalled, TypeOK, Processes
<1>5. QED
  BY <1>2, <1>3, <1>4

\* A script that has not disabled the module first neither stops nor boots it.
LEMMA NotDisabling ==
    ASSUME TypeOK, ResumeOK, DisabledOK, NEW r \in Runners, enabled,
           script[r].todo # <<>>, script[r].todo[1] \notin Keeping
    PROVE  script[r].name # "stop" /\ script[r].name # "boot"
<1>1. CASE r = "user"
  BY <1>1 DEF DisabledOK, Keeping
<1>2. CASE r = "resume"
  BY <1>2 DEF ResumeOK
<1>3. QED
  BY <1>1, <1>2 DEF Runners

\* The command at the head of a script is among those that it uses.
LEMMA HeadUsed ==
    ASSUME NEW s \in Scripts, s.todo # <<>>
    PROVE  Head(s.todo) = s.todo[1] /\ s.todo[1] \in Uses(s.todo)
<1>1. s.todo \in Seq(Commands)
  BY DEF Scripts
<1>2. Head(s.todo) = s.todo[1] /\ 1 \in 1..Len(s.todo)
  BY <1>1, TailLeft
<1>3. QED
  BY <1>2 DEF Uses

\* A command of stop_module leads to the next one.
LEMMA StopGoesOn ==
    ASSUME TypeOK, ScriptOK, StopOK, ScriptStep("user")
    PROVE  StopOK'
<1>1. "user" \in Runners
  BY DEF Runners
<1> DEFINE t == script["user"].todo
           n == Len(t)
           u == script'["user"].todo
<1>2. /\ script["user"] \in Scripts /\ t # <<>>
      /\ script'["user"].name = script["user"].name /\ u = Rest(script["user"])
      /\ alone' = alone
  BY <1>1, OneScript
<1>3. t \in Seq(Commands)
  BY <1>2 DEF Scripts
<1>4. Tail(t) \in Seq(Commands) /\ n \in Nat \ {0} /\ Len(Tail(t)) = n - 1
  BY <1>2, <1>3, TailLeft
<1>5. Head(t) = t[1] /\ \A i \in 1..Len(Tail(t)) : Tail(t)[i] = t[i + 1]
  BY <1>2, <1>3, TailLeft
<1>6. SUFFICES ASSUME script["user"].name = "stop" PROVE StopOK'
  BY <1>2 DEF StopOK
<1>7. n <= 7 /\ \A i \in 1..n : t[i] = stop_module[7 - n + i]
  BY <1>6 DEF StopOK
<1>8. t[1] = stop_module[8 - n]
  <2>1. n <= 7 /\ 1 \in 1..n /\ 7 - n + 1 = 8 - n
    BY <1>4, <1>7
  <2>2. QED
    BY <1>7, <2>1
<1>9. n = 1 \/ n = 2 \/ n = 3 \/ n = 4 \/ n = 5 \/ n = 6 \/ n = 7
  <2>1. \A k \in Nat \ {0} : k <= 7 => k = 1 \/ k = 2 \/ k = 3 \/ k = 4 \/ k = 5 \/ k = 6 \/ k = 7
    OBVIOUS
  <2>2. n <= 7 /\ n \in Nat \ {0}
    BY <1>4, <1>7
  <2>3. QED
    BY <2>1, <2>2
<1>10. /\ 8 - 1 = 7 /\ 8 - 2 = 6 /\ 8 - 3 = 5 /\ 8 - 4 = 4 /\ 8 - 5 = 3 /\ 8 - 6 = 2 /\ 8 - 7 = 1
  OBVIOUS
<1>11. /\ t[1] \notin {"if enabled", "check", "await"}
       /\ n = 1 => t[1] = "net clean"
       /\ n = 2 => t[1] = "killall"
  BY <1>8, <1>9, <1>10, StopCommands
<1>12. u = Tail(t)
  BY <1>2, <1>5, <1>11 DEF Rest
<1>13. Len(u) = n - 1
  BY <1>4, <1>12
<1>14. Len(u) <= 7 /\ \A i \in 1..Len(u) : u[i] = stop_module[7 - Len(u) + i]
  <2>1. n <= 7
    BY <1>7
  <2>2. Len(u) <= 7
    BY <1>4, <1>13, <2>1
  <2>3. ASSUME NEW i \in 1..Len(u) PROVE u[i] = stop_module[7 - Len(u) + i]
    <3>1. i + 1 \in 1..n /\ 7 - n + (i + 1) = 7 - Len(u) + i
      BY <1>4, <1>13
    <3>2. u[i] = t[i + 1]
      BY <1>5, <1>12
    <3>3. QED
      BY <1>7, <3>1, <3>2
  <2>4. QED
    BY <2>2, <2>3
<1>15. ASSUME alone, Len(u) <= 1 PROVE \A d \in Daemons : daemon'[d].st \in {"none", "term"}
  <2>1. n = 1 \/ n = 2
    <3>1. \A k \in Nat \ {0} : k - 1 <= 1 => k = 1 \/ k = 2
      OBVIOUS
    <3>2. n - 1 <= 1 /\ n \in Nat \ {0}
      BY <1>4, <1>13, <1>15
    <3>3. QED
      BY <3>1, <3>2
  <2>2. CASE n = 1
    <3>1. daemon' = daemon
      BY <1>1, <1>5, <1>11, <2>2, CommandKills
    <3>2. Len(t) <= 1
      BY <2>2
    <3>3. QED
      BY <1>6, <1>15, <3>1, <3>2 DEF StopOK
  <2>3. CASE n = 2
    BY <1>1, <1>5, <1>11, <2>3, CommandKills
  <2>4. QED
    BY <2>1, <2>2, <2>3
<1>16. ASSUME u = <<>> PROVE redirect' # "set"
  <2>1. n = 1
    BY <1>4, <1>13, <1>16
  <2>2. QED
    BY <1>1, <1>5, <1>11, <2>1, CommandKills
<1>17. QED
  BY <1>2, <1>14, <1>15, <1>16 DEF StopOK

\* A command of any script keeps the invariant.
LEMMA InvCommand ==
    ASSUME Inv, NEW r \in Runners, ScriptStep(r)
    PROVE  Inv'
<1> DEFINE c == script[r].todo[1]
<1>1. /\ TypeOK /\ WatchdogOK /\ ScriptOK /\ ResumeOK /\ DisabledOK /\ WatchOK /\ AloneOK
      /\ StopOK
  BY DEF Inv
<1>2. /\ script' \in [Runners -> Scripts]
      /\ script[r] \in Scripts /\ script[r].todo # <<>> /\ Orderly(script[r])
      /\ script'[r].name = script[r].name /\ script'[r].todo = Rest(script[r])
      /\ Orderly(script'[r])
      /\ \A q \in Runners : q # r => script'[q] = script[q]
      /\ alone' = alone
  BY <1>1, OneScript
<1>3. Head(script[r].todo) = c /\ c \in Uses(script[r].todo)
  BY <1>2, HeadUsed
<1>4. "user" \in Runners /\ "resume" \in Runners /\ (r = "user" \/ r = "resume")
  BY DEF Runners
<1>5. \A q \in Runners : script'[q].name = script[q].name
  BY <1>2
<1>6. TypeOK'
  BY <1>1, TypeCommand
<1>7. ScriptOK'
  BY <1>1, <1>2 DEF ScriptOK
<1>8. ResumeOK'
  BY <1>1, <1>4, <1>5 DEF ResumeOK
<1>9. /\ enabled' => c = "enable" \/ (enabled /\ c # "disable")
      /\ paused /\ c # "unpause" => paused'
      /\ c = "pause" => paused'
  BY <1>1, <1>3, CommandMarks
<1>10. /\ WatchdogOK'
       /\ c = "start watchdog" => \E w \in Watchdogs : wd'[w].st # "none"
       /\ c \notin {"start watchdog", "kill watchdog"} => wd' = wd
  BY <1>1, <1>3, CommandWatches
<1>11. c = "enable" => script[r].name \in {"start", "restart"}
  BY <1>2, <1>3 DEF Orderly, Allowed
<1>12. DisabledOK'
  <2>1. SUFFICES ASSUME script["user"].name \in {"stop", "boot"}, enabled'
                 PROVE  script'["user"].todo # <<>> /\ script'["user"].todo[1] = "disable"
    BY <1>4, <1>5 DEF DisabledOK
  <2>2. c # "enable"
    BY <1>1, <1>4, <1>11, <2>1 DEF ResumeOK
  <2>3. enabled /\ c # "disable"
    BY <1>9, <2>1, <2>2
  <2>4. script["user"].todo # <<>> /\ script["user"].todo[1] = "disable"
    BY <1>1, <2>1, <2>3 DEF DisabledOK
  <2>5. r # "user"
    BY <2>3, <2>4
  <2>6. QED
    BY <1>2, <1>4, <2>4, <2>5
<1>13. WatchOK'
  <2>1. SUFFICES ASSUME enabled'
                 PROVE  \/ \E w \in Watchdogs : wd'[w].st # "none"
                        \/ paused'
                        \/ \E q \in Runners : Uses(script'[q].todo) \cap Keeping # {}
    BY DEF WatchOK, Promise
  <2>2. CASE c \in Keeping
    BY <1>9, <1>10, <2>1, <2>2 DEF Keeping
  <2>3. CASE c \notin Keeping /\ c \in Unwatching
    <3>1. script[r].name # "stop" /\ script[r].name # "boot"
      BY <1>1, <1>2, <1>9, <1>11, <2>1, <2>3, NotDisabling
    <3>2. Uses(Rest(script[r])) \cap Keeping # {}
      BY <1>2, <2>3, <3>1, RestPromises
    <3>3. QED
      BY <1>2, <3>2
  <2>4. CASE c \notin Keeping /\ c \notin Unwatching
    <3>1. c \notin {"enable", "unpause", "kill watchdog", "start watchdog"}
      BY <2>4 DEF Keeping, Unwatching
    <3>2. enabled /\ wd' = wd /\ (paused => paused')
      BY <1>9, <1>10, <2>1, <3>1
    <3>3. script[r].name # "boot"
      BY <1>1, <1>2, <2>4, <3>2, NotDisabling
    <3>4. CASE \E w \in Watchdogs : wd[w].st # "none"
      BY <3>2, <3>4
    <3>5. CASE paused
      BY <3>2, <3>5
    <3>6. ASSUME NEW q \in Runners, Promise(script[q])
          PROVE  Uses(script'[q].todo) \cap Keeping # {}
      <4>1. CASE q = r
        BY <1>2, <2>4, <3>2, <3>3, <3>6, <4>1, RestPromises
      <4>2. CASE q # r
        BY <1>2, <3>6, <4>2 DEF Promise
      <4>3. QED
        BY <4>1, <4>2
    <3>7. QED
      BY <1>1, <3>2, <3>4, <3>5, <3>6 DEF WatchOK
  <2>5. QED
    BY <2>2, <2>3, <2>4
<1>14. CASE r = "user"
  <2>1. alone => script["resume"].todo = <<>>
    BY <1>1, <1>2, <1>14 DEF AloneOK
  <2>2. script'["resume"] = script["resume"]
    BY <1>2, <1>4, <1>14
  <2>3. AloneOK'
    BY <1>2, <2>1, <2>2 DEF AloneOK
  <2>4. StopOK'
    BY <1>1, <1>2, <1>3, <1>14, StopGoesOn
  <2>5. QED
    BY <1>6, <1>7, <1>8, <1>10, <1>12, <1>13, <2>3, <2>4 DEF Inv
<1>15. CASE r = "resume"
  <2>1. script'["user"] = script["user"]
    BY <1>2, <1>4, <1>15
  <2>2. alone => script["user"].todo = <<>>
    BY <1>1, <1>2, <1>15 DEF AloneOK
  <2>3. ASSUME alone, script["user"].name = "stop"
        PROVE  c = "if enabled" /\ Rest(script["resume"]) = <<>>
    <3>1. c = "if enabled"
      BY <1>1, <1>2, <1>15, <2>3 DEF AloneOK
    <3>2. ~enabled
      BY <1>1, <2>2, <2>3 DEF DisabledOK
    <3>3. QED
      BY <1>3, <1>15, <3>1, <3>2 DEF Rest
  <2>4. AloneOK'
    BY <1>2, <1>15, <2>1, <2>2, <2>3 DEF AloneOK
  <2>5. alone /\ script["user"].name = "stop" => daemon' = daemon /\ redirect' = redirect
    BY <1>1, <1>3, <2>3, CommandKills
  <2>6. StopOK'
    BY <1>1, <1>2, <2>1, <2>5 DEF StopOK
  <2>7. QED
    BY <1>6, <1>7, <1>8, <1>10, <1>12, <1>13, <2>4, <2>6 DEF Inv
<1>16. QED
  BY <1>4, <1>14, <1>15

\* A daemon that comes up is none that a stop has signalled, and one that connects
\* after its signal leaves a late redirect.
LEMMA InvDaemon ==
    ASSUME Inv, NEW d \in Daemons, DaemonNext(d)
    PROVE  Inv'
<1>1. /\ TypeOK /\ WatchdogOK /\ ScriptOK /\ ResumeOK /\ DisabledOK /\ WatchOK /\ AloneOK
      /\ StopOK
  BY DEF Inv
<1>2. UNCHANGED <<wdPidFile, token, enabled, paused, script, wd, alone>>
  BY DEF DaemonNext, DaemonReady, TunnelConnects, ApiStop, DaemonExits, DaemonCrashes, markerVars
<1>3. TypeOK'
  BY <1>1, TypeDaemon
<1>4. WatchdogOK' /\ ResumeOK' /\ DisabledOK' /\ AloneOK'
  BY <1>1, <1>2 DEF WatchdogOK, ResumeOK, DisabledOK, AloneOK
<1>5. ScriptOK' /\ WatchOK'
  BY <1>1, <1>2 DEF ScriptOK, WatchOK
<1>6. \A e \in Daemons : daemon[e].st \in {"none", "term"} => daemon'[e].st \in {"none", "term"}
  BY <1>1 DEF DaemonNext, DaemonReady, TunnelConnects, ApiStop, DaemonExits, DaemonCrashes,
              NoProcess, TypeOK, Processes
<1>7. daemon[d].st \in {"none", "term"} /\ redirect # "set" => redirect' # "set"
  BY <1>1 DEF DaemonNext, DaemonReady, TunnelConnects, ApiStop, DaemonExits, DaemonCrashes, TypeOK
<1>8. script["user"].todo = <<>> => Len(script["user"].todo) <= 1
  OBVIOUS
<1>9. StopOK'
  BY <1>1, <1>2, <1>6, <1>7, <1>8 DEF StopOK
<1>10. QED
  BY <1>3, <1>4, <1>5, <1>9 DEF Inv

\* The watchdog that asks for a recovery stays until the recovery kills it.
LEMMA InvRequest ==
    ASSUME Inv, NEW w \in Watchdogs, RequestResume(w), wd[w].st = "check"
    PROVE  Inv'
<1>1. /\ TypeOK /\ WatchdogOK /\ ScriptOK /\ ResumeOK /\ DisabledOK /\ WatchOK /\ AloneOK
      /\ StopOK
  BY DEF Inv
<1>2. /\ script' \in [Runners -> Scripts]
      /\ script["resume"].todo = <<>>
      /\ script'["resume"].name = "network-resume" /\ script'["resume"].todo = network_resume
      /\ script'["user"] = script["user"]
  BY <1>1, Requested
<1>3. /\ UNCHANGED <<daemonVars, markerVars>>
      /\ alone' = (alone /\ script["user"].todo = <<>>)
      /\ wd' = [wd EXCEPT ![w] = [NoWatchdog EXCEPT !.st = "wait"]]
  BY DEF RequestResume
<1>4. TypeOK'
  BY <1>1, <1>3, Requested DEF TypeOK, daemonVars, markerVars
<1>5. Orderly(script'["resume"]) /\ Orderly(script'["user"])
  BY <1>1, <1>2, ResumeOrderly DEF ScriptOK, Runners
<1>6. ScriptOK'
  BY <1>5 DEF ScriptOK, Runners
<1>7. wd'[w].st = "wait" /\ \A v \in Watchdogs : v # w => wd'[v] = wd[v]
  BY <1>1, <1>3 DEF NoWatchdog, TypeOK
<1>8. WatchdogOK' /\ WatchOK'
  BY <1>1, <1>3, <1>7 DEF WatchdogOK, WatchOK, markerVars
<1>9. ResumeOK' /\ DisabledOK'
  BY <1>1, <1>2, <1>3 DEF ResumeOK, DisabledOK, markerVars
<1>10. AloneOK'
  BY <1>2, <1>3, ResumeOrderly DEF AloneOK
<1>11. StopOK'
  BY <1>1, <1>2, <1>3 DEF StopOK, daemonVars
<1>12. QED
  BY <1>4, <1>6, <1>8, <1>9, <1>10, <1>11 DEF Inv

\* A watchdog ends only when the module is disabled.
LEMMA InvWatchdog ==
    ASSUME Inv, NEW w \in Watchdogs, WatchdogNext(w)
    PROVE  Inv'
<1>1. /\ TypeOK /\ WatchdogOK /\ ScriptOK /\ ResumeOK /\ DisabledOK /\ WatchOK /\ AloneOK
      /\ StopOK
  BY DEF Inv
<1>2. CASE RequestResume(w) /\ wd[w].st = "check"
  BY <1>2, InvRequest
<1>3. CASE UNCHANGED <<daemonVars, enabled, wdPidFile, script, alone>>
  <2>1. TypeOK'
    BY <1>1, TypeWatchdog
  <2>2. ScriptOK' /\ ResumeOK' /\ DisabledOK' /\ AloneOK' /\ StopOK'
    BY <1>1, <1>3 DEF ScriptOK, ResumeOK, DisabledOK, AloneOK, StopOK, daemonVars
  <2>3. CASE WatchdogStarts(w)
    <3>1. wd'[w].st = "loop" /\ (\A v \in Watchdogs : v # w => wd'[v] = wd[v]) /\ token' = w
      BY <1>1, <2>3 DEF WatchdogStarts, TypeOK, WatchdogStates
    <3>2. wdPidFile = w /\ \A v \in Watchdogs : v # w => wd[v].st = "none"
      BY <1>1, <2>3 DEF WatchdogStarts, WatchdogOK
    <3>3. WatchdogOK' /\ WatchOK'
      BY <1>3, <3>1, <3>2 DEF WatchdogOK, WatchOK
    <3>4. QED
      BY <2>1, <2>2, <3>3 DEF Inv
  <2>4. CASE WatchdogEnds(w)
    <3>1. ~enabled /\ UNCHANGED <<enabled, token>>
      BY <1>1, <2>4 DEF WatchdogEnds, WatchdogOK, markerVars
    <3>2. wd'[w].st = "none" /\ \A v \in Watchdogs : v # w => wd'[v] = wd[v]
      BY <1>1, <2>4 DEF WatchdogEnds, NoWatchdog, TypeOK
    <3>3. WatchdogOK' /\ WatchOK'
      BY <1>1, <1>3, <3>1, <3>2 DEF WatchdogOK, WatchOK
    <3>4. QED
      BY <2>1, <2>2, <3>3 DEF Inv
  <2>5. CASE ~WatchdogStarts(w) /\ ~WatchdogEnds(w)
    <3>1. /\ wd[w].st \in {"loop", "check", "wait"} /\ wd'[w].st \in {"loop", "check", "wait"}
          /\ \A v \in Watchdogs : v # w => wd'[v] = wd[v]
          /\ token' = token
      <4>1. wd \in [Watchdogs -> WatchdogStates]
        BY <1>1 DEF TypeOK
      <4>2. CASE WatchdogOffline(w)
        BY <4>1, <4>2 DEF WatchdogOffline, WatchdogStates
      <4>3. CASE WatchdogOnline(w)
        BY <4>1, <4>3 DEF WatchdogOnline, WatchdogStates, markerVars
      <4>4. CASE wd[w].st = "check" /\ RequestResume(w)
        BY <4>1, <4>4 DEF RequestResume, NoWatchdog, markerVars
      <4>5. CASE WatchdogApiDown(w) /\ ~RequestResume(w)
        BY <4>1, <4>5 DEF WatchdogApiDown, NoWatchdog, markerVars
      <4>6. CASE WatchdogApiUp(w) /\ ~RequestResume(w)
        BY <4>1, <4>6 DEF WatchdogApiUp, NoWatchdog
      <4>7. CASE WatchdogGoesOn(w)
        BY <4>1, <4>7 DEF WatchdogGoesOn, WatchdogStates, markerVars
      <4>8. (WatchdogApiDown(w) \/ WatchdogApiUp(w)) => wd[w].st = "check"
        BY DEF WatchdogApiDown, WatchdogApiUp
      <4>9. QED
        BY <2>5, <4>2, <4>3, <4>4, <4>5, <4>6, <4>7, <4>8 DEF WatchdogNext
    <3>2. WatchdogOK' /\ WatchOK'
      BY <1>1, <1>3, <3>1 DEF WatchdogOK, WatchOK
    <3>3. QED
      BY <2>1, <2>2, <3>2 DEF Inv
  <2>6. QED
    BY <2>3, <2>4, <2>5
<1>4. QED
  BY <1>2, <1>3 DEF WatchdogNext, WatchdogStarts, WatchdogEnds, WatchdogOffline, WatchdogOnline,
       WatchdogApiDown, WatchdogApiUp, WatchdogGoesOn, markerVars

\* A new command begins after the last one has ended.
LEMMA InvUser ==
    ASSUME Inv, NEW name \in UserCommands, UserRuns(name)
    PROVE  Inv'
<1>1. /\ TypeOK /\ WatchdogOK /\ ScriptOK /\ ResumeOK /\ DisabledOK /\ WatchOK /\ AloneOK
      /\ StopOK
  BY DEF Inv
<1>2. /\ TypeOK'
      /\ script["user"].todo = <<>>
      /\ script'["user"].name = name /\ script'["user"].todo = Script(name)
      /\ script'["resume"] = script["resume"]
  BY <1>1, TypeUser
<1>3. UNCHANGED <<daemonVars, markerVars, wd>> /\ alone' = (script["resume"].todo = <<>>)
  BY DEF UserRuns, Resuming
<1>4. Orderly(script'["user"]) /\ Orderly(script'["resume"])
  BY <1>1, <1>2, ScriptsOrderly DEF ScriptOK, Runners
<1>5. ScriptOK'
  BY <1>4 DEF ScriptOK, Runners
<1>6. WatchdogOK' /\ ResumeOK'
  BY <1>1, <1>2, <1>3 DEF WatchdogOK, ResumeOK, markerVars
<1>7. name \in {"start", "start-idle", "stop", "restart", "network-pause", "network-resume"}
  BY ScriptAssumption
<1>8. name = "stop" => Script(name) = stop_module
  BY DEF Script
<1>9. stop_module[1] = "disable" /\ stop_module # <<>>
  <2>1. stop_module # <<>>
    BY StopScripts, NothingUsed
  <2>2. QED
    BY <2>1, StopCommands
<1>10. DisabledOK'
  BY <1>2, <1>7, <1>8, <1>9 DEF DisabledOK
<1>11. WatchOK'
  <2>1. ~Promise(script["user"])
    BY <1>2, NothingUsed DEF Promise
  <2>2. enabled => \/ \E w \in Watchdogs : wd[w].st # "none"
                   \/ paused \/ Promise(script["resume"])
    BY <1>1, <2>1 DEF WatchOK, Runners
  <2>3. "resume" \in Runners
    BY DEF Runners
  <2>4. QED
    BY <1>2, <1>3, <2>2, <2>3 DEF WatchOK, Promise, markerVars
<1>12. AloneOK'
  BY <1>2, <1>3 DEF AloneOK
<1>13. StopOK'
  <2>1. SUFFICES ASSUME name = "stop" PROVE StopOK'
    BY <1>2 DEF StopOK
  <2>2. script'["user"].todo = stop_module
    BY <1>2, <1>8, <2>1
  <2>3. Len(stop_module) = 7
    BY StopCommands
  <2>4. /\ Len(stop_module) <= 7 /\ ~(Len(stop_module) <= 1)
        /\ \A i \in 1..Len(stop_module) : 7 - Len(stop_module) + i = i
    BY <2>3
  <2>5. QED
    BY <1>9, <2>2, <2>4 DEF StopOK
<1>14. QED
  BY <1>2, <1>5, <1>6, <1>10, <1>11, <1>12, <1>13 DEF Inv

\* After a reboot the module may still be enabled: service.sh disables it first.
LEMMA InvReboot ==
    ASSUME Inv, Reboot
    PROVE  Inv'
<1>1. TypeOK
  BY DEF Inv
<1>2. /\ TypeOK'
      /\ script'["user"].name = "boot" /\ script'["user"].todo = service
      /\ script'["resume"] = NoScript
  BY <1>1, TypeReboot
<1>3. wd' = [w \in Watchdogs |-> NoWatchdog]
  BY DEF Reboot
<1>4. Orderly(script'["user"]) /\ Orderly(script'["resume"])
  BY <1>2, ServiceOrderly, NothingOrderly
<1>5. ScriptOK'
  BY <1>4 DEF ScriptOK, Runners
<1>6. WatchdogOK'
  BY <1>3 DEF WatchdogOK, NoWatchdog
<1>7. ResumeOK' /\ AloneOK' /\ StopOK'
  BY <1>2, NothingOrderly DEF ResumeOK, AloneOK, StopOK
<1>8. DisabledOK'
  BY <1>2, StopScripts DEF DisabledOK
<1>9. WatchOK'
  <2>1. "disable" \in Uses(service)
    BY StopScripts
  <2>2. Uses(script'["user"].todo) \cap Keeping # {} /\ "user" \in Runners
    BY <1>2, <2>1 DEF Keeping, Runners
  <2>3. QED
    BY <2>2 DEF WatchOK, Promise
<1>10. QED
  BY <1>2, <1>5, <1>6, <1>7, <1>8, <1>9 DEF Inv

\* Every step keeps the invariant.
LEMMA InvNext == Inv /\ [Next]_vars => Inv'
<1>1. SUFFICES ASSUME Inv, [Next]_vars PROVE Inv'
  OBVIOUS
<1>2. CASE Next
  <2>1. ASSUME UserActs PROVE Inv'
    <3>1. PICK name \in UserCommands : UserRuns(name)
      BY <2>1 DEF UserActs
    <3>2. QED
      BY <1>1, <3>1, InvUser
  <2>2. QED
    BY <1>1, <1>2, <2>1, InvDaemon, InvWatchdog, InvCommand, InvUser, InvReboot DEF Next
<1>3. CASE UNCHANGED vars
  BY <1>1, <1>3, ZenonT(60) DEF vars, Inv, TypeOK, WatchdogOK, ScriptOK, ResumeOK, DisabledOK, WatchOK,
                    AloneOK, StopOK
<1>4. QED
  BY <1>1, <1>2, <1>3

\* The invariant holds of every behaviour.
THEOREM InvHolds == Spec => []Inv
<1>1. QED
  BY InvInit, InvNext, PTL DEF Spec

-----------------------------------------------------------------------------
(* Results *)

\* Type correctness: the variables, and the scripts with their commands.
THEOREM TypeCorrect == Spec => []TypeOK
<1>1. Inv => TypeOK
  BY DEF Inv
<1>2. QED
  BY <1>1, InvHolds, PTL

\* sshcustom.sh stop stops, with any number of daemons, watchdogs and crashes:
\* when no recovery overlapped it, no daemon is left running and no redirect but
\* of one that was told to leave.
THEOREM StopStopsHolds == Spec => []StopStops
<1>1. ASSUME Inv PROVE StopStops
  <2>1. DisabledOK /\ StopOK
    BY <1>1 DEF Inv
  <2>2. script["user"].todo = <<>> => Len(script["user"].todo) <= 1
    OBVIOUS
  <2>3. QED
    BY <2>1, <2>2 DEF StopStops, Stopped, DisabledOK, StopOK
<1>2. QED
  BY <1>1, InvHolds, PTL

\* An enabled module is watched, or says that it is paused, whenever no script
\* runs, although network-resume kills the watchdog that runs it.
THEOREM EnabledIsWatchedHolds == Spec => []EnabledIsWatched
<1>1. ASSUME Inv PROVE EnabledIsWatched
  <2>1. WatchdogOK /\ WatchOK
    BY <1>1 DEF Inv
  <2>2. SUFFICES ASSUME enabled, Quiet PROVE Watched \/ paused
    BY DEF EnabledIsWatched
  <2>3. \A r \in Runners : ~Promise(script[r])
    BY <2>2, NothingUsed DEF Quiet, Promise
  <2>4. (\E w \in Watchdogs : wd[w].st # "none") \/ paused
    BY <2>1, <2>2, <2>3 DEF WatchOK
  <2>5. QED
    BY <2>1, <2>4 DEF WatchdogOK, Watched
<1>2. QED
  BY <1>1, InvHolds, PTL
=============================================================================
