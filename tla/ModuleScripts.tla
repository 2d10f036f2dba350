---------------------------- MODULE ModuleScripts ----------------------------
(***************************************************************************)
(* The module's scripts: sshcustom.sh, sshcustom_watchdog.sh, service.sh   *)
(* and action.sh, with the daemons and watchdogs they start and kill.      *)
(*                                                                         *)
(* A script is the sequence of the commands it still has to run.  The user *)
(* (or the boot service) runs one at a time; the watchdogs may run one      *)
(* network-resume beside it, which outlives the watchdog it kills.  The    *)
(* redirect is one flag here; Iptables has its commands.  Whether a daemon  *)
(* starts its tunnel by itself (run), for the dashboard or for service.sh   *)
(* makes no difference to the scripts: it may connect whenever it runs.     *)
(***************************************************************************)
EXTENDS Naturals, Sequences

CONSTANTS
    Daemons,         \* ids of sshcustomd processes
    Watchdogs,       \* ids of watchdog processes
    ApiFailLimit,    \* failed health checks before recovery, 3
    UserCommands,    \* the arguments of sshcustom.sh that are given
    None             \* no process

ASSUME ScriptAssumption ==
    /\ ApiFailLimit \in Nat \ {0}
    /\ UserCommands \subseteq {"start", "start-idle", "stop", "restart",
                               "network-pause", "network-resume"}
    /\ None \notin Daemons \cup Watchdogs

VARIABLES
    daemon,     \* the daemon processes
    redirect,   \* the redirect rules in the kernel: none, set, or set by a daemon
                \* that had its SIGTERM already ("late")
    pidFile,    \* daemon.pid
    wdPidFile,  \* watchdog.pid
    token,      \* watchdog.token
    enabled,    \* $RUN_DIR/enabled exists
    paused,     \* $RUN_DIR/network_paused exists
    script,     \* per runner, the script in progress
    wd,         \* the watchdog processes
    alone       \* history: no resume ran during the user's last script

vars == <<daemon, redirect, pidFile, wdPidFile, token, enabled, paused, script, wd, alone>>

daemonVars == <<daemon, redirect, pidFile>>
markerVars == <<wdPidFile, token, enabled, paused>>

\* The bound on scripts in progress: the user's and one recovery.
Runners == {"user", "resume"}

\* "starting": not ready yet; "noapi": the API port was taken; "term": SIGTERM
\* was received.
NoProcess == [st |-> "none", routed |-> FALSE]

\* pid is the shell variable PID: the daemon the script handles.
NoScript == [name |-> "", todo |-> <<>>, pid |-> None]

\* "new": the token is not written yet; "loop": at the head of the loop;
\* "check": has the answer of status-simple; "wait": runs network-resume.
NoWatchdog == [st |-> "none", running |-> FALSE, fails |-> 0]

Processes == [st: {"none", "starting", "up", "noapi", "term"}, routed: BOOLEAN]

WatchdogStates ==
    [st: {"none", "new", "loop", "check", "wait"}, running: BOOLEAN, fails: 0..(ApiFailLimit - 1)]

Names == {"", "boot", "start", "start-idle", "stop", "restart", "network-pause", "network-resume"}

Commands ==
    {"enable", "disable", "pause", "unpause", "kill watchdog", "start watchdog", "term", "reap",
     "killall", "net clean", "if enabled", "check", "stray", "spawn", "await"}

Scripts == [name: Names, todo: Seq(Commands), pid: Daemons \cup {None}]

TypeOK ==
    /\ daemon \in [Daemons -> Processes]
    /\ redirect \in {"none", "set", "late"}
    /\ enabled \in BOOLEAN /\ paused \in BOOLEAN /\ alone \in BOOLEAN
    /\ pidFile \in Daemons \cup {None}
    /\ wdPidFile \in Watchdogs \cup {None} /\ token \in Watchdogs \cup {None}
    /\ script \in [Runners -> Scripts]
    /\ wd \in [Watchdogs -> WatchdogStates]

Init ==
    /\ daemon = [d \in Daemons |-> NoProcess]
    /\ redirect = "none"
    /\ pidFile = None /\ wdPidFile = None /\ token = None
    /\ enabled = FALSE /\ paused = FALSE
    /\ script = [r \in Runners |-> NoScript]
    /\ wd = [w \in Watchdogs |-> NoWatchdog]
    /\ alone = TRUE

Alive(d) == d # None /\ daemon[d].st # "none"

api_alive == \E d \in Daemons : daemon[d].st = "up"

is_running == Alive(pidFile)

-----------------------------------------------------------------------------
(* The scripts as command sequences *)

\* kill_pid_file of the daemon and kill_named_daemon.
killDaemon == <<"term", "reap", "killall">>

stop_runtime == <<"kill watchdog">> \o killDaemon

start_daemon == <<"check", "stray", "spawn", "await">>

\* Mutation: stop leaves the rules to the daemon's own teardown.
stop_moduleNoNetClean == <<"disable", "unpause">> \o stop_runtime

stop_module == <<"disable", "unpause">> \o stop_runtime \o <<"net clean">>

start_module ==
    <<"enable", "unpause">> \o stop_runtime \o <<"net clean">>
      \o start_daemon \o <<"start watchdog">>

network_pause == <<"if enabled">> \o killDaemon \o <<"net clean", "pause">>

\* Mutation: the new daemon is not watched.
network_resumeUnwatched ==
    <<"if enabled", "unpause">> \o stop_runtime \o <<"net clean">> \o start_daemon

\* It kills the watchdog that runs it, and starts a new one after the daemon.
network_resume ==
    <<"if enabled", "unpause">> \o stop_runtime \o <<"net clean">>
      \o start_daemon \o <<"start watchdog">>

boot_reset == <<"disable", "unpause">> \o stop_runtime \o <<"net clean">>

\* service.sh: reset, and the idle daemon.
service == boot_reset \o start_daemon

Script(name) ==
    CASE name = "start" -> start_module
      [] name = "start-idle" -> start_daemon
      [] name = "stop" -> stop_module
      [] name = "restart" -> stop_module \o start_module
      [] name = "network-pause" -> network_pause
      [] name = "network-resume" -> network_resume

\* Mutation: a failed resume leaves no trace.
AfterFailureSilent(name) == IF name \in {"start", "restart"} THEN <<"disable">> ELSE <<>>

\* What follows a start_daemon that failed: start_module clears the marker,
\* network_resume leaves the module paused, service.sh goes on.
AfterFailure(name) ==
    CASE name \in {"start", "restart"} -> <<"disable">>
      [] name = "network-resume" -> <<"pause">>
      [] OTHER -> <<>>

-----------------------------------------------------------------------------
(* The daemon, as far as the scripts see it *)

\* The API comes up unless another daemon still has the port.
DaemonReady(d) ==
    /\ daemon[d].st = "starting"
    /\ daemon' = [daemon EXCEPT ![d].st = IF api_alive THEN "noapi" ELSE "up"]
    /\ UNCHANGED <<redirect, pidFile, markerVars, script, wd, alone>>

\* A handshake that was under way when the signal came still ends in Apply: the
\* process lives on for up to 5 s, and the loop does not look at its context.
TunnelConnects(d) ==
    /\ daemon[d].st \in {"up", "noapi", "term"} /\ ~daemon[d].routed
    /\ daemon' = [daemon EXCEPT ![d].routed = TRUE]
    /\ redirect' = IF daemon[d].st = "term" THEN "late" ELSE "set"
    /\ UNCHANGED <<pidFile, markerVars, script, wd, alone>>

\* The dashboard stops it.
ApiStop(d) ==
    /\ daemon[d].st = "up" /\ daemon[d].routed
    /\ daemon' = [daemon EXCEPT ![d].routed = FALSE]
    /\ redirect' = "none"
    /\ UNCHANGED <<pidFile, markerVars, script, wd, alone>>

\* A signalled daemon leaves, with its teardown done or not.
DaemonExits(d) ==
    /\ daemon[d].st = "term"
    /\ daemon' = [daemon EXCEPT ![d] = NoProcess]
    /\ redirect' \in {redirect, IF daemon[d].routed THEN "none" ELSE redirect}
    /\ UNCHANGED <<pidFile, markerVars, script, wd, alone>>

\* A crash, at any time; what it had installed stays.
DaemonCrashes(d) ==
    /\ Alive(d)
    /\ daemon' = [daemon EXCEPT ![d] = NoProcess]
    /\ UNCHANGED <<redirect, pidFile, markerVars, script, wd, alone>>

-----------------------------------------------------------------------------
(* One command of a script *)

\* The process gets SIGTERM.
Signalled(D) ==
    [d \in Daemons |-> IF d \in D /\ daemon[d].st # "none"
                       THEN [daemon[d] EXCEPT !.st = "term"] ELSE daemon[d]]

MarkerCmd(c) ==
    /\ c \in {"enable", "disable", "pause", "unpause"}
    /\ enabled' = (c = "enable" \/ (enabled /\ c # "disable"))
    /\ paused' = (c = "pause" \/ (paused /\ c # "unpause"))
    /\ UNCHANGED <<daemonVars, wdPidFile, token, wd>>

\* A watchdog that waits for its resume dies at once, its resume does not.
KillWatchdog(c) ==
    /\ c = "kill watchdog"
    /\ wd' = [w \in Watchdogs |-> IF w = wdPidFile THEN NoWatchdog ELSE wd[w]]
    /\ wdPidFile' = None
    /\ UNCHANGED <<daemonVars, token, enabled, paused>>

\* start_watchdog: kill the watchdog of the pid file, spawn one with a new id.
StartWatchdog(c) ==
    /\ c = "start watchdog"
    /\ \E w \in Watchdogs :
         /\ w # wdPidFile => wd[w].st = "none"
         /\ wd' = [v \in Watchdogs |->
                     IF v = w THEN [NoWatchdog EXCEPT !.st = "new"]
                     ELSE IF v = wdPidFile THEN NoWatchdog ELSE wd[v]]
         /\ wdPidFile' = w
    /\ UNCHANGED <<daemonVars, token, enabled, paused>>

\* SIGTERM to the daemon of the pid file, or to every one.
SignalDaemon(c) ==
    /\ c \in {"term", "killall", "stray"}
    /\ daemon' = Signalled(IF c = "term" THEN {pidFile} ELSE Daemons)
    /\ pidFile' = IF c = "stray" THEN None ELSE pidFile
    /\ UNCHANGED <<redirect, markerVars, wd>>

\* Five seconds later: SIGKILL if it is still there, and the file is removed.
ReapDaemon(c) ==
    /\ c = "reap"
    /\ daemon' = [d \in Daemons |-> IF d = pidFile THEN NoProcess ELSE daemon[d]]
    /\ redirect' \in {redirect, IF is_running /\ daemon[pidFile].routed THEN "none" ELSE redirect}
    /\ pidFile' = None
    /\ UNCHANGED <<markerVars, wd>>

NetClean(c) ==
    /\ c = "net clean"
    /\ redirect' = "none"
    /\ UNCHANGED <<daemon, pidFile, markerVars, wd>>

\* A free id is a new process.
SpawnDaemon(c, d) ==
    /\ c = "spawn"
    /\ daemon[d].st = "none" /\ \A r \in Runners : script[r].pid # d
    /\ daemon' = [daemon EXCEPT ![d] = [NoProcess EXCEPT !.st = "starting"]]
    /\ pidFile' = d
    /\ UNCHANGED <<redirect, markerVars, wd>>

\* Tests: is there a marker, a daemon that answers, is the new one alive?
\* When it is not, the pid file is removed, whoever wrote it meanwhile.
Test(c, pid) ==
    /\ c \in {"if enabled", "check", "await"}
    /\ pidFile' = IF c = "await" /\ ~Alive(pid) THEN None ELSE pidFile
    /\ UNCHANGED <<daemon, redirect, markerVars, wd>>

\* Where script s goes on.
Rest(s) ==
    LET c == Head(s.todo)
    IN  CASE c = "if enabled" /\ ~enabled -> <<>>
          [] c = "check" /\ is_running /\ api_alive -> SubSeq(s.todo, 5, Len(s.todo))
          [] c = "await" /\ ~Alive(s.pid) -> AfterFailure(s.name)
          [] OTHER -> Tail(s.todo)

ScriptStep(r) ==
    /\ script[r].todo # <<>>
    /\ LET c == Head(script[r].todo) IN
         \/ /\ \/ MarkerCmd(c) \/ KillWatchdog(c) \/ StartWatchdog(c) \/ SignalDaemon(c)
               \/ ReapDaemon(c) \/ NetClean(c) \/ Test(c, script[r].pid)
            /\ script' = [script EXCEPT ![r].todo = Rest(script[r]),
                                        ![r].pid = IF c = "await" THEN None ELSE @]
         \/ \E d \in Daemons :
              /\ SpawnDaemon(c, d)
              /\ script' = [script EXCEPT ![r].todo = Rest(script[r]), ![r].pid = d]
    /\ UNCHANGED alone

-----------------------------------------------------------------------------
(* The user and the boot service *)

Resuming == script["resume"].todo # <<>>

UserRuns(name) ==
    /\ script["user"].todo = <<>>
    /\ script' = [script EXCEPT !["user"] = [NoScript EXCEPT !.name = name, !.todo = Script(name)]]
    /\ alone' = ~Resuming
    /\ UNCHANGED <<daemonVars, markerVars, wd>>

\* action.sh: stop what runs, start what does not.
UserActs ==
    /\ {"start", "stop"} \subseteq UserCommands
    /\ UserRuns(IF is_running THEN "stop" ELSE "start")

\* A reboot: rules and processes are gone, the files are not; service.sh runs.
Reboot ==
    /\ daemon' = [d \in Daemons |-> NoProcess]
    /\ redirect' = "none"
    /\ wd' = [w \in Watchdogs |-> NoWatchdog]
    /\ script' = [r \in Runners |->
                    IF r = "user" THEN [NoScript EXCEPT !.name = "boot", !.todo = service]
                    ELSE NoScript]
    /\ alone' = TRUE
    /\ UNCHANGED <<pidFile, markerVars>>

-----------------------------------------------------------------------------
(* The watchdog *)

WatchdogStarts(w) ==
    /\ wd[w].st = "new"
    /\ token' = w
    /\ wd' = [wd EXCEPT ![w].st = "loop"]
    /\ UNCHANGED <<daemonVars, wdPidFile, enabled, paused, script, alone>>

\* The module was disabled, or a newer watchdog has taken over.
WatchdogEnds(w) ==
    /\ wd[w].st = "loop"
    /\ ~enabled \/ token # w
    /\ wd' = [wd EXCEPT ![w] = NoWatchdog]
    /\ UNCHANGED <<daemonVars, markerVars, script, alone>>

\* No route: the second miss in a row touches the marker.
WatchdogOffline(w) ==
    /\ wd[w].st = "loop" /\ enabled /\ token = w
    /\ wd' = [wd EXCEPT ![w].fails = 0]
    /\ paused' \in {paused, TRUE}
    /\ UNCHANGED <<daemonVars, wdPidFile, token, enabled, script, alone>>

\* There is a route: read status-simple.
WatchdogOnline(w) ==
    /\ wd[w].st = "loop" /\ enabled /\ token = w
    /\ wd' = [wd EXCEPT ![w].st = "check", ![w].running = is_running]
    /\ UNCHANGED <<daemonVars, markerVars, script, alone>>

RequestResume(w) ==
    /\ ~Resuming
    /\ wd' = [wd EXCEPT ![w] = [NoWatchdog EXCEPT !.st = "wait"]]
    /\ script' = [script EXCEPT !["resume"] = [NoScript EXCEPT !.name = "network-resume",
                                                               !.todo = network_resume]]
    /\ alone' = (alone /\ script["user"].todo = <<>>)
    /\ UNCHANGED <<daemonVars, markerVars>>

\* Mutation: the failures are not counted.
WatchdogApiDownUncounted(w) ==
    /\ wd[w].st = "check" /\ ~api_alive
    /\ wd' = [wd EXCEPT ![w] = [NoWatchdog EXCEPT !.st = "loop"]]
    /\ UNCHANGED <<daemonVars, markerVars, script, alone>>

\* The API does not answer: count, and at the limit recover.
WatchdogApiDown(w) ==
    /\ wd[w].st = "check" /\ ~api_alive
    /\ \/ /\ wd[w].fails + 1 >= ApiFailLimit
          /\ RequestResume(w)
       \/ /\ wd[w].fails + 1 < ApiFailLimit
          /\ wd' = [wd EXCEPT ![w] = [NoWatchdog EXCEPT !.st = "loop", !.fails = wd[w].fails + 1]]
          /\ UNCHANGED <<daemonVars, markerVars, script, alone>>

\* It answers.  When status-simple had found no daemon, resume all the same.
WatchdogApiUp(w) ==
    /\ wd[w].st = "check" /\ api_alive
    /\ \/ ~wd[w].running /\ RequestResume(w)
       \/ /\ wd[w].running
          /\ wd' = [wd EXCEPT ![w] = [NoWatchdog EXCEPT !.st = "loop"]]
          /\ paused' = FALSE
          /\ UNCHANGED <<daemonVars, wdPidFile, token, enabled, script, alone>>

WatchdogGoesOn(w) ==
    /\ wd[w].st = "wait" /\ ~Resuming
    /\ wd' = [wd EXCEPT ![w].st = "loop"]
    /\ UNCHANGED <<daemonVars, markerVars, script, alone>>

-----------------------------------------------------------------------------
DaemonNext(d) ==
    \/ DaemonReady(d) \/ TunnelConnects(d) \/ ApiStop(d)
    \/ DaemonExits(d) \/ DaemonCrashes(d)

WatchdogNext(w) ==
    \/ WatchdogStarts(w) \/ WatchdogEnds(w) \/ WatchdogOffline(w) \/ WatchdogOnline(w)
    \/ WatchdogApiDown(w) \/ WatchdogApiUp(w) \/ WatchdogGoesOn(w)

Next ==
    \/ \E d \in Daemons : DaemonNext(d)
    \/ \E w \in Watchdogs : WatchdogNext(w)
    \/ \E r \in Runners : ScriptStep(r)
    \/ \E name \in UserCommands : UserRuns(name)
    \/ UserActs \/ Reboot

Spec == Init /\ [][Next]_vars

\* Processes are scheduled, a script's commands end, a new daemon is ready or
\* dies, a signalled one leaves, the watchdog's loop goes round.
Fairness ==
    /\ \A d \in Daemons : WF_vars(DaemonReady(d) \/ DaemonCrashes(d)) /\ WF_vars(DaemonExits(d))
    /\ \A r \in Runners : WF_vars(ScriptStep(r))
    /\ \A w \in Watchdogs :
         /\ WF_vars(WatchdogStarts(w)) /\ WF_vars(WatchdogEnds(w)) /\ WF_vars(WatchdogGoesOn(w))
         /\ WF_vars(WatchdogApiDown(w) \/ WatchdogApiUp(w))
         /\ WF_vars(WatchdogOffline(w) \/ WatchdogOnline(w))

LiveSpec == Spec /\ Fairness

-----------------------------------------------------------------------------
(* Properties *)

Quiet == \A r \in Runners : script[r].todo = <<>>

Watched == \E w \in Watchdogs : wd[w].st # "none" /\ (token = w \/ wd[w].st = "new")

Stopped == script["user"].name = "stop" /\ script["user"].todo = <<>> /\ alone

\* sshcustom.sh stop stops: when no recovery overlapped it, no daemon is left
\* running and no redirect of one is left behind, whatever crashes and recoveries
\* preceded it, and no watchdog brings them back before the next command.  Only a
\* daemon that was told to leave may still install its own ("late"): a stray one,
\* which kill_named_daemon signals and does not wait for.
StopStops ==
    Stopped =>
        /\ ~enabled /\ redirect # "set"
        /\ \A d \in Daemons : daemon[d].st \in {"none", "term"}

\* An enabled module is watched, unless a recovery failed and says so: between
\* scripts there is a watchdog that will look after the daemon, or the paused
\* marker, although network-resume kills the very watchdog that runs it.
EnabledIsWatched == enabled /\ Quiet => Watched \/ paused

\* A crash is recovered once the route stays up (an offline round starts the
\* count of failed checks anew): a daemon that is gone while the module is
\* enabled and watched comes back, or the module is reported paused or was
\* disabled.
CrashRecovered ==
    <>[][\A w \in Watchdogs : ~WatchdogOffline(w)]_vars =>
    (enabled /\ Watched /\ (\A d \in Daemons : daemon[d].st = "none")
        ~> (\E d \in Daemons : daemon[d].st # "none") \/ paused \/ ~enabled)
=============================================================================
