--------------------------- MODULE TunnelControl ----------------------------
(***************************************************************************)
(* The tunnel lifecycle of the daemon (cmd/sshcustomd/main.go): the        *)
(* closures startTunnel and stopTunnel, the goroutines /api/v1/control     *)
(* spawns to run them, the goroutine each start launches around            *)
(* tunnelLoop, the goroutine that mirrors State into module.prop, and      *)
(* the shutdown of the process.                                            *)
(*                                                                         *)
(* Nothing but two atomic flags orders these goroutines, so every load,    *)
(* store, publication, file write and wait of startTunnel and stopTunnel   *)
(* is a step of its own.  tunnelLoop itself is reduced to what they can    *)
(* see of it - the client pointer, the rules, the published State; module  *)
(* TunnelLoop has its detail.                                              *)
(***************************************************************************)
EXTENDS Naturals, FiniteSets

CONSTANTS
    Requests,    \* concurrent /api/v1/control goroutines
    Loops,       \* tunnelLoop goroutines that may be alive at a time
    NoLoop,      \* nil, for a client pointer, a cancel function or a channel
    Overlap,     \* a request may be issued while another one is running
    MayPanic,    \* tunnelLoop may panic
    MaySignal    \* the process may be told to terminate

ASSUME LoopsAssumption == Loops \cap Requests = {} /\ NoLoop \notin Loops

ASSUME SwitchAssumption ==
    Overlap \in BOOLEAN /\ MayPanic \in BOOLEAN /\ MaySignal \in BOOLEAN

VARIABLES
    pc,             \* of every request and of every loop goroutine
    kind,           \* what each request asks for
    mine,           \* the loop a start has prepared and not yet launched
    waitOn,         \* the tunnelDone channel a stop is waiting on
    tunnelRunning, explicitStop,      \* the two atomic flags
    tunnelCancel, tunnelDone,         \* the loop these shared variables mean
    cancelled,      \* per loop: its context is done
    iptablesUp,     \* per loop: its local variable
    clientPtr,      \* the loop whose client the shared pointer holds
    rules,          \* the kernel holds the complete redirect rules
    st,             \* Running, Connected and State of the shared State
    prop,           \* the status line of module.prop
    pending, lastStatus, monitorWrite,  \* the monitor goroutine
    profile,        \* the profiles file has a selected profile
    signalled, exited,                  \* the process
    late,           \* history: a stop gave up on a loop that is still there
    lastDone        \* history: how the last request ended, once it has

flagVars == <<tunnelRunning, explicitStop, tunnelCancel, tunnelDone>>
loopVars == <<cancelled, iptablesUp, clientPtr, rules>>
pubVars == <<st, pending>>
monitorVars == <<lastStatus, monitorWrite>>
envVars == <<profile, signalled, exited>>
reqVars == <<kind, late, lastDone>>
vars == <<pc, mine, waitOn, flagVars, loopVars, pubVars, prop, monitorVars,
          envVars, reqVars>>

Actors == Requests \cup Loops

StartPCs == {"s_check", "s_load", "s_mark", "s_clear", "s_done", "s_ctx", "s_state", "s_prop"}
StopPCs == {"t_check", "t_flag", "t_cancel", "t_forget", "t_done", "t_wait", "t_clean", "t_state",
            "t_prop"}
RunPCs == {"first", "select", "auth", "apply", "up"}
ExitPCs == {"left", "e_flag", "e_state", "e_prop", "b_flag", "backoff"}
PCs == {"idle", "gone"} \cup StartPCs \cup StopPCs \cup RunPCs \cup ExitPCs

Kinds == {"start", "stop", "restart"}
Outcomes == Kinds \cup {"none", "refused", "late"}
Statuses == {"running", "standby", "disconnected"}
StateNames == {"IDLE", "STARTING", "CONNECTING_SSH", "RETRY_BACKOFF",
               "CONNECTED", "RECONNECTING", "PAUSED_NO_NETWORK", "STOPPED"}

\* tunnelLoop is executing in this goroutine.
Live(g) == pc[g] \in RunPCs

\* The goroutines and what they share to find each other.
ControlTypes ==
    /\ pc \in [Actors -> PCs]
    /\ kind \in [Requests -> Kinds]
    /\ mine \in [Actors -> Loops \cup {NoLoop}]
    /\ waitOn \in [Requests -> Loops \cup {NoLoop}]
    /\ tunnelRunning \in BOOLEAN /\ explicitStop \in BOOLEAN
    /\ tunnelCancel \in Loops \cup {NoLoop}
    /\ tunnelDone \in Loops \cup {NoLoop}

\* What they act upon.
EffectTypes ==
    /\ cancelled \in [Loops -> BOOLEAN]
    /\ iptablesUp \in [Loops -> BOOLEAN]
    /\ clientPtr \in Loops \cup {NoLoop}
    /\ rules \in BOOLEAN
    /\ st \in [Running: BOOLEAN, Connected: BOOLEAN, State: StateNames]
    /\ prop \in Statuses
    /\ pending \in BOOLEAN
    /\ lastStatus \in Statuses \cup {""}
    /\ monitorWrite \in Statuses \cup {""}
    /\ profile \in BOOLEAN /\ signalled \in BOOLEAN /\ exited \in BOOLEAN
    /\ late \in BOOLEAN
    /\ lastDone \in Outcomes

TypeOK == ControlTypes /\ EffectTypes

\* The daemon has started in idle mode.
Init ==
    /\ pc = [a \in Actors |-> "idle"]
    /\ kind = [r \in Requests |-> "start"]
    /\ mine = [a \in Actors |-> NoLoop]
    /\ waitOn = [r \in Requests |-> NoLoop]
    /\ tunnelRunning = FALSE /\ explicitStop = FALSE
    /\ tunnelCancel = NoLoop /\ tunnelDone = NoLoop
    /\ cancelled = [g \in Loops |-> FALSE]
    /\ iptablesUp = [g \in Loops |-> FALSE]
    /\ clientPtr = NoLoop
    /\ rules = FALSE
    /\ st = [Running |-> FALSE, Connected |-> FALSE, State |-> "IDLE"]
    /\ prop = "disconnected"
    /\ pending = FALSE /\ lastStatus = "" /\ monitorWrite = ""
    /\ profile \in BOOLEAN
    /\ signalled = FALSE /\ exited = FALSE
    /\ late = FALSE
    /\ lastDone = "none"

-----------------------------------------------------------------------------
(* Helpers *)

Goto(a, label) == pc' = [pc EXCEPT ![a] = label]

\* state.set: write the fields, then notify every subscriber.
Set(s) == st' = s /\ pending' = TRUE

\* The fields startTunnel's goroutine and stopTunnel publish for a stopped
\* tunnel.
Stopped == [Running |-> FALSE, Connected |-> FALSE, State |-> "IDLE"]

\* How a request ends: as what it was, unless a loop that a stop gave up on was
\* still there.
Outcome(r) == IF late THEN "late" ELSE kind[r]

\* The goroutine returns; a loop's goroutine closes its done channel.
Finish(a, outcome) ==
    IF a \in Loops
    THEN Goto(a, "gone") /\ UNCHANGED lastDone
    ELSE Goto(a, "idle") /\ lastDone' = outcome

\* A start that has not launched anything yet returns without a loop.
Quit(a, outcome) ==
    /\ Finish(a, outcome)
    /\ UNCHANGED <<mine, waitOn, flagVars, loopVars, prop, monitorVars, envVars,
                   kind, late>>

-----------------------------------------------------------------------------
(* /api/v1/control: each accepted request runs in a goroutine of its own *)

Issue(r, k) ==
    /\ pc[r] = "idle"
    /\ Overlap \/ \A q \in Requests : pc[q] = "idle"
    /\ kind' = [kind EXCEPT ![r] = k]
    /\ Goto(r, IF k = "start" THEN "s_check" ELSE "t_check")
    /\ late' = (late /\ \E g \in Loops : pc[g] \notin {"idle", "gone"})
    /\ lastDone' = "none"
    /\ UNCHANGED <<mine, waitOn, flagVars, loopVars, pubVars, prop, monitorVars, envVars>>

\* The profiles file gets a selected profile.
SelectProfile ==
    /\ ~profile
    /\ profile' = TRUE
    /\ UNCHANGED <<pc, mine, waitOn, flagVars, loopVars, pubVars, prop,
                   monitorVars, signalled, exited, reqVars>>

-----------------------------------------------------------------------------
(* startTunnel, run by a request or by a loop goroutine that restarts itself *)

StartCheck(a) ==
    /\ pc[a] = "s_check"
    /\ \/ /\ tunnelRunning
          /\ Quit(a, Outcome(a))
          /\ UNCHANGED pubVars
       \/ /\ ~tunnelRunning
          /\ Goto(a, "s_load")
          /\ UNCHANGED <<mine, waitOn, flagVars, loopVars, pubVars, prop,
                         monitorVars, envVars, reqVars>>

\* Re-read the profiles; without a selected one publish the error and return.
StartLoad(a) ==
    /\ pc[a] = "s_load"
    /\ \/ /\ ~profile
          /\ Set(st)
          /\ Quit(a, "refused")
       \/ /\ profile
          /\ Goto(a, "s_mark")
          /\ UNCHANGED <<mine, waitOn, flagVars, loopVars, pubVars, prop,
                         monitorVars, envVars, reqVars>>

StartMark(a) ==
    /\ pc[a] = "s_mark"
    /\ tunnelRunning' = TRUE
    /\ Goto(a, "s_clear")
    /\ UNCHANGED <<mine, waitOn, explicitStop, tunnelCancel, tunnelDone,
                   loopVars, pubVars, prop, monitorVars, envVars, reqVars>>

StartClear(a) ==
    /\ pc[a] = "s_clear"
    /\ explicitStop' = FALSE
    /\ Goto(a, "s_done")
    /\ UNCHANGED <<mine, waitOn, tunnelRunning, tunnelCancel, tunnelDone,
                   loopVars, pubVars, prop, monitorVars, envVars, reqVars>>

\* A goroutine slot for a new loop: never used, or gone and not waited for.
Free(g) == pc[g] \in {"idle", "gone"} /\ \A r \in Requests : waitOn[r] # g

\* A new done channel replaces the shared one ...
StartDone(a) ==
    /\ pc[a] = "s_done"
    /\ \E g \in Loops :
         /\ Free(g) /\ \A b \in Actors : mine[b] # g
         /\ mine' = [mine EXCEPT ![a] = g]
         /\ tunnelDone' = g
         /\ cancelled' = [cancelled EXCEPT ![g] = FALSE]
         /\ iptablesUp' = [iptablesUp EXCEPT ![g] = FALSE]
         /\ pc' = [pc EXCEPT ![a] = "s_ctx", ![g] = "idle"]
    /\ UNCHANGED <<waitOn, tunnelRunning, explicitStop, tunnelCancel, clientPtr,
                   rules, pubVars, prop, monitorVars, envVars, reqVars>>

\* ... and then a new context.
StartContext(a) ==
    /\ pc[a] = "s_ctx"
    /\ tunnelCancel' = mine[a]
    /\ Goto(a, "s_state")
    /\ UNCHANGED <<mine, waitOn, tunnelRunning, explicitStop, tunnelDone,
                   loopVars, pubVars, prop, monitorVars, envVars, reqVars>>

StartPublish(a) ==
    /\ pc[a] = "s_state"
    /\ Set([st EXCEPT !.Running = TRUE, !.State = "STARTING"])
    /\ Goto(a, "s_prop")
    /\ UNCHANGED <<mine, waitOn, flagVars, loopVars, prop, monitorVars, envVars, reqVars>>

\* Write module.prop, launch the loop's goroutine and return.
StartLaunch(a) ==
    /\ pc[a] = "s_prop"
    /\ prop' = "running"
    /\ pc' = [pc EXCEPT ![mine[a]] = "first",
                        ![a] = IF a \in Loops THEN "gone" ELSE "idle"]
    /\ mine' = [mine EXCEPT ![a] = NoLoop]
    /\ lastDone' = IF a \in Requests THEN Outcome(a) ELSE lastDone
    /\ UNCHANGED <<waitOn, flagVars, loopVars, pubVars, monitorVars, envVars,
                   kind, late>>

StartStep(a) ==
    \/ StartCheck(a) \/ StartLoad(a) \/ StartMark(a) \/ StartClear(a)
    \/ StartDone(a) \/ StartContext(a) \/ StartPublish(a) \/ StartLaunch(a)

-----------------------------------------------------------------------------
(* stopTunnel; a restart goes on with startTunnel 500 ms later *)

AfterStop(r) ==
    IF kind[r] = "restart"
    THEN Goto(r, "s_check") /\ UNCHANGED lastDone
    ELSE Goto(r, "idle") /\ lastDone' = Outcome(r)

StopCheck(r) ==
    /\ pc[r] = "t_check"
    /\ \/ tunnelRunning /\ Goto(r, "t_flag") /\ UNCHANGED lastDone
       \/ ~tunnelRunning /\ AfterStop(r)
    /\ UNCHANGED <<mine, waitOn, flagVars, loopVars, pubVars, prop, monitorVars,
                   envVars, kind, late>>

StopFlag(r) ==
    /\ pc[r] = "t_flag"
    /\ explicitStop' = TRUE
    /\ Goto(r, "t_cancel")
    /\ UNCHANGED <<mine, waitOn, tunnelRunning, tunnelCancel, tunnelDone,
                   loopVars, pubVars, prop, monitorVars, envVars, reqVars>>

\* tunnelCancel(), when a start has stored one.
StopCancel(r) ==
    /\ pc[r] = "t_cancel"
    /\ cancelled' = [g \in Loops |-> cancelled[g] \/ g = tunnelCancel]
    /\ Goto(r, "t_forget")
    /\ UNCHANGED <<mine, waitOn, flagVars, iptablesUp, clientPtr, rules,
                   pubVars, prop, monitorVars, envVars, reqVars>>

StopForget(r) ==
    /\ pc[r] = "t_forget"
    /\ clientPtr' = NoLoop
    /\ Goto(r, "t_done")
    /\ UNCHANGED <<mine, waitOn, flagVars, cancelled, iptablesUp, rules,
                   pubVars, prop, monitorVars, envVars, reqVars>>

\* Read tunnelDone to wait on it, when a start has stored one.
StopDone(r) ==
    /\ pc[r] = "t_done"
    /\ waitOn' = [waitOn EXCEPT ![r] = tunnelDone]
    /\ Goto(r, IF tunnelDone = NoLoop THEN "t_clean" ELSE "t_wait")
    /\ UNCHANGED <<mine, flagVars, loopVars, pubVars, prop, monitorVars,
                   envVars, reqVars>>

\* Mutation: do not wait for the loop's goroutine.
StopDoesNotWait(r) ==
    /\ pc[r] = "t_wait"
    /\ waitOn' = [waitOn EXCEPT ![r] = NoLoop]
    /\ Goto(r, "t_clean")
    /\ UNCHANGED <<mine, flagVars, loopVars, pubVars, prop, monitorVars,
                   envVars, reqVars>>

\* Mutation: wait for the goroutine with no time limit.
StopWaitsForever(r) ==
    /\ pc[r] = "t_wait"
    /\ pc[waitOn[r]] = "gone"
    /\ waitOn' = [waitOn EXCEPT ![r] = NoLoop]
    /\ Goto(r, "t_clean")
    /\ UNCHANGED <<mine, flagVars, loopVars, pubVars, prop, monitorVars,
                   envVars, reqVars>>

\* The done channel is closed, or 5 s have passed.
StopWait(r) ==
    /\ pc[r] = "t_wait"
    /\ late' = (late \/ pc[waitOn[r]] # "gone")
    /\ waitOn' = [waitOn EXCEPT ![r] = NoLoop]
    /\ Goto(r, "t_clean")
    /\ UNCHANGED <<mine, flagVars, loopVars, pubVars, prop, monitorVars,
                   envVars, kind, lastDone>>

\* net_clean.sh removes every rule, whoever installed it.
StopClean(r) ==
    /\ pc[r] = "t_clean"
    /\ rules' = FALSE
    /\ Goto(r, "t_state")
    /\ UNCHANGED <<mine, waitOn, flagVars, cancelled, iptablesUp, clientPtr,
                   pubVars, prop, monitorVars, envVars, reqVars>>

StopPublish(r) ==
    /\ pc[r] = "t_state"
    /\ Set(Stopped)
    /\ Goto(r, "t_prop")
    /\ UNCHANGED <<mine, waitOn, flagVars, loopVars, prop, monitorVars, envVars, reqVars>>

StopProp(r) ==
    /\ pc[r] = "t_prop"
    /\ prop' = "disconnected"
    /\ AfterStop(r)
    /\ UNCHANGED <<mine, waitOn, flagVars, loopVars, pubVars, monitorVars, envVars,
                   kind, late>>

StopStep(r) ==
    \/ StopCheck(r) \/ StopFlag(r) \/ StopCancel(r) \/ StopForget(r) \/ StopDone(r)
    \/ StopWait(r) \/ StopClean(r) \/ StopPublish(r) \/ StopProp(r)

-----------------------------------------------------------------------------
(* tunnelLoop, as far as these goroutines can see it *)

\* Its context, a child of the process's.
Done(g) == cancelled[g] \/ signalled

LoopFrame == UNCHANGED <<mine, waitOn, flagVars, prop, monitorVars, envVars, reqVars>>

\* The delay has passed (it is 0 the first time) and there is no route.
LoopOffline(g) ==
    /\ pc[g] = "first" \/ (pc[g] = "select" /\ ~Done(g))
    /\ Set([st EXCEPT !.State = "PAUSED_NO_NETWORK", !.Connected = FALSE])
    /\ Goto(g, "select")
    /\ UNCHANGED loopVars /\ LoopFrame

LoopDials(g) ==
    /\ pc[g] = "first" \/ (pc[g] = "select" /\ ~Done(g))
    /\ Set([st EXCEPT !.State = "CONNECTING_SSH"])
    /\ Goto(g, "auth")
    /\ UNCHANGED loopVars /\ LoopFrame

LoopAuthFails(g) ==
    /\ pc[g] = "auth"
    /\ Set([st EXCEPT !.State = "RETRY_BACKOFF", !.Connected = FALSE])
    /\ Goto(g, "select")
    /\ UNCHANGED loopVars /\ LoopFrame

\* The authentication succeeds, whether or not the loop was cancelled: store
\* the client and publish CONNECTED.
LoopConnects(g) ==
    /\ pc[g] = "auth"
    /\ clientPtr' = g
    /\ Set([st EXCEPT !.State = "CONNECTED", !.Connected = TRUE])
    /\ Goto(g, IF iptablesUp[g] THEN "up" ELSE "apply")
    /\ UNCHANGED <<cancelled, iptablesUp, rules>> /\ LoopFrame

\* iptables.Apply on the first connection.
LoopApplies(g) ==
    /\ pc[g] = "apply"
    /\ rules' = TRUE
    /\ iptablesUp' = [iptablesUp EXCEPT ![g] = TRUE]
    /\ Goto(g, "up")
    /\ UNCHANGED <<cancelled, clientPtr, pubVars>> /\ LoopFrame

LoopLoses(g) ==
    /\ pc[g] = "up"
    /\ clientPtr' = NoLoop
    /\ Set([st EXCEPT !.State = "RECONNECTING", !.Connected = FALSE])
    /\ Goto(g, "select")
    /\ UNCHANGED <<cancelled, iptablesUp, rules>> /\ LoopFrame

\* The deferred teardown: remove the rules this loop installed, clear the
\* pointer.
Teardown(g) ==
    /\ rules' = (rules /\ ~iptablesUp[g])
    /\ iptablesUp' = [iptablesUp EXCEPT ![g] = FALSE]
    /\ clientPtr' = NoLoop
    /\ UNCHANGED cancelled

\* Mutation: return without the deferred teardown.
LoopReturnsUnclean(g) ==
    /\ pc[g] \in {"first", "select", "up"}
    /\ Done(g)
    /\ Goto(g, "left")
    /\ UNCHANGED <<loopVars, pubVars>> /\ LoopFrame

LoopReturns(g) ==
    /\ pc[g] \in {"first", "select", "up"}
    /\ Done(g)
    /\ Teardown(g)
    /\ Goto(g, "left")
    /\ UNCHANGED pubVars /\ LoopFrame

\* A panic: teardown, recover, close(done).  Nothing after the call of
\* tunnelLoop runs, so tunnelRunning keeps its value.
LoopPanics(g) ==
    /\ MayPanic
    /\ Live(g)
    /\ Teardown(g)
    /\ Goto(g, "gone")
    /\ UNCHANGED pubVars /\ LoopFrame

\* The goroutine after tunnelLoop returned: was a stop asked for?
LoopLeft(g) ==
    /\ pc[g] = "left"
    /\ Goto(g, IF explicitStop \/ signalled THEN "e_flag" ELSE "b_flag")
    /\ UNCHANGED <<loopVars, pubVars>> /\ LoopFrame

\* Either way tunnelRunning is cleared next.
LoopClears(g) ==
    /\ pc[g] \in {"e_flag", "b_flag"}
    /\ tunnelRunning' = FALSE
    /\ Goto(g, IF pc[g] = "e_flag" THEN "e_state" ELSE "backoff")
    /\ UNCHANGED <<mine, waitOn, explicitStop, tunnelCancel, tunnelDone,
                   loopVars, pubVars, prop, monitorVars, envVars, reqVars>>

\* The end of a stop that was asked for ...
LoopPublishesStop(g) ==
    /\ pc[g] = "e_state"
    /\ Set(Stopped)
    /\ Goto(g, "e_prop")
    /\ UNCHANGED loopVars /\ LoopFrame

LoopProp(g) ==
    /\ pc[g] = "e_prop"
    /\ prop' = "disconnected"
    /\ Goto(g, "gone")
    /\ UNCHANGED <<mine, waitOn, flagVars, loopVars, pubVars, monitorVars,
                   envVars, reqVars>>

\* ... or an unexpected end: restart after a backoff, unless stopped meanwhile.
LoopRestarts(g) ==
    /\ pc[g] = "backoff"
    /\ Goto(g, IF signalled \/ explicitStop THEN "gone" ELSE "s_check")
    /\ UNCHANGED <<loopVars, pubVars>> /\ LoopFrame

LoopStep(g) ==
    \/ LoopOffline(g) \/ LoopDials(g) \/ LoopAuthFails(g) \/ LoopConnects(g)
    \/ LoopApplies(g) \/ LoopLoses(g) \/ LoopReturns(g) \/ LoopPanics(g)
    \/ LoopLeft(g) \/ LoopClears(g) \/ LoopPublishesStop(g) \/ LoopProp(g)
    \/ LoopRestarts(g)

-----------------------------------------------------------------------------
(* The goroutine that mirrors State into module.prop *)

StatusOf(s) ==
    IF s.Connected THEN "running"
    ELSE IF s.Running
         THEN IF s.State = "PAUSED_NO_NETWORK" THEN "standby" ELSE "running"
         ELSE "disconnected"

\* Mutation: take the status of the previous notification for the new one.
MonitorReadsOnce ==
    /\ pending /\ monitorWrite = ""
    /\ pending' = FALSE
    /\ lastStatus' = StatusOf(st)
    /\ monitorWrite' = IF lastStatus = "" THEN StatusOf(st) ELSE ""
    /\ UNCHANGED <<pc, mine, waitOn, flagVars, loopVars, st, prop, envVars, reqVars>>

\* Take the (coalesced) notification and read State under its lock.
MonitorReads ==
    /\ pending /\ monitorWrite = ""
    /\ pending' = FALSE
    /\ lastStatus' = StatusOf(st)
    /\ monitorWrite' = IF StatusOf(st) # lastStatus THEN StatusOf(st) ELSE ""
    /\ UNCHANGED <<pc, mine, waitOn, flagVars, loopVars, st, prop, envVars, reqVars>>

MonitorWrites ==
    /\ monitorWrite # ""
    /\ prop' = monitorWrite
    /\ monitorWrite' = ""
    /\ UNCHANGED <<pc, mine, waitOn, flagVars, loopVars, pubVars, lastStatus,
                   envVars, reqVars>>

-----------------------------------------------------------------------------
(* The process *)

\* SIGTERM or SIGINT cancels the process's context.
Signal ==
    /\ MaySignal /\ ~signalled
    /\ signalled' = TRUE
    /\ UNCHANGED <<pc, mine, waitOn, flagVars, loopVars, pubVars, prop,
                   monitorVars, profile, exited, reqVars>>

\* run returns once the HTTP server is shut down (5 s at most); it waits for no
\* other goroutine.
Exit ==
    /\ signalled
    /\ exited' = TRUE
    /\ Set([st EXCEPT !.Running = FALSE, !.Connected = FALSE, !.State = "STOPPED"])
    /\ UNCHANGED <<pc, mine, waitOn, flagVars, loopVars, prop, monitorVars,
                   profile, signalled, reqVars>>

-----------------------------------------------------------------------------
Next ==
    /\ ~exited
    /\ \/ \E r \in Requests : (\E k \in Kinds : Issue(r, k)) \/ StopStep(r)
       \/ \E a \in Actors : StartStep(a)
       \/ \E g \in Loops : LoopStep(g)
       \/ SelectProfile \/ MonitorReads \/ MonitorWrites \/ Signal \/ Exit

Spec == Init /\ [][Next]_vars

\* The steps of stopTunnel are taken: the scheduler runs its goroutine, its
\* 5 s timer fires, net_clean.sh ends.  Nothing is assumed of the loop, which
\* may sit in an SSH handshake for ever.
StopFairness == \A r \in Requests : WF_vars(~exited /\ StopStep(r))

StopSpec == Spec /\ StopFairness

-----------------------------------------------------------------------------
(* Properties *)

\* When a stop has returned, and no loop outlasted its stop, the tunnel is down
\* in every respect: no loop, no client, no rules, nothing published, and the
\* next start is not refused.
StopIsComplete ==
    lastDone = "stop" => /\ \A g \in Loops : ~Live(g)
                         /\ ~rules
                         /\ clientPtr = NoLoop
                         /\ st = Stopped
                         /\ ~tunnelRunning

\* No procedure is in progress and the monitor has nothing left to do.
Quiet ==
    /\ \A r \in Requests : pc[r] = "idle"
    /\ \A g \in Loops : pc[g] \in {"idle", "gone"} \cup RunPCs
    /\ ~pending /\ monitorWrite = ""

\* A stopped tunnel is never shown as running: however late the monitor's write
\* of an earlier status comes, module.prop ends up "disconnected".
PropStopped == Quiet /\ lastDone = "stop" => prop = "disconnected"

\* Complete rules always have a running loop that will remove them: no order of
\* requests, time-outs and panics leaves them to nobody while the process lives.
RulesOwned ==
    rules /\ ~exited => \E g \in Loops : Live(g) /\ iptablesUp[g]

\* The client pointer never outlives the session it was stored for, although
\* several loops and every stop store to it.
ClientOwned == clientPtr # NoLoop => pc[clientPtr] \in {"apply", "up"}

\* stopTunnel returns, even when the loop it waits for never does.
StopReturns ==
    \A r \in Requests : pc[r] \in StopPCs ~> (pc[r] \notin StopPCs \/ exited)

\* The comment in stopTunnel: it waits for the goroutine because otherwise the
\* rules might be reinstalled "after net_clean.sh removes them".
StoppedStaysClean ==
    \A r \in Requests : kind[r] = "stop" /\ lastDone \in {"stop", "late"} => ~rules

\* The comment in tunnelLoop: "Rules are only cleaned on an explicit
\* stop/shutdown"; so a connected loop that nobody stopped keeps its rules when
\* another one is stopped.  A start that overtakes the end of a stop loses them
\* to its net_clean.sh, and so does the first of two overlapping starts when
\* the loop of the second is stopped.
RunningStaysRouted ==
    \A g, h \in Loops :
        pc[g] = "up" /\ iptablesUp[g] /\ ~Done(g) /\ h # g /\ cancelled[h] => rules

=============================================================================
