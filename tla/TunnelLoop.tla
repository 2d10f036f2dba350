----------------------------- MODULE TunnelLoop -----------------------------
(***************************************************************************)
(* The connection manager of the daemon: tunnelLoop in                     *)
(* cmd/sshcustomd/engine.go, with the goroutines that run beside it - the  *)
(* keepAlive goroutine of the current SSH client, the handlers that open   *)
(* streams through it, and stopTunnel, which cancels the loop's context    *)
(* and clears the shared client pointer (main.go).                         *)
(*                                                                         *)
(* One action per step the other goroutines can tell apart: a blocking     *)
(* wait, a store to the shared pointer, a published State, a change of the *)
(* kernel's rules.  Time is abstract: a timer may fire whenever it is      *)
(* armed.  `delay' keeps its value in seconds, because the backoff is part *)
(* of the behaviour.                                                       *)
(***************************************************************************)
EXTENDS Naturals

CONSTANTS
    Streams,             \* concurrent SOCKS5 / transparent handlers
    BaseDelay,           \* baseDelay, 1 s in the code
    MaxDelay,            \* maxDelay, 30 s in the code
    OfflineDelay,        \* pause between route probes while offline, 5 s
    MaxMissed,           \* keepalives missed in a row before Close, 3
    MaxTransportErrors   \* errors that trip the circuit breaker, 5

ASSUME DelayAssumption ==
    /\ BaseDelay \in Nat \ {0}
    /\ MaxDelay \in Nat
    /\ OfflineDelay \in BaseDelay..MaxDelay

ASSUME LimitAssumption ==
    /\ MaxMissed \in Nat \ {0}
    /\ MaxTransportErrors \in Nat \ {0}

VARIABLES
    pc,           \* where tunnelLoop is
    ctxDone,      \* ctx, cancelled by stopTunnel or by a shutdown signal
    panicked,     \* the loop was left by a panic that startTunnel recovers
    online,       \* what the route probe sees
    delay,        \* the local variable delay, in seconds
    listenerUp,   \* listenerCancel # nil: SOCKS5, transparent and DNS run
    iptablesUp,   \* the local variable iptablesUp
    rules,        \* the kernel's redirect rules: "none", "partial", "full"
    clientPtr,    \* the shared atomic pointer: "nil" or the newest client
    link,         \* the newest SSH session
    clientDone,   \* its context was cancelled by Close
    keepAlive,    \* its keepAlive goroutine is running
    missed,       \* the keepAlive goroutine's counter
    dial,         \* per stream: no dial in flight, on this or an old session
    transportErrorCount,
    ownErrors,    \* history: those of its errors the newest session caused
    cfgEnabled,   \* cfg.TransparentProxy.Enabled; no handler changes it
    st            \* the fields of State the loop publishes

loopVars == <<pc, delay, listenerUp, iptablesUp, rules, st>>
sessionVars == <<clientPtr, link, clientDone, keepAlive, missed>>
errorVars == <<dial, transportErrorCount, ownErrors>>
envVars == <<ctxDone, panicked, online, cfgEnabled>>
vars == <<loopVars, sessionVars, errorVars, envVars>>

\* "auth" is the set-up of the transport and "handshake" the SSH handshake on
\* it; attemptSSHAuth is both.
PCs == {"select", "route", "auth", "handshake", "publish", "listen", "apply",
        "applying", "wait", "lost", "report", "teardown", "rulesOff", "done"}

\* The steps after the loop has decided to return.
Leaving == {"teardown", "rulesOff", "done"}

StateNames == {"STARTING", "PAUSED_NO_NETWORK", "CONNECTING_SSH",
               "RETRY_BACKOFF", "CONNECTED", "RECONNECTING"}

\* The fields of State that the loop writes, less texts and counters.
StateFields ==
    [State: StateNames, Connected: BOOLEAN, PoolHealthy: {0, 1},
     PoolReconnecting: {0, 1}, NetworkOnline: BOOLEAN,
     TransparentApplied: BOOLEAN]

\* "silent": the carrier is gone without a reset; "corrupt": the session still
\* answers keepalives but its streams fail with transport errors.
Links == {"none", "up", "silent", "corrupt", "closed"}

OpenLinks == {"up", "silent", "corrupt"}

\* The steps at which the loop holds no SSH session.
Disconnected == {"select", "route", "auth", "handshake"}

TypeOK ==
    /\ pc \in PCs
    /\ ctxDone \in BOOLEAN
    /\ panicked \in BOOLEAN
    /\ online \in BOOLEAN
    /\ delay \in {0} \cup BaseDelay..MaxDelay
    /\ listenerUp \in BOOLEAN
    /\ iptablesUp \in BOOLEAN
    /\ rules \in {"none", "partial", "full"}
    /\ clientPtr \in {"nil", "tc"}
    /\ link \in Links
    /\ clientDone \in BOOLEAN
    /\ keepAlive \in BOOLEAN
    /\ missed \in 0..MaxMissed
    /\ dial \in [Streams -> {"idle", "current", "old"}]
    /\ transportErrorCount \in 0..MaxTransportErrors
    /\ ownErrors \in 0..MaxTransportErrors
    /\ cfgEnabled \in BOOLEAN
    /\ st \in StateFields

\* startTunnel publishes STARTING and then runs the loop in a new goroutine.
Init ==
    /\ pc = "select"
    /\ ctxDone = FALSE
    /\ panicked = FALSE
    /\ online \in BOOLEAN
    /\ delay = 0
    /\ listenerUp = FALSE
    /\ iptablesUp = FALSE
    /\ rules = "none"
    /\ clientPtr = "nil"
    /\ link = "none"
    /\ clientDone = FALSE
    /\ keepAlive = FALSE
    /\ missed = 0
    /\ dial = [s \in Streams |-> "idle"]
    /\ transportErrorCount = 0
    /\ ownErrors = 0
    /\ cfgEnabled \in BOOLEAN
    /\ st = [State |-> "STARTING", Connected |-> FALSE, PoolHealthy |-> 0,
             PoolReconnecting |-> 0, NetworkOnline |-> FALSE,
             TransparentApplied |-> FALSE]

-----------------------------------------------------------------------------
(* Helpers of the loop *)

\* Mutation: the doubled delay is not capped.
nextDelayUncapped(cur, base, max) ==
    IF cur = 0 THEN base ELSE 2 * cur

nextDelay(cur, base, max) ==
    IF cur = 0 THEN base
    ELSE IF 2 * cur > max THEN max ELSE 2 * cur

\* The fields every "not connected" publication writes.  Connected stands for
\* Connected, SSHAuthenticated and TransportReady, which the loop always
\* writes together.
Down(name) ==
    [st EXCEPT !.State = name, !.Connected = FALSE, !.PoolHealthy = 0]

\* tc.Close(): cancel the client's context and close the SSH connection.  The
\* keepAlive goroutine sees it at its next select, after a reply it may still
\* be waiting for.
CloseClient ==
    /\ link' = "closed"
    /\ clientDone' = TRUE
    /\ UNCHANGED <<keepAlive, missed>>

-----------------------------------------------------------------------------
(* tunnelLoop: waiting, probing the route, authenticating *)

\* The head of the loop: with the context done the select returns.
SelectDone ==
    /\ pc = "select"
    /\ ctxDone
    /\ pc' = "teardown"
    /\ UNCHANGED <<delay, listenerUp, iptablesUp, rules, st>>
    /\ UNCHANGED <<sessionVars, errorVars, envVars>>

\* The delay elapses.  With the context done as well, both cases are ready
\* only when the timer was armed with 0; the select then picks either.
SelectTimer ==
    /\ pc = "select"
    /\ ~ctxDone \/ delay = 0
    /\ pc' = "route"
    /\ UNCHANGED <<delay, listenerUp, iptablesUp, rules, st>>
    /\ UNCHANGED <<sessionVars, errorVars, envVars>>

\* The route probe fails: publish PAUSED_NO_NETWORK and pause.
RouteOffline ==
    /\ pc = "route"
    /\ ~online
    /\ st' = [Down("PAUSED_NO_NETWORK") EXCEPT !.NetworkOnline = FALSE]
    /\ delay' = OfflineDelay
    /\ pc' = "select"
    /\ UNCHANGED <<listenerUp, iptablesUp, rules>>
    /\ UNCHANGED <<sessionVars, errorVars, envVars>>

\* There is a route: publish CONNECTING_SSH (which leaves Connected alone)
\* and start the transport.
RouteOnline ==
    /\ pc = "route"
    /\ online
    /\ st' = [st EXCEPT !.State = "CONNECTING_SSH", !.NetworkOnline = TRUE]
    /\ pc' = "auth"
    /\ UNCHANGED <<delay, listenerUp, iptablesUp, rules>>
    /\ UNCHANGED <<sessionVars, errorVars, envVars>>

\* Mutation: tear the routing down when a reconnect attempt fails.
AuthFailedFailOpen ==
    /\ pc \in {"auth", "handshake"}
    /\ st' = Down("RETRY_BACKOFF")
    /\ delay' = nextDelay(delay, BaseDelay, MaxDelay)
    /\ pc' = "select"
    /\ rules' = "none"
    /\ iptablesUp' = FALSE
    /\ UNCHANGED listenerUp
    /\ UNCHANGED <<sessionVars, errorVars, envVars>>

\* Mutation: give up on an authentication error.
AuthFailedGivesUp ==
    /\ pc \in {"auth", "handshake"}
    /\ st' = Down("RETRY_BACKOFF")
    /\ pc' = "teardown"
    /\ UNCHANGED <<delay, listenerUp, iptablesUp, rules>>
    /\ UNCHANGED <<sessionVars, errorVars, envVars>>

\* openPreparedSSHConn returns a socket, within its timeouts, and the SSH
\* handshake begins on it, which has none and does not watch the context.
TransportOpens ==
    /\ pc = "auth"
    /\ pc' = "handshake"
    /\ UNCHANGED <<delay, listenerUp, iptablesUp, rules, st>>
    /\ UNCHANGED <<sessionVars, errorVars, envVars>>

\* attemptSSHAuth returns an error: publish RETRY_BACKOFF, back off and keep
\* the routing rules.
AuthFailed ==
    /\ pc \in {"auth", "handshake"}
    /\ st' = Down("RETRY_BACKOFF")
    /\ delay' = nextDelay(delay, BaseDelay, MaxDelay)
    /\ pc' = "select"
    /\ UNCHANGED <<listenerUp, iptablesUp, rules>>
    /\ UNCHANGED <<sessionVars, errorVars, envVars>>

\* attemptSSHAuth returns a client, whether or not the context was cancelled
\* meanwhile: reset the delay, start the keepAlive goroutine and store the
\* pointer.  transportErrorCount is kept.  The goroutine of the client before
\* may still be there; it can only close its own connection again.
AuthSucceeded ==
    /\ pc = "handshake"
    /\ delay' = BaseDelay
    /\ link' = "up"
    /\ clientDone' = FALSE
    /\ keepAlive' = TRUE
    /\ missed' = 0
    /\ clientPtr' = "tc"
    /\ dial' = [s \in Streams |->
                  IF dial[s] = "current" THEN "old" ELSE dial[s]]
    /\ ownErrors' = 0
    /\ pc' = "publish"
    /\ UNCHANGED <<listenerUp, iptablesUp, rules, st, transportErrorCount>>
    /\ UNCHANGED envVars

\* A panic anywhere in the loop unwinds it; its deferred teardown runs and the
\* recover in startTunnel's goroutine swallows it.  Nothing closes the client.
LoopPanics ==
    /\ pc \notin Leaving
    /\ panicked' = TRUE
    /\ pc' = "teardown"
    /\ UNCHANGED <<delay, listenerUp, iptablesUp, rules, st>>
    /\ UNCHANGED <<sessionVars, errorVars, ctxDone, online, cfgEnabled>>

-----------------------------------------------------------------------------
(* tunnelLoop: connected *)

\* Publish CONNECTED; the listeners and the rules come up on the first
\* connection only.
Publish ==
    /\ pc = "publish"
    /\ st' = [st EXCEPT !.State = "CONNECTED", !.Connected = TRUE,
                        !.PoolHealthy = 1, !.PoolReconnecting = 0]
    /\ pc' = IF listenerUp THEN "wait" ELSE "listen"
    /\ UNCHANGED <<delay, listenerUp, iptablesUp, rules>>
    /\ UNCHANGED <<sessionVars, errorVars, envVars>>

\* startListeners, and the 150 ms they are given to bind.
StartListeners ==
    /\ pc = "listen"
    /\ listenerUp' = TRUE
    /\ pc' = IF cfgEnabled THEN "apply" ELSE "wait"
    /\ UNCHANGED <<delay, iptablesUp, rules, st>>
    /\ UNCHANGED <<sessionVars, errorVars, envVars>>

\* iptables.Apply runs its commands one by one.
ApplyBegins ==
    /\ pc = "apply"
    /\ rules' = "partial"
    /\ pc' = "applying"
    /\ UNCHANGED <<delay, listenerUp, iptablesUp, st>>
    /\ UNCHANGED <<sessionVars, errorVars, envVars>>

\* Apply reports no error: the redirect is in place, though commands whose
\* errors Apply drops may have failed (see Iptables).
ApplySucceeds ==
    /\ pc = "applying"
    /\ rules' = "full"
    /\ iptablesUp' = TRUE
    /\ st' = [st EXCEPT !.TransparentApplied = TRUE]
    /\ pc' = "wait"
    /\ UNCHANGED <<delay, listenerUp>>
    /\ UNCHANGED <<sessionVars, errorVars, envVars>>

\* Some command failed in a way Apply reports: it returns an error, what it did stays in the
\* kernel, and the session goes on without iptablesUp.
ApplyFails ==
    /\ pc = "applying"
    /\ st' = [st EXCEPT !.TransparentApplied = FALSE]
    /\ pc' = "wait"
    /\ UNCHANGED <<delay, listenerUp, iptablesUp, rules>>
    /\ UNCHANGED <<sessionVars, errorVars, envVars>>

\* Mutation: return without closing the client.
WaitDoneLeaksClient ==
    /\ pc = "wait"
    /\ ctxDone
    /\ clientPtr' = "nil"
    /\ pc' = "teardown"
    /\ UNCHANGED <<delay, listenerUp, iptablesUp, rules, st>>
    /\ UNCHANGED <<link, clientDone, keepAlive, missed, errorVars, envVars>>

\* Mutation: the wait does not listen to the context.
WaitDoneIgnored ==
    /\ FALSE
    /\ UNCHANGED vars

\* The context is done while connected: close the client and return.
WaitDone ==
    /\ pc = "wait"
    /\ ctxDone
    /\ CloseClient
    /\ clientPtr' = "nil"
    /\ pc' = "teardown"
    /\ UNCHANGED <<delay, listenerUp, iptablesUp, rules, st>>
    /\ UNCHANGED <<errorVars, envVars>>

\* tc.Wait() returned: the SSH connection is gone.
WaitClientGone ==
    /\ pc = "wait"
    /\ link = "closed"
    /\ pc' = "lost"
    /\ UNCHANGED <<delay, listenerUp, iptablesUp, rules, st>>
    /\ UNCHANGED <<sessionVars, errorVars, envVars>>

\* The health ticker with few errors: take the count, refresh the statistics.
HealthTick ==
    /\ pc = "wait"
    /\ transportErrorCount < MaxTransportErrors
    /\ transportErrorCount' = 0
    /\ ownErrors' = 0
    /\ st' = [st EXCEPT !.NetworkOnline = online]
    /\ UNCHANGED <<pc, delay, listenerUp, iptablesUp, rules, dial>>
    /\ UNCHANGED <<sessionVars, envVars>>

\* Mutation: the breaker leaves the loop instead of the session.
HealthTripReturns ==
    /\ pc = "wait"
    /\ transportErrorCount >= MaxTransportErrors
    /\ transportErrorCount' = 0
    /\ ownErrors' = 0
    /\ CloseClient
    /\ clientPtr' = "nil"
    /\ pc' = "teardown"
    /\ UNCHANGED <<delay, listenerUp, iptablesUp, rules, st, dial>>
    /\ UNCHANGED envVars

\* The circuit breaker: too many transport errors since the last tick.
HealthTrip ==
    /\ pc = "wait"
    /\ transportErrorCount >= MaxTransportErrors
    /\ transportErrorCount' = 0
    /\ ownErrors' = 0
    /\ CloseClient
    /\ clientPtr' = "nil"
    /\ pc' = "lost"
    /\ UNCHANGED <<delay, listenerUp, iptablesUp, rules, st, dial>>
    /\ UNCHANGED envVars

\* Mutation: the dead client stays in the shared pointer.
DropClientKeepsPointer ==
    /\ pc = "lost"
    /\ CloseClient
    /\ pc' = "report"
    /\ UNCHANGED <<delay, listenerUp, iptablesUp, rules, st, clientPtr>>
    /\ UNCHANGED <<errorVars, envVars>>

\* The session is over: close the client (again) and clear the pointer.
DropClient ==
    /\ pc = "lost"
    /\ CloseClient
    /\ clientPtr' = "nil"
    /\ pc' = "report"
    /\ UNCHANGED <<delay, listenerUp, iptablesUp, rules, st>>
    /\ UNCHANGED <<errorVars, envVars>>

\* Publish RECONNECTING and go back to the head of the loop.
ReportLost ==
    /\ pc = "report"
    /\ st' = [Down("RECONNECTING") EXCEPT !.PoolReconnecting = 1]
    /\ delay' = BaseDelay
    /\ pc' = "select"
    /\ UNCHANGED <<listenerUp, iptablesUp, rules>>
    /\ UNCHANGED <<sessionVars, errorVars, envVars>>

-----------------------------------------------------------------------------
(* The deferred teardown *)

\* teardown cancels the listeners first.
TeardownListeners ==
    /\ pc = "teardown"
    /\ listenerUp' = FALSE
    /\ pc' = "rulesOff"
    /\ UNCHANGED <<delay, iptablesUp, rules, st>>
    /\ UNCHANGED <<sessionVars, errorVars, envVars>>

\* Rules are removed only when Apply had succeeded.
TeardownRules ==
    /\ pc = "rulesOff"
    /\ rules' = IF iptablesUp THEN "none" ELSE rules
    /\ iptablesUp' = FALSE
    /\ clientPtr' = "nil"
    /\ pc' = "done"
    /\ UNCHANGED <<delay, listenerUp, st, link, clientDone, keepAlive, missed>>
    /\ UNCHANGED <<errorVars, envVars>>

-----------------------------------------------------------------------------
(* keepAlive, the goroutine of the current client *)

\* A reply within 5 s.
KeepAliveReply ==
    /\ keepAlive
    /\ link \in {"up", "corrupt"}
    /\ missed' = 0
    /\ UNCHANGED <<loopVars, clientPtr, link, clientDone, keepAlive>>
    /\ UNCHANGED <<errorVars, envVars>>

\* Mutation: a timeout is not counted.
KeepAliveMissUncounted ==
    /\ keepAlive
    /\ link \in OpenLinks
    /\ UNCHANGED vars

\* An error, or no reply within 5 s (also on a slow link that is up): count
\* it, and at the limit close the connection and return.
KeepAliveMiss ==
    /\ keepAlive
    /\ link # "none"
    /\ missed' = missed + 1
    /\ IF missed + 1 >= MaxMissed
       THEN link' = "closed" /\ keepAlive' = FALSE
       ELSE UNCHANGED <<link, keepAlive>>
    /\ UNCHANGED <<loopVars, clientPtr, clientDone, errorVars, envVars>>

\* The client's context is done: by Close, or as a child of the loop's.
KeepAliveDone ==
    /\ keepAlive
    /\ clientDone \/ ctxDone
    /\ keepAlive' = FALSE
    /\ UNCHANGED <<loopVars, clientPtr, link, clientDone, missed>>
    /\ UNCHANGED <<errorVars, envVars>>

-----------------------------------------------------------------------------
(* The handlers that open streams: curClient, DialTCP, logTunnelOpenError *)

\* A handler reads the pointer and opens a channel; with no client it drops
\* the connection.
DialStart(s) ==
    /\ listenerUp
    /\ dial[s] = "idle"
    /\ clientPtr = "tc"
    /\ dial' = [dial EXCEPT ![s] = "current"]
    /\ UNCHANGED <<loopVars, sessionVars, transportErrorCount, ownErrors>>
    /\ UNCHANGED envVars

\* The dial ends and nothing is counted: the channel opens, the server refuses
\* the target, the context ends it, or the session closes while the dial
\* waits for the answer ("unexpected packet", which is not in the list).
DialEnds(s) ==
    /\ dial[s] # "idle"
    /\ ctxDone \/ dial[s] = "old" \/ link # "silent"
    /\ dial' = [dial EXCEPT ![s] = "idle"]
    /\ UNCHANGED <<loopVars, sessionVars, transportErrorCount, ownErrors>>
    /\ UNCHANGED envVars

\* The session is closed or corrupt when the dial writes its request: an error
\* that logTunnelOpenError counts.  The counter saturates at the breaker's
\* limit, above which it makes no difference.
DialBroken(s) ==
    /\ \/ dial[s] = "old"
       \/ dial[s] = "current" /\ link \in {"corrupt", "closed"}
    /\ dial' = [dial EXCEPT ![s] = "idle"]
    /\ transportErrorCount' = IF transportErrorCount < MaxTransportErrors
                              THEN transportErrorCount + 1
                              ELSE transportErrorCount
    /\ ownErrors' = IF dial[s] = "current" /\ ownErrors < MaxTransportErrors
                    THEN ownErrors + 1 ELSE ownErrors
    /\ UNCHANGED <<loopVars, sessionVars, envVars>>

-----------------------------------------------------------------------------
(* The environment: stopTunnel or a signal, the carrier, the SSH server *)

\* tunnelCancel(), or the parent context on a shutdown signal.
Cancel ==
    /\ ~ctxDone
    /\ ctxDone' = TRUE
    /\ UNCHANGED <<loopVars, sessionVars, errorVars>>
    /\ UNCHANGED <<panicked, online, cfgEnabled>>

\* stopTunnel stores nil right after it cancels.
StopClearsPointer ==
    /\ ctxDone
    /\ clientPtr' = "nil"
    /\ UNCHANGED <<loopVars, link, clientDone, keepAlive, missed>>
    /\ UNCHANGED <<errorVars, envVars>>

RouteChanges ==
    /\ online' = ~online
    /\ UNCHANGED <<loopVars, sessionVars, errorVars>>
    /\ UNCHANGED <<ctxDone, panicked, cfgEnabled>>

LinkFails ==
    /\ link \in OpenLinks
    /\ link' \in IF link = "up" THEN {"silent", "corrupt", "closed"}
                 ELSE {"closed"}
    /\ UNCHANGED <<loopVars, clientPtr, clientDone, keepAlive, missed>>
    /\ UNCHANGED <<errorVars, envVars>>

-----------------------------------------------------------------------------
\* openPreparedSSHConn returns.
TransportReturns == TransportOpens \/ (pc = "auth" /\ AuthFailed)

\* The SSH handshake returns.
HandshakeReturns == AuthSucceeded \/ (pc = "handshake" /\ AuthFailed)

ApplyReturns == ApplySucceeds \/ ApplyFails

LoopNext ==
    \/ SelectDone \/ SelectTimer \/ RouteOffline \/ RouteOnline
    \/ TransportOpens \/ AuthFailed \/ AuthSucceeded \/ LoopPanics
    \/ Publish \/ StartListeners \/ ApplyBegins \/ ApplySucceeds \/ ApplyFails
    \/ WaitDone \/ WaitClientGone \/ HealthTick \/ HealthTrip
    \/ DropClient \/ ReportLost
    \/ TeardownListeners \/ TeardownRules

KeepAliveNext == KeepAliveReply \/ KeepAliveMiss \/ KeepAliveDone

StreamNext == \E s \in Streams : DialStart(s) \/ DialEnds(s) \/ DialBroken(s)

EnvNext == Cancel \/ StopClearsPointer \/ RouteChanges \/ LinkFails

Next == LoopNext \/ KeepAliveNext \/ StreamNext \/ EnvNext

Spec == Init /\ [][Next]_vars

\* Goroutines are scheduled, tickers fire, the transport set-up returns (every
\* step of it has a timeout), iptables commands end; a ready case of a select
\* is not passed over forever.  Nothing is assumed of the SSH handshake, which
\* lasts as long as the peer likes.
Fairness ==
    /\ WF_vars(SelectDone) /\ WF_vars(SelectTimer)
    /\ WF_vars(RouteOffline \/ RouteOnline)
    /\ WF_vars(TransportReturns)
    /\ WF_vars(Publish) /\ WF_vars(StartListeners)
    /\ WF_vars(ApplyBegins) /\ WF_vars(ApplyReturns)
    /\ WF_vars(WaitDone) /\ WF_vars(WaitClientGone) /\ WF_vars(HealthTrip)
    /\ WF_vars(DropClient) /\ WF_vars(ReportLost)
    /\ WF_vars(TeardownListeners) /\ WF_vars(TeardownRules)
    /\ WF_vars(KeepAliveReply \/ KeepAliveMiss)

LiveSpec == Spec /\ Fairness

\* An assumption on the peer, not on the code: it brings every handshake to an
\* end, one way or the other.
AnsweringPeer == WF_vars(HandshakeReturns)

\* An assumption on the peer and the carrier: the server is reached and accepts
\* the credentials whenever this is tried often enough.
ReachableServer == SF_vars(TransportOpens) /\ SF_vars(AuthSucceeded)

-----------------------------------------------------------------------------
(* Properties *)

\* Fail-closed routing: once Apply succeeded, the redirect rules stay complete
\* through every failed attempt, lost link, offline period and breaker trip;
\* they go only after the loop was cancelled or left by a panic.
FailClosed ==
    [][rules = "full" /\ rules' # "full" => ctxDone \/ panicked]_vars

\* While the loop is between two sessions no handler can obtain a client, no
\* earlier SSH connection is left open and no keepAlive goroutine is left that
\* was not told to end: a reconnect never leaks the session it replaces.
NoStaleClient ==
    pc \in Disconnected =>
        /\ clientPtr = "nil"
        /\ link \notin OpenLinks
        /\ keepAlive => clientDone

\* The published status is honest: CONNECTED, the Connected flags and
\* PoolHealthy always agree, although CONNECTING_SSH is published without
\* writing the flags, and none is published between two sessions.
StatusHonest ==
    /\ st.Connected <=> st.State = "CONNECTED"
    /\ st.Connected <=> st.PoolHealthy = 1
    /\ st.Connected => pc \notin Disconnected

\* The loop knows what it has to undo: iptablesUp says exactly that the rules
\* are complete, and TransparentApplied is not published without them while
\* the loop runs.
RoutingKnown ==
    /\ iptablesUp <=> rules = "full"
    /\ st.TransparentApplied /\ pc # "done" => rules = "full"

\* When the loop has returned nothing of it is left, wherever the cancellation
\* met it (inside an authentication that then succeeds included): no listener,
\* no client, no complete rule set, and no open SSH connection unless a panic
\* left it, which no deferred function closes.
CleanExit ==
    pc = "done" => /\ ~listenerUp
                   /\ clientPtr = "nil"
                   /\ rules # "full"
                   /\ link \in OpenLinks => panicked

\* Once cancelled the loop begins no connection attempt, except a first one
\* whose timer was armed with 0.
NoAttemptAfterStop ==
    [][ctxDone /\ pc = "select" /\ pc' = "route" => st.State = "STARTING"]_vars

\* Reconnection neither spins nor is put off for ever: every pass of the loop
\* after the first waits between BaseDelay and MaxDelay.
RetryPaced ==
    pc = "select" /\ st.State # "STARTING" => delay \in BaseDelay..MaxDelay

\* A cancelled loop returns from whatever it is waiting for, with one
\* exception: an SSH handshake whose peer never answers holds it for ever.
StopTerminates ==
    <>ctxDone => <>(pc = "done" \/ [](pc = "handshake"))

\* A carrier that died without a reset is noticed: the keepAlive goroutine
\* closes the session it can no longer reach, unless a panic left the session
\* to nobody.
DeadLinkNoticed == link = "silent" ~> (link # "silent" \/ panicked)

\* With a route that stays and a server that accepts, the loop is connected
\* again and again until it is stopped.
Reconnects ==
    ReachableServer /\ <>[]online
        => []<>(st.Connected \/ ctxDone \/ panicked)

\* The loop as the rest of the daemon sees it.
Service == INSTANCE TunnelService WITH
    told <- ctxDone \/ panicked,
    phase <- IF pc = "done" THEN "stopped"
             ELSE IF st.Connected THEN "connected" ELSE "connecting",
    routed <- rules = "full"

\* The loop, with its retries, probes, keepalives and breaker, is an
\* implementation of TunnelService: for an observer of the published status
\* and of the rules it connects, loses the connection and connects again with
\* the routing in place, and ends once it was told to.  Only that end needs a
\* peer that answers: the handshake has neither a deadline nor a context.
Implements == Service!SafeSpec /\ (AnsweringPeer => Service!Liveness)

\* The comment on the circuit breaker: transport errors that cascade mean that
\* "the SSH session is corrupted", so a session is closed for its own errors.
BreakerBlamesOwnSession ==
    [][HealthTrip => ownErrors >= MaxTransportErrors]_vars

=============================================================================
