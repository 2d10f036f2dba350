-------------------------- MODULE TunnelLoopProofs --------------------------
(***************************************************************************)
(* Proofs about TunnelLoop for every number of streams, every set of       *)
(* delays and every pair of limits the assumptions allow: its type         *)
(* invariant, its safety invariants, and the two action properties.        *)
(***************************************************************************)
EXTENDS TunnelLoop, TLAPS

\* The steps between the publication of CONNECTED and of RECONNECTING.
Connected == {"listen", "apply", "applying", "wait", "lost", "report"}

\* A running keepAlive goroutine has not reached its limit.
MissedBelow == keepAlive => missed < MaxMissed

\* Which sessions may still be open where.
SessionByPC ==
    /\ pc \in Disconnected \cup {"lost", "report"} => link \notin OpenLinks
    /\ pc \in Disconnected \cup {"report"} => (keepAlive => clientDone)
    /\ pc \in Leaving => (link \in OpenLinks => panicked)
    /\ pc \in Disconnected \cup {"report"} => clientPtr = "nil"
    /\ pc = "done" => clientPtr = "nil"

\* Which status is published where.
StatusByPC ==
    /\ st.Connected <=> st.State = "CONNECTED"
    /\ st.Connected <=> st.PoolHealthy = 1
    /\ pc \in Disconnected \cup {"publish"} => ~st.Connected
    /\ pc \in Connected => st.Connected

\* How far the routing has come where.
RulesByPC ==
    /\ iptablesUp <=> rules = "full"
    /\ st.TransparentApplied /\ pc # "done" => rules = "full"
    /\ pc \in {"apply", "listen"} => rules = "none"
    /\ pc = "applying" => rules = "partial"
    /\ ~listenerUp /\ pc \notin Leaving => rules = "none"
    /\ pc \in {"rulesOff", "done"} => ~listenerUp
    /\ pc = "listen" => ~listenerUp
    /\ pc \in {"apply", "applying"} => listenerUp
    /\ pc = "done" => rules # "full"

\* The loop leaves only on a cancellation or a panic.
LeavingReason == pc \in Leaving => ctxDone \/ panicked

Inv ==
    /\ TypeOK
    /\ MissedBelow
    /\ SessionByPC
    /\ StatusByPC
    /\ RulesByPC
    /\ LeavingReason
    /\ RetryPaced

-----------------------------------------------------------------------------
\* nextDelay keeps the delay between BaseDelay and MaxDelay.
LEMMA NextDelayBounds ==
    ASSUME NEW d \in {0} \cup BaseDelay..MaxDelay
    PROVE  nextDelay(d, BaseDelay, MaxDelay) \in BaseDelay..MaxDelay
  BY DelayAssumption DEF nextDelay

\* The initial state satisfies the invariant.
LEMMA InitInv == Init => Inv
<1> SUFFICES ASSUME Init PROVE Inv
  OBVIOUS
<1>1. TypeOK
  <2>1. st \in StateFields
    BY DEF Init, StateFields, StateNames
  <2>2. /\ delay \in {0} \cup BaseDelay..MaxDelay
        /\ missed \in 0..MaxMissed
        /\ transportErrorCount \in 0..MaxTransportErrors
        /\ ownErrors \in 0..MaxTransportErrors
    BY LimitAssumption DEF Init
  <2>3. dial \in [Streams -> {"idle", "current", "old"}]
    BY DEF Init
  <2> QED BY <2>1, <2>2, <2>3 DEF Init, TypeOK, PCs, Links
<1>2. MissedBelow /\ SessionByPC /\ LeavingReason /\ RetryPaced
  BY DEF Init, MissedBelow, SessionByPC, LeavingReason, RetryPaced, OpenLinks,
         Disconnected, Leaving
<1>3. StatusByPC
  BY DEF Init, StatusByPC, Disconnected, Connected
<1>4. RulesByPC
  BY DEF Init, RulesByPC, Leaving
<1> QED BY <1>1, <1>2, <1>3, <1>4 DEF Inv

\* Every step preserves the invariant, action by action.
LEMMA NextInv == Inv /\ [Next]_vars => Inv'
<1> SUFFICES ASSUME Inv, [Next]_vars PROVE Inv'
  OBVIOUS
<1> USE DelayAssumption, LimitAssumption
<1> USE DEF PCs, Links, OpenLinks, Disconnected, Leaving,
            Connected, vars, loopVars, sessionVars, errorVars, envVars
<1>1. CASE SelectDone
  BY <1>1
  DEF SelectDone, Inv, TypeOK, MissedBelow, SessionByPC, StatusByPC, RulesByPC, LeavingReason,
         RetryPaced
<1>2. CASE SelectTimer
  BY <1>2
  DEF SelectTimer, Inv, TypeOK, MissedBelow, SessionByPC, StatusByPC, RulesByPC, LeavingReason,
         RetryPaced
<1>3. CASE RouteOffline
  <2>1. TypeOK'
    <3>1. st' \in StateFields
      BY <1>3 DEF RouteOffline, Down, Inv, TypeOK, StateFields, StateNames
    <3>2. delay' \in {0} \cup BaseDelay..MaxDelay
      BY <1>3 DEF RouteOffline, Inv, TypeOK
    <3> QED BY <1>3, <3>1, <3>2 DEF RouteOffline, Inv, TypeOK
  <2>2. MissedBelow' /\ SessionByPC'
    BY <1>3 DEF RouteOffline, Down, Inv, TypeOK, MissedBelow, SessionByPC
  <2>3. StatusByPC'
    BY <1>3 DEF RouteOffline, Down, Inv, TypeOK, StateFields, StatusByPC
  <2>4. RulesByPC'
    BY <1>3 DEF RouteOffline, Down, Inv, TypeOK, StateFields, RulesByPC
  <2>5. LeavingReason' /\ RetryPaced'
    BY <1>3 DEF RouteOffline, Down, Inv, TypeOK, LeavingReason, RetryPaced
  <2> QED BY <2>1, <2>2, <2>3, <2>4, <2>5 DEF Inv
<1>4. CASE RouteOnline
  BY <1>4, ZenonT(60)
  DEF RouteOnline, StateFields, StateNames, Inv, TypeOK, MissedBelow, SessionByPC, StatusByPC, RulesByPC, LeavingReason,
         RetryPaced
<1>5. CASE AuthFailed
  <2>1. TypeOK'
    <3>1. st' \in StateFields
      BY <1>5 DEF AuthFailed, Down, Inv, TypeOK, StateFields, StateNames
    <3>2. delay' \in {0} \cup BaseDelay..MaxDelay
      BY <1>5, NextDelayBounds DEF AuthFailed, Inv, TypeOK
    <3> QED BY <1>5, <3>1, <3>2 DEF AuthFailed, Inv, TypeOK
  <2>2. MissedBelow' /\ SessionByPC'
    BY <1>5 DEF AuthFailed, Down, nextDelay, Inv, TypeOK, MissedBelow, SessionByPC
  <2>3. StatusByPC'
    BY <1>5 DEF AuthFailed, Down, nextDelay, Inv, TypeOK, StateFields, StatusByPC
  <2>4. RulesByPC'
    BY <1>5 DEF AuthFailed, Down, nextDelay, Inv, TypeOK, StateFields, RulesByPC
  <2>5. LeavingReason' /\ RetryPaced'
    BY <1>5 DEF AuthFailed, Down, nextDelay, Inv, TypeOK, LeavingReason, RetryPaced
  <2> QED BY <2>1, <2>2, <2>3, <2>4, <2>5 DEF Inv
<1>6. CASE AuthSucceeded
  <2>1. TypeOK'
    <3>1. dial' \in [Streams -> {"idle", "current", "old"}]
      BY <1>6 DEF AuthSucceeded, Inv, TypeOK
    <3>2. /\ delay' \in {0} \cup BaseDelay..MaxDelay
          /\ missed' \in 0..MaxMissed
          /\ ownErrors' \in 0..MaxTransportErrors
      BY <1>6 DEF AuthSucceeded
    <3>3. /\ pc' \in PCs /\ clientPtr' \in {"nil", "tc"} /\ link' \in Links
          /\ clientDone' \in BOOLEAN /\ keepAlive' \in BOOLEAN
      BY <1>6 DEF AuthSucceeded
    <3> QED BY <1>6, <3>1, <3>2, <3>3 DEF AuthSucceeded, Inv, TypeOK
  <2>2. MissedBelow' /\ SessionByPC'
    BY <1>6 DEF AuthSucceeded, Inv, TypeOK, MissedBelow, SessionByPC
  <2>3. StatusByPC'
    BY <1>6 DEF AuthSucceeded, Inv, TypeOK, StateFields, StatusByPC
  <2>4. RulesByPC'
    BY <1>6 DEF AuthSucceeded, Inv, TypeOK, StateFields, RulesByPC
  <2>5. LeavingReason' /\ RetryPaced'
    BY <1>6 DEF AuthSucceeded, Inv, TypeOK, LeavingReason, RetryPaced
  <2> QED BY <2>1, <2>2, <2>3, <2>4, <2>5 DEF Inv
<1>7. CASE LoopPanics
  BY <1>7
  DEF LoopPanics, Inv, TypeOK, MissedBelow, SessionByPC, StatusByPC, RulesByPC, LeavingReason,
         RetryPaced
<1>8. CASE Publish
  <2>1. TypeOK'
    <3>1. st' \in StateFields
      BY <1>8 DEF Publish, Inv, TypeOK, StateFields, StateNames
    <3>2. delay' \in {0} \cup BaseDelay..MaxDelay
      BY <1>8 DEF Publish, Inv, TypeOK
    <3> QED BY <1>8, <3>1, <3>2 DEF Publish, Inv, TypeOK
  <2>2. MissedBelow' /\ SessionByPC'
    BY <1>8 DEF Publish, Inv, TypeOK, MissedBelow, SessionByPC
  <2>3. StatusByPC'
    BY <1>8 DEF Publish, Inv, TypeOK, StateFields, StatusByPC
  <2>4. RulesByPC'
    BY <1>8 DEF Publish, Inv, TypeOK, StateFields, RulesByPC
  <2>5. LeavingReason' /\ RetryPaced'
    BY <1>8 DEF Publish, Inv, TypeOK, LeavingReason, RetryPaced
  <2> QED BY <2>1, <2>2, <2>3, <2>4, <2>5 DEF Inv
<1>9. CASE StartListeners
  BY <1>9
  DEF StartListeners, Inv, TypeOK, MissedBelow, SessionByPC, StatusByPC, RulesByPC, LeavingReason,
         RetryPaced
<1>10. CASE ApplyBegins
  <2>1. TypeOK'
    BY <1>10 DEF ApplyBegins, Inv, TypeOK
  <2>2. MissedBelow' /\ SessionByPC'
    BY <1>10 DEF ApplyBegins, Inv, TypeOK, MissedBelow, SessionByPC
  <2>3. StatusByPC'
    BY <1>10 DEF ApplyBegins, Inv, TypeOK, StateFields, StatusByPC
  <2>4. RulesByPC'
    <3>1. rules = "none" /\ ~iptablesUp /\ ~st.TransparentApplied
      BY <1>10, Zenon DEF ApplyBegins, Inv, RulesByPC
    <3> QED BY <1>10, <3>1, Zenon DEF ApplyBegins, Inv, RulesByPC
  <2>5. LeavingReason' /\ RetryPaced'
    BY <1>10 DEF ApplyBegins, Inv, TypeOK, LeavingReason, RetryPaced
  <2> QED BY <2>1, <2>2, <2>3, <2>4, <2>5 DEF Inv
<1>11. CASE ApplySucceeds
  BY <1>11, ZenonT(60)
  DEF ApplySucceeds, StateFields, StateNames, Inv, TypeOK, MissedBelow, SessionByPC, StatusByPC, RulesByPC, LeavingReason,
         RetryPaced
<1>12. CASE ApplyFails
  <2>1. TypeOK'
    <3>1. st' \in StateFields
      BY <1>12 DEF ApplyFails, Inv, TypeOK, StateFields
    <3> QED BY <1>12, <3>1 DEF ApplyFails, Inv, TypeOK
  <2>2. MissedBelow' /\ SessionByPC'
    BY <1>12 DEF ApplyFails, Inv, TypeOK, MissedBelow, SessionByPC
  <2>3. StatusByPC'
    BY <1>12 DEF ApplyFails, Inv, TypeOK, StateFields, StatusByPC
  <2>4. RulesByPC'
    BY <1>12 DEF ApplyFails, Inv, TypeOK, StateFields, RulesByPC
  <2>5. LeavingReason' /\ RetryPaced'
    BY <1>12 DEF ApplyFails, Inv, TypeOK, LeavingReason, RetryPaced
  <2> QED BY <2>1, <2>2, <2>3, <2>4, <2>5 DEF Inv
<1>13. CASE WaitDone
  BY <1>13
  DEF WaitDone, CloseClient, Inv, TypeOK, MissedBelow, SessionByPC, StatusByPC, RulesByPC, LeavingReason,
         RetryPaced
<1>14. CASE WaitClientGone
  BY <1>14
  DEF WaitClientGone, Inv, TypeOK, MissedBelow, SessionByPC, StatusByPC, RulesByPC, LeavingReason,
         RetryPaced
<1>15. CASE HealthTick
  BY <1>15
  DEF HealthTick, StateFields, StateNames, Inv, TypeOK, MissedBelow, SessionByPC, StatusByPC, RulesByPC, LeavingReason,
         RetryPaced
<1>16. CASE HealthTrip
  <2>1. TypeOK'
    <3>1. 0 \in 0..MaxTransportErrors
      OBVIOUS
    <3> QED BY <1>16, <3>1 DEF HealthTrip, CloseClient, Inv, TypeOK
  <2>2. MissedBelow' /\ SessionByPC'
    BY <1>16 DEF HealthTrip, CloseClient, Inv, TypeOK, MissedBelow, SessionByPC
  <2>3. StatusByPC'
    BY <1>16 DEF HealthTrip, CloseClient, Inv, TypeOK, StateFields, StatusByPC
  <2>4. RulesByPC'
    BY <1>16 DEF HealthTrip, CloseClient, Inv, TypeOK, StateFields, RulesByPC
  <2>5. LeavingReason' /\ RetryPaced'
    BY <1>16 DEF HealthTrip, CloseClient, Inv, TypeOK, LeavingReason, RetryPaced
  <2> QED BY <2>1, <2>2, <2>3, <2>4, <2>5 DEF Inv
<1>17. CASE DropClient
  BY <1>17
  DEF DropClient, CloseClient, Inv, TypeOK, MissedBelow, SessionByPC, StatusByPC, RulesByPC, LeavingReason,
         RetryPaced
<1>18. CASE ReportLost
  <2>1. TypeOK'
    <3>1. st' \in StateFields
      BY <1>18 DEF ReportLost, Down, Inv, TypeOK, StateFields, StateNames
    <3>2. delay' \in {0} \cup BaseDelay..MaxDelay
      BY <1>18 DEF ReportLost, Inv, TypeOK
    <3> QED BY <1>18, <3>1, <3>2 DEF ReportLost, Inv, TypeOK
  <2>2. MissedBelow' /\ SessionByPC'
    BY <1>18 DEF ReportLost, Down, Inv, TypeOK, MissedBelow, SessionByPC
  <2>3. StatusByPC'
    BY <1>18 DEF ReportLost, Down, Inv, TypeOK, StateFields, StatusByPC
  <2>4. RulesByPC'
    BY <1>18 DEF ReportLost, Down, Inv, TypeOK, StateFields, RulesByPC
  <2>5. LeavingReason' /\ RetryPaced'
    BY <1>18 DEF ReportLost, Down, Inv, TypeOK, LeavingReason, RetryPaced
  <2> QED BY <2>1, <2>2, <2>3, <2>4, <2>5 DEF Inv
<1>19. CASE TeardownListeners
  <2>1. TypeOK'
    <3>1. listenerUp' \in BOOLEAN /\ pc' \in PCs
      BY <1>19 DEF TeardownListeners
    <3> QED BY <1>19, <3>1 DEF TeardownListeners, Inv, TypeOK
  <2>2. MissedBelow' /\ SessionByPC'
    BY <1>19 DEF TeardownListeners, Inv, TypeOK, MissedBelow, SessionByPC
  <2>3. StatusByPC'
    BY <1>19 DEF TeardownListeners, Inv, TypeOK, StateFields, StatusByPC
  <2>4. RulesByPC'
    BY <1>19 DEF TeardownListeners, Inv, TypeOK, StateFields, RulesByPC
  <2>5. LeavingReason' /\ RetryPaced'
    BY <1>19 DEF TeardownListeners, Inv, TypeOK, LeavingReason, RetryPaced
  <2> QED BY <2>1, <2>2, <2>3, <2>4, <2>5 DEF Inv
<1>20. CASE TeardownRules
  <2>1. TypeOK'
    BY <1>20, ZenonT(60) DEF TeardownRules, Inv, TypeOK
  <2>2. MissedBelow' /\ SessionByPC'
    BY <1>20 DEF TeardownRules, Inv, TypeOK, MissedBelow, SessionByPC
  <2>3. StatusByPC'
    BY <1>20 DEF TeardownRules, Inv, TypeOK, StateFields, StatusByPC
  <2>4. RulesByPC'
    BY <1>20 DEF TeardownRules, Inv, TypeOK, StateFields, RulesByPC
  <2>5. LeavingReason' /\ RetryPaced'
    BY <1>20 DEF TeardownRules, Inv, TypeOK, LeavingReason, RetryPaced
  <2> QED BY <2>1, <2>2, <2>3, <2>4, <2>5 DEF Inv
<1>21. CASE KeepAliveReply
  BY <1>21
  DEF KeepAliveReply, Inv, TypeOK, MissedBelow, SessionByPC, StatusByPC, RulesByPC, LeavingReason,
         RetryPaced
<1>22. CASE KeepAliveMiss
  <2>1. TypeOK'
    <3>1. keepAlive' \in BOOLEAN /\ link' \in Links
      BY <1>22, Zenon DEF KeepAliveMiss, Inv, TypeOK
    <3>2. missed' \in 0..MaxMissed
      BY <1>22 DEF KeepAliveMiss, Inv, TypeOK, MissedBelow
    <3> QED BY <1>22, <3>1, <3>2 DEF KeepAliveMiss, Inv, TypeOK
  <2>2. MissedBelow' /\ SessionByPC'
    <3>1. SessionByPC'
      BY <1>22, Zenon DEF KeepAliveMiss, Inv, SessionByPC
    <3>2. CASE missed + 1 >= MaxMissed
      BY <1>22, <3>1, <3>2, Zenon DEF KeepAliveMiss, MissedBelow
    <3>3. CASE ~(missed + 1 >= MaxMissed)
      <4>1. missed' < MaxMissed
        BY <1>22, <3>3 DEF KeepAliveMiss, Inv, TypeOK
      <4> QED BY <3>1, <4>1 DEF MissedBelow
    <3> QED BY <3>2, <3>3
  <2>3. StatusByPC'
    BY <1>22 DEF KeepAliveMiss, Inv, TypeOK, StateFields, StatusByPC
  <2>4. RulesByPC'
    BY <1>22 DEF KeepAliveMiss, Inv, TypeOK, StateFields, RulesByPC
  <2>5. LeavingReason' /\ RetryPaced'
    BY <1>22 DEF KeepAliveMiss, Inv, TypeOK, LeavingReason, RetryPaced
  <2> QED BY <2>1, <2>2, <2>3, <2>4, <2>5 DEF Inv
<1>23. CASE KeepAliveDone
  <2>1. TypeOK'
    <3>1. keepAlive' \in BOOLEAN
      BY <1>23 DEF KeepAliveDone
    <3> QED BY <1>23, <3>1 DEF KeepAliveDone, Inv, TypeOK
  <2>2. MissedBelow' /\ SessionByPC'
    BY <1>23 DEF KeepAliveDone, Inv, TypeOK, MissedBelow, SessionByPC
  <2>3. StatusByPC'
    BY <1>23 DEF KeepAliveDone, Inv, TypeOK, StateFields, StatusByPC
  <2>4. RulesByPC'
    BY <1>23 DEF KeepAliveDone, Inv, TypeOK, StateFields, RulesByPC
  <2>5. LeavingReason' /\ RetryPaced'
    BY <1>23 DEF KeepAliveDone, Inv, TypeOK, LeavingReason, RetryPaced
  <2> QED BY <2>1, <2>2, <2>3, <2>4, <2>5 DEF Inv
<1>24. CASE Cancel
  BY <1>24
  DEF Cancel, Inv, TypeOK, MissedBelow, SessionByPC, StatusByPC, RulesByPC, LeavingReason,
         RetryPaced
<1>25. CASE StopClearsPointer
  BY <1>25
  DEF StopClearsPointer, Inv, TypeOK, MissedBelow, SessionByPC, StatusByPC, RulesByPC, LeavingReason,
         RetryPaced
<1>26. CASE RouteChanges
  BY <1>26
  DEF RouteChanges, Inv, TypeOK, MissedBelow, SessionByPC, StatusByPC, RulesByPC, LeavingReason,
         RetryPaced
<1>27. CASE LinkFails
  BY <1>27
  DEF LinkFails, Inv, TypeOK, MissedBelow, SessionByPC, StatusByPC, RulesByPC, LeavingReason,
         RetryPaced
<1>28. ASSUME NEW s \in Streams, DialStart(s) PROVE Inv'
  BY <1>28
  DEF DialStart, Inv, TypeOK, MissedBelow, SessionByPC, StatusByPC, RulesByPC, LeavingReason,
         RetryPaced
<1>29. ASSUME NEW s \in Streams, DialEnds(s) PROVE Inv'
  BY <1>29
  DEF DialEnds, Inv, TypeOK, MissedBelow, SessionByPC, StatusByPC, RulesByPC, LeavingReason,
         RetryPaced
<1>30. ASSUME NEW s \in Streams, DialBroken(s) PROVE Inv'
  BY <1>30
  DEF DialBroken, Inv, TypeOK, MissedBelow, SessionByPC, StatusByPC, RulesByPC, LeavingReason,
         RetryPaced
<1>31. CASE TransportOpens
  BY <1>31
  DEF TransportOpens, Inv, TypeOK, MissedBelow, SessionByPC, StatusByPC, RulesByPC, LeavingReason,
         RetryPaced
<1>32. CASE UNCHANGED vars
  BY <1>32
  DEF Inv, TypeOK, MissedBelow, SessionByPC, StatusByPC, RulesByPC, LeavingReason,
         RetryPaced
<1> QED
  BY <1>1, <1>2, <1>3, <1>4, <1>5, <1>6, <1>7, <1>8, <1>9,
     <1>10, <1>11, <1>12, <1>13, <1>14, <1>15, <1>16, <1>17, <1>18,
     <1>19, <1>20, <1>21, <1>22, <1>23, <1>24, <1>25, <1>26, <1>27,
     <1>28, <1>29, <1>30, <1>32, <1>31
  DEF Next, LoopNext, KeepAliveNext, StreamNext, EnvNext

-----------------------------------------------------------------------------
\* The inductive invariant holds in every reachable state of tunnelLoop.
THEOREM InvHolds == Spec => []Inv
<1>1. Init => Inv
  BY InitInv
<1>2. Inv /\ [Next]_vars => Inv'
  BY NextInv
<1> QED BY <1>1, <1>2, PTL DEF Spec

\* Type correctness: the delay stays within BaseDelay..MaxDelay, the counters
\* within their limits, for every choice of them.
THEOREM TypeCorrect == Spec => []TypeOK
<1>1. Inv => TypeOK
  BY DEF Inv
<1> QED BY <1>1, InvHolds, PTL

\* Between two sessions no client is published and no session is left open.
THEOREM NoStaleClientHolds == Spec => []NoStaleClient
<1>1. Inv => NoStaleClient
  BY DEF Inv, SessionByPC, NoStaleClient
<1> QED BY <1>1, InvHolds, PTL

\* The published status agrees with itself and with where the loop is.
THEOREM StatusHonestHolds == Spec => []StatusHonest
<1>1. Inv => StatusHonest
  BY DEF Inv, StatusByPC, StatusHonest
<1> QED BY <1>1, InvHolds, PTL

\* iptablesUp and TransparentApplied describe the kernel's rules.
THEOREM RoutingKnownHolds == Spec => []RoutingKnown
<1>1. Inv => RoutingKnown
  BY DEF Inv, RulesByPC, RoutingKnown
<1> QED BY <1>1, InvHolds, PTL

\* A loop that has returned has released everything it had.
THEOREM CleanExitHolds == Spec => []CleanExit
<1>1. Inv => CleanExit
  BY DEF Inv, SessionByPC, RulesByPC, CleanExit, Leaving
<1> QED BY <1>1, InvHolds, PTL

\* Reconnection never spins, for any delays that satisfy the assumption.
THEOREM RetryPacedHolds == Spec => []RetryPaced
<1>1. Inv => RetryPaced
  BY DEF Inv
<1> QED BY <1>1, InvHolds, PTL

\* A step that gives up complete rules is the teardown's, and the teardown
\* runs only after a cancellation or a panic.
LEMMA RulesKept ==
    ASSUME Inv, [Next]_vars, rules = "full", rules' # "full"
    PROVE  ctxDone \/ panicked
<1>1. CASE TeardownRules
  BY <1>1 DEF TeardownRules, Inv, LeavingReason, Leaving
<1>2. CASE ApplyBegins
  BY <1>2 DEF ApplyBegins, Inv, RulesByPC
<1>3. CASE ApplySucceeds
  BY <1>3 DEF ApplySucceeds
<1>4. CASE \/ SelectDone \/ SelectTimer \/ RouteOffline \/ RouteOnline
           \/ TransportOpens \/ AuthFailed \/ AuthSucceeded \/ LoopPanics \/ Publish
           \/ StartListeners \/ ApplyFails \/ WaitDone \/ WaitClientGone
           \/ HealthTick \/ HealthTrip \/ DropClient \/ ReportLost
           \/ TeardownListeners
  BY <1>4 DEF SelectDone, SelectTimer, RouteOffline, RouteOnline, TransportOpens, AuthFailed,
              AuthSucceeded, LoopPanics, Publish, StartListeners, ApplyFails,
              WaitDone, WaitClientGone, HealthTick, HealthTrip, DropClient,
              ReportLost, TeardownListeners
<1>5. CASE KeepAliveNext \/ StreamNext \/ EnvNext
  BY <1>5 DEF KeepAliveNext, KeepAliveReply, KeepAliveMiss, KeepAliveDone,
              StreamNext, DialStart, DialEnds, DialBroken, EnvNext, Cancel,
              StopClearsPointer, RouteChanges, LinkFails, loopVars
<1>6. CASE UNCHANGED vars
  BY <1>6 DEF vars, loopVars
<1> QED BY <1>1, <1>2, <1>3, <1>4, <1>5, <1>6 DEF Next, LoopNext

\* Fail-closed routing: the rules outlive every reconnect.
THEOREM FailClosedHolds == Spec => FailClosed
<1>1. Inv /\ [Next]_vars
        => [rules = "full" /\ rules' # "full" => ctxDone \/ panicked]_vars
  BY RulesKept
<1> QED BY <1>1, InvHolds, PTL DEF Spec, FailClosed

\* After a cancellation no further connection attempt begins.
THEOREM NoAttemptAfterStopHolds == Spec => NoAttemptAfterStop
<1>1. Inv /\ [Next]_vars
        => [ctxDone /\ pc = "select" /\ pc' = "route" => st.State = "STARTING"]_vars
  <2> SUFFICES ASSUME Inv, [Next]_vars, ctxDone, pc = "select", pc' = "route"
               PROVE  st.State = "STARTING"
    OBVIOUS
  <2>1. SelectTimer
    BY DEF Next, LoopNext, SelectDone, SelectTimer, RouteOffline, RouteOnline,
           TransportOpens, AuthFailed, AuthSucceeded, LoopPanics, Publish,
           StartListeners, ApplyBegins, ApplySucceeds, ApplyFails, WaitDone, WaitClientGone,
           HealthTick, HealthTrip, DropClient, ReportLost, TeardownListeners,
           TeardownRules, KeepAliveNext, KeepAliveReply, KeepAliveMiss,
           KeepAliveDone, StreamNext, DialStart, DialEnds, DialBroken, EnvNext,
           Cancel, StopClearsPointer, RouteChanges, LinkFails, vars, loopVars
  <2>2. delay = 0
    BY <2>1 DEF SelectTimer
  <2> QED BY <2>2, DelayAssumption DEF Inv, RetryPaced
<1> QED BY <1>1, InvHolds, PTL DEF Spec, NoAttemptAfterStop

-----------------------------------------------------------------------------
\* Every step of the loop is, seen through the mapping, a step of
\* TunnelService or none.
LEMMA StepRefines ==
    ASSUME Inv, [Next]_vars
    PROVE  [Service!Next]_(Service!vars)
<1> USE DEF Service!Next, Service!vars, Service!Tell, Service!Connect,
            Service!Lose, Service!EstablishRouting, Service!Finish
<1>1. CASE LoopPanics \/ Cancel
  BY <1>1 DEF LoopPanics, Cancel, Leaving, loopVars, sessionVars
<1>2. CASE Publish
  BY <1>2 DEF Publish, Inv, TypeOK, StateFields, StatusByPC, envVars
<1>3. CASE ReportLost
  BY <1>3 DEF ReportLost, Down, Inv, TypeOK, StateFields, StatusByPC, Connected, envVars
<1>4. CASE ApplySucceeds
  BY <1>4 DEF ApplySucceeds, Inv, TypeOK, StateFields, StatusByPC, RulesByPC,
              Connected, envVars
<1>5. CASE TeardownRules
  BY <1>5 DEF TeardownRules, Inv, RulesByPC, LeavingReason, Leaving, envVars
<1>6. CASE ApplyBegins \/ ApplyFails \/ HealthTick
  BY <1>6 DEF ApplyBegins, ApplyFails, HealthTick, Inv, TypeOK, StateFields,
              RulesByPC, envVars
<1>7. CASE RouteOffline \/ RouteOnline \/ AuthFailed
  BY <1>7 DEF RouteOffline, RouteOnline, AuthFailed, Down, Inv, TypeOK,
              StateFields, StatusByPC, Disconnected, envVars
<1>8. CASE \/ SelectDone \/ SelectTimer \/ TransportOpens \/ AuthSucceeded \/ StartListeners
           \/ WaitDone \/ WaitClientGone \/ HealthTrip \/ DropClient
           \/ TeardownListeners
  BY <1>8 DEF SelectDone, SelectTimer, TransportOpens, AuthSucceeded, StartListeners, WaitDone,
              WaitClientGone, HealthTrip, DropClient, TeardownListeners, envVars
<1>9. CASE KeepAliveNext \/ StreamNext
  BY <1>9 DEF KeepAliveNext, KeepAliveReply, KeepAliveMiss, KeepAliveDone,
              StreamNext, DialStart, DialEnds, DialBroken, loopVars, envVars
<1>10. CASE StopClearsPointer \/ RouteChanges \/ LinkFails \/ UNCHANGED vars
  BY <1>10 DEF StopClearsPointer, RouteChanges, LinkFails, vars, loopVars, envVars
<1> QED BY <1>1, <1>2, <1>3, <1>4, <1>5, <1>6, <1>7, <1>8, <1>9, <1>10
        DEF Next, LoopNext, EnvNext

\* The loop implements the safety part of TunnelService: routing is
\* established only through a connected tunnel and withdrawn only by the end
\* of a run that was told to stop.  That such a run ends is left to TLC.
THEOREM ImplementsSafely == Spec => Service!SafeSpec
<1>1. Init => Service!Init
  BY DEF Init, Service!Init
<1>2. Inv /\ [Next]_vars => [Service!Next]_(Service!vars)
  BY StepRefines
<1> QED BY <1>1, <1>2, InvHolds, PTL DEF Spec, Service!SafeSpec

=============================================================================
