------------------------ MODULE TunnelControlProofs -------------------------
(***************************************************************************)
(* What the lifecycle code guarantees without any ordering between its     *)
(* goroutines: for any number of concurrent requests and loops, whatever   *)
(* stops time out, panic or are interrupted by a signal, the rules and the *)
(* client pointer always belong to a loop that is running.  And what it    *)
(* guarantees in addition when requests do not overlap: stops that are      *)
(* complete, and a module.prop that shows it.                              *)
(***************************************************************************)
EXTENDS TunnelControl, TLAPS

\* A loop that a start has prepared is not running, and no other start has
\* prepared it: launching it disturbs nobody's rules or client.
Prepared ==
    /\ \A a \in Actors : mine[a] # NoLoop => pc[mine[a]] = "idle"
    /\ \A a \in Actors : pc[a] \in {"s_ctx", "s_state", "s_prop"} => mine[a] # NoLoop
    /\ \A a, b \in Actors : mine[a] # NoLoop /\ mine[a] = mine[b] => a = b

\* RulesOwned without its exception for a process that has exited.
RulesOfLive == rules => \E g \in Loops : Live(g) /\ iptablesUp[g]

Inv == TypeOK /\ Prepared /\ ClientOwned /\ RulesOfLive

\* The labels the actions go to.
LEMMA Labels ==
    {"idle", "gone", "s_check", "s_load", "s_mark", "s_clear", "s_done", "s_ctx",
     "s_state", "s_prop", "t_check", "t_flag", "t_cancel", "t_forget", "t_done",
     "t_wait", "t_clean", "t_state", "t_prop", "first", "select", "auth", "apply",
     "up", "left", "e_flag", "e_state", "e_prop", "b_flag", "backoff"} \subseteq PCs
  BY DEF PCs, StartPCs, StopPCs, RunPCs, ExitPCs

\* The names they publish.
LEMMA Names ==
    /\ {"IDLE", "STARTING", "CONNECTING_SSH", "RETRY_BACKOFF", "CONNECTED",
        "RECONNECTING", "PAUSED_NO_NETWORK", "STOPPED"} \subseteq StateNames
    /\ {"running", "standby", "disconnected"} \subseteq Statuses
    /\ {"none", "refused", "late"} \subseteq Outcomes
  BY DEF StateNames, Statuses, Outcomes

\* A request ends in one of the outcomes.
LEMMA OutcomeType ==
    ASSUME TypeOK, NEW r \in Requests
    PROVE  Outcome(r) \in Outcomes
  BY DEF TypeOK, ControlTypes, EffectTypes, Outcome, Outcomes

\* The idle daemon satisfies the invariant.
LEMMA InitInv == Init => Inv
<1> SUFFICES ASSUME Init PROVE Inv
  OBVIOUS
<1> USE LoopsAssumption DEF Init
<1>1. TypeOK
  BY Labels, Names DEF TypeOK, ControlTypes, EffectTypes, Kinds
<1>2. Prepared
  BY DEF Prepared
<1>3. ClientOwned /\ RulesOfLive
  BY DEF ClientOwned, RulesOfLive
<1> QED BY <1>1, <1>2, <1>3 DEF Inv

\* Every step keeps the types of the control state.
LEMMA NextControlTypes ==
    ASSUME ControlTypes, Prepared, [Next]_vars
    PROVE  ControlTypes'
<1> USE LoopsAssumption, Labels
    DEF ControlTypes, flagVars, reqVars, LoopFrame
<1>1. ASSUME NEW r \in Requests, NEW k \in Kinds, Issue(r, k) PROVE ControlTypes'
  BY <1>1 DEF Issue, Goto
<1>2. ASSUME NEW a \in Actors, StartCheck(a) PROVE ControlTypes'
  BY <1>2 DEF StartCheck, Quit, Finish, Goto
<1>3. ASSUME NEW a \in Actors, StartLoad(a) PROVE ControlTypes'
  BY <1>3 DEF StartLoad, Quit, Finish, Goto
<1>4. ASSUME NEW a \in Actors, StartMark(a) PROVE ControlTypes'
  BY <1>4 DEF StartMark, Goto
<1>5. ASSUME NEW a \in Actors, StartClear(a) PROVE ControlTypes'
  BY <1>5 DEF StartClear, Goto
<1>6. ASSUME NEW a \in Actors, StartDone(a) PROVE ControlTypes'
  <2>1. PICK g \in Loops :
          /\ mine' = [mine EXCEPT ![a] = g]
          /\ tunnelDone' = g
          /\ pc' = [pc EXCEPT ![a] = "s_ctx", ![g] = "idle"]
    BY <1>6 DEF StartDone
  <2>2. pc' \in [Actors -> PCs]
    BY <2>1
  <2> QED BY <1>6, <2>1, <2>2 DEF StartDone
<1>7. ASSUME NEW a \in Actors, StartContext(a) PROVE ControlTypes'
  BY <1>7 DEF StartContext, Goto
<1>8. ASSUME NEW a \in Actors, StartPublish(a) PROVE ControlTypes'
  BY <1>8 DEF StartPublish, Goto
<1>9. ASSUME NEW a \in Actors, StartLaunch(a) PROVE ControlTypes'
  BY <1>9 DEF StartLaunch
<1>10. ASSUME NEW r \in Requests, StopCheck(r) PROVE ControlTypes'
  BY <1>10 DEF StopCheck, AfterStop, Goto
<1>11. ASSUME NEW r \in Requests, StopFlag(r) PROVE ControlTypes'
  BY <1>11 DEF StopFlag, Goto
<1>12. ASSUME NEW r \in Requests, StopCancel(r) PROVE ControlTypes'
  BY <1>12 DEF StopCancel, Goto
<1>13. ASSUME NEW r \in Requests, StopForget(r) PROVE ControlTypes'
  BY <1>13 DEF StopForget, Goto
<1>14. ASSUME NEW r \in Requests, StopDone(r) PROVE ControlTypes'
  BY <1>14 DEF StopDone, Goto
<1>15. ASSUME NEW r \in Requests, StopWait(r) PROVE ControlTypes'
  BY <1>15 DEF StopWait, Goto
<1>16. ASSUME NEW r \in Requests, StopClean(r) PROVE ControlTypes'
  BY <1>16 DEF StopClean, Goto
<1>17. ASSUME NEW r \in Requests, StopPublish(r) PROVE ControlTypes'
  BY <1>17 DEF StopPublish, Goto
<1>18. ASSUME NEW r \in Requests, StopProp(r) PROVE ControlTypes'
  BY <1>18 DEF StopProp, AfterStop, Goto
<1>19. ASSUME NEW g \in Loops, LoopOffline(g) PROVE ControlTypes'
  BY <1>19 DEF LoopOffline, Goto
<1>20. ASSUME NEW g \in Loops, LoopDials(g) PROVE ControlTypes'
  BY <1>20 DEF LoopDials, Goto
<1>21. ASSUME NEW g \in Loops, LoopAuthFails(g) PROVE ControlTypes'
  BY <1>21 DEF LoopAuthFails, Goto
<1>22. ASSUME NEW g \in Loops, LoopConnects(g) PROVE ControlTypes'
  BY <1>22 DEF LoopConnects, Goto
<1>23. ASSUME NEW g \in Loops, LoopApplies(g) PROVE ControlTypes'
  BY <1>23 DEF LoopApplies, Goto
<1>24. ASSUME NEW g \in Loops, LoopLoses(g) PROVE ControlTypes'
  BY <1>24 DEF LoopLoses, Goto
<1>25. ASSUME NEW g \in Loops, LoopReturns(g) PROVE ControlTypes'
  BY <1>25 DEF LoopReturns, Goto
<1>26. ASSUME NEW g \in Loops, LoopPanics(g) PROVE ControlTypes'
  BY <1>26 DEF LoopPanics, Goto
<1>27. ASSUME NEW g \in Loops, LoopLeft(g) PROVE ControlTypes'
  BY <1>27 DEF LoopLeft, Goto
<1>28. ASSUME NEW g \in Loops, LoopClears(g) PROVE ControlTypes'
  BY <1>28 DEF LoopClears, Goto
<1>29. ASSUME NEW g \in Loops, LoopPublishesStop(g) PROVE ControlTypes'
  BY <1>29 DEF LoopPublishesStop, Goto
<1>30. ASSUME NEW g \in Loops, LoopProp(g) PROVE ControlTypes'
  BY <1>30 DEF LoopProp, Goto
<1>31. ASSUME NEW g \in Loops, LoopRestarts(g) PROVE ControlTypes'
  BY <1>31 DEF LoopRestarts, Goto
<1>32. CASE SelectProfile
  BY <1>32 DEF SelectProfile
<1>33. CASE MonitorReads
  BY <1>33 DEF MonitorReads
<1>34. CASE MonitorWrites
  BY <1>34 DEF MonitorWrites
<1>35. CASE Signal
  BY <1>35 DEF Signal
<1>36. CASE Exit
  BY <1>36 DEF Exit
<1>37. CASE UNCHANGED vars
  BY <1>37 DEF vars
<1> QED BY <1>1, <1>2, <1>3, <1>4, <1>5, <1>6, <1>8, <1>9, <1>10, <1>11,
           <1>12, <1>13, <1>15, <1>16, <1>17, <1>18, <1>19, <1>20, <1>21,
           <1>22, <1>23, <1>24, <1>25, <1>26, <1>27, <1>29, <1>30, <1>31,
           <1>32, <1>33, <1>34, <1>35, <1>36, <1>37, <1>7, <1>14, <1>28
       DEF Next, StartStep, StopStep, LoopStep

\* Every step keeps the types of what the goroutines act upon.
LEMMA NextEffectTypes ==
    ASSUME TypeOK, [Next]_vars
    PROVE  EffectTypes'
<1> USE LoopsAssumption, Names
    DEF TypeOK, EffectTypes, loopVars, pubVars, monitorVars, envVars, reqVars, LoopFrame
<1>1. ASSUME NEW r \in Requests, NEW k \in Kinds, Issue(r, k) PROVE EffectTypes'
  BY <1>1 DEF Issue
<1>2. ASSUME NEW a \in Actors, StartCheck(a) PROVE EffectTypes'
  <2>1. ASSUME a \in Requests PROVE Outcome(a) \in Outcomes
    BY <2>1, OutcomeType
  <2>2. lastDone' \in Outcomes
    BY <1>2, <2>1 DEF StartCheck, Quit, Finish, Actors
  <2> QED BY <2>2, <1>2 DEF StartCheck, Quit
<1>3. ASSUME NEW a \in Actors, StartLoad(a) PROVE EffectTypes'
  BY <1>3 DEF StartLoad, Quit, Finish, Set
<1>4. ASSUME NEW a \in Actors, StartMark(a) PROVE EffectTypes'
  BY <1>4 DEF StartMark
<1>5. ASSUME NEW a \in Actors, StartClear(a) PROVE EffectTypes'
  BY <1>5 DEF StartClear
<1>6. ASSUME NEW a \in Actors, StartDone(a) PROVE EffectTypes'
  BY <1>6 DEF StartDone
<1>7. ASSUME NEW a \in Actors, StartContext(a) PROVE EffectTypes'
  BY <1>7 DEF StartContext
<1>8. ASSUME NEW a \in Actors, StartPublish(a) PROVE EffectTypes'
  BY <1>8 DEF StartPublish, Set
<1>9. ASSUME NEW a \in Actors, StartLaunch(a) PROVE EffectTypes'
  <2>1. ASSUME a \in Requests PROVE Outcome(a) \in Outcomes
    BY <2>1, OutcomeType
  <2>2. lastDone' \in Outcomes
    BY <1>9, <2>1 DEF StartLaunch
  <2> QED BY <2>2, <1>9 DEF StartLaunch
<1>10. ASSUME NEW r \in Requests, StopCheck(r) PROVE EffectTypes'
  <2>1. lastDone' \in Outcomes
    BY <1>10, OutcomeType DEF StopCheck, AfterStop
  <2> QED BY <2>1, <1>10 DEF StopCheck
<1>11. ASSUME NEW r \in Requests, StopFlag(r) PROVE EffectTypes'
  BY <1>11 DEF StopFlag
<1>12. ASSUME NEW r \in Requests, StopCancel(r) PROVE EffectTypes'
  BY <1>12 DEF StopCancel
<1>13. ASSUME NEW r \in Requests, StopForget(r) PROVE EffectTypes'
  BY <1>13 DEF StopForget
<1>14. ASSUME NEW r \in Requests, StopDone(r) PROVE EffectTypes'
  BY <1>14 DEF StopDone
<1>15. ASSUME NEW r \in Requests, StopWait(r) PROVE EffectTypes'
  BY <1>15 DEF StopWait
<1>16. ASSUME NEW r \in Requests, StopClean(r) PROVE EffectTypes'
  BY <1>16 DEF StopClean
<1>17. ASSUME NEW r \in Requests, StopPublish(r) PROVE EffectTypes'
  BY <1>17 DEF StopPublish, Set, Stopped
<1>18. ASSUME NEW r \in Requests, StopProp(r) PROVE EffectTypes'
  <2>1. lastDone' \in Outcomes
    BY <1>18, OutcomeType DEF StopProp, AfterStop
  <2> QED BY <2>1, <1>18 DEF StopProp
<1>19. ASSUME NEW g \in Loops, LoopOffline(g) PROVE EffectTypes'
  BY <1>19 DEF LoopOffline, Set
<1>20. ASSUME NEW g \in Loops, LoopDials(g) PROVE EffectTypes'
  BY <1>20 DEF LoopDials, Set
<1>21. ASSUME NEW g \in Loops, LoopAuthFails(g) PROVE EffectTypes'
  BY <1>21 DEF LoopAuthFails, Set
<1>22. ASSUME NEW g \in Loops, LoopConnects(g) PROVE EffectTypes'
  BY <1>22 DEF LoopConnects, Set
<1>23. ASSUME NEW g \in Loops, LoopApplies(g) PROVE EffectTypes'
  BY <1>23 DEF LoopApplies
<1>24. ASSUME NEW g \in Loops, LoopLoses(g) PROVE EffectTypes'
  BY <1>24 DEF LoopLoses, Set
<1>25. ASSUME NEW g \in Loops, LoopReturns(g) PROVE EffectTypes'
  BY <1>25 DEF LoopReturns, Teardown
<1>26. ASSUME NEW g \in Loops, LoopPanics(g) PROVE EffectTypes'
  BY <1>26 DEF LoopPanics, Teardown
<1>27. ASSUME NEW g \in Loops, LoopLeft(g) PROVE EffectTypes'
  BY <1>27 DEF LoopLeft
<1>28. ASSUME NEW g \in Loops, LoopClears(g) PROVE EffectTypes'
  BY <1>28 DEF LoopClears
<1>29. ASSUME NEW g \in Loops, LoopPublishesStop(g) PROVE EffectTypes'
  BY <1>29 DEF LoopPublishesStop, Set, Stopped
<1>30. ASSUME NEW g \in Loops, LoopProp(g) PROVE EffectTypes'
  BY <1>30 DEF LoopProp
<1>31. ASSUME NEW g \in Loops, LoopRestarts(g) PROVE EffectTypes'
  BY <1>31 DEF LoopRestarts
<1>32. CASE SelectProfile
  BY <1>32 DEF SelectProfile
<1>33. CASE MonitorReads
  BY <1>33 DEF MonitorReads, StatusOf
<1>34. CASE MonitorWrites
  BY <1>34 DEF MonitorWrites
<1>35. CASE Signal
  BY <1>35 DEF Signal
<1>36. CASE Exit
  BY <1>36 DEF Exit, Set
<1>37. CASE UNCHANGED vars
  BY <1>37 DEF vars
<1> QED BY <1>1, <1>2, <1>3, <1>4, <1>5, <1>6, <1>8, <1>9, <1>10, <1>11,
           <1>12, <1>13, <1>15, <1>16, <1>17, <1>18, <1>19, <1>20, <1>21,
           <1>22, <1>23, <1>24, <1>25, <1>26, <1>27, <1>29, <1>30, <1>31,
           <1>32, <1>33, <1>34, <1>35, <1>36, <1>37, <1>7, <1>14, <1>28
       DEF Next, StartStep, StopStep, LoopStep

\* Every step keeps the parts about prepared loops, rules and the pointer.
LEMMA NextParts ==
    ASSUME Inv, [Next]_vars
    PROVE  Prepared' /\ ClientOwned' /\ RulesOfLive'
<1> DEFINE Parts == Prepared /\ ClientOwned /\ RulesOfLive
<1> SUFFICES Parts'
  OBVIOUS
<1> USE LoopsAssumption
    DEF Inv, TypeOK, ControlTypes, Prepared, ClientOwned, RulesOfLive, Live, RunPCs, flagVars,
        loopVars, pubVars, monitorVars, envVars, reqVars, LoopFrame, Actors
<1> clientPtr \in Loops \cup {NoLoop} /\ iptablesUp \in [Loops -> BOOLEAN]
  BY DEF EffectTypes
<1>1. ASSUME NEW r \in Requests, NEW k \in Kinds, Issue(r, k) PROVE Parts'
  BY <1>1 DEF Issue, Goto
<1>2. ASSUME NEW a \in Actors, StartCheck(a) PROVE Parts'
  <2>1. Prepared'
    BY <1>2 DEF StartCheck, Quit, Finish, Goto
  <2>2. ClientOwned'
    BY <1>2 DEF StartCheck, Quit, Finish, Goto
  <2>3. /\ UNCHANGED <<rules, iptablesUp>>
        /\ \A g \in Loops : Live(g) => pc'[g] = pc[g]
    BY <1>2 DEF StartCheck, Quit, Finish, Goto
  <2>4. RulesOfLive'
    BY <2>3
  <2> QED BY <2>1, <2>2, <2>4
<1>3. ASSUME NEW a \in Actors, StartLoad(a) PROVE Parts'
  <2>1. Prepared'
    BY <1>3 DEF StartLoad, Quit, Finish, Goto
  <2>2. ClientOwned'
    BY <1>3 DEF StartLoad, Quit, Finish, Goto
  <2>3. /\ UNCHANGED <<rules, iptablesUp>>
        /\ \A g \in Loops : Live(g) => pc'[g] = pc[g]
    BY <1>3 DEF StartLoad, Quit, Finish, Goto
  <2>4. RulesOfLive'
    BY <2>3
  <2> QED BY <2>1, <2>2, <2>4
<1>4. ASSUME NEW a \in Actors, StartMark(a) PROVE Parts'
  BY <1>4 DEF StartMark, Goto
<1>5. ASSUME NEW a \in Actors, StartClear(a) PROVE Parts'
  BY <1>5 DEF StartClear, Goto
<1>6. ASSUME NEW a \in Actors, StartContext(a) PROVE Parts'
  BY <1>6 DEF StartContext, Goto
<1>7. ASSUME NEW a \in Actors, StartDone(a) PROVE Parts'
  <2>1. PICK g \in Loops :
          /\ Free(g) /\ \A b \in Actors : mine[b] # g
          /\ mine' = [mine EXCEPT ![a] = g]
          /\ iptablesUp' = [iptablesUp EXCEPT ![g] = FALSE]
          /\ pc' = [pc EXCEPT ![a] = "s_ctx", ![g] = "idle"]
    BY <1>7 DEF StartDone
  <2>2. a # g
    BY <1>7, <2>1 DEF StartDone, Free
  <2>3. Prepared'
    BY <1>7, <2>1, <2>2 DEF StartDone, Free
  <2>4. ClientOwned'
    BY <1>7, <2>1, <2>2 DEF StartDone, Free
  <2>5. RulesOfLive'
    BY <1>7, <2>1, <2>2 DEF StartDone, Free
  <2> QED BY <2>3, <2>4, <2>5
<1>8. ASSUME NEW a \in Actors, StartPublish(a) PROVE Parts'
  BY <1>8 DEF StartPublish, Goto
<1>9. ASSUME NEW a \in Actors, StartLaunch(a) PROVE Parts'
  <2>1. Prepared'
    BY <1>9 DEF StartLaunch
  <2>2. ClientOwned'
    BY <1>9 DEF StartLaunch
  <2>3. RulesOfLive'
    BY <1>9 DEF StartLaunch
  <2> QED BY <2>1, <2>2, <2>3
<1>10. ASSUME NEW r \in Requests, StopCheck(r) PROVE Parts'
  <2>1. Prepared'
    BY <1>10 DEF StopCheck, AfterStop, Goto
  <2>2. ClientOwned'
    BY <1>10 DEF StopCheck, AfterStop, Goto
  <2>3. RulesOfLive'
    BY <1>10 DEF StopCheck, AfterStop, Goto
  <2> QED BY <2>1, <2>2, <2>3
<1>11. ASSUME NEW r \in Requests, StopFlag(r) PROVE Parts'
  BY <1>11 DEF StopFlag, Goto
<1>12. ASSUME NEW r \in Requests, StopCancel(r) PROVE Parts'
  BY <1>12 DEF StopCancel, Goto
<1>13. ASSUME NEW r \in Requests, StopForget(r) PROVE Parts'
  BY <1>13 DEF StopForget, Goto
<1>14. ASSUME NEW r \in Requests, StopDone(r) PROVE Parts'
  BY <1>14 DEF StopDone, Goto
<1>15. ASSUME NEW r \in Requests, StopWait(r) PROVE Parts'
  BY <1>15 DEF StopWait, Goto
<1>16. ASSUME NEW r \in Requests, StopClean(r) PROVE Parts'
  BY <1>16 DEF StopClean, Goto
<1>17. ASSUME NEW r \in Requests, StopPublish(r) PROVE Parts'
  BY <1>17 DEF StopPublish, Goto
<1>18. ASSUME NEW r \in Requests, StopProp(r) PROVE Parts'
  <2>1. Prepared'
    BY <1>18 DEF StopProp, AfterStop, Goto
  <2>2. ClientOwned'
    BY <1>18 DEF StopProp, AfterStop, Goto
  <2>3. RulesOfLive'
    BY <1>18 DEF StopProp, AfterStop, Goto
  <2> QED BY <2>1, <2>2, <2>3
<1>19. ASSUME NEW g \in Loops, LoopOffline(g) PROVE Parts'
  BY <1>19 DEF LoopOffline, Goto
<1>20. ASSUME NEW g \in Loops, LoopDials(g) PROVE Parts'
  BY <1>20 DEF LoopDials, Goto
<1>21. ASSUME NEW g \in Loops, LoopAuthFails(g) PROVE Parts'
  BY <1>21 DEF LoopAuthFails, Goto
<1>22. ASSUME NEW g \in Loops, LoopConnects(g) PROVE Parts'
  BY <1>22 DEF LoopConnects, Goto
<1>23. ASSUME NEW g \in Loops, LoopApplies(g) PROVE Parts'
  <2>1. Prepared'
    BY <1>23 DEF LoopApplies, Goto
  <2>2. ClientOwned'
    BY <1>23 DEF LoopApplies, Goto
  <2>3. RulesOfLive'
    BY <1>23 DEF LoopApplies, Goto
  <2> QED BY <2>1, <2>2, <2>3
<1>24. ASSUME NEW g \in Loops, LoopLoses(g) PROVE Parts'
  BY <1>24 DEF LoopLoses, Goto
<1>25. ASSUME NEW g \in Loops, LoopReturns(g) PROVE Parts'
  <2>1. Prepared'
    BY <1>25 DEF LoopReturns, Teardown, Goto
  <2>2. ClientOwned'
    BY <1>25 DEF LoopReturns, Teardown, Goto
  <2>3. RulesOfLive'
    BY <1>25 DEF LoopReturns, Teardown, Goto
  <2> QED BY <2>1, <2>2, <2>3
<1>26. ASSUME NEW g \in Loops, LoopPanics(g) PROVE Parts'
  <2>1. Prepared'
    BY <1>26 DEF LoopPanics, Teardown, Goto
  <2>2. ClientOwned'
    BY <1>26 DEF LoopPanics, Teardown, Goto
  <2>3. RulesOfLive'
    BY <1>26 DEF LoopPanics, Teardown, Goto
  <2> QED BY <2>1, <2>2, <2>3
<1>27. ASSUME NEW g \in Loops, LoopLeft(g) PROVE Parts'
  BY <1>27 DEF LoopLeft, Goto
<1>28. ASSUME NEW g \in Loops, LoopClears(g) PROVE Parts'
  BY <1>28 DEF LoopClears, Goto
<1>29. ASSUME NEW g \in Loops, LoopPublishesStop(g) PROVE Parts'
  BY <1>29 DEF LoopPublishesStop, Goto
<1>30. ASSUME NEW g \in Loops, LoopProp(g) PROVE Parts'
  BY <1>30 DEF LoopProp, Goto
<1>31. ASSUME NEW g \in Loops, LoopRestarts(g) PROVE Parts'
  BY <1>31 DEF LoopRestarts, Goto
<1>32. CASE SelectProfile
  BY <1>32 DEF SelectProfile
<1>33. CASE MonitorReads
  BY <1>33 DEF MonitorReads
<1>34. CASE MonitorWrites
  BY <1>34 DEF MonitorWrites
<1>35. CASE Signal
  BY <1>35 DEF Signal
<1>36. CASE Exit
  BY <1>36 DEF Exit
<1>37. CASE UNCHANGED vars
  BY <1>37 DEF vars
<1> QED BY <1>1, <1>2, <1>3, <1>4, <1>5, <1>7, <1>8, <1>9, <1>10, <1>11,
           <1>12, <1>13, <1>15, <1>16, <1>17, <1>18, <1>19, <1>20, <1>21,
           <1>22, <1>23, <1>24, <1>25, <1>26, <1>27, <1>29, <1>30, <1>31,
           <1>32, <1>33, <1>34, <1>35, <1>36, <1>37, <1>6, <1>14, <1>28
       DEF Next, StartStep, StopStep, LoopStep

\* The inductive invariant holds throughout.
THEOREM InvHolds == Spec => []Inv
<1>1. Init => Inv
  BY InitInv
<1>2. Inv /\ [Next]_vars => Inv'
  BY NextControlTypes, NextEffectTypes, NextParts DEF Inv, TypeOK
<1> QED BY <1>1, <1>2, PTL DEF Spec

\* Type correctness of the lifecycle.
THEOREM TypeCorrect == Spec => []TypeOK
<1>1. Inv => TypeOK
  BY DEF Inv
<1> QED BY <1>1, InvHolds, PTL

\* Complete rules always have a running loop that will remove them.
THEOREM RulesOwnedHolds == Spec => []RulesOwned
<1>1. Inv => RulesOwned
  BY DEF Inv, RulesOfLive, RulesOwned
<1> QED BY <1>1, InvHolds, PTL

\* The client pointer never outlives the session it was stored for.
THEOREM ClientOwnedHolds == Spec => []ClientOwned
<1>1. Inv => ClientOwned
  BY DEF Inv
<1> QED BY <1>1, InvHolds, PTL

-----------------------------------------------------------------------------
(* Requests that do not overlap: the two flags then order everything, with   *)
(* panics, signals and stops that give up.                                  *)

\* In tunnelLoop, or returned from it with tunnelRunning still set.
Busy(g) == pc[g] \in RunPCs \cup {"left", "e_flag"}

\* In its goroutine, at the end of it too.
Active(g) == pc[g] \notin {"idle", "gone"}

\* One request at a time; no loop restarts itself, since its stop was asked for.
OneRequest ==
    /\ \A r, q \in Requests : pc[r] # "idle" /\ pc[q] # "idle" => r = q
    /\ \A r \in Requests : pc[r] \in {"idle"} \cup StartPCs \cup StopPCs
    /\ \A g \in Loops : pc[g] \in {"idle", "gone", "left", "e_flag", "e_state", "e_prop"} \cup RunPCs

\* One loop at a time, the one that the shared variables mean, and a cancelled one
\* finds out that it was stopped.
BusyOK ==
    /\ \A g, h \in Loops : Busy(g) /\ Busy(h) => g = h
    /\ \A g \in Loops : Busy(g) => tunnelRunning /\ tunnelCancel = g /\ tunnelDone = g
    /\ \A g \in Loops : Busy(g) /\ cancelled[g] => explicitStop
    /\ \A g \in Loops : pc[g] = "left" => explicitStop \/ signalled

\* A start past its check is alone, and what it has prepared is as new.
StartOK ==
    \A r \in Requests :
      /\ pc[r] \in {"s_load", "s_mark"} => ~tunnelRunning
      /\ pc[r] \in {"s_clear", "s_done", "s_ctx", "s_state", "s_prop"} =>
           tunnelRunning /\ \A g \in Loops : ~Busy(g)
      /\ pc[r] \in {"s_ctx", "s_state", "s_prop"} =>
           tunnelDone = mine[r] /\ ~cancelled[mine[r]]
      /\ pc[r] \in {"s_state", "s_prop"} => tunnelCancel = mine[r]

\* A stop that has cancelled has cancelled whoever runs.
StopOK ==
    \A r \in Requests :
      /\ pc[r] = "t_cancel" => explicitStop
      /\ pc[r] \in {"t_forget", "t_done", "t_wait", "t_clean", "t_state", "t_prop"} =>
           \A g \in Loops : Live(g) => cancelled[g]

Serial == OneRequest /\ BusyOK /\ StartOK /\ StopOK

\* The idle daemon satisfies it.
LEMMA InitSerial == Init => Serial
  BY LoopsAssumption
     DEF Init, Serial, OneRequest, BusyOK, StartOK, StopOK, Busy, Live, RunPCs, Actors

\* Every step keeps it, panics and signals included.
LEMMA NextSerial ==
    ASSUME ~Overlap, Inv, Serial, [Next]_vars
    PROVE  Serial'
<1> USE LoopsAssumption
    DEF Inv, TypeOK, ControlTypes, Prepared, Serial, OneRequest, BusyOK, StartOK, StopOK, Live,
        Busy, RunPCs, StartPCs, StopPCs, flagVars, loopVars, pubVars, monitorVars, envVars,
        reqVars, LoopFrame, Actors
<1> cancelled \in [Loops -> BOOLEAN] /\ iptablesUp \in [Loops -> BOOLEAN] /\ rules \in BOOLEAN
  BY DEF EffectTypes
<1>1. ASSUME NEW r \in Requests, NEW k \in Kinds, Issue(r, k) PROVE Serial'
  BY <1>1 DEF Issue, Goto
<1>2. ASSUME NEW r \in Requests, StartCheck(r) PROVE Serial'
  BY <1>2 DEF StartCheck, Quit, Finish, Goto
<1>3. ASSUME NEW r \in Requests, StartLoad(r) PROVE Serial'
  BY <1>3 DEF StartLoad, Quit, Finish, Goto
<1>4. ASSUME NEW r \in Requests, StartMark(r) PROVE Serial'
  BY <1>4 DEF StartMark, Goto
<1>5. ASSUME NEW r \in Requests, StartClear(r) PROVE Serial'
  BY <1>5 DEF StartClear, Goto
<1>6. ASSUME NEW r \in Requests, StartDone(r) PROVE Serial'
  <2>1. PICK g \in Loops :
          /\ Free(g) /\ \A b \in Actors : mine[b] # g
          /\ mine' = [mine EXCEPT ![r] = g]
          /\ tunnelDone' = g
          /\ cancelled' = [cancelled EXCEPT ![g] = FALSE]
          /\ pc' = [pc EXCEPT ![r] = "s_ctx", ![g] = "idle"]
    BY <1>6 DEF StartDone
  <2>2. OneRequest'
    BY <1>6, <2>1 DEF StartDone
  <2>3. \A h \in Loops : ~Busy(h) /\ ~Busy(h)'
    BY <1>6, <2>1 DEF StartDone
  <2>4. BusyOK'
    BY <2>3
  <2>5. StartOK'
    BY <1>6, <2>1, <2>3 DEF StartDone
  <2>6. StopOK'
    BY <1>6, <2>1, <2>3 DEF StartDone
  <2> QED BY <2>2, <2>4, <2>5, <2>6
<1>7. ASSUME NEW r \in Requests, StartContext(r) PROVE Serial'
  BY <1>7 DEF StartContext, Goto
<1>8. ASSUME NEW r \in Requests, StartPublish(r) PROVE Serial'
  BY <1>8 DEF StartPublish, Goto
<1>9. ASSUME NEW r \in Requests, StartLaunch(r) PROVE Serial'
  BY <1>9 DEF StartLaunch
<1>10. ASSUME NEW r \in Requests, StopCheck(r) PROVE Serial'
  BY <1>10 DEF StopCheck, AfterStop, Goto
<1>11. ASSUME NEW r \in Requests, StopFlag(r) PROVE Serial'
  BY <1>11 DEF StopFlag, Goto
<1>12. ASSUME NEW r \in Requests, StopCancel(r) PROVE Serial'
  BY <1>12 DEF StopCancel, Goto
<1>13. ASSUME NEW r \in Requests, StopForget(r) PROVE Serial'
  BY <1>13 DEF StopForget, Goto
<1>14. ASSUME NEW r \in Requests, StopDone(r) PROVE Serial'
  BY <1>14 DEF StopDone, Goto
<1>15. ASSUME NEW r \in Requests, StopWait(r) PROVE Serial'
  BY <1>15 DEF StopWait, Goto
<1>16. ASSUME NEW r \in Requests, StopClean(r) PROVE Serial'
  BY <1>16 DEF StopClean, Goto
<1>17. ASSUME NEW r \in Requests, StopPublish(r) PROVE Serial'
  BY <1>17 DEF StopPublish, Goto
<1>18. ASSUME NEW r \in Requests, StopProp(r) PROVE Serial'
  BY <1>18 DEF StopProp, AfterStop, Goto
<1>19. ASSUME NEW g \in Loops, LoopOffline(g) PROVE Serial'
  BY <1>19 DEF LoopOffline, Goto
<1>20. ASSUME NEW g \in Loops, LoopDials(g) PROVE Serial'
  BY <1>20 DEF LoopDials, Goto
<1>21. ASSUME NEW g \in Loops, LoopAuthFails(g) PROVE Serial'
  BY <1>21 DEF LoopAuthFails, Goto
<1>22. ASSUME NEW g \in Loops, LoopConnects(g) PROVE Serial'
  BY <1>22 DEF LoopConnects, Goto
<1>23. ASSUME NEW g \in Loops, LoopApplies(g) PROVE Serial'
  BY <1>23 DEF LoopApplies, Goto
<1>24. ASSUME NEW g \in Loops, LoopLoses(g) PROVE Serial'
  BY <1>24 DEF LoopLoses, Goto
<1>25. ASSUME NEW g \in Loops, LoopReturns(g) PROVE Serial'
  BY <1>25 DEF LoopReturns, Teardown, Goto, Done
<1>26. ASSUME NEW g \in Loops, LoopPanics(g) PROVE Serial'
  BY <1>26 DEF LoopPanics, Teardown, Goto
<1>27. ASSUME NEW g \in Loops, LoopLeft(g) PROVE Serial'
  BY <1>27 DEF LoopLeft, Goto
<1>28. ASSUME NEW g \in Loops, LoopClears(g) PROVE Serial'
  BY <1>28 DEF LoopClears, Goto
<1>29. ASSUME NEW g \in Loops, LoopPublishesStop(g) PROVE Serial'
  BY <1>29 DEF LoopPublishesStop, Goto
<1>30. ASSUME NEW g \in Loops, LoopProp(g) PROVE Serial'
  BY <1>30 DEF LoopProp, Goto
<1>31. CASE SelectProfile
  BY <1>31 DEF SelectProfile
<1>32. CASE MonitorReads
  BY <1>32 DEF MonitorReads
<1>33. CASE MonitorWrites
  BY <1>33 DEF MonitorWrites
<1>34. CASE Signal
  BY <1>34 DEF Signal
<1>35. CASE Exit
  BY <1>35 DEF Exit
<1>36. CASE UNCHANGED vars
  BY <1>36 DEF vars
<1>37. \A g \in Loops : ~StartStep(g) /\ ~LoopRestarts(g)
  BY DEF StartStep, StartCheck, StartLoad, StartMark, StartClear, StartDone, StartContext,
         StartPublish, StartLaunch, LoopRestarts
<1> HIDE DEF Serial, Inv
<1> QED BY <1>1, <1>2, <1>3, <1>4, <1>5, <1>6, <1>8, <1>9, <1>10, <1>11,
           <1>12, <1>13, <1>15, <1>16, <1>17, <1>18, <1>19, <1>20, <1>21,
           <1>22, <1>23, <1>24, <1>25, <1>26, <1>27, <1>29, <1>30, <1>31,
           <1>32, <1>33, <1>34, <1>35, <1>36, <1>37, <1>7, <1>14, <1>28
       DEF Next, StartStep, StopStep, LoopStep

\* The lifecycle of requests that do not overlap, whatever panics, signals and
\* stops that give up.
THEOREM SerialHolds ==
    ASSUME ~Overlap
    PROVE  Spec => [](Inv /\ Serial)
<1>1. Init => Inv /\ Serial
  BY InitInv, InitSerial
<1>2. Inv /\ Serial /\ [Next]_vars => Inv' /\ Serial'
  BY NextControlTypes, NextEffectTypes, NextParts, NextSerial DEF Inv, TypeOK
<1> QED BY <1>1, <1>2, PTL DEF Spec

-----------------------------------------------------------------------------
(* The same, without panics and signals: what a stop has done when it returns. *)

\* Stopped, and not yet gone.
Leaving(g) == pc[g] \in {"left", "e_flag", "e_state", "e_prop"} \/ (Live(g) /\ cancelled[g])

\* A stop waits for whoever leaves, or late says that it gave up; a loop that is
\* not the current one is one that was given up.
LateOK ==
    /\ \A g \in Loops : Leaving(g) =>
         late \/ \E r \in Requests :
                    pc[r] \in {"t_forget", "t_done"} \/ (pc[r] = "t_wait" /\ waitOn[r] = g)
    /\ \A g \in Loops : Active(g) => late \/ tunnelDone = g

\* tunnelRunning means a loop, or a start that is about to launch one.
RunningOK ==
    tunnelRunning =>
      \/ \E g \in Loops : Busy(g)
      \/ \E r \in Requests : pc[r] \in {"s_clear", "s_done", "s_ctx", "s_state", "s_prop"}

\* A tunnel that is down has published it, or a loop is about to.
ShownOK ==
    /\ ~tunnelRunning => st = Stopped \/ \E g \in Loops : pc[g] = "e_state"
    /\ \A r \in Requests : pc[r] = "t_prop" /\ ~late => st = Stopped

\* StopIsComplete, and why nothing changes before the next request.
DoneOK ==
    /\ lastDone # "none" => \A r \in Requests : pc[r] = "idle"
    /\ \A r \in Requests : pc[r] \in StartPCs => kind[r] # "stop"
    /\ lastDone = "stop" => ~tunnelRunning /\ st = Stopped /\ \A g \in Loops : ~Active(g)

\* The monitor has seen the State or has a notification; a status in module.prop that
\* a stopped tunnel should not show will be overwritten.
MonitorOK ==
    /\ pending \/ lastStatus \in {"", StatusOf(st)}
    /\ monitorWrite \in {"", lastStatus}
    /\ ~tunnelRunning =>
         \/ prop = "disconnected" \/ monitorWrite = "disconnected"
         \/ pending /\ lastStatus # "disconnected"
         \/ \E g \in Loops : pc[g] \in {"e_state", "e_prop"}

Calm == ~signalled /\ LateOK /\ RunningOK /\ ShownOK /\ DoneOK /\ MonitorOK

\* A step that lets no loop begin to leave and disturbs nobody who waits for one.
LEMMA LateStep ==
    ASSUME LateOK, UNCHANGED <<late, waitOn, tunnelDone>>,
           \A q \in Requests : pc[q] \in {"t_forget", "t_done", "t_wait"} => pc'[q] = pc[q],
           \A g \in Loops : (Leaving(g)' => Leaving(g)) /\ (Active(g)' => Active(g))
    PROVE  LateOK'
  BY DEF LateOK

\* Such as one of a request that waits for none.
LEMMA LateFrame ==
    ASSUME LateOK, pc \in [Actors -> PCs], NEW r \in Requests, NEW l,
           pc[r] \notin {"t_forget", "t_done", "t_wait"}, pc' = [pc EXCEPT ![r] = l],
           UNCHANGED <<late, cancelled, waitOn, tunnelDone>>
    PROVE  LateOK'
<1>1. \A g \in Loops : pc'[g] = pc[g]
  BY LoopsAssumption DEF Actors
<1>2. \A q \in Requests : pc[q] \in {"t_forget", "t_done", "t_wait"} => pc'[q] = pc[q]
  BY DEF Actors
<1>3. \A g \in Loops : (Leaving(g)' => Leaving(g)) /\ (Active(g)' => Active(g))
  BY <1>1 DEF Leaving, Active, Live
<1> QED BY <1>2, <1>3, LateStep

\* A request ends in another way than a stop that found or made the tunnel stopped.
LEMMA OtherEnd ==
    ASSUME OneRequest, DoneOK, pc \in [Actors -> PCs], NEW r \in Requests, pc[r] # "idle",
           pc' = [pc EXCEPT ![r] = "idle"], lastDone' # "stop", UNCHANGED kind
    PROVE  DoneOK'
<1>1. \A q \in Requests : pc'[q] = "idle"
  BY DEF OneRequest, Actors
<1> QED BY <1>1 DEF DoneOK, StartPCs

\* A stop that leaves nobody behind ends with the tunnel down.
LEMMA StopEnd ==
    ASSUME OneRequest, DoneOK, pc \in [Actors -> PCs], NEW r \in Requests, pc[r] # "idle",
           pc' = [pc EXCEPT ![r] = "idle"], UNCHANGED <<kind, tunnelRunning, st>>,
           ~tunnelRunning, st = Stopped, \A g \in Loops : ~Active(g)
    PROVE  DoneOK'
<1>1. \A q \in Requests : pc'[q] = "idle"
  BY DEF OneRequest, Actors
<1>2. \A g \in Loops : pc'[g] = pc[g]
  BY LoopsAssumption DEF Actors
<1> QED BY <1>1, <1>2 DEF DoneOK, StartPCs, Active, Stopped

\* While a request is not waiting for a loop, only a late loop is on its way out.
LEMMA NobodyLeaves ==
    ASSUME OneRequest, LateOK, ~late, NEW r \in Requests,
           pc[r] \notin {"idle", "t_forget", "t_done", "t_wait"}
    PROVE  \A g \in Loops : ~Leaving(g)
  BY DEF OneRequest, LateOK

\* After the cancel, only a late loop is there at all.
LEMMA NobodyThere ==
    ASSUME OneRequest, StopOK, LateOK, ~late, NEW r \in Requests,
           \/ pc[r] \in {"t_clean", "t_state", "t_prop"}
           \/ pc[r] = "t_check" /\ ~tunnelRunning /\ BusyOK
    PROVE  \A g \in Loops : ~Active(g)
<1>1. \A g \in Loops : ~Leaving(g)
  BY NobodyLeaves
<1>2. \A g \in Loops : ~Live(g)
  BY <1>1 DEF StopOK, Leaving, BusyOK, Busy, Live
<1> QED BY <1>1, <1>2 DEF OneRequest, Active, Leaving, Live

\* What the monitor shows of a stopped tunnel.
LEMMA StoppedStatus == StatusOf(Stopped) = "disconnected"
  BY DEF StatusOf, Stopped

\* The idle daemon satisfies it.
LEMMA InitCalm == Init => Calm
<1> SUFFICES ASSUME Init PROVE Calm
  OBVIOUS
<1> USE LoopsAssumption DEF Init, Actors
<1>1. LateOK /\ RunningOK
  BY DEF LateOK, RunningOK, Leaving, Active, Live, RunPCs
<1>2. ShownOK /\ DoneOK /\ MonitorOK
  BY DEF ShownOK, DoneOK, MonitorOK, Stopped, StartPCs
<1> QED BY <1>1, <1>2 DEF Calm

\* Every step keeps it.
LEMMA NextCalm ==
    ASSUME ~Overlap, ~MayPanic, ~MaySignal, Inv, Serial, Calm, [Next]_vars
    PROVE  Calm'
<1> USE LoopsAssumption
    DEF Actors, flagVars, loopVars, pubVars, monitorVars, envVars, reqVars, LoopFrame
<1>a. /\ pc \in [Actors -> PCs] /\ kind \in [Requests -> Kinds]
      /\ mine \in [Actors -> Loops \cup {NoLoop}] /\ waitOn \in [Requests -> Loops \cup {NoLoop}]
      /\ tunnelRunning \in BOOLEAN /\ tunnelDone \in Loops \cup {NoLoop}
      /\ cancelled \in [Loops -> BOOLEAN] /\ late \in BOOLEAN /\ pending \in BOOLEAN
      /\ st \in [Running: BOOLEAN, Connected: BOOLEAN, State: StateNames]
      /\ lastStatus \in Statuses \cup {""} /\ monitorWrite \in Statuses \cup {""}
  BY DEF Inv, TypeOK, ControlTypes, EffectTypes
<1>b. /\ Prepared /\ OneRequest /\ BusyOK /\ StartOK /\ StopOK
      /\ LateOK /\ RunningOK /\ ShownOK /\ DoneOK /\ MonitorOK /\ signalled = FALSE
  BY DEF Inv, Serial, Calm, TypeOK, EffectTypes
<1>c. UNCHANGED signalled
  BY <1>b DEF Next, vars, Issue, StopStep, StopCheck, StopFlag, StopCancel, StopForget, StopDone, StopWait,
     StopClean, StopPublish, StopProp, StartStep, StartCheck, StartLoad, Quit, StartMark,
     StartClear, StartDone, StartContext, StartPublish, StartLaunch, LoopStep, LoopOffline, LoopDials,
     LoopAuthFails, LoopConnects, LoopApplies, LoopLoses, LoopReturns, LoopPanics, LoopLeft,
     LoopClears, LoopPublishesStop, LoopProp, LoopRestarts, SelectProfile, MonitorReads, MonitorWrites,
     Signal, Exit
<1> DEFINE Parts == LateOK /\ RunningOK /\ ShownOK /\ DoneOK /\ MonitorOK
<1> SUFFICES Parts'
  BY <1>b, <1>c DEF Calm
<1> USE <1>a, <1>b
    DEF LateOK, Leaving, Active, Live, Busy, RunPCs, StartPCs, RunningOK, ShownOK, DoneOK, MonitorOK
<1>1. ASSUME NEW r \in Requests, NEW k \in Kinds, Issue(r, k) PROVE Parts'
  BY <1>1 DEF Issue, Goto, Kinds
<1>2. ASSUME NEW r \in Requests, StartCheck(r) PROVE Parts'
  <2>1. CASE tunnelRunning
    <3>1. pc' = [pc EXCEPT ![r] = "idle"] /\ lastDone' = Outcome(r) /\ kind[r] # "stop"
      BY <1>2, <2>1 DEF StartCheck, Quit, Finish, Goto
    <3>2. Outcome(r) # "stop"
      BY <3>1 DEF Outcome
    <3>3. UNCHANGED <<kind, late, cancelled, waitOn, tunnelDone>>
      BY <1>2, <2>1 DEF StartCheck, Quit
    <3>4. LateOK' /\ DoneOK'
      BY <1>2, <3>1, <3>2, <3>3, LateFrame, OtherEnd DEF StartCheck
    <3>5. RunningOK' /\ ShownOK' /\ MonitorOK'
      BY <1>2, <2>1, <3>1 DEF StartCheck, Quit
    <3> QED BY <3>4, <3>5
  <2>2. CASE ~tunnelRunning
    <3>1. LateOK'
      <4>1. /\ pc[r] = "s_check" /\ pc' = [pc EXCEPT ![r] = "s_load"]
            /\ UNCHANGED <<late, cancelled, waitOn, tunnelDone>>
        BY <1>2, <2>2 DEF StartCheck, Goto
      <4> QED BY <4>1, LateFrame
    <3>2. RunningOK'
      BY <1>2, <2>2 DEF StartCheck, Goto
    <3>3. ShownOK'
      BY <1>2, <2>2, ZenonT(60) DEF StartCheck, Goto
    <3>4. DoneOK'
      BY <1>2, <2>2 DEF StartCheck, Goto
    <3>5. MonitorOK'
      BY <1>2, <2>2 DEF StartCheck, Goto
    <3> QED BY <3>1, <3>2, <3>3, <3>4, <3>5
  <2> QED BY <2>1, <2>2
<1>3. ASSUME NEW r \in Requests, StartLoad(r) PROVE Parts'
  <2>1. CASE ~profile
    <3>1. /\ pc' = [pc EXCEPT ![r] = "idle"] /\ lastDone' = "refused"
          /\ UNCHANGED <<kind, late, cancelled, waitOn, tunnelDone>>
      BY <1>3, <2>1 DEF StartLoad, Quit, Finish, Goto
    <3>2. LateOK' /\ DoneOK'
      BY <1>3, <3>1, LateFrame, OtherEnd DEF StartLoad
    <3>3. pending' = TRUE /\ UNCHANGED <<st, tunnelRunning, prop, monitorVars>>
      BY <1>3, <2>1 DEF StartLoad, Quit, Set
    <3>4. RunningOK' /\ ShownOK'
      BY <1>3, <3>1, <3>3 DEF StartLoad
    <3>5. MonitorOK'
      BY <1>3, <3>1, <3>3 DEF StartLoad
    <3> QED BY <3>2, <3>4, <3>5
  <2>2. CASE profile
    <3>1. LateOK'
      <4>1. /\ pc[r] = "s_load" /\ pc' = [pc EXCEPT ![r] = "s_mark"]
            /\ UNCHANGED <<late, cancelled, waitOn, tunnelDone>>
        BY <1>3, <2>2 DEF StartLoad, Goto
      <4> QED BY <4>1, LateFrame
    <3>2. RunningOK'
      BY <1>3, <2>2 DEF StartLoad, Goto
    <3>3. ShownOK'
      BY <1>3, <2>2, ZenonT(60) DEF StartLoad, Goto
    <3>4. DoneOK'
      BY <1>3, <2>2 DEF StartLoad, Goto
    <3>5. MonitorOK'
      BY <1>3, <2>2 DEF StartLoad, Goto
    <3> QED BY <3>1, <3>2, <3>3, <3>4, <3>5
  <2> QED BY <2>1, <2>2 DEF StartLoad
<1>4. ASSUME NEW r \in Requests, StartMark(r) PROVE Parts'
  BY <1>4, ZenonT(60) DEF StartMark, Goto
<1>5. ASSUME NEW r \in Requests, StartClear(r) PROVE Parts'
  BY <1>5, ZenonT(60) DEF StartClear, Goto
<1>6. ASSUME NEW r \in Requests, StartDone(r) PROVE Parts'
  <2>1. PICK g \in Loops :
          /\ Free(g) /\ tunnelDone' = g
          /\ cancelled' = [cancelled EXCEPT ![g] = FALSE]
          /\ pc' = [pc EXCEPT ![r] = "s_ctx", ![g] = "idle"]
    BY <1>6 DEF StartDone
  <2>2. /\ pc[r] = "s_done" /\ pc[g] \in {"idle", "gone"} /\ tunnelRunning
        /\ UNCHANGED <<waitOn, tunnelRunning, pubVars, prop, monitorVars, reqVars>>
    BY <1>6, <2>1 DEF StartDone, Free, StartOK
  <2>3. \A h \in Loops : Active(h) => late
    <3>1. \A h \in Loops : ~Busy(h)
      BY <2>2 DEF StartOK
    <3>2. ~late => \A h \in Loops : ~Leaving(h)
      BY <2>2, NobodyLeaves
    <3> QED BY <3>1, <3>2 DEF OneRequest
  <2>4. LateOK'
    BY <2>1, <2>2, <2>3
  <2>5. RunningOK' /\ ShownOK' /\ MonitorOK'
    BY <2>1, <2>2
  <2>6. DoneOK'
    <3>1. lastDone = "none" /\ kind[r] # "stop"
      BY <2>2
    <3>2. pc'[g] = "idle" /\ \A q \in Requests : q # r => pc'[q] = pc[q]
      BY <2>1
    <3> QED BY <2>2, <3>1, <3>2
  <2> QED BY <2>4, <2>5, <2>6
<1>7. ASSUME NEW r \in Requests, StartContext(r) PROVE Parts'
  BY <1>7, ZenonT(60) DEF StartContext, Goto
<1>8. ASSUME NEW r \in Requests, StartPublish(r) PROVE Parts'
  <2>1. tunnelRunning /\ \A q \in Requests : pc[q] # "t_prop"
    BY <1>8 DEF StartPublish, StartOK, OneRequest
  <2> QED BY <1>8, <2>1, ZenonT(60) DEF StartPublish, Goto, Set
<1>9. ASSUME NEW r \in Requests, StartLaunch(r) PROVE Parts'
  <2> DEFINE g == mine[r]
  <2>1. /\ pc[r] = "s_prop" /\ g \in Loops /\ tunnelRunning /\ tunnelDone = g /\ ~cancelled[g]
        /\ pc[g] = "idle" /\ kind[r] # "stop"
    BY <1>9 DEF StartLaunch, Prepared, StartOK
  <2>2. pc' = [pc EXCEPT ![g] = "first", ![r] = "idle"] /\ lastDone' = Outcome(r)
    BY <1>9 DEF StartLaunch
  <2>3. UNCHANGED <<tunnelRunning, tunnelDone, cancelled, waitOn, late, kind, pubVars, monitorVars>>
    BY <1>9 DEF StartLaunch
  <2> HIDE DEF g
  <2>4. pc'[g] = "first" /\ \A h \in Loops : h # g => pc'[h] = pc[h]
    BY <2>1, <2>2
  <2>5. \A q \in Requests : pc'[q] = "idle" /\ (q # r => pc[q] = "idle")
    BY <2>1, <2>2 DEF OneRequest
  <2>6. LateOK'
    BY <2>1, <2>3, <2>4, <2>5
  <2>7. RunningOK'
    BY <2>1, <2>4
  <2>8. ShownOK' /\ MonitorOK'
    BY <2>1, <2>3, <2>5 DEF StatusOf
  <2>9. DoneOK'
    BY <2>1, <2>2, <2>3, <2>5 DEF Outcome
  <2> QED BY <2>6, <2>7, <2>8, <2>9
<1>10. ASSUME NEW r \in Requests, StopCheck(r) PROVE Parts'
  <2>0. /\ UNCHANGED <<waitOn, flagVars, loopVars, pubVars, prop, monitorVars, kind, late>>
        /\ pc[r] = "t_check"
    BY <1>10 DEF StopCheck
  <2>1. PICK l \in {"t_flag", "s_check", "idle"} : pc' = [pc EXCEPT ![r] = l]
    BY <1>10 DEF StopCheck, AfterStop, Goto
  <2>2. LateOK'
    BY <2>0, <2>1, LateFrame
  <2>3. RunningOK' /\ ShownOK' /\ MonitorOK'
    BY <2>0, <2>1
  <2>4. DoneOK'
    <3>1. CASE tunnelRunning
      BY <1>10, <2>0, <3>1, ZenonT(60) DEF StopCheck, Goto
    <3>2. CASE ~tunnelRunning /\ kind[r] = "restart"
      BY <1>10, <2>0, <3>2 DEF StopCheck, AfterStop, Goto
    <3>3. CASE ~tunnelRunning /\ kind[r] # "restart"
      <4>1. pc' = [pc EXCEPT ![r] = "idle"] /\ lastDone' = Outcome(r)
        BY <1>10, <3>3 DEF StopCheck, AfterStop, Goto
      <4>2. CASE late
        BY <2>0, <4>1, <4>2, OtherEnd DEF Outcome
      <4>3. CASE ~late
        <5>1. \A g \in Loops : ~Active(g)
          BY <2>0, <3>3, <4>3, NobodyThere
        <5>2. st = Stopped
          BY <3>3, <5>1
        <5> QED BY <2>0, <3>3, <4>1, <5>1, <5>2, StopEnd
      <4> QED BY <4>2, <4>3
    <3> QED BY <3>1, <3>2, <3>3
  <2> QED BY <2>2, <2>3, <2>4
<1>11. ASSUME NEW r \in Requests, StopFlag(r) PROVE Parts'
  BY <1>11 DEF StopFlag, Goto
<1>12. ASSUME NEW r \in Requests, StopCancel(r) PROVE Parts'
  BY <1>12 DEF StopCancel, Goto
<1>13. ASSUME NEW r \in Requests, StopForget(r) PROVE Parts'
  BY <1>13 DEF StopForget, Goto
<1>14. ASSUME NEW r \in Requests, StopDone(r) PROVE Parts'
  <2>0. /\ pc[r] = "t_done" /\ waitOn' = [waitOn EXCEPT ![r] = tunnelDone]
        /\ pc' = [pc EXCEPT ![r] = IF tunnelDone = NoLoop THEN "t_clean" ELSE "t_wait"]
        /\ UNCHANGED <<flagVars, cancelled, pubVars, prop, monitorVars, reqVars>>
    BY <1>14 DEF StopDone, Goto
  <2>1. LateOK'
    <3>1. \A g \in Loops : pc'[g] = pc[g]
      BY <2>0
    <3>2. ASSUME NEW g \in Loops, Active(g) PROVE late \/ (pc'[r] = "t_wait" /\ waitOn'[r] = g)
      <4>1. late \/ tunnelDone = g
        BY <3>2
      <4> QED BY <2>0, <4>1
    <3>3. \A g \in Loops : Leaving(g) => Active(g)
      OBVIOUS
    <3> QED BY <2>0, <3>1, <3>2, <3>3
  <2>2. RunningOK' /\ ShownOK' /\ DoneOK' /\ MonitorOK'
    BY <2>0
  <2> QED BY <2>1, <2>2
<1>15. ASSUME NEW r \in Requests, StopWait(r) PROVE Parts'
  <2>0. /\ pc[r] = "t_wait" /\ pc' = [pc EXCEPT ![r] = "t_clean"]
        /\ late' = (late \/ pc[waitOn[r]] # "gone")
        /\ waitOn' = [waitOn EXCEPT ![r] = NoLoop]
        /\ UNCHANGED <<flagVars, cancelled, pubVars, prop, monitorVars, kind, lastDone>>
    BY <1>15 DEF StopWait, Goto
  <2>1. LateOK'
    <3>1. \A g \in Loops : pc'[g] = pc[g]
      BY <2>0
    <3>2. ASSUME NEW g \in Loops, Leaving(g) PROVE late'
      <4>1. pc[g] # "gone"
        BY <3>2
      <4>2. late \/ waitOn[r] = g
        BY <2>0, <3>2, ZenonT(60) DEF OneRequest
      <4> QED BY <2>0, <4>1, <4>2
    <3> QED BY <2>0, <3>1, <3>2
  <2>2. RunningOK' /\ ShownOK' /\ DoneOK' /\ MonitorOK'
    BY <2>0
  <2> QED BY <2>1, <2>2
<1>16. ASSUME NEW r \in Requests, StopClean(r) PROVE Parts'
  BY <1>16 DEF StopClean, Goto
<1>17. ASSUME NEW r \in Requests, StopPublish(r) PROVE Parts'
  BY <1>17 DEF StopPublish, Goto, Set
<1>18. ASSUME NEW r \in Requests, StopProp(r) PROVE Parts'
  <2>0. /\ UNCHANGED <<waitOn, flagVars, loopVars, pubVars, monitorVars, kind, late>>
        /\ pc[r] = "t_prop" /\ prop' = "disconnected"
    BY <1>18 DEF StopProp
  <2>1. PICK l \in {"s_check", "idle"} : pc' = [pc EXCEPT ![r] = l]
    BY <1>18 DEF StopProp, AfterStop, Goto
  <2>2. LateOK'
    BY <2>0, <2>1, LateFrame
  <2>3. RunningOK' /\ ShownOK' /\ MonitorOK'
    BY <2>0, <2>1
  <2>4. DoneOK'
    <3>1. CASE kind[r] = "restart"
      BY <1>18, <2>0, <3>1 DEF StopProp, AfterStop, Goto
    <3>2. CASE kind[r] # "restart"
      <4>1. pc' = [pc EXCEPT ![r] = "idle"] /\ lastDone' = Outcome(r)
        BY <1>18, <3>2 DEF StopProp, AfterStop, Goto
      <4>2. CASE late
        BY <2>0, <4>1, <4>2, OtherEnd DEF Outcome
      <4>3. CASE ~late
        <5>1. \A g \in Loops : ~Active(g)
          BY <2>0, <4>3, NobodyThere
        <5>2. ~tunnelRunning
          BY <2>0, <5>1 DEF OneRequest
        <5> QED BY <2>0, <4>1, <4>3, <5>1, <5>2, StopEnd
      <4> QED BY <4>2, <4>3
    <3> QED BY <3>1, <3>2
  <2> QED BY <2>2, <2>3, <2>4
<1>19. ASSUME NEW g \in Loops, LoopOffline(g) \/ LoopDials(g) \/ LoopAuthFails(g)
                                 \/ LoopConnects(g) \/ LoopApplies(g) \/ LoopLoses(g)
       PROVE  Parts'
  <2>1. /\ Live(g) /\ UNCHANGED <<waitOn, flagVars, cancelled, prop, monitorVars, reqVars>>
        /\ UNCHANGED <<st, pending>> \/ pending' = TRUE
    BY <1>19 DEF LoopOffline, LoopDials, LoopAuthFails, LoopConnects, LoopApplies, LoopLoses, Set
  <2>2. PICK l \in RunPCs : pc' = [pc EXCEPT ![g] = l]
    BY <1>19 DEF LoopOffline, LoopDials, LoopAuthFails, LoopConnects, LoopApplies, LoopLoses, Goto
  <2>3. /\ \A q \in Requests : pc'[q] = pc[q]
        /\ Live(g)' /\ \A h \in Loops : h # g => pc'[h] = pc[h]
    BY <2>2
  <2>4. tunnelRunning /\ lastDone # "stop"
    BY <2>1 DEF BusyOK
  <2>5. ASSUME NEW q \in Requests, pc[q] = "t_prop" PROVE late
    BY <2>1, <2>5, NobodyThere
  <2>6. LateOK'
    <3>1. \A h \in Loops : (Leaving(h)' => Leaving(h)) /\ (Active(h)' => Active(h))
      BY <2>1, <2>3
    <3> QED BY <2>1, <2>3, <3>1, LateStep
  <2>7. RunningOK'
    BY <2>1, <2>3
  <2>8. ShownOK' /\ DoneOK'
    BY <2>1, <2>3, <2>4, <2>5
  <2>9. MonitorOK'
    <3>1. pending' \/ lastStatus' \in {"", StatusOf(st)'}
      <4>1. pending \/ lastStatus \in {"", StatusOf(st)}
        OBVIOUS
      <4>2. st' = st => StatusOf(st)' = StatusOf(st)
        BY DEF StatusOf
      <4>3. lastStatus' = lastStatus /\ ((st' = st /\ pending' = pending) \/ pending' = TRUE)
        BY <2>1
      <4> HIDE <1>a, <1>b
      <4> QED BY <4>1, <4>2, <4>3
    <3> QED BY <2>1, <2>4, <3>1
  <2> QED BY <2>6, <2>7, <2>8, <2>9
<1>20. ASSUME NEW g \in Loops, LoopReturns(g) PROVE Parts'
  <2>1. /\ Live(g) /\ cancelled[g] /\ pc' = [pc EXCEPT ![g] = "left"]
        /\ UNCHANGED <<waitOn, flagVars, cancelled, st, pending, prop, monitorVars, reqVars>>
    BY <1>20 DEF LoopReturns, Teardown, Goto, Done
  <2>2. /\ \A q \in Requests : pc'[q] = pc[q]
        /\ pc'[g] = "left" /\ \A h \in Loops : h # g => pc'[h] = pc[h]
    BY <2>1
  <2>3. LateOK' /\ RunningOK'
    <3>1. \A h \in Loops : (Leaving(h)' => Leaving(h)) /\ (Active(h)' => Active(h))
      BY <2>1, <2>2
    <3> QED BY <2>1, <2>2, <3>1, LateStep
  <2>4. ShownOK' /\ DoneOK'
    BY <2>1, <2>2
  <2>5. MonitorOK'
    BY <2>1, <2>2
  <2> QED BY <2>3, <2>4, <2>5
<1>21. ASSUME NEW g \in Loops, LoopLeft(g) PROVE Parts'
  <2>1. /\ pc[g] = "left" /\ pc' = [pc EXCEPT ![g] = "e_flag"]
        /\ UNCHANGED <<waitOn, flagVars, cancelled, st, pending, prop, monitorVars, reqVars>>
    BY <1>21 DEF LoopLeft, Goto, BusyOK
  <2>2. /\ \A q \in Requests : pc'[q] = pc[q]
        /\ pc'[g] = "e_flag" /\ \A h \in Loops : h # g => pc'[h] = pc[h]
    BY <2>1
  <2>3. LateOK'
    <3>1. \A h \in Loops : (Leaving(h)' => Leaving(h)) /\ (Active(h)' => Active(h))
      BY <2>1, <2>2
    <3> QED BY <2>1, <2>2, <3>1, LateStep
  <2>4. RunningOK'
    BY <2>1, <2>2
  <2>5. ShownOK'
    BY <2>1, <2>2
  <2>6. DoneOK'
    BY <2>1, <2>2
  <2>7. MonitorOK'
    BY <2>1, <2>2
  <2> QED BY <2>3, <2>4, <2>5, <2>6, <2>7
<1>22. ASSUME NEW g \in Loops, LoopClears(g) PROVE Parts'
  <2>1. /\ pc[g] = "e_flag" /\ pc' = [pc EXCEPT ![g] = "e_state"] /\ tunnelRunning' = FALSE
        /\ UNCHANGED <<waitOn, tunnelDone, cancelled, st, pending, prop, monitorVars, reqVars>>
    BY <1>22 DEF LoopClears, Goto, OneRequest
  <2>2. /\ \A q \in Requests : pc'[q] = pc[q]
        /\ pc'[g] = "e_state" /\ \A h \in Loops : h # g => pc'[h] = pc[h]
    BY <2>1
  <2>3. LateOK'
    <3>1. \A h \in Loops : (Leaving(h)' => Leaving(h)) /\ (Active(h)' => Active(h))
      BY <2>1, <2>2
    <3> QED BY <2>1, <2>2, <3>1, LateStep
  <2>4. RunningOK'
    BY <2>1, <2>2
  <2>5. ShownOK'
    BY <2>1, <2>2
  <2>6. DoneOK'
    BY <2>1, <2>2
  <2>7. MonitorOK'
    BY <2>1, <2>2
  <2> QED BY <2>3, <2>4, <2>5, <2>6, <2>7
<1>23. ASSUME NEW g \in Loops, LoopPublishesStop(g) PROVE Parts'
  <2>1. LateOK'
    <3>1. \A h \in Loops : (Leaving(h)' => Leaving(h)) /\ (Active(h)' => Active(h))
      BY <1>23 DEF LoopPublishesStop, Goto
    <3> QED BY <1>23, <3>1, LateStep DEF LoopPublishesStop, Goto
  <2>2. RunningOK'
    BY <1>23 DEF LoopPublishesStop, Goto, Set
  <2>3. ShownOK'
    BY <1>23 DEF LoopPublishesStop, Goto, Set
  <2>4. DoneOK'
    BY <1>23 DEF LoopPublishesStop, Goto, Set
  <2>5. MonitorOK'
    BY <1>23 DEF LoopPublishesStop, Goto, Set
  <2> QED BY <2>1, <2>2, <2>3, <2>4, <2>5
<1>24. ASSUME NEW g \in Loops, LoopProp(g) PROVE Parts'
  BY <1>24 DEF LoopProp, Goto
<1>25. CASE SelectProfile
  <2>1. LateOK'
    BY <1>25, LateStep DEF SelectProfile
  <2>2. RunningOK'
    BY <1>25 DEF SelectProfile
  <2>3. ShownOK'
    BY <1>25 DEF SelectProfile
  <2>4. DoneOK'
    BY <1>25 DEF SelectProfile
  <2>5. MonitorOK'
    BY <1>25 DEF SelectProfile
  <2> QED BY <2>1, <2>2, <2>3, <2>4, <2>5
<1>26. CASE MonitorReads
  <2>1. /\ UNCHANGED <<pc, waitOn, flagVars, loopVars, st, prop, reqVars>> /\ pending' = FALSE
        /\ pending /\ monitorWrite = "" /\ lastStatus' = StatusOf(st)
        /\ monitorWrite' = IF StatusOf(st) # lastStatus THEN StatusOf(st) ELSE ""
    BY <1>26 DEF MonitorReads
  <2>2. LateOK' /\ RunningOK' /\ ShownOK' /\ DoneOK'
    <3>1. LateOK'
      BY <2>1, LateStep
    <3>2. RunningOK' /\ ShownOK'
      BY <2>1
    <3>3. DoneOK'
      BY <2>1
    <3> QED BY <3>1, <3>2, <3>3
  <2>3. StatusOf(st)' = StatusOf(st)
    BY <2>1 DEF StatusOf
  <2>4. MonitorOK'
    BY <2>1, <2>3, StoppedStatus
  <2> QED BY <2>2, <2>4
<1>27. CASE MonitorWrites
  <2>1. /\ UNCHANGED <<pc, waitOn, flagVars, loopVars, pubVars, lastStatus, reqVars>>
        /\ monitorWrite # "" /\ prop' = monitorWrite /\ monitorWrite' = ""
    BY <1>27 DEF MonitorWrites
  <2>2. LateOK' /\ RunningOK' /\ ShownOK' /\ DoneOK'
    <3>1. LateOK'
      BY <2>1, LateStep
    <3>2. RunningOK' /\ ShownOK'
      BY <2>1
    <3>3. DoneOK'
      BY <2>1
    <3> QED BY <3>1, <3>2, <3>3
  <2>3. StatusOf(st)' = StatusOf(st)
    BY <2>1 DEF StatusOf
  <2>4. MonitorOK'
    BY <2>1, <2>3, StoppedStatus
  <2> QED BY <2>2, <2>4
<1>28. CASE UNCHANGED vars
  <2>1. LateOK'
    BY <1>28, LateStep DEF vars
  <2>2. RunningOK'
    BY <1>28 DEF vars
  <2>3. ShownOK'
    BY <1>28 DEF vars
  <2>4. DoneOK'
    BY <1>28 DEF vars
  <2>5. MonitorOK'
    BY <1>28 DEF vars
  <2> QED BY <2>1, <2>2, <2>3, <2>4, <2>5
<1>29. \A g \in Loops : ~StartStep(g) /\ ~LoopRestarts(g) /\ ~LoopPanics(g)
  BY ZenonT(60) DEF OneRequest, StopPCs, StartStep, StartCheck, StartLoad, StartMark, StartClear,
         StartDone, StartContext, StartPublish, StartLaunch, LoopRestarts, LoopPanics
<1>30. ~Signal /\ ~Exit
  BY DEF Signal, Exit
<1> HIDE DEF Parts
<1> HIDE <1>a, <1>b
<1> QED BY <1>1, <1>2, <1>3, <1>4, <1>5, <1>6, <1>8, <1>9, <1>10, <1>11,
           <1>12, <1>13, <1>15, <1>16, <1>17, <1>18, <1>19, <1>20, <1>21,
           <1>23, <1>24, <1>25, <1>26, <1>27, <1>28, <1>29, <1>30, <1>7, <1>14, <1>22
       DEF Next, StartStep, StopStep, LoopStep

\* The lifecycle of requests that do not overlap, without panics and signals.
THEOREM CalmHolds ==
    ASSUME ~Overlap, ~MayPanic, ~MaySignal
    PROVE  Spec => [](Inv /\ Calm)
<1>1. Init => Calm
  BY InitCalm
<1>2. Inv /\ Serial /\ Calm /\ [Next]_vars => Calm'
  BY NextCalm
<1>3. Spec => [](Inv /\ Serial)
  BY SerialHolds
<1> QED BY <1>1, <1>2, <1>3, PTL DEF Spec

\* When stopTunnel has returned and no loop outlasted it, the tunnel is down in
\* every respect and the next start is not refused.
THEOREM StopCompletes ==
    ASSUME ~Overlap, ~MayPanic, ~MaySignal
    PROVE  Spec => []StopIsComplete
<1>1. Inv /\ Calm => StopIsComplete
  <2> SUFFICES ASSUME Inv, Calm, lastDone = "stop" PROVE StopIsComplete
    BY DEF StopIsComplete
  <2>1. ~tunnelRunning /\ st = Stopped /\ \A g \in Loops : ~Active(g)
    BY DEF Calm, DoneOK
  <2>2. \A g \in Loops : ~Live(g) /\ pc[g] \notin {"apply", "up"}
    BY <2>1 DEF Active, Live, RunPCs
  <2>3. ~rules
    BY <2>2 DEF Inv, RulesOfLive
  <2>4. clientPtr = NoLoop
    BY <2>2 DEF Inv, TypeOK, EffectTypes, ClientOwned
  <2> QED BY <2>1, <2>2, <2>3, <2>4 DEF StopIsComplete
<1> QED BY <1>1, CalmHolds, PTL

\* However late the monitor's write of an earlier status comes, module.prop of a
\* stopped tunnel ends up "disconnected".
THEOREM PropFollows ==
    ASSUME ~Overlap, ~MayPanic, ~MaySignal
    PROVE  Spec => []PropStopped
<1>1. Calm => PropStopped
  BY DEF Calm, DoneOK, MonitorOK, PropStopped, Quiet, Active
<1> QED BY <1>1, CalmHolds, PTL

=============================================================================
