------------------------ MODULE StateBroadcastProofs ------------------------
(***************************************************************************)
(* No notification of State is lost, for any number of setters and         *)
(* readers.                                                                *)
(***************************************************************************)
EXTENDS StateBroadcast, TLAPS

\* NothingOwedIsLost is inductive once it is known that only registered
\* readers are owed anything: a broadcast reaches exactly the registered ones.
OwedAreSubscribed == \A c \in Readers : owed[c] => c \in subs

Inv == TypeOK /\ SubscribersLive /\ OwedAreSubscribed /\ NothingOwedIsLost

\* Nobody is owed anything at first.
LEMMA InitInv == Init => Inv
  BY DEF Init, Inv, TypeOK, SubscribersLive, OwedAreSubscribed,
         NothingOwedIsLost, Readers, Setters

\* Every step keeps the types.
LEMMA NextTypes ==
    ASSUME TypeOK, [Next]_vars
    PROVE  TypeOK'
<1> USE DEF TypeOK, setVars, readVars
<1>1. ASSUME NEW w \in Setters, SetMutates(w) PROVE TypeOK'
  BY <1>1 DEF SetMutates
<1>2. ASSUME NEW w \in Setters, Broadcast(w) PROVE TypeOK'
  BY <1>2 DEF Broadcast
<1>3. ASSUME NEW c \in Clients, Open(c) PROVE TypeOK'
  BY <1>3 DEF Open
<1>4. ASSUME NEW c \in Clients, FirstSnapshot(c) PROVE TypeOK'
  BY <1>4 DEF FirstSnapshot, Snapshot
<1>5. ASSUME NEW c \in Clients, Close(c) PROVE TypeOK'
  BY <1>5 DEF Close, Readers
<1>6. ASSUME NEW c \in Readers, Subscribe(c) PROVE TypeOK'
  BY <1>6 DEF Subscribe
<1>7. ASSUME NEW c \in Readers, Receive(c) PROVE TypeOK'
  BY <1>7 DEF Receive
<1>8. ASSUME NEW c \in Readers, Read(c) PROVE TypeOK'
  BY <1>8 DEF Read, Snapshot
<1>9. ASSUME NEW c \in Readers, Written(c) PROVE TypeOK'
  BY <1>9 DEF Written
<1>10. CASE MonitorStarts
  BY <1>10 DEF MonitorStarts
<1>11. CASE UNCHANGED vars
  BY <1>11 DEF vars
<1> QED BY <1>1, <1>2, <1>3, <1>4, <1>5, <1>6, <1>7, <1>8, <1>9, <1>10,
           <1>11 DEF Next

\* The three parts about subscribers, action by action.
LEMMA NextParts ==
    ASSUME Inv, [Next]_vars
    PROVE  SubscribersLive' /\ OwedAreSubscribed' /\ NothingOwedIsLost'
<1> DEFINE Parts == SubscribersLive /\ OwedAreSubscribed /\ NothingOwedIsLost
<1> SUFFICES Parts'
  OBVIOUS
<1> USE DEF Inv, TypeOK, SubscribersLive, OwedAreSubscribed, NothingOwedIsLost,
            setVars, readVars
<1>0. Monitor \in Readers /\ Clients \subseteq Readers
  BY DEF Readers
<1>1. ASSUME NEW w \in Setters, SetMutates(w) PROVE Parts'
  BY <1>1 DEF SetMutates
<1>2. ASSUME NEW w \in Setters, Broadcast(w) PROVE Parts'
  BY <1>2 DEF Broadcast
<1>3. ASSUME NEW c \in Clients, Open(c) PROVE Parts'
  BY <1>0, <1>3 DEF Open
<1>4. ASSUME NEW c \in Clients, FirstSnapshot(c) PROVE Parts'
  BY <1>0, <1>4 DEF FirstSnapshot, Snapshot
<1>5. ASSUME NEW c \in Clients, Close(c) PROVE Parts'
  BY <1>0, <1>5 DEF Close
<1>6. ASSUME NEW c \in Readers, Subscribe(c) PROVE Parts'
  BY <1>6 DEF Subscribe
<1>7. ASSUME NEW c \in Readers, Receive(c) PROVE Parts'
  BY <1>7 DEF Receive
<1>8. ASSUME NEW c \in Readers, Read(c) PROVE Parts'
  BY <1>8 DEF Read, Snapshot
<1>9. ASSUME NEW c \in Readers, Written(c) PROVE Parts'
  BY <1>9 DEF Written
<1>10. CASE MonitorStarts
  BY <1>0, <1>10 DEF MonitorStarts
<1>11. CASE UNCHANGED vars
  BY <1>11 DEF vars
<1> QED BY <1>1, <1>2, <1>3, <1>4, <1>5, <1>6, <1>7, <1>8, <1>9, <1>10,
           <1>11 DEF Next

\* The inductive invariant holds throughout.
THEOREM InvHolds == Spec => []Inv
<1>1. Init => Inv
  BY InitInv
<1>2. Inv /\ [Next]_vars => Inv'
  BY NextTypes, NextParts DEF Inv
<1> QED BY <1>1, <1>2, PTL DEF Spec

\* "Missing one is always safe": no subscriber loses a change of State.
THEOREM NothingOwedIsLostHolds == Spec => []NothingOwedIsLost
<1>1. Inv => NothingOwedIsLost
  BY DEF Inv
<1> QED BY <1>1, InvHolds, PTL

\* The list of subscribers holds the listening handlers and nothing else.
THEOREM SubscribersLiveHolds == Spec => []SubscribersLive
<1>1. Inv => SubscribersLive
  BY DEF Inv
<1> QED BY <1>1, InvHolds, PTL

=============================================================================
