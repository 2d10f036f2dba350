--------------------------- MODULE StateBroadcast ---------------------------
(***************************************************************************)
(* The shared State of the daemon and its change notifications             *)
(* (cmd/sshcustomd/main.go): State.set, Subscribe, broadcast and Snapshot, *)
(* the handler of /api/v1/events, which streams snapshots to a dashboard,  *)
(* and the goroutine that watches State for module.prop.                   *)
(*                                                                         *)
(* State.mu makes a mutation and a snapshot atomic, State.subsMu makes a   *)
(* broadcast, a Subscribe and its cleanup atomic; between the mutation and *)
(* the broadcast of one set, anything may happen.  A value of State is     *)
(* reduced to whether a subscriber has read it yet.                        *)
(***************************************************************************)
EXTENDS Naturals

CONSTANTS
    Writers,    \* goroutines that call set, besides the metrics sampler
    Sampler,    \* startMetricsSampler, which calls set every 20 s
    Clients,    \* connections to /api/v1/events
    Monitor,    \* the module.prop goroutine
    Prompt      \* the readers whose connections do not hang

ASSUME ActorsAssumption ==
    /\ Sampler \notin Writers /\ Monitor \notin Clients
    /\ Prompt \subseteq Clients \cup {Monitor}

Setters == Writers \cup {Sampler}
Readers == Clients \cup {Monitor}

VARIABLES
    setter,      \* per setter: in set, after the mutation, or not
    reader,      \* per reader: where its handler is
    subs,        \* the readers whose channel is registered
    queued,      \* per reader: notifications in its channel, which has room for 1
    stale,       \* per reader: State changed since its last snapshot
    owed         \* history: ... since its last snapshot or its Subscribe

setVars == <<setter>>
readVars == <<reader, subs, queued>>
vars == <<setVars, readVars, stale, owed>>

TypeOK ==
    /\ setter \in [Setters -> {"idle", "wrote"}]
    /\ reader \in [Readers -> {"closed", "opening", "joining", "waiting",
                             "reading", "writing"}]
    /\ subs \in SUBSET Readers
    /\ queued \in [Readers -> 0..1]
    /\ stale \in [Readers -> BOOLEAN]
    /\ owed \in [Readers -> BOOLEAN]

Init ==
    /\ setter = [w \in Setters |-> "idle"]
    /\ reader = [c \in Readers |-> "closed"]
    /\ subs = {}
    /\ queued = [c \in Readers |-> 0]
    /\ stale = [c \in Readers |-> TRUE]
    /\ owed = [c \in Readers |-> FALSE]

-----------------------------------------------------------------------------
(* State.set *)

\* Mutate the fields under State.mu.
SetMutates(w) ==
    /\ setter[w] = "idle"
    /\ setter' = [setter EXCEPT ![w] = "wrote"]
    /\ stale' = [c \in Readers |-> TRUE]
    /\ owed' = [c \in Readers |-> owed[c] \/ c \in subs]
    /\ UNCHANGED readVars

\* Mutation: a send that waits for room in every channel.
BroadcastBlocks(w) ==
    /\ setter[w] = "wrote"
    /\ \A c \in subs : queued[c] = 0
    /\ setter' = [setter EXCEPT ![w] = "idle"]
    /\ queued' = [c \in Readers |-> IF c \in subs THEN 1 ELSE queued[c]]
    /\ UNCHANGED <<reader, subs, stale, owed>>

\* Mutation: the broadcast skips a reader that is still busy with an earlier one.
BroadcastSkipsBusy(w) ==
    /\ setter[w] = "wrote"
    /\ setter' = [setter EXCEPT ![w] = "idle"]
    /\ queued' = [c \in Readers |->
                  IF c \in subs /\ reader[c] = "waiting" THEN 1 ELSE queued[c]]
    /\ UNCHANGED <<reader, subs, stale, owed>>

\* Notify every subscriber; a full channel already holds the news.
Broadcast(w) ==
    /\ setter[w] = "wrote"
    /\ setter' = [setter EXCEPT ![w] = "idle"]
    /\ queued' = [c \in Readers |-> IF c \in subs THEN 1 ELSE queued[c]]
    /\ UNCHANGED <<reader, subs, stale, owed>>

-----------------------------------------------------------------------------
(* The readers *)

\* State.Snapshot, or the monitor's read under State.mu.
Snapshot(c) ==
    /\ stale' = [stale EXCEPT ![c] = FALSE]
    /\ owed' = [owed EXCEPT ![c] = FALSE]

\* A dashboard connects.
Open(c) ==
    /\ reader[c] = "closed"
    /\ reader' = [reader EXCEPT ![c] = "opening"]
    /\ stale' = [stale EXCEPT ![c] = TRUE]
    /\ UNCHANGED <<setVars, subs, queued, owed>>

\* The initial snapshot, before the handler subscribes.
FirstSnapshot(c) ==
    /\ reader[c] = "opening"
    /\ Snapshot(c)
    /\ reader' = [reader EXCEPT ![c] = "joining"]
    /\ UNCHANGED <<setVars, subs, queued>>

\* The monitor subscribes without reading State first.
MonitorStarts ==
    /\ reader[Monitor] = "closed"
    /\ reader' = [reader EXCEPT ![Monitor] = "joining"]
    /\ UNCHANGED <<setVars, subs, queued, stale, owed>>

\* A new channel, empty, joins the list.
Subscribe(c) ==
    /\ reader[c] = "joining"
    /\ reader' = [reader EXCEPT ![c] = "waiting"]
    /\ subs' = subs \cup {c}
    /\ queued' = [queued EXCEPT ![c] = 0]
    /\ owed' = [owed EXCEPT ![c] = FALSE]
    /\ UNCHANGED <<setVars, stale>>

\* Take the notification ...
Receive(c) ==
    /\ reader[c] = "waiting"
    /\ queued[c] = 1
    /\ queued' = [queued EXCEPT ![c] = 0]
    /\ reader' = [reader EXCEPT ![c] = "reading"]
    /\ UNCHANGED <<setVars, subs, stale, owed>>

\* ... then read the whole State under its lock ...
Read(c) ==
    /\ reader[c] = "reading"
    /\ Snapshot(c)
    /\ reader' = [reader EXCEPT ![c] = "writing"]
    /\ UNCHANGED <<setVars, subs, queued>>

\* ... and send it, or write module.prop, which may take any time.
Written(c) ==
    /\ reader[c] = "writing"
    /\ reader' = [reader EXCEPT ![c] = "waiting"]
    /\ UNCHANGED <<setVars, subs, queued, stale, owed>>

\* Mutation: the cleanup cuts the list off instead of taking one entry out.
CloseTruncates(c) ==
    /\ reader[c] # "closed"
    /\ reader' = [reader EXCEPT ![c] = "closed"]
    /\ subs' = {}
    /\ queued' = [queued EXCEPT ![c] = 0]
    /\ owed' = [owed EXCEPT ![c] = FALSE]
    /\ UNCHANGED <<setVars, stale>>

\* The connection ends or a write fails; the deferred cleanup unregisters.
Close(c) ==
    /\ reader[c] # "closed"
    /\ reader' = [reader EXCEPT ![c] = "closed"]
    /\ subs' = subs \ {c}
    /\ queued' = [queued EXCEPT ![c] = 0]
    /\ owed' = [owed EXCEPT ![c] = FALSE]
    /\ UNCHANGED <<setVars, stale>>

-----------------------------------------------------------------------------
ReaderStep(c) == FirstSnapshot(c) \/ Subscribe(c) \/ Receive(c)
                 \/ Read(c) \/ Written(c)

Next ==
    \/ \E w \in Setters : SetMutates(w) \/ Broadcast(w)
    \/ \E c \in Clients : Open(c) \/ FirstSnapshot(c) \/ Close(c)
    \/ \E c \in Readers : Subscribe(c) \/ Receive(c) \/ Read(c) \/ Written(c)
    \/ MonitorStarts

Spec == Init /\ [][Next]_vars

\* A goroutine that has mutated State gets to its broadcast, the sampler's
\* ticker fires, and readers that do not hang on a slow connection make
\* progress.  The other readers may stop anywhere.
LiveSpec ==
    /\ Spec
    /\ \A w \in Setters : WF_vars(Broadcast(w))
    /\ WF_vars(SetMutates(Sampler))
    /\ \A c \in Prompt : WF_vars(ReaderStep(c))

-----------------------------------------------------------------------------
(* Properties *)

\* "Missing one is always safe": whatever the timing of mutations, broadcasts,
\* receptions and snapshots, a subscriber that has not read a mutation made
\* since it subscribed still has a notification coming.
NothingOwedIsLost ==
    \A c \in Readers : owed[c] =>
        queued[c] = 1 \/ reader[c] = "reading" \/ \E w \in Setters : setter[w] = "wrote"

\* The list of subscribers is exactly the handlers that listen, so a dashboard
\* that reconnects for ever does not grow it.
SubscribersLive == subs = {c \in Readers : reader[c] \in {"waiting", "reading", "writing"}}

\* "A slow client never stalls a state mutation."
SetNeverStalls == \A w \in Setters : setter[w] = "wrote" ~> setter[w] = "idle"

\* A reader that does not hang gets to see a fresh State again and again, the
\* mutation that falls between its first snapshot and its Subscribe included:
\* the sampler's next set makes up for it.
EventuallyFresh ==
    \A c \in Prompt : reader[c] # "closed" /\ stale[c] ~> ~stale[c] \/ reader[c] = "closed"

=============================================================================
