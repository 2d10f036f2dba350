------------------------------- MODULE Streams -------------------------------
(***************************************************************************)
(* The traffic of the tunnel: the SOCKS5 and transparent connections, each *)
(* served by a goroutine that dials through the current SSH client and     *)
(* pipes both ways, and the DNS queries, each forwarded by a goroutine.    *)
(* The client is replaced underneath them whenever the tunnel reconnects.  *)
(*                                                                         *)
(* Of the payload, a pump knows the chunk it owes to the other side; a DNS  *)
(* message is the query it belongs to.  Time is left out: a deadline or     *)
(* timer may expire at any moment.                                         *)
(***************************************************************************)
EXTENDS Naturals, FiniteSets

CONSTANTS
    Conns,          \* connections to the SOCKS5 or the transparent listener
    Queries,        \* UDP datagrams to the DNS forwarder
    MaxHandlers,    \* bound: connections and queries that arrive
    MaxSessions,    \* bound: SSH clients the tunnel gets
    None            \* no query

ASSUME StreamAssumption ==
    /\ MaxHandlers \in Nat /\ MaxSessions \in Nat \ {0}
    /\ None \notin Queries /\ IsFiniteSet(Conns)

VARIABLES
    cur,        \* clientPtr: the current client, 0 for nil
    sessions,   \* the number of clients so far
    alive,      \* the clients whose SSH connection is up
    active,     \* tunClient.active of each client
    cancelled,  \* the listeners' context is done
    h,          \* the connection handlers
    buf,        \* the datagram in dnsForwardLoop's buffer
    dns         \* the query handlers

vars == <<cur, sessions, alive, active, cancelled, h, buf, dns>>

clientVars == <<cur, sessions, alive>>
dnsVars == <<buf, dns>>

Clients == 1..MaxSessions
Ends == {"up", "down"}      \* local to remote, remote to local

\* The attempts of dialStreamWithRetry, the reads of curClient for a query.
MaxDials == 3
MaxPolls == 5

\* Mutation: done is buffered for one pump only.
DoneCapacityOne == 1

\* done is buffered for both pumps.
DoneCapacity == 2

\* A pump is "read", "write" (holds a chunk), "last" (holds one that came with
\* the end of the stream), "eof" (has passed the end on), "failed" (could not
\* write) or "off" (has sent on done).  It owes what it has read and not written.
NoPump == [st |-> "off", owes |-> 0]

\* sess dialled the stream, on is the client it is counted on.
NoHandler ==
    [pc |-> "none", sess |-> 0, on |-> 0, dials |-> 0, done |-> 0,
     pump |-> [e \in Ends |-> NoPump]]

NoQuery == [pc |-> "none", sess |-> 0, polls |-> 0, asked |-> None, reply |-> None]

Pumps == [st: {"read", "write", "last", "eof", "failed", "off"}, owes: 0..1]

Handlers ==
    [pc: {"none", "handshake", "target", "client", "dial", "retry", "count", "pipe",
          "grace", "ended"},
     sess: 0..MaxSessions, on: 0..MaxSessions, dials: 0..MaxDials, done: 0..DoneCapacity,
     pump: [Ends -> Pumps]]

QueryHandlers ==
    [pc: {"none", "poll", "dial", "sent", "ended"}, sess: 0..MaxSessions,
     polls: 0..MaxPolls, asked: Queries \cup {None}, reply: Queries \cup {None}]

TypeOK ==
    /\ cur \in 0..sessions /\ sessions \in 0..MaxSessions
    /\ alive \subseteq Clients /\ active \in [Clients -> Nat]
    /\ cancelled \in BOOLEAN
    /\ h \in [Conns -> Handlers]
    /\ buf \in Queries \cup {None} /\ dns \in [Queries -> QueryHandlers]

Init ==
    /\ cur = 0 /\ sessions = 0 /\ alive = {}
    /\ active = [c \in Clients |-> 0]
    /\ cancelled = FALSE
    /\ h = [k \in Conns |-> NoHandler]
    /\ buf = None /\ dns = [q \in Queries |-> NoQuery]

Arrived ==
    Cardinality({k \in Conns : h[k].pc # "none"})
      + Cardinality({q \in Queries : dns[q].pc # "none"})

-----------------------------------------------------------------------------
(* The tunnel: one client after another, none in between *)

Connect ==
    /\ cur = 0 /\ ~cancelled /\ sessions < MaxSessions
    /\ sessions' = sessions + 1
    /\ cur' = sessions'
    /\ alive' = alive \cup {sessions'}
    /\ UNCHANGED <<active, cancelled, h, dnsVars>>

\* The connection breaks, or keepalive or a stop closes it.
SessionDies(c) ==
    /\ c \in alive
    /\ alive' = alive \ {c}
    /\ UNCHANGED <<cur, sessions, active, cancelled, h, dnsVars>>

\* tunnelLoop's Wait has returned.
ClientCleared ==
    /\ cur # 0 /\ cur \notin alive
    /\ cur' = 0
    /\ UNCHANGED <<sessions, alive, active, cancelled, h, dnsVars>>

\* listenerCancel closes the listeners; established streams go on.
Cancel ==
    /\ ~cancelled
    /\ cancelled' = TRUE
    /\ UNCHANGED <<clientVars, active, h, dnsVars>>

-----------------------------------------------------------------------------
(* handleSOCKSClient and handleTransparentClient up to the pipe *)

handlerFrame == <<clientVars, cancelled, dnsVars>>

\* The handler returns, with a reply to a SOCKS client and the deferred Closes.
Ended(k) == [h[k] EXCEPT !.pc = "ended", !.on = 0, !.sess = 0, !.dials = 0]

Arrives(k, pc) ==
    /\ ~cancelled /\ h[k].pc = "none" /\ Arrived < MaxHandlers
    /\ h' = [h EXCEPT ![k].pc = pc]
    /\ UNCHANGED <<handlerFrame, active>>

\* A listener that fails accepts no more, and nothing obliges a client to come.
serveSOCKS(k) == Arrives(k, "handshake")

serveTransparent(k) == Arrives(k, "target")

\* It names a target, or is malformed, unsupported or 30 s late.
socks5Handshake(k) ==
    /\ h[k].pc = "handshake"
    /\ h' \in {[h EXCEPT ![k].pc = "client"], [h EXCEPT ![k] = Ended(k)]}
    /\ UNCHANGED <<handlerFrame, active>>

\* The kernel knows the target, or not, or it is a port or address of ours.
originalDst(k) ==
    /\ h[k].pc = "target"
    /\ h' \in {[h EXCEPT ![k].pc = "client"], [h EXCEPT ![k] = Ended(k)]}
    /\ UNCHANGED <<handlerFrame, active>>

\* The first read of curClient, and the one before each retry.
DialCurrent(k) ==
    /\ h[k].pc \in {"client", "retry"}
    /\ h' = [h EXCEPT ![k] =
               IF cur # 0
               THEN [h[k] EXCEPT !.pc = "dial", !.sess = cur, !.dials = @ + 1]
               ELSE Ended(k)]
    /\ UNCHANGED <<handlerFrame, active>>

DialOpens(k) ==
    /\ h[k].pc = "dial" /\ h[k].sess \in alive
    /\ h' = [h EXCEPT ![k].pc = "count"]
    /\ UNCHANGED <<handlerFrame, active>>

\* The server answers with an error that isStreamRetryable accepts.
DialRefused(k) ==
    /\ h[k].pc = "dial" /\ h[k].sess \in alive
    /\ h' = [h EXCEPT ![k] = IF h[k].dials < MaxDials
                             THEN [h[k] EXCEPT !.pc = "retry"]
                             ELSE Ended(k)]
    /\ UNCHANGED <<handlerFrame, active>>

\* Any other error: a prohibition, the end of the session or of the context.
DialFails(k) ==
    /\ h[k].pc = "dial"
    /\ h' = [h EXCEPT ![k] = Ended(k)]
    /\ UNCHANGED <<handlerFrame, active>>

\* curClient is read again: the stream counts on the client of this moment.
CountStream(k) ==
    /\ h[k].pc = "count"
    /\ h' = [h EXCEPT ![k] =
               IF cur = 0 THEN Ended(k)
               ELSE [h[k] EXCEPT !.pc = "pipe", !.on = cur,
                                 !.pump = [e \in Ends |-> [NoPump EXCEPT !.st = "read"]]]]
    /\ active' = [c \in Clients |-> IF c = cur THEN active[c] + 1 ELSE active[c]]
    /\ UNCHANGED handlerFrame

-----------------------------------------------------------------------------
(* pipeBoth *)

Piping(k) == h[k].pc \in {"pipe", "grace"}

\* closeBoth closes the local connection and the stream; a dead session ends
\* the stream.
LocalGone(k) == ~Piping(k)
RemoteGone(k) == ~Piping(k) \/ h[k].sess \notin alive

SourceGone(k, e) == IF e = "up" THEN LocalGone(k) ELSE RemoteGone(k)
SinkGone(k, e) == IF e = "up" THEN RemoteGone(k) ELSE LocalGone(k)

\* The end of a stream is passed on to a TCP connection only: the SSH channel
\* has no deadline to set, so its server never learns of it.
HalfClosed(p) == [p EXCEPT !.st = "eof"]

\* Read returns a chunk, by itself or together with the end of the stream.
PumpReads(k, e) ==
    /\ h[k].pump[e].st = "read" /\ ~SourceGone(k, e)
    /\ \E st \in {"write", "last"} :
         h' = [h EXCEPT ![k].pump[e] = [h[k].pump[e] EXCEPT !.owes = 1, !.st = st]]
    /\ UNCHANGED <<handlerFrame, active>>

\* Read returns the end or an error.
PumpReadEnds(k, e) ==
    /\ h[k].pump[e].st = "read"
    /\ h' = [h EXCEPT ![k].pump[e] = HalfClosed(h[k].pump[e])]
    /\ UNCHANGED <<handlerFrame, active>>

\* Mutation: the end of the stream is handled before the data that came with it.
PumpWritesEndFirst(k, e) ==
    LET p == h[k].pump[e] IN
    /\ p.st \in {"write", "last"} /\ ~SinkGone(k, e)
    /\ h' = [h EXCEPT ![k].pump[e] =
               IF p.st = "last" THEN HalfClosed(p)
               ELSE [p EXCEPT !.owes = 0, !.st = "read"]]
    /\ UNCHANGED <<handlerFrame, active>>

PumpWrites(k, e) ==
    LET p == h[k].pump[e] IN
    /\ p.st \in {"write", "last"} /\ ~SinkGone(k, e)
    /\ h' = [h EXCEPT ![k].pump[e] =
               IF p.st = "last" THEN HalfClosed([p EXCEPT !.owes = 0])
               ELSE [p EXCEPT !.owes = 0, !.st = "read"]]
    /\ UNCHANGED <<handlerFrame, active>>

\* The sink is gone, or its peer resets it.
PumpWriteFails(k, e) ==
    /\ h[k].pump[e].st \in {"write", "last"}
    /\ h' = [h EXCEPT ![k].pump[e].st = "failed"]
    /\ UNCHANGED <<handlerFrame, active>>

PumpSignals(k, e) ==
    /\ h[k].pump[e].st \in {"eof", "failed"} /\ h[k].done < DoneCapacity
    /\ h' = [h EXCEPT ![k].pump[e] = NoPump, ![k].done = @ + 1]
    /\ UNCHANGED <<handlerFrame, active>>

FirstDone(k) ==
    /\ h[k].pc = "pipe" /\ h[k].done > 0
    /\ h' = [h EXCEPT ![k].pc = "grace", ![k].done = @ - 1]
    /\ UNCHANGED <<handlerFrame, active>>

\* Mutation: the count is taken from the client of this moment.
ClosePipeCurrent(k, taken) ==
    /\ h' = [h EXCEPT ![k] = [Ended(k) EXCEPT !.done = @ - taken]]
    /\ active' = [c \in Clients |-> IF c = cur THEN active[c] - 1 ELSE active[c]]
    /\ UNCHANGED handlerFrame

\* closeBoth, and the handler returns: the client it was counted on is told.
ClosePipe(k, taken) ==
    /\ h' = [h EXCEPT ![k] = [Ended(k) EXCEPT !.done = @ - taken]]
    /\ active' = [active EXCEPT ![h[k].on] = @ - 1]
    /\ UNCHANGED handlerFrame

\* Mutation: the second pump is waited for without a limit.
GraceEndsPatient(k) == h[k].pc = "grace" /\ h[k].done > 0 /\ ClosePipe(k, 1)

\* The second pump is done, or 400 ms are over.
GraceEnds(k) ==
    /\ h[k].pc = "grace"
    /\ \/ h[k].done > 0 /\ ClosePipe(k, 1)
       \/ ClosePipe(k, 0)

\* No chunk was read for the idle time.
IdleTimeout(k) == h[k].pc = "pipe" /\ ClosePipe(k, 0)

-----------------------------------------------------------------------------
(* dnsForwardLoop and forwardOneDNSQuery *)

queryFrame == <<clientVars, active, cancelled, h>>

\* The query gets a copy of the buffer; a datagram below 12 bytes is dropped.
ReadQuery(q) ==
    /\ ~cancelled /\ dns[q].pc = "none" /\ Arrived < MaxHandlers
    /\ buf' = q
    /\ \E short \in BOOLEAN :
         dns' = [dns EXCEPT ![q].pc = IF short THEN "ended" ELSE "poll",
                            ![q].asked = IF short THEN None ELSE q]
    /\ UNCHANGED queryFrame

QueryEnds(q) == dns' = [dns EXCEPT ![q].pc = "ended", ![q].sess = 0]

\* The client is read at once and after each of four waits.
QueryPolls(q) ==
    /\ dns[q].pc = "poll"
    /\ \/ /\ cur # 0
          /\ dns' = [dns EXCEPT ![q].pc = "dial", ![q].sess = cur]
       \/ /\ cur = 0 /\ dns[q].polls + 1 < MaxPolls /\ ~cancelled
          /\ dns' = [dns EXCEPT ![q].polls = @ + 1]
       \/ /\ cur = 0 /\ (dns[q].polls + 1 = MaxPolls \/ cancelled)
          /\ QueryEnds(q)
    /\ UNCHANGED <<queryFrame, buf>>

\* Mutation: the goroutine reads the loop's buffer.
QueryIsSentShared(q) ==
    /\ dns[q].pc = "dial" /\ dns[q].sess \in alive
    /\ dns' = [dns EXCEPT ![q].pc = "sent", ![q].asked = buf]
    /\ UNCHANGED <<queryFrame, buf>>

QueryIsSent(q) ==
    /\ dns[q].pc = "dial" /\ dns[q].sess \in alive
    /\ dns' = [dns EXCEPT ![q].pc = "sent"]
    /\ UNCHANGED <<queryFrame, buf>>

\* The dial or the write fails, or 5 s pass.
QueryNotSent(q) ==
    /\ dns[q].pc = "dial"
    /\ QueryEnds(q)
    /\ UNCHANGED <<queryFrame, buf>>

\* A framed answer; it is lost when the listener is closed.
QueryAnswered(q) ==
    /\ dns[q].pc = "sent" /\ dns[q].sess \in alive
    /\ dns' = [dns EXCEPT ![q].pc = "ended", ![q].sess = 0,
                          ![q].reply = IF cancelled THEN None ELSE dns[q].asked]
    /\ UNCHANGED <<queryFrame, buf>>

\* The stream breaks or the length is out of range.  SetDeadline has no effect
\* on the channel: a silent upstream holds the query as long as the session.
QueryUnanswered(q) ==
    /\ dns[q].pc = "sent"
    /\ QueryEnds(q)
    /\ UNCHANGED <<queryFrame, buf>>

-----------------------------------------------------------------------------
HandlerNext(k) ==
    \/ serveSOCKS(k) \/ serveTransparent(k) \/ socks5Handshake(k) \/ originalDst(k)
    \/ DialCurrent(k) \/ DialOpens(k) \/ DialRefused(k)
    \/ DialFails(k) \/ CountStream(k) \/ FirstDone(k) \/ GraceEnds(k) \/ IdleTimeout(k)

PumpNext(k, e) ==
    \/ PumpReads(k, e) \/ PumpReadEnds(k, e) \/ PumpWrites(k, e)
    \/ PumpWriteFails(k, e) \/ PumpSignals(k, e)

QueryNext(q) ==
    \/ ReadQuery(q) \/ QueryPolls(q) \/ QueryIsSent(q) \/ QueryNotSent(q)
    \/ QueryAnswered(q) \/ QueryUnanswered(q)

Next ==
    \/ Connect \/ ClientCleared \/ Cancel
    \/ \E c \in Clients : SessionDies(c)
    \/ \E k \in Conns : HandlerNext(k) \/ \E e \in Ends : PumpNext(k, e)
    \/ \E q \in Queries : QueryNext(q)

Spec == Init /\ [][Next]_vars

\* Goroutines are scheduled, sleeps and the grace time end.  A call on a dead
\* session or a closed connection returns; one that waits for a peer need not.
\* A dead session leaves each pump at most one chunk to read, so the idle time
\* passes.
Fairness ==
    /\ \A k \in Conns :
         /\ WF_vars(DialCurrent(k)) /\ WF_vars(CountStream(k))
         /\ WF_vars(FirstDone(k)) /\ WF_vars(GraceEnds(k))
         /\ WF_vars(h[k].sess \notin alive /\ DialFails(k))
         /\ WF_vars(h[k].sess \notin alive /\ IdleTimeout(k))
         /\ \A e \in Ends :
              /\ WF_vars(SourceGone(k, e) /\ PumpReadEnds(k, e)) /\ WF_vars(PumpSignals(k, e))
              /\ WF_vars(SinkGone(k, e) /\ PumpWriteFails(k, e))
    /\ \A q \in Queries :
         /\ WF_vars(QueryPolls(q)) /\ WF_vars(QueryNotSent(q))
         /\ WF_vars(dns[q].sess \notin alive /\ QueryUnanswered(q))

LiveSpec == Spec /\ Fairness

-----------------------------------------------------------------------------
(* Properties *)

\* The counter that the dashboard and the health watchdog read is the number of
\* handlers piping on that client's account, although clients come and go
\* between the dial, the count and the end of a stream.
CountersExact ==
    \A c \in Clients : active[c] = Cardinality({k \in Conns : h[k].on = c})

\* The end of a stream is passed on to the local side only after everything
\* that was read from the remote side has been written to it.
EndAfterData ==
    \A k \in Conns : \A e \in Ends : h[k].pump[e].st = "eof" => h[k].pump[e].owes = 0

\* A DNS client gets the answer to its own query, whatever other datagrams
\* arrived while it was in flight.
AnswersMatch == \A q \in Queries : dns[q].reply \in {None, q}

\* A lost session frees all that waited on it: dials, pipes (also when the local
\* side neither sends nor reads) and queries in flight end or go on with another client,
\* so a stream counted on the wrong client does not stay there.
LostSessionFrees ==
    /\ \A k \in Conns :
         h[k].sess # 0 /\ h[k].sess \notin alive ~> h[k].sess \in alive \cup {0}
    /\ \A q \in Queries : dns[q].sess # 0 /\ dns[q].sess \notin alive ~> dns[q].sess = 0

\* A pump that is done never waits to say so, also when pipeBoth has returned
\* and receives nothing any more: no goroutine is left behind.
DoneNeverBlocks ==
    \A k \in Conns : \A e \in Ends :
        h[k].pump[e].st \in {"eof", "failed"} => h[k].done < DoneCapacity
=============================================================================
