---------------------------- MODULE StreamsProofs ----------------------------
(***************************************************************************)
(* Streams for any number of connections, queries and sessions: the        *)
(* counters are exact, no data is overtaken by the end of its stream, no   *)
(* pump is left blocked and every DNS answer goes to the query it answers. *)
(***************************************************************************)
EXTENDS Streams, FiniteSetTheorems, TLAPS

\* A pump that has not sent on done will still do so.
Owing(x, e) == IF x.pump[e].st = "off" THEN 0 ELSE 1

\* What is true of a handler at each of its steps: it is counted on a client
\* exactly while it pipes, it has the dials left that its next step uses, what
\* its pumps have sent and will still send fits into done, and a pump that reads
\* or has passed the end on owes nothing.
HandlerOK(x) ==
    /\ x.on # 0 <=> x.pc \in {"pipe", "grace"}
    /\ x.pc \in {"none", "handshake", "target", "client"} => x.dials = 0
    /\ x.pc = "retry" => x.dials < MaxDials
    /\ x.pc \notin {"pipe", "grace", "ended"} => x.done = 0
    /\ x.done + Owing(x, "up") + Owing(x, "down") <= DoneCapacity
    /\ \A e \in Ends : x.pump[e].st \in {"read", "eof"} => x.pump[e].owes = 0

\* A query handler holds its own query and no other.
QueryOK(q, x) ==
    /\ x.asked \in {None, q} /\ x.reply \in {None, q}
    /\ x.polls < MaxPolls

Inv ==
    /\ TypeOK
    /\ \A k \in Conns : HandlerOK(h[k])
    /\ \A q \in Queries : QueryOK(q, dns[q])
    /\ CountersExact

\* Nothing has arrived, nothing is counted.
LEMMA InitInv == Init => Inv
<1> SUFFICES ASSUME Init PROVE Inv
  OBVIOUS
<1> USE StreamAssumption DEF Init
<1>1. TypeOK
  <2>1. NoPump \in Pumps
    BY DEF NoPump, Pumps
  <2>2. NoHandler.pump \in [Ends -> Pumps]
    BY <2>1 DEF NoHandler
  <2>3. NoHandler \in Handlers
    BY <2>2 DEF NoHandler, Handlers, DoneCapacity, MaxDials
  <2>4. NoQuery \in QueryHandlers
    BY DEF NoQuery, QueryHandlers, MaxPolls
  <2>5. h \in [Conns -> Handlers] /\ dns \in [Queries -> QueryHandlers]
    BY <2>3, <2>4
  <2>6. /\ cur \in 0..sessions /\ sessions \in 0..MaxSessions
        /\ alive \subseteq Clients /\ active \in [Clients -> Nat]
    OBVIOUS
  <2> QED BY <2>5, <2>6 DEF TypeOK
<1>2. \A k \in Conns : HandlerOK(h[k])
  BY DEF NoHandler, NoPump, HandlerOK, Owing, DoneCapacity, Ends
<1>3. \A q \in Queries : QueryOK(q, dns[q])
  BY DEF NoQuery, QueryOK, MaxPolls
<1>4. CountersExact
  <2>1. \A c \in Clients : {k \in Conns : h[k].on = c} = {}
    BY DEF NoHandler, Clients
  <2> QED BY <2>1, FS_EmptySet DEF CountersExact
<1> QED BY <1>1, <1>2, <1>3, <1>4 DEF Inv

\* The streams counted on c.
Users(c) == {k \in Conns : h[k].on = c}

\* There are finitely many, so the counter can be compared with them.
LEMMA UsersFinite == \A c : IsFiniteSet(Users(c)) /\ Cardinality(Users(c)) \in Nat
  BY StreamAssumption, FS_Subset, FS_CardinalityType DEF Users

\* A handler that does not change its account changes no count.
LEMMA SameAccount ==
    ASSUME Inv, NEW k \in Conns, NEW x, h' = [h EXCEPT ![k] = x], x.on = h[k].on,
           UNCHANGED active
    PROVE  CountersExact'
<1>1. \A j \in Conns : h'[j].on = h[j].on
  BY DEF Inv, TypeOK
<1>2. \A c \in Clients : {j \in Conns : h'[j].on = c} = {j \in Conns : h[j].on = c}
  BY <1>1
<1> QED BY <1>2 DEF Inv, CountersExact

\* A handler that takes a good step keeps the invariant.
LEMMA GoodStep ==
    ASSUME Inv, NEW k \in Conns, NEW x \in Handlers, h' = [h EXCEPT ![k] = x],
           HandlerOK(x), x.on = h[k].on, UNCHANGED <<handlerFrame, active>>
    PROVE  Inv'
<1>1. CountersExact'
  BY SameAccount
<1>2. TypeOK'
  BY DEF Inv, TypeOK, handlerFrame, clientVars, dnsVars
<1>3. \A j \in Conns : HandlerOK(h'[j])
  BY DEF Inv, TypeOK
<1>4. \A q \in Queries : QueryOK(q, dns'[q])
  BY DEF Inv, handlerFrame, dnsVars
<1> QED BY <1>1, <1>2, <1>3, <1>4 DEF Inv, HandlerOK, QueryOK

\* A handler that is not piping may return.
LEMMA EndedOK ==
    ASSUME Inv, NEW k \in Conns
    PROVE  /\ Ended(k) \in Handlers /\ HandlerOK(Ended(k))
           /\ h[k].pc \notin {"pipe", "grace"} => Ended(k).on = h[k].on
<1>1. h[k] \in Handlers /\ HandlerOK(h[k]) /\ MaxSessions \in Nat
  BY StreamAssumption DEF Inv, TypeOK
<1>2. Ended(k) \in Handlers
  <2>1. 0 \in 0..MaxSessions /\ 0 \in 0..MaxDials
    BY <1>1 DEF MaxDials
  <2> QED BY <1>1, <2>1 DEF Ended, Handlers
<1>3. HandlerOK(Ended(k))
  BY <1>1 DEF Ended, Handlers, HandlerOK, Owing
<1> QED BY <1>1, <1>2, <1>3 DEF Ended, Handlers, HandlerOK

\* The steps of a handler up to the pipe and out of it, but for the two that
\* change its account.
LEMMA HandlerSteps ==
    ASSUME Inv, NEW k \in Conns, HandlerNext(k)
    PROVE  Inv' \/ CountStream(k) \/ GraceEnds(k) \/ IdleTimeout(k)
<1> DEFINE x == h'[k]
<1>0. h \in [Conns -> Handlers] /\ h[k] \in Handlers /\ HandlerOK(h[k])
  BY DEF Inv, TypeOK
<1> SUFFICES ASSUME ~CountStream(k), ~GraceEnds(k), ~IdleTimeout(k)
             PROVE  /\ x \in Handlers /\ HandlerOK(x) /\ x.on = h[k].on
                    /\ h' = [h EXCEPT ![k] = x] /\ UNCHANGED <<handlerFrame, active>>
  BY GoodStep
<1>1. CASE serveSOCKS(k) \/ serveTransparent(k)
  BY <1>0, <1>1 DEF serveSOCKS, serveTransparent, Arrives, Handlers, HandlerOK, Owing
<1>2. CASE socks5Handshake(k)
  <2>1. [h[k] EXCEPT !.pc = "client"] \in Handlers /\ HandlerOK([h[k] EXCEPT !.pc = "client"])
    BY <1>0, <1>2 DEF socks5Handshake, Handlers, HandlerOK, Owing
  <2>2. CASE h' = [h EXCEPT ![k] = Ended(k)]
    BY <1>0, <1>2, <2>2, EndedOK DEF socks5Handshake
  <2>3. CASE h' = [h EXCEPT ![k].pc = "client"]
    BY <1>0, <1>2, <2>1, <2>3 DEF socks5Handshake, Handlers
  <2> QED BY <1>2, <2>2, <2>3 DEF socks5Handshake
<1>3. CASE originalDst(k)
  <2>1. [h[k] EXCEPT !.pc = "client"] \in Handlers /\ HandlerOK([h[k] EXCEPT !.pc = "client"])
    BY <1>0, <1>3 DEF originalDst, Handlers, HandlerOK, Owing
  <2>2. CASE h' = [h EXCEPT ![k] = Ended(k)]
    BY <1>0, <1>3, <2>2, EndedOK DEF originalDst
  <2>3. CASE h' = [h EXCEPT ![k].pc = "client"]
    BY <1>0, <1>3, <2>1, <2>3 DEF originalDst, Handlers
  <2> QED BY <1>3, <2>2, <2>3 DEF originalDst
<1>4. CASE DialCurrent(k)
  <2> DEFINE y == [h[k] EXCEPT !.pc = "dial", !.sess = cur, !.dials = @ + 1]
  <2>1. CASE cur # 0
    <3>1. cur \in 0..MaxSessions /\ h[k].dials + 1 \in 0..MaxDials
      BY <1>0, <1>4, StreamAssumption DEF DialCurrent, Handlers, HandlerOK, Inv, TypeOK, MaxDials
    <3>2. y \in Handlers
      BY <1>0, <3>1 DEF Handlers
    <3>3. HandlerOK(y)
      BY <1>0, <1>4 DEF DialCurrent, Handlers, HandlerOK, Owing
    <3> QED BY <1>0, <1>4, <2>1, <3>2, <3>3 DEF DialCurrent, Handlers
  <2>2. CASE cur = 0
    BY <1>0, <1>4, <2>2, EndedOK DEF DialCurrent
  <2> QED BY <2>1, <2>2
<1>5. CASE DialOpens(k)
  BY <1>0, <1>5 DEF DialOpens, Handlers, HandlerOK, Owing
<1>6. CASE DialRefused(k)
  <2>1. CASE h[k].dials < MaxDials
    <3>1. [h[k] EXCEPT !.pc = "retry"] \in Handlers /\ HandlerOK([h[k] EXCEPT !.pc = "retry"])
      BY <1>0, <1>6, <2>1 DEF DialRefused, Handlers, HandlerOK, Owing
    <3> QED BY <1>0, <1>6, <2>1, <3>1 DEF DialRefused, Handlers
  <2>2. CASE ~(h[k].dials < MaxDials)
    BY <1>0, <1>6, <2>2, EndedOK DEF DialRefused
  <2> QED BY <2>1, <2>2
<1>7. CASE DialFails(k)
  BY <1>0, <1>7, EndedOK DEF DialFails
<1>8. CASE FirstDone(k)
  BY <1>0, <1>8 DEF FirstDone, Handlers, HandlerOK, Owing, DoneCapacity
<1> QED BY <1>1, <1>2, <1>3, <1>4, <1>5, <1>6, <1>7, <1>8 DEF HandlerNext

\* The steps of a pump.
LEMMA PumpSteps ==
    ASSUME Inv, NEW k \in Conns, NEW e \in Ends, PumpNext(k, e)
    PROVE  Inv'
<1> DEFINE x == h'[k]
<1>0. h \in [Conns -> Handlers] /\ h[k] \in Handlers /\ HandlerOK(h[k])
  BY DEF Inv, TypeOK
<1>1. h[k].pump \in [Ends -> Pumps]
  BY <1>0 DEF Handlers
<1>2. ASSUME NEW y \in Pumps, h' = [h EXCEPT ![k].pump[e] = y],
             y.st = "off" <=> h[k].pump[e].st = "off",
             y.st \in {"read", "eof"} => y.owes = 0, UNCHANGED <<handlerFrame, active>>
      PROVE  Inv'
  <2>1. x = [h[k] EXCEPT !.pump = [@ EXCEPT ![e] = y]] /\ h' = [h EXCEPT ![k] = x]
    BY <1>0, <1>2
  <2>2. [h[k].pump EXCEPT ![e] = y] \in [Ends -> Pumps]
    BY <1>1
  <2>3. x \in Handlers /\ x.on = h[k].on
    BY <1>0, <2>1, <2>2 DEF Handlers
  <2>4. HandlerOK(x)
    BY <1>0, <1>1, <1>2, <2>1 DEF Handlers, HandlerOK, Owing, Ends
  <2> QED BY <1>2, <2>1, <2>3, <2>4, GoodStep
<1>3. CASE PumpReads(k, e)
  <2>1. PICK st \in {"write", "last"} :
          h' = [h EXCEPT ![k].pump[e] = [h[k].pump[e] EXCEPT !.owes = 1, !.st = st]]
    BY <1>3 DEF PumpReads
  <2> DEFINE y == [h[k].pump[e] EXCEPT !.owes = 1, !.st = st]
  <2>2. y \in Pumps /\ y.st = st
    <3>1. h[k].pump[e] \in Pumps /\ 1 \in 0..1
      BY <1>1
    <3> QED BY <3>1 DEF Pumps
  <2>3. h[k].pump[e].st # "off" /\ UNCHANGED <<handlerFrame, active>>
    BY <1>3 DEF PumpReads
  <2> QED BY <1>2, <2>1, <2>2, <2>3
<1>4. CASE PumpReadEnds(k, e)
  <2> DEFINE y == HalfClosed(h[k].pump[e])
  <2>1. y \in Pumps /\ y.st = "eof" /\ y.owes = h[k].pump[e].owes
    BY <1>1 DEF Pumps, HalfClosed
  <2>2. y.owes = 0
    BY <1>0, <1>4, <2>1 DEF PumpReadEnds, HandlerOK
  <2> QED BY <1>2, <1>4, <2>1, <2>2 DEF PumpReadEnds
<1>5. CASE PumpWrites(k, e)
  <2> DEFINE p == h[k].pump[e]
             y == IF p.st = "last" THEN HalfClosed([p EXCEPT !.owes = 0])
                  ELSE [p EXCEPT !.owes = 0, !.st = "read"]
  <2>1. y \in Pumps /\ y.owes = 0 /\ y.st \in {"read", "eof"}
    <3>1. p \in Pumps /\ 0 \in 0..1
      BY <1>1
    <3>2. CASE p.st = "last"
      BY <3>1, <3>2 DEF Pumps, HalfClosed
    <3>3. CASE p.st # "last"
      BY <3>1, <3>3 DEF Pumps
    <3> QED BY <3>2, <3>3
  <2>2. /\ h' = [h EXCEPT ![k].pump[e] = y] /\ p.st # "off"
        /\ UNCHANGED <<handlerFrame, active>>
    BY <1>5 DEF PumpWrites
  <2> QED BY <1>2, <2>1, <2>2
<1>6. CASE PumpWriteFails(k, e)
  <2> DEFINE y == [h[k].pump[e] EXCEPT !.st = "failed"]
  <2>1. y \in Pumps /\ y.st = "failed"
    BY <1>1 DEF Pumps
  <2>2. h' = [h EXCEPT ![k].pump[e] = y]
    BY <1>0, <1>6 DEF PumpWriteFails
  <2>3. h[k].pump[e].st # "off" /\ UNCHANGED <<handlerFrame, active>>
    BY <1>6 DEF PumpWriteFails
  <2> QED BY <1>2, <2>1, <2>2, <2>3
<1>7. CASE PumpSignals(k, e)
  <2>1. /\ x = [h[k] EXCEPT !.pump = [@ EXCEPT ![e] = NoPump], !.done = @ + 1]
        /\ h' = [h EXCEPT ![k] = x]
    BY <1>0, <1>7 DEF PumpSignals
  <2>2. [h[k].pump EXCEPT ![e] = NoPump] \in [Ends -> Pumps]
    BY <1>1 DEF Pumps, NoPump
  <2>3. h[k].done + 1 \in 0..DoneCapacity
    BY <1>0, <1>7 DEF PumpSignals, Handlers, DoneCapacity
  <2>4. x \in Handlers /\ x.on = h[k].on
    BY <1>0, <2>1, <2>2, <2>3 DEF Handlers
  <2>5. HandlerOK(x)
    BY <1>0, <1>1, <1>7, <2>1 DEF PumpSignals, Handlers, HandlerOK, Owing, Ends, NoPump, DoneCapacity
  <2> QED BY <1>7, <2>1, <2>4, <2>5, GoodStep DEF PumpSignals
<1> QED BY <1>3, <1>4, <1>5, <1>6, <1>7 DEF PumpNext

\* The stream begins to count on the current client, or there is none.
LEMMA CountStreamInv ==
    ASSUME Inv, NEW k \in Conns, CountStream(k)
    PROVE  Inv'
<1> DEFINE x == h'[k]
<1>0. /\ h \in [Conns -> Handlers] /\ h[k] \in Handlers /\ HandlerOK(h[k])
      /\ active \in [Clients -> Nat] /\ cur \in 0..MaxSessions
      /\ UNCHANGED <<cur, sessions, alive, cancelled, buf, dns>>
  BY StreamAssumption
  DEF Inv, TypeOK, CountStream, handlerFrame, clientVars, dnsVars
<1>1. CASE cur = 0
  <2>1. active' = active
    BY <1>0, <1>1 DEF CountStream, Clients
  <2> QED BY <1>0, <1>1, <2>1, EndedOK, GoodStep DEF CountStream
<1>2. CASE cur # 0
  <2> DEFINE pumps == [e \in Ends |-> [NoPump EXCEPT !.st = "read"]]
             y == [h[k] EXCEPT !.pc = "pipe", !.on = cur, !.pump = pumps]
  <2>1. h' = [h EXCEPT ![k] = y] /\ cur \in Clients
    BY <1>0, <1>2 DEF CountStream, Clients
  <2>2. y \in Handlers /\ HandlerOK(y) /\ y.on = cur
    <3>1. [NoPump EXCEPT !.st = "read"] \in Pumps
      BY DEF NoPump, Pumps
    <3>2. pumps \in [Ends -> Pumps]
      BY <3>1
    <3>3. y \in Handlers
      BY <1>0, <3>2 DEF Handlers
    <3>4. h[k].done = 0
      BY <1>0 DEF CountStream, HandlerOK
    <3>5. \A e \in Ends : pumps[e].st = "read" /\ pumps[e].owes = 0
      BY DEF NoPump
    <3>6. y.pc = "pipe" /\ y.on = cur /\ y.done = 0 /\ y.pump = pumps
      BY <1>0, <3>4 DEF Handlers
    <3>7. HandlerOK(y)
      BY <1>2, <3>5, <3>6 DEF HandlerOK, Owing, DoneCapacity, Ends
    <3> QED BY <3>3, <3>6, <3>7
  <2>3. TypeOK'
    <3>1. active' \in [Clients -> Nat]
      BY <1>0 DEF CountStream
    <3>2. h' \in [Conns -> Handlers]
      BY <1>0, <2>1, <2>2
    <3> QED BY <1>0, <3>1, <3>2 DEF Inv, TypeOK
  <2>4. \A j \in Conns : HandlerOK(h'[j])
    BY <1>0, <2>1, <2>2 DEF Inv
  <2>5. CountersExact'
    <3>1. h[k].on = 0
      BY <1>0 DEF CountStream, HandlerOK
    <3> SUFFICES ASSUME NEW c \in Clients
                 PROVE  active'[c] = Cardinality({j \in Conns : h'[j].on = c})
      BY DEF CountersExact
    <3>2. active[c] = Cardinality(Users(c)) /\ IsFiniteSet(Users(c))
      BY UsersFinite DEF Inv, CountersExact, Users
    <3>3. CASE c = cur
      <4>1. {j \in Conns : h'[j].on = c} = Users(c) \cup {k}
        BY <1>0, <2>1, <2>2, <3>3 DEF Users
      <4>2. k \notin Users(c)
        BY <1>2, <3>1, <3>3 DEF Users
      <4>3. Cardinality(Users(c) \cup {k}) = Cardinality(Users(c)) + 1
        BY <3>2, <4>2, FS_AddElement
      <4> QED BY <1>0, <3>2, <3>3, <4>1, <4>3 DEF CountStream
    <3>4. CASE c # cur
      <4>1. {j \in Conns : h'[j].on = c} = Users(c)
        BY <1>0, <2>1, <2>2, <3>1, <3>4 DEF Users, Clients
      <4> QED BY <1>0, <3>2, <3>4, <4>1 DEF CountStream
    <3> QED BY <3>3, <3>4
  <2> QED BY <1>0, <2>3, <2>4, <2>5 DEF Inv, HandlerOK, QueryOK
<1> QED BY <1>1, <1>2

\* closeBoth takes the stream off the account it was put on.
LEMMA ClosePipeInv ==
    ASSUME Inv, NEW k \in Conns, h[k].pc \in {"pipe", "grace"}, NEW taken \in 0..1,
           taken <= h[k].done, ClosePipe(k, taken)
    PROVE  Inv'
<1> DEFINE y == [Ended(k) EXCEPT !.done = @ - taken]
           c0 == h[k].on
<1>0. /\ h \in [Conns -> Handlers] /\ h[k] \in Handlers /\ HandlerOK(h[k])
      /\ active \in [Clients -> Nat] /\ MaxSessions \in Nat
      /\ UNCHANGED <<cur, sessions, alive, cancelled, buf, dns>>
      /\ h' = [h EXCEPT ![k] = y]
  BY StreamAssumption
  DEF Inv, TypeOK, ClosePipe, handlerFrame, clientVars, dnsVars
<1>1. c0 \in Clients
  <2>1. c0 # 0 /\ c0 \in 0..MaxSessions
    BY <1>0 DEF HandlerOK, Handlers
  <2> QED BY <1>0, <2>1 DEF Clients
<1>2. y \in Handlers /\ HandlerOK(y) /\ y.on = 0
  <2>1. Ended(k) \in Handlers /\ HandlerOK(Ended(k))
    BY EndedOK
  <2>2. Ended(k).done = h[k].done /\ Ended(k).on = 0 /\ Ended(k).pc = "ended"
    BY <1>0 DEF Ended, Handlers
  <2>3. h[k].done - taken \in 0..DoneCapacity /\ h[k].done - taken <= h[k].done
    BY <1>0 DEF Handlers, DoneCapacity
  <2>4. y \in Handlers
    BY <2>1, <2>2, <2>3 DEF Handlers
  <2>5. /\ y.on = 0 /\ y.pc = "ended" /\ y.pump = Ended(k).pump
        /\ y.done = h[k].done - taken
    BY <2>1, <2>2 DEF Handlers
  <2>6. Ended(k).done \in Nat /\ y.done \in Nat /\ y.done <= Ended(k).done
    BY <1>0, <2>2, <2>3, <2>5 DEF Handlers, DoneCapacity
  <2>7. HandlerOK(y)
    BY <2>1, <2>2, <2>5, <2>6 DEF HandlerOK, Owing, DoneCapacity
  <2> QED BY <2>4, <2>5, <2>7
<1>3. \A c \in Clients :
        /\ active[c] = Cardinality(Users(c)) /\ IsFiniteSet(Users(c))
        /\ Cardinality(Users(c)) \in Nat
  BY UsersFinite DEF Inv, CountersExact, Users
<1>4. Cardinality(Users(c0) \ {k}) = active[c0] - 1 /\ active[c0] - 1 \in Nat
  <2>1. k \in Users(c0)
    BY DEF Users
  <2>2. /\ IsFiniteSet(Users(c0) \ {k})
        /\ Cardinality(Users(c0) \ {k}) = Cardinality(Users(c0)) - 1
    BY <1>1, <1>3, <2>1, FS_RemoveElement
  <2>3. Cardinality(Users(c0) \ {k}) \in Nat
    BY <2>2, FS_CardinalityType
  <2> QED BY <1>1, <1>3, <2>2, <2>3
<1>5. TypeOK'
  <2>1. active' \in [Clients -> Nat]
    BY <1>0, <1>1, <1>4 DEF ClosePipe
  <2>2. h' \in [Conns -> Handlers]
    BY <1>0, <1>2
  <2> QED BY <1>0, <2>1, <2>2 DEF Inv, TypeOK
<1>6. \A j \in Conns : HandlerOK(h'[j])
  BY <1>0, <1>2 DEF Inv
<1>7. CountersExact'
  <2> SUFFICES ASSUME NEW c \in Clients
               PROVE  active'[c] = Cardinality({j \in Conns : h'[j].on = c})
    BY DEF CountersExact
  <2>1. CASE c = c0
    <3>1. {j \in Conns : h'[j].on = c} = Users(c) \ {k}
      BY <1>0, <1>2, <2>1 DEF Users, Clients
    <3> QED BY <1>0, <1>1, <1>4, <2>1, <3>1 DEF ClosePipe
  <2>2. CASE c # c0
    <3>1. {j \in Conns : h'[j].on = c} = Users(c)
      BY <1>0, <1>2, <2>2 DEF Users, Clients
    <3> QED BY <1>0, <1>1, <1>3, <2>2, <3>1 DEF ClosePipe
  <2> QED BY <2>1, <2>2
<1> QED BY <1>0, <1>5, <1>6, <1>7 DEF Inv, HandlerOK, QueryOK

\* The end of a pipe, after the grace time or for want of traffic.
LEMMA PipeEndsInv ==
    ASSUME Inv, NEW k \in Conns, GraceEnds(k) \/ IdleTimeout(k)
    PROVE  Inv'
<1>1. h[k].done \in Nat
  BY DEF Inv, TypeOK, Handlers, DoneCapacity
<1>2. CASE ClosePipe(k, 0)
  BY <1>1, <1>2, ClosePipeInv DEF GraceEnds, IdleTimeout
<1>3. CASE h[k].done > 0 /\ ClosePipe(k, 1)
  BY <1>1, <1>3, ClosePipeInv DEF GraceEnds, IdleTimeout
<1> QED BY <1>2, <1>3 DEF GraceEnds, IdleTimeout

\* The tunnel replaces the client, or the listeners are closed: no handler moves.
LEMMA SessionSteps ==
    ASSUME Inv,
           Connect \/ ClientCleared \/ Cancel \/ (\E c \in Clients : SessionDies(c))
    PROVE  Inv'
<1>1. UNCHANGED <<active, h, buf, dns>>
  BY DEF Connect, ClientCleared, Cancel, SessionDies, dnsVars
<1>2. /\ cur' \in 0..sessions' /\ sessions' \in 0..MaxSessions
      /\ alive' \subseteq Clients /\ cancelled' \in BOOLEAN
  <2>1. /\ cur \in 0..sessions /\ sessions \in 0..MaxSessions /\ MaxSessions \in Nat
        /\ alive \subseteq Clients /\ cancelled \in BOOLEAN
    BY StreamAssumption DEF Inv, TypeOK
  <2>2. CASE Connect
    BY <2>1, <2>2 DEF Connect, Clients
  <2>3. CASE ClientCleared
    BY <2>1, <2>3 DEF ClientCleared
  <2>4. CASE Cancel
    BY <2>1, <2>4 DEF Cancel, clientVars
  <2>5. CASE \E c \in Clients : SessionDies(c)
    BY <2>1, <2>5 DEF SessionDies
  <2> QED BY <2>2, <2>3, <2>4, <2>5
<1> QED BY <1>1, <1>2 DEF Inv, TypeOK, CountersExact, HandlerOK, QueryOK

\* The steps of a query: it is answered from the copy it was given.
LEMMA QuerySteps ==
    ASSUME Inv, NEW q \in Queries, QueryNext(q)
    PROVE  Inv'
<1> DEFINE x == dns[q]
           y == dns'[q]
<1>0. /\ dns \in [Queries -> QueryHandlers] /\ x \in QueryHandlers /\ QueryOK(q, x)
      /\ cur \in 0..MaxSessions /\ 0 \in 0..MaxSessions
      /\ buf \in Queries \cup {None}
  BY StreamAssumption DEF Inv, TypeOK
<1> SUFFICES /\ dns' = [dns EXCEPT ![q] = y] /\ y \in QueryHandlers /\ QueryOK(q, y)
             /\ buf' \in Queries \cup {None} /\ UNCHANGED <<cur, sessions, alive, active, cancelled, h>>
  <2>1. TypeOK'
    BY DEF Inv, TypeOK
  <2>2. \A r \in Queries : QueryOK(r, dns'[r])
    BY <1>0 DEF Inv
  <2> QED BY <2>1, <2>2 DEF Inv, CountersExact, HandlerOK, QueryOK
<1> USE DEF queryFrame, clientVars
<1>e. ASSUME QueryEnds(q) PROVE dns' = [dns EXCEPT ![q] = y] /\ y \in QueryHandlers /\ QueryOK(q, y)
  BY <1>0, <1>e DEF QueryEnds, QueryHandlers, QueryOK
<1>1. CASE ReadQuery(q)
  <2>1. PICK short \in BOOLEAN :
          dns' = [dns EXCEPT ![q].pc = IF short THEN "ended" ELSE "poll",
                             ![q].asked = IF short THEN None ELSE q]
    BY <1>1 DEF ReadQuery
  <2>2. y \in QueryHandlers /\ QueryOK(q, y) /\ dns' = [dns EXCEPT ![q] = y]
    BY <1>0, <2>1 DEF QueryHandlers, QueryOK
  <2> QED BY <1>1, <2>2 DEF ReadQuery
<1>2. CASE QueryPolls(q)
  <2>1. CASE dns' = [dns EXCEPT ![q].pc = "dial", ![q].sess = cur]
    BY <1>0, <1>2, <2>1 DEF QueryPolls, QueryHandlers, QueryOK
  <2>2. CASE x.polls + 1 < MaxPolls /\ dns' = [dns EXCEPT ![q].polls = @ + 1]
    <3>1. x.polls + 1 \in 0..MaxPolls
      BY <1>0, <2>2 DEF QueryHandlers, MaxPolls
    <3> QED BY <1>0, <1>2, <2>2, <3>1 DEF QueryPolls, QueryHandlers, QueryOK
  <2>3. CASE QueryEnds(q)
    BY <1>0, <1>2, <1>e, <2>3 DEF QueryPolls
  <2> QED BY <1>2, <2>1, <2>2, <2>3 DEF QueryPolls
<1>3. CASE QueryIsSent(q)
  BY <1>0, <1>3 DEF QueryIsSent, QueryHandlers, QueryOK
<1>4. CASE QueryNotSent(q) \/ QueryUnanswered(q)
  BY <1>0, <1>4, <1>e DEF QueryNotSent, QueryUnanswered
<1>5. CASE QueryAnswered(q)
  BY <1>0, <1>5 DEF QueryAnswered, QueryHandlers, QueryOK
<1> QED BY <1>1, <1>2, <1>3, <1>4, <1>5 DEF QueryNext

\* Every step keeps the invariant.
LEMMA NextInv == Inv /\ [Next]_vars => Inv'
<1> SUFFICES ASSUME Inv, [Next]_vars PROVE Inv'
  OBVIOUS
<1>1. CASE Connect \/ ClientCleared \/ Cancel \/ \E c \in Clients : SessionDies(c)
  BY <1>1, SessionSteps
<1>2. CASE \E k \in Conns : HandlerNext(k)
  BY <1>2, HandlerSteps, CountStreamInv, PipeEndsInv
<1>3. CASE \E k \in Conns : \E e \in Ends : PumpNext(k, e)
  BY <1>3, PumpSteps
<1>4. CASE \E q \in Queries : QueryNext(q)
  BY <1>4, QuerySteps
<1>5. CASE UNCHANGED vars
  BY <1>5 DEF vars, Inv, TypeOK, CountersExact, HandlerOK, QueryOK
<1> QED BY <1>1, <1>2, <1>3, <1>4, <1>5 DEF Next

\* The invariant holds of every behaviour.
LEMMA InvHolds == Spec => []Inv
  BY InitInv, NextInv, PTL DEF Spec

\* Every variable keeps its type: no counter of streams becomes negative, no
\* handler dials a fourth time, done never holds more than its two tokens.
THEOREM TypeCorrect == Spec => []TypeOK
<1>1. Inv => TypeOK
  BY DEF Inv
<1> QED BY <1>1, InvHolds, PTL

\* tunClient.active is the number of streams piped on that client's account,
\* however many clients come and go while they are dialled, counted and closed.
THEOREM CountersAreExact == Spec => []CountersExact
<1>1. Inv => CountersExact
  BY DEF Inv
<1> QED BY <1>1, InvHolds, PTL

\* pipeBoth's pumps pass the end of a stream on after all its data.
THEOREM NoDataIsOvertaken == Spec => []EndAfterData
<1>1. Inv => EndAfterData
  BY DEF Inv, HandlerOK, EndAfterData
<1> QED BY <1>1, InvHolds, PTL

\* The answer written to a DNS client is the one to its own query.
THEOREM AnswersGoHome == Spec => []AnswersMatch
<1>1. Inv => AnswersMatch
  BY DEF Inv, QueryOK, AnswersMatch
<1> QED BY <1>1, InvHolds, PTL

\* The send on done that ends a pump finds room, whether pipeBoth is still there
\* to receive or not.
THEOREM NoPumpIsLeftBehind == Spec => []DoneNeverBlocks
<1>1. ASSUME Inv, NEW k \in Conns, NEW e \in Ends, h[k].pump[e].st \in {"eof", "failed"}
      PROVE  h[k].done < DoneCapacity
  <2>1. h[k].done \in 0..DoneCapacity /\ HandlerOK(h[k])
    BY <1>1 DEF Inv, TypeOK, Handlers
  <2> QED BY <1>1, <2>1 DEF HandlerOK, Owing, Ends, DoneCapacity
<1>2. Inv => DoneNeverBlocks
  BY <1>1 DEF DoneNeverBlocks
<1> QED BY <1>2, InvHolds, PTL
=============================================================================
