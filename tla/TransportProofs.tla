--------------------------- MODULE TransportProofs ---------------------------
(***************************************************************************)
(* Transport for any DNS modes, size of the cache, allowed statuses and     *)
(* number of attempts: no socket leaks, the banner reaches SSH, the cache   *)
(* keeps its limit and evicted answers stay away.                          *)
(***************************************************************************)
EXTENDS Transport, FiniteSetTheorems, SequenceTheorems, TLAPS

-----------------------------------------------------------------------------
(* The inductive invariant *)

\* A socket is open from the dial to the end of the attempt, then a client's.
SocketOK ==
    /\ at.pc \in {"resolve", "system", "fallback", "misconfigured"} => ~conn.open /\ ~client
    /\ at.pc \in {"connect", "tls", "payload", "probe", "judge", "ssh"} => conn.open /\ ~client
    /\ at.pc = "idle" => (conn.open <=> client)

\* A host is evicted once per attempt at most, before the SSH handshake; an
\* answer on its way that is older than the last eviction was overtaken by it.
DnsOK ==
    /\ at.pc \in {"resolve", "system"} => at.dns \in Modes
    /\ \A h \in Hosts :
         /\ evictions[h] <= attempts
         /\ at.pc \notin {"idle", "misconfigured", "ssh"} => evictions[h] < attempts
    /\ \A l \in Loops :
         res[l].pc \in {"direct", "shell"} /\ res[l].began < evictions[res[l].key[2]]
           => res[l].key[2] \in raced
    /\ EvictedStaysAway

\* What a server that is reached without TLS and payload sends first.
Greeting == IF ~usesTLS(at.profile) /\ at.profile.payload = "off" THEN Banner ELSE <<>>

\* An answer of at most one token, then the banner.
Answered(s) == \E k \in 0..1 : Len(s) = k + 2 /\ s[k + 1] = "SS" /\ s[k + 2] = "H-"

\* Where the banner is, step by step, unless a read has cut it.
WireOK ==
    /\ at.pc = "connect" =>
         /\ ~conn.cut
         /\ at.profile.proxy # "connect" => conn.wire = Greeting
         /\ at.profile.proxy = "connect" => \E x \in {"200", "503", "junk"} : conn.wire = <<x>> \o Greeting
    /\ at.pc = "tls" /\ ~conn.cut => conn.wire = Greeting
    /\ at.pc = "payload" /\ ~conn.cut =>
         conn.wire = IF at.profile.payload = "off" THEN Banner ELSE <<>>
    /\ at.pc \in {"connect", "tls", "payload"} => conn.read = <<>>
    /\ at.pc \in {"probe", "judge"} /\ ~conn.cut => Answered(conn.read \o conn.wire)
    /\ at.pc = "judge" /\ ~conn.cut =>
         Has(conn.read, Banner) \/ (conn.read # <<>> /\ conn.read[Len(conn.read)] # "SS")
    /\ at.pc = "ssh" /\ ~conn.cut => Has(conn.wire, Banner)

Inv == TypeOK /\ SocketOK /\ DnsOK /\ WireOK

-----------------------------------------------------------------------------
(* Sequences of tokens *)

\* Where the elements of a concatenation come from.
LEMMA ConcatElements ==
    ASSUME NEW S, NEW s \in Seq(S), NEW t \in Seq(S)
    PROVE  /\ s \o t \in Seq(S) /\ Len(s \o t) = Len(s) + Len(t)
           /\ \A i \in 1..Len(s) : (s \o t)[i] = s[i]
           /\ \A i \in 1..Len(t) : (s \o t)[Len(s) + i] = t[i]
<1>1. /\ s \o t \in Seq(S) /\ Len(s \o t) = Len(s) + Len(t)
      /\ \A i \in 1..(Len(s) + Len(t)) :
           (s \o t)[i] = IF i <= Len(s) THEN s[i] ELSE t[i - Len(s)]
  BY ConcatProperties
<1>2. Len(s) \in Nat /\ Len(t) \in Nat
  OBVIOUS
<1>3. ASSUME NEW i \in 1..Len(t) PROVE (s \o t)[Len(s) + i] = t[i]
  <2>1. /\ Len(s) + i \in 1..(Len(s) + Len(t)) /\ ~(Len(s) + i <= Len(s))
        /\ Len(s) + i - Len(s) = i
    BY <1>2
  <2> QED BY <1>1, <2>1
<1>4. ASSUME NEW i \in 1..Len(s) PROVE (s \o t)[i] = s[i]
  <2>1. i \in 1..(Len(s) + Len(t)) /\ i <= Len(s)
    BY <1>2
  <2> QED BY <1>1, <2>1
<1> QED BY <1>1, <1>3, <1>4

\* The banner is there when its halves follow each other.
LEMMA HasBanner ==
    ASSUME NEW s \in Seq(Tokens)
    PROVE  Has(s, Banner) <=> \E i \in 1..(Len(s) - 1) : s[i] = "SS" /\ s[i + 1] = "H-"
<1>1. Len(Banner) = 2 /\ Banner[1] = "SS" /\ Banner[2] = "H-"
  BY DEF Banner
<1>2. Len(s) - 2 + 1 = Len(s) - 1
  OBVIOUS
<1>3. ASSUME NEW i \in 1..(Len(s) - 1)
      PROVE  SubSeq(s, i, i + 2 - 1) = Banner <=> s[i] = "SS" /\ s[i + 1] = "H-"
  <2>1. i + 2 - 1 = i + 1 /\ i \in 1..Len(s) /\ i + 1 \in 1..Len(s)
    OBVIOUS
  <2>2. /\ SubSeq(s, i, i + 1) \in Seq(Tokens) /\ Len(SubSeq(s, i, i + 1)) = 2
        /\ SubSeq(s, i, i + 1)[1] = s[i] /\ SubSeq(s, i, i + 1)[2] = s[i + 1]
    BY <2>1
  <2>3. SubSeq(s, i, i + 1) = <<SubSeq(s, i, i + 1)[1], SubSeq(s, i, i + 1)[2]>>
    <3>1. \A t \in Seq(Tokens) : Len(t) = 2 => t = <<t[1], t[2]>>
      OBVIOUS
    <3> QED BY <2>2, <3>1
  <2> QED BY <2>1, <2>2, <2>3 DEF Banner
<1> QED BY <1>1, <1>2, <1>3 DEF Has

\* The banner is two tokens, which a read may separate.
LEMMA BannerFacts ==
    /\ Banner \in Seq(Tokens) /\ Len(Banner) = 2
    /\ Banner[1] = "SS" /\ Banner[2] = "H-"
  BY DEF Banner, Tokens

\* A banner that is the end or the beginning of what follows is there.
LEMMA BannerEnds ==
    ASSUME NEW s \in Seq(Tokens)
    PROVE  Has(s \o Banner, Banner) /\ Has(Banner \o s, Banner) /\ Has(Banner, Banner)
<1>1. /\ s \o Banner \in Seq(Tokens) /\ Len(s \o Banner) = Len(s) + 2
      /\ (s \o Banner)[Len(s) + 1] = "SS" /\ (s \o Banner)[Len(s) + 2] = "H-"
  <2>1. 1 \in 1..Len(Banner) /\ 2 \in 1..Len(Banner)
    BY BannerFacts
  <2>2. /\ s \o Banner \in Seq(Tokens) /\ Len(s \o Banner) = Len(s) + Len(Banner)
        /\ \A i \in 1..Len(Banner) : (s \o Banner)[Len(s) + i] = Banner[i]
    <3>1. \A t \in Seq(Tokens) :
            /\ s \o t \in Seq(Tokens) /\ Len(s \o t) = Len(s) + Len(t)
            /\ \A i \in 1..Len(t) : (s \o t)[Len(s) + i] = t[i]
      BY ConcatElements
    <3> QED BY <3>1, BannerFacts
  <2> QED BY <2>1, <2>2, BannerFacts
<1>2. Has(s \o Banner, Banner)
  <2>1. Len(s) + 1 \in 1..(Len(s \o Banner) - 1) /\ Len(s) + 1 + 1 = Len(s) + 2
    BY <1>1
  <2> QED BY <1>1, <2>1, HasBanner
<1>3. Has(Banner \o s, Banner)
  <2>1. /\ Banner \o s \in Seq(Tokens) /\ Len(Banner \o s) = Len(s) + 2
        /\ (Banner \o s)[1] = "SS" /\ (Banner \o s)[2] = "H-"
    <3>1. 1 \in 1..Len(Banner) /\ 2 \in 1..Len(Banner)
      BY BannerFacts
    <3>2. /\ Banner \o s \in Seq(Tokens) /\ Len(Banner \o s) = Len(Banner) + Len(s)
          /\ \A i \in 1..Len(Banner) : (Banner \o s)[i] = Banner[i]
      BY BannerFacts, ConcatElements, SMTT(30)
    <3> QED BY <3>1, <3>2, BannerFacts
  <2>2. 1 \in 1..(Len(Banner \o s) - 1) /\ 1 + 1 = 2
    BY <2>1
  <2> QED BY <2>1, <2>2, HasBanner
<1>4. Has(Banner, Banner)
  <2>1. 1 \in 1..(Len(Banner) - 1) /\ 1 + 1 = 2
    BY BannerFacts
  <2> QED BY <2>1, BannerFacts, HasBanner
<1> QED BY <1>2, <1>3, <1>4

\* Of an answer that was read neither up to the banner's end nor into its
\* middle, the banner is still to come.
LEMMA BannerToCome ==
    ASSUME NEW r \in Seq(Tokens), NEW w \in Seq(Tokens), Answered(r \o w),
           ~Has(r, Banner), r # <<>>, r[Len(r)] # "SS"
    PROVE  Has(w, Banner)
<1>1. PICK k \in 0..1 :
        Len(r \o w) = k + 2 /\ (r \o w)[k + 1] = "SS" /\ (r \o w)[k + 2] = "H-"
  BY DEF Answered
<1>2. Len(r \o w) = Len(r) + Len(w) /\ Len(r) \in Nat /\ Len(w) \in Nat
  OBVIOUS
<1>3. Len(r) # k + 2
  <2> SUFFICES ASSUME Len(r) = k + 2 PROVE FALSE
    OBVIOUS
  <2>1. r[k + 1] = "SS" /\ r[k + 1 + 1] = "H-" /\ k + 1 \in 1..(Len(r) - 1)
    BY <1>1, <1>2
  <2> QED BY <2>1, HasBanner
<1>4. Len(r) # k + 1
  <2> SUFFICES ASSUME Len(r) = k + 1 PROVE FALSE
    OBVIOUS
  <2>1. r[Len(r)] = "SS"
    BY <1>1, <1>2
  <2> QED BY <2>1
<1>5. Len(r) <= k
  BY <1>1, <1>2, <1>3, <1>4
<1> DEFINE j == k + 1 - Len(r)
<1>6. j \in 1..(Len(w) - 1) /\ w[j] = "SS" /\ w[j + 1] = "H-"
  <2>1. j \in 1..(Len(w) - 1) /\ j \in 1..Len(w) /\ j + 1 \in 1..Len(w)
    BY <1>1, <1>2, <1>5
  <2>2. Len(r) + j = k + 1 /\ Len(r) + (j + 1) = k + 2
    BY <1>2
  <2>3. w[j] = (r \o w)[Len(r) + j] /\ w[j + 1] = (r \o w)[Len(r) + (j + 1)]
    BY <1>2, <2>1
  <2> QED BY <1>1, <2>1, <2>2, <2>3
<1> HIDE DEF j
<1> QED BY <1>6, HasBanner

\* Reading moves tokens and changes none.
LEMMA ReadingMoves ==
    ASSUME NEW r \in Seq(Tokens), NEW w \in Seq(Tokens), NEW n \in 1..Len(w)
    PROVE  LET taken == SubSeq(w, 1, n)
               left == SubSeq(w, n + 1, Len(w))
           IN  /\ taken \in Seq(Tokens) /\ left \in Seq(Tokens)
               /\ (r \o taken) \o left = r \o w
<1> DEFINE taken == SubSeq(w, 1, n)
           left == SubSeq(w, n + 1, Len(w))
<1>1. taken \in Seq(Tokens) /\ Len(taken) = n /\ \A i \in 1..n : taken[i] = w[i]
  OBVIOUS
<1>2. /\ left \in Seq(Tokens) /\ Len(left) = Len(w) - n
      /\ \A i \in 1..(Len(w) - n) : left[i] = w[n + i]
  OBVIOUS
<1> HIDE DEF taken, left
<1> DEFINE a == r \o taken
           b == a \o left
           c == r \o w
<1>0. \A s, t \in Seq(Tokens) :
        /\ s \o t \in Seq(Tokens) /\ Len(s \o t) = Len(s) + Len(t)
        /\ \A i \in 1..Len(s) : (s \o t)[i] = s[i]
        /\ \A i \in 1..Len(t) : (s \o t)[Len(s) + i] = t[i]
  BY ConcatElements
<1>3. /\ a \in Seq(Tokens) /\ Len(a) = Len(r) + n
      /\ \A i \in 1..Len(r) : a[i] = r[i]
      /\ \A i \in 1..n : a[Len(r) + i] = taken[i]
  <2>1. /\ a \in Seq(Tokens) /\ Len(a) = Len(r) + Len(taken)
        /\ \A i \in 1..Len(r) : a[i] = r[i]
        /\ \A i \in 1..Len(taken) : a[Len(r) + i] = taken[i]
    BY <1>0, <1>1
  <2> HIDE DEF a
  <2> QED BY <1>1, <2>1
<1>4. /\ c \in Seq(Tokens) /\ Len(c) = Len(r) + Len(w)
      /\ \A i \in 1..Len(r) : c[i] = r[i]
      /\ \A i \in 1..Len(w) : c[Len(r) + i] = w[i]
  BY ConcatElements
<1> HIDE DEF a, c
<1>5. /\ b \in Seq(Tokens) /\ Len(b) = Len(a) + Len(left)
      /\ \A i \in 1..Len(a) : b[i] = a[i]
      /\ \A i \in 1..Len(left) : b[Len(a) + i] = left[i]
  BY <1>0, <1>2, <1>3
<1> HIDE DEF b
<1>6. Len(b) = Len(c) /\ Len(r) \in Nat /\ Len(w) \in Nat
  BY <1>2, <1>3, <1>4, <1>5
<1>7. ASSUME NEW j \in 1..Len(b) PROVE b[j] = c[j]
  <2>1. CASE j <= Len(r)
    BY <1>3, <1>4, <1>5, <1>6, <2>1
  <2>2. CASE j > Len(r) /\ j <= Len(r) + n
    <3> DEFINE i == j - Len(r)
    <3>1. i \in 1..n /\ j = Len(r) + i /\ j \in 1..Len(a) /\ i \in 1..Len(w)
      BY <1>3, <1>6, <2>2
    <3> HIDE DEF i
    <3> QED BY <1>1, <1>3, <1>4, <1>5, <3>1, ZenonT(60)
  <2>3. CASE j > Len(r) + n
    <3> DEFINE i == j - (Len(r) + n)
    <3>1. /\ i \in 1..(Len(w) - n) /\ j = Len(a) + i /\ i \in 1..Len(left)
          /\ j = Len(r) + (n + i) /\ n + i \in 1..Len(w)
      BY <1>2, <1>3, <1>4, <1>6, <2>3
    <3> HIDE DEF i
    <3>2. b[j] = left[i] /\ c[j] = w[n + i] /\ left[i] = w[n + i]
      BY <1>2, <1>4, <1>5, <3>1
    <3> QED BY <3>2
  <2> QED BY <1>6, <2>1, <2>2, <2>3
<1>8. b = c
  BY <1>4, <1>5, <1>6, <1>7, SeqEqual
<1> QED BY <1>1, <1>2, <1>8 DEF taken, left, a, b, c

-----------------------------------------------------------------------------
(* The cache *)

\* A cache key names its host.
LEMMA KeyHost == \A key \in Keys : key[2] \in Hosts
  BY DEF Keys

\* Numbers have a least element: where the provers lack induction, it stands in.
LEMMA LeastNumber ==
    ASSUME NEW T \in SUBSET Nat, T # {}
    PROVE  \E x \in T : \A y \in T : x <= y
<1> DEFINE R == {p \in Nat \X Nat : p[1] < p[2]}
<1>1. IsWellFoundedOn(R, Nat)
  <2>1. OpToRel(<, Nat) = R
    BY DEF OpToRel
  <2> QED BY <2>1, NatLessThanWellFounded
<1> HIDE DEF R
<1>2. PICK x \in T : \A y \in T : ~(<<y, x>> \in R)
  BY <1>1, WFMin
<1>3. \A y \in T : ~(y < x)
  BY <1>2 DEF R
<1> QED BY <1>3

\* Finitely many numbers have a largest: a smallest set without one would have one
\* after an element is taken out.
LEMMA LargestNumber ==
    ASSUME NEW S \in SUBSET Nat, IsFiniteSet(S), S # {}
    PROVE  \E x \in S : \A y \in S : x >= y
<1> DEFINE Bad(X) == X \in SUBSET Nat /\ IsFiniteSet(X) /\ X # {}
                       /\ ~(\E x \in X : \A y \in X : x >= y)
           sizes == {n \in Nat : \E X \in SUBSET Nat : Bad(X) /\ Cardinality(X) = n}
<1>1. SUFFICES ASSUME ~(\E x \in S : \A y \in S : x >= y) PROVE FALSE
  OBVIOUS
<1>2. sizes # {}
  <2>1. Bad(S) /\ Cardinality(S) \in Nat
    BY <1>1, FS_CardinalityType
  <2> QED BY <2>1
<1>3. PICK n \in sizes : \A m \in sizes : n <= m
  BY <1>2, LeastNumber
<1>4. PICK X \in SUBSET Nat : Bad(X) /\ Cardinality(X) = n
  BY <1>3
<1>5. PICK x \in X : TRUE
  BY <1>4
<1> DEFINE Y == X \ {x}
<1>6. IsFiniteSet(Y) /\ Cardinality(Y) = n - 1 /\ Cardinality(Y) \in Nat /\ n \in Nat
  BY <1>3, <1>4, <1>5, FS_RemoveElement, FS_CardinalityType
<1>7. ~Bad(Y)
  <2>1. ~(n <= n - 1)
    BY <1>6
  <2> QED BY <1>3, <1>6, <2>1
<1>8. CASE Y = {}
  <2>1. \A y \in X : y = x /\ x >= y
    BY <1>5, <1>8
  <2> QED BY <1>4, <1>5, <2>1
<1>9. CASE Y # {}
  <2>1. PICK z \in Y : \A y \in Y : z >= y
    BY <1>6, <1>7, <1>9
  <2>2. \A y \in X : y = x \/ y \in Y
    OBVIOUS
  <2>3. x \in Nat /\ z \in Nat /\ z \in X /\ \A y \in X : y \in Nat
    BY <1>4, <1>5
  <2>4. CASE z >= x
    <3>1. \A y \in X : z >= y
      BY <2>1, <2>2, <2>4
    <3> QED BY <1>4, <2>3, <3>1
  <2>5. CASE ~(z >= x)
    <3>1. \A y \in X : x >= y
      BY <2>1, <2>2, <2>3, <2>5
    <3> QED BY <1>4, <1>5, <3>1
  <2> QED BY <2>4, <2>5
<1> QED BY <1>8, <1>9

\* A new entry expires after all others.
LEMMA LatestOK == ASSUME TypeOK PROVE Latest \in Nat
<1> DEFINE times == {cache[k].expires : k \in Cached}
           S == {0} \cup times
<1>1. \A k \in Cached : cache[k].expires \in Nat
  BY DEF TypeOK, Cached, Entries
<1>2. IsFiniteSet(times)
  <2> DEFINE f == [k \in Cached |-> cache[k].expires]
  <2>1. f \in Surjection(Cached, times)
    BY DEF Surjection
  <2> HIDE DEF f
  <2> QED BY <2>1, FS_Surjection DEF TypeOK
<1>3. IsFiniteSet(S) /\ S \in SUBSET Nat /\ S # {}
  BY <1>1, <1>2, FS_AddElement
<1>4. \E x \in S : \A y \in S : x >= y
  BY <1>3, LargestNumber
<1>5. Latest = CHOOSE x \in S : \A y \in S : x >= y
  BY DEF Latest, Max
<1> HIDE DEF S
<1> QED BY <1>3, <1>4, <1>5

\* A cache that is not empty has an oldest entry.
LEMMA OldestOK == ASSUME TypeOK, Cached # {} PROVE Oldest \in Cached
<1> DEFINE times == {cache[k].expires : k \in Cached}
<1>1. times \in SUBSET Nat /\ times # {}
  BY ZenonT(60) DEF TypeOK, Cached, Entries
<1>2. PICK t \in times : \A u \in times : t <= u
  BY <1>1, LeastNumber
<1>3. PICK k \in Cached : cache[k].expires = t
  BY <1>2
<1>4. \A j \in Cached : cache[k].expires <= cache[j].expires
  BY <1>2, <1>3
<1> QED BY <1>3, <1>4 DEF Oldest

\* cache keeps the limit, and what it does not add was there.
LEMMA StoreOK ==
    ASSUME TypeOK, NEW key \in Keys, NEW gen \in 0..MaxAttempts, cache' = store(key, gen)
    PROVE  /\ cache' \in [Keys -> Entries]
           /\ IsFiniteSet(Cached') /\ Cardinality(Cached') <= CacheMax
           /\ \A k \in Cached' : IF k = key THEN cache'[k].gen = gen
                                 ELSE k \in Cached /\ cache'[k] = cache[k]
<1> DEFINE e == [gen |-> gen, expires |-> Latest + 1, fresh |-> TRUE]
           full == Cardinality(Cached) >= CacheMax
           room == IF full THEN [cache EXCEPT ![Oldest] = NoEntry] ELSE cache
           rest == IF full THEN Cached \ {Oldest} ELSE Cached
<1>1. /\ cache \in [Keys -> Entries] /\ IsFiniteSet(Cached)
      /\ Cardinality(Cached) \in Nat /\ Cardinality(Cached) <= CacheMax
      /\ CacheMax \in Nat /\ CacheMax > 0
  BY TransportAssumption, FS_CardinalityType DEF TypeOK
<1>2. e \in Entries /\ e.gen = gen /\ NoEntry \in Entries /\ NoEntry.expires = 0
  <2>1. 0 \in 0..MaxAttempts
    BY TransportAssumption
  <2> QED BY <2>1, LatestOK DEF Entries, NoEntry
<1>3. full => Oldest \in Cached
  <2>1. full => Cached # {}
    BY <1>1, FS_EmptySet
  <2> QED BY <2>1, OldestOK
<1>4. IsFiniteSet(rest) /\ Cardinality(rest) \in Nat /\ Cardinality(rest) < CacheMax
  <2>1. CASE full
    <3>1. IsFiniteSet(Cached \ {Oldest}) /\ Cardinality(Cached \ {Oldest}) = Cardinality(Cached) - 1
      BY <1>1, <1>3, <2>1, FS_RemoveElement
    <3>2. Cardinality(Cached \ {Oldest}) \in Nat
      BY <3>1, FS_CardinalityType
    <3> QED BY <1>1, <2>1, <3>1, <3>2
  <2>2. CASE ~full
    BY <1>1, <2>2
  <2> QED BY <2>1, <2>2
<1>5. cache' = [room EXCEPT ![key] = e]
  BY DEF store
<1> HIDE DEF e
<1>6. room \in [Keys -> Entries]
  BY <1>1, <1>2
<1>7. \A k \in Keys : room[k].expires # 0 => k \in rest /\ room[k] = cache[k]
  BY <1>1, <1>2, <1>3 DEF Cached
<1> HIDE DEF full, room, rest
<1>8. cache' \in [Keys -> Entries] /\ cache'[key] = e /\ \A k \in Keys : k # key => cache'[k] = room[k]
  BY <1>2, <1>5, <1>6
<1>9. Cached' \in SUBSET (rest \cup {key})
  BY <1>7, <1>8 DEF Cached
<1>10. IsFiniteSet(rest \cup {key}) /\ Cardinality(rest \cup {key}) <= CacheMax
  <2>1. /\ IsFiniteSet(rest \cup {key})
        /\ Cardinality(rest \cup {key}) = Cardinality(rest) \/ Cardinality(rest \cup {key}) = Cardinality(rest) + 1
    BY <1>4, FS_AddElement
  <2> QED BY <1>1, <1>4, <2>1
<1>11. IsFiniteSet(Cached') /\ Cardinality(Cached') <= CacheMax
  <2>1. IsFiniteSet(Cached') /\ Cardinality(Cached') <= Cardinality(rest \cup {key})
    BY <1>9, <1>10, FS_Subset
  <2>2. Cardinality(Cached') \in Nat /\ Cardinality(rest \cup {key}) \in Nat
    BY <1>10, <2>1, FS_CardinalityType
  <2> QED BY <1>1, <1>10, <2>1, <2>2
<1>12. \A k \in Cached' : IF k = key THEN cache'[k].gen = gen
                          ELSE k \in Cached /\ cache'[k] = cache[k]
  <2>1. \A k \in rest : k \in Cached
    BY DEF rest
  <2>2. \A k \in Cached' : k \in Keys /\ cache'[k].expires # 0
    BY DEF Cached
  <2> QED BY <1>2, <1>7, <1>8, <2>1, <2>2
<1> QED BY <1>8, <1>11, <1>12

\* Entries that go leave the cache within its limit.
LEMMA FewerOK ==
    ASSUME TypeOK, NEW S, S \in SUBSET Cached
    PROVE  IsFiniteSet(S) /\ Cardinality(S) <= CacheMax
<1>1. IsFiniteSet(Cached) /\ Cardinality(Cached) <= CacheMax /\ CacheMax \in Nat
  BY TransportAssumption DEF TypeOK
<1>2. IsFiniteSet(S) /\ Cardinality(S) <= Cardinality(Cached)
  BY <1>1, FS_Subset
<1>3. Cardinality(S) \in Nat /\ Cardinality(Cached) \in Nat
  BY <1>1, <1>2, FS_CardinalityType
<1> QED BY <1>1, <1>2, <1>3

\* EvictHost leaves no entry of its hosts and none that was not there.
LEMMA EvictOK ==
    ASSUME TypeOK, NEW hosts \in SUBSET Hosts, EvictHost(hosts)
    PROVE  /\ cache' \in [Keys -> Entries]
           /\ IsFiniteSet(Cached') /\ Cardinality(Cached') <= CacheMax
           /\ \A k \in Cached' : k \in Cached /\ cache'[k] = cache[k] /\ k[2] \notin hosts
<1>1. cache' = [k \in Keys |-> IF k[2] \in hosts THEN NoEntry ELSE cache[k]]
  BY DEF EvictHost
<1>2. cache \in [Keys -> Entries] /\ NoEntry \in Entries /\ NoEntry.expires = 0
  BY TransportAssumption DEF TypeOK, NoEntry, Entries
<1>3. cache' \in [Keys -> Entries]
  BY <1>1, <1>2
<1>4. \A k \in Cached' : k \in Cached /\ cache'[k] = cache[k] /\ k[2] \notin hosts
  BY <1>1, <1>2 DEF Cached
<1>5. IsFiniteSet(Cached') /\ Cardinality(Cached') <= CacheMax
  BY <1>4, FewerOK
<1> QED BY <1>3, <1>4, <1>5

-----------------------------------------------------------------------------
(* The steps *)

\* What is left when no attempt, connection or resolution is in progress.
LEMMA IdleFacts ==
    /\ NoAttempt \in AttemptStates /\ NoAttempt.pc = "idle"
    /\ NoConn \in Sockets /\ NoConn.open = FALSE /\ NoConn.read = <<>> /\ NoConn.cut = FALSE
    /\ NoRes \in Resolutions /\ NoRes.pc = "idle"
<1>1. NoAttempt.profile \in Saved
  BY DEF NoAttempt, Saved, TransportModes
<1>2. NoAttempt \in AttemptStates /\ NoAttempt.pc = "idle"
  BY <1>1 DEF NoAttempt, AttemptStates
<1>3. <<>> \in Seq(Tokens)
  OBVIOUS
<1>4. 0 \in 0..MaxAttempts
  BY TransportAssumption
<1> QED BY <1>2, <1>3, <1>4 DEF NoConn, Sockets, NoRes, Resolutions

\* The empty cache and the idle attempt satisfy the invariant.
LEMMA InitInv == Init => Inv
<1> SUFFICES ASSUME Init PROVE Inv
  OBVIOUS
<1> USE DEF Init
<1>1. TypeOK
  <2>1. NoEntry \in Entries /\ Cached = {}
    BY TransportAssumption DEF NoEntry, Entries, Cached
  <2>2. /\ 0 \in 0..MaxAttempts /\ IsFiniteSet(Cached) /\ Cardinality(Cached) <= CacheMax
    BY <2>1, TransportAssumption, FS_EmptySet
  <2>3. res \in [Loops -> Resolutions] /\ \A l \in Loops : res[l].pc = "idle"
    BY IdleFacts
  <2> QED BY <2>1, <2>2, <2>3, IdleFacts DEF TypeOK
<1>2. SocketOK /\ WireOK
  BY IdleFacts DEF SocketOK, WireOK
<1>3. DnsOK
  <2>1. Cached = {}
    BY DEF Cached, NoEntry
  <2>2. \A l \in Loops : res[l].pc = "idle"
    BY IdleFacts
  <2> QED BY <2>1, <2>2, IdleFacts DEF DnsOK, EvictedStaysAway
<1> QED BY <1>1, <1>2, <1>3 DEF Inv

\* A step that leaves the attempt and its socket alone.
LEMMA DnsFrame ==
    ASSUME Inv, UNCHANGED <<evictions, raced, at, conn, client, attempts>>,
           cache' \in [Keys -> Entries], IsFiniteSet(Cached'), Cardinality(Cached') <= CacheMax,
           res' \in [Loops -> Resolutions],
           \A l \in Loops :
             /\ res'[l].pc # "idle" => res'[l].key \in Keys
             /\ res'[l].pc \in {"direct", "shell"} /\ res'[l].began < evictions[res'[l].key[2]]
                  => res'[l].key[2] \in raced,
           \A k \in Cached' : cache'[k].gen < evictions[k[2]] => k[2] \in raced
    PROVE  Inv'
<1>1. TypeOK'
  BY DEF Inv, TypeOK
<1>2. SocketOK' /\ WireOK'
  BY DEF Inv, SocketOK, WireOK, Greeting
<1>3. DnsOK'
  BY DEF Inv, DnsOK, EvictedStaysAway
<1> QED BY <1>1, <1>2, <1>3 DEF Inv

\* An answer is stored as of the moment of the question.
LEMMA AnswerInv ==
    ASSUME Inv, NEW l \in Loops, res[l].pc \in {"direct", "shell"}, Answer(l),
           UNCHANGED <<evictions, raced, at, conn, client, attempts>>
    PROVE  Inv'
<1> DEFINE key == res[l].key
           gen == res[l].began
           x == [res[l] EXCEPT !.pc = "found"]
<1>1. res \in [Loops -> Resolutions] /\ res[l] \in Resolutions /\ key \in Keys
  BY DEF Inv, TypeOK
<1>2. gen \in 0..MaxAttempts
  BY <1>1 DEF Resolutions
<1>3. /\ cache' = store(key, gen) /\ res' = [res EXCEPT ![l] = x]
  BY <1>1 DEF Answer
<1>4. x \in Resolutions /\ x.pc = "found" /\ x.key = key
  BY <1>1 DEF Resolutions
<1> HIDE DEF x
<1>5. gen < evictions[key[2]] => key[2] \in raced
  BY DEF Inv, DnsOK
<1> HIDE DEF key, gen
<1>6. /\ cache' \in [Keys -> Entries]
      /\ IsFiniteSet(Cached') /\ Cardinality(Cached') <= CacheMax
      /\ \A k \in Cached' : IF k = key THEN cache'[k].gen = gen
                            ELSE k \in Cached /\ cache'[k] = cache[k]
  BY <1>1, <1>2, <1>3, StoreOK DEF Inv
<1>7. \A k \in Cached' : cache'[k].gen < evictions[k[2]] => k[2] \in raced
  BY <1>5, <1>6 DEF Inv, DnsOK, EvictedStaysAway
<1>8. \A m \in Loops :
        /\ res'[m].pc # "idle" => res'[m].key \in Keys
        /\ res'[m].pc \in {"direct", "shell"} /\ res'[m].began < evictions[res'[m].key[2]]
             => res'[m].key[2] \in raced
  BY <1>1, <1>3, <1>4 DEF Inv, TypeOK, DnsOK
<1>9. res' \in [Loops -> Resolutions]
  BY <1>1, <1>3, <1>4
<1> QED BY <1>6, <1>7, <1>8, <1>9, DnsFrame

\* A question that is asked now has been overtaken by no eviction.
LEMMA ResolveOK ==
    ASSUME Inv, NEW l \in Loops, NEW key \in Keys, ResolveHost(l, key)
    PROVE  /\ res' \in [Loops -> Resolutions]
           /\ \A m \in Loops :
                /\ res'[m].pc # "idle" => res'[m].key \in Keys
                /\ res'[m].pc \in {"direct", "shell"} /\ res'[m].began < evictions[res'[m].key[2]]
                     => res'[m].key[2] \in raced
<1> DEFINE hit == cache[key].fresh
           x == [pc |-> IF hit THEN "found" ELSE "direct", key |-> key, began |-> evictions[key[2]]]
<1>1. res' = [res EXCEPT ![l] = x]
  BY DEF ResolveHost
<1>2. evictions[key[2]] \in 0..MaxAttempts
  BY KeyHost DEF Inv, TypeOK
<1>3. (IF hit THEN "found" ELSE "direct") \in {"found", "direct"}
  OBVIOUS
<1> HIDE DEF hit
<1>4. /\ x \in Resolutions /\ x.key = key /\ x.began = evictions[key[2]]
      /\ x.pc \in {"found", "direct"}
  BY <1>2, <1>3 DEF Resolutions
<1> HIDE DEF x
<1>5. ~(evictions[key[2]] < evictions[key[2]])
  BY <1>2
<1>6. res \in [Loops -> Resolutions]
  BY DEF Inv, TypeOK
<1>7. res'[l] = x /\ \A m \in Loops : m # l => res'[m] = res[m]
  BY <1>1, <1>6
<1>8. res' \in [Loops -> Resolutions]
  BY <1>1, <1>4, <1>6
<1> QED BY <1>4, <1>5, <1>7, <1>8 DEF Inv, TypeOK, DnsOK

\* A resolution that has ended, in whatever way.
LEMMA ResEnds ==
    ASSUME Inv, NEW l \in Loops, NEW x \in Resolutions, res' = [res EXCEPT ![l] = x],
           x.pc # "idle" => x.key \in Keys,
           x.pc = "direct" => FALSE,
           x.pc = "shell" => res[l].pc = "direct" /\ x.key = res[l].key /\ x.began = res[l].began
    PROVE  /\ res' \in [Loops -> Resolutions]
           /\ \A m \in Loops :
                /\ res'[m].pc # "idle" => res'[m].key \in Keys
                /\ res'[m].pc \in {"direct", "shell"} /\ res'[m].began < evictions[res'[m].key[2]]
                     => res'[m].key[2] \in raced
<1>1. res \in [Loops -> Resolutions]
  BY DEF Inv, TypeOK
<1>2. res'[l] = x /\ \A m \in Loops : m # l => res'[m] = res[m]
  BY <1>1
<1>3. res' \in [Loops -> Resolutions]
  BY <1>1
<1> QED BY <1>2, <1>3 DEF Inv, TypeOK, DnsOK

\* The steps of the resolver.
LEMMA DnsSteps ==
    ASSUME Inv,
           \/ EntryExpires
           \/ \E l \in Loops : resolveViaDirectDNS(l) \/ shellResolve(l)
           \/ \E key \in Keys : StaleResolves(key)
    PROVE  Inv'
<1>0. /\ cache \in [Keys -> Entries] /\ IsFiniteSet(Cached) /\ Cardinality(Cached) <= CacheMax
      /\ \A k \in Cached : cache[k].gen < evictions[k[2]] => k[2] \in raced
      /\ UNCHANGED cache => Cached' = Cached
  BY DEF Inv, TypeOK, DnsOK, EvictedStaysAway, Cached
<1>1. CASE EntryExpires
  <2>1. PICK i \in Cached : cache' = [cache EXCEPT ![i].fresh = FALSE]
    BY <1>1 DEF EntryExpires
  <2>2. UNCHANGED <<evictions, raced, res, at, conn, client, attempts>>
    BY <1>1 DEF EntryExpires
  <2> DEFINE e == [cache[i] EXCEPT !.fresh = FALSE]
  <2>3. cache' = [cache EXCEPT ![i] = e] /\ i \in Keys /\ cache[i] \in Entries
    BY <1>0, <2>1 DEF Cached
  <2>4. e \in Entries /\ e.gen = cache[i].gen /\ e.expires = cache[i].expires
    BY <2>3 DEF Entries
  <2> HIDE DEF e
  <2>5. /\ cache' \in [Keys -> Entries]
        /\ \A k \in Keys : cache'[k].gen = cache[k].gen /\ cache'[k].expires = cache[k].expires
    BY <1>0, <2>3, <2>4
  <2>6. Cached' = Cached
    BY <2>5 DEF Cached
  <2>7. \A k \in Cached' : cache'[k].gen < evictions[k[2]] => k[2] \in raced
    BY <1>0, <2>5, <2>6 DEF Cached
  <2>8. res' \in [Loops -> Resolutions]
    BY <2>2 DEF Inv, TypeOK
  <2>9. \A m \in Loops :
          /\ res'[m].pc # "idle" => res'[m].key \in Keys
          /\ res'[m].pc \in {"direct", "shell"} /\ res'[m].began < evictions[res'[m].key[2]]
               => res'[m].key[2] \in raced
    BY <2>2 DEF Inv, TypeOK, DnsOK
  <2> QED BY <1>0, <2>2, <2>5, <2>6, <2>7, <2>8, <2>9, DnsFrame
<1>2. ASSUME NEW l \in Loops, resolveViaDirectDNS(l) PROVE Inv'
  <2>1. UNCHANGED <<evictions, raced, at, conn, client, attempts>> /\ res[l].pc = "direct"
    BY <1>2 DEF resolveViaDirectDNS
  <2>2. CASE Answer(l)
    BY <2>1, <2>2, AnswerInv
  <2>3. CASE res' = [res EXCEPT ![l].pc = "shell"] /\ UNCHANGED cache
    <3> DEFINE x == [res[l] EXCEPT !.pc = "shell"]
    <3>1. res[l] \in Resolutions /\ res \in [Loops -> Resolutions] /\ res[l].key \in Keys
      BY <2>1 DEF Inv, TypeOK
    <3>2. res' = [res EXCEPT ![l] = x]
      BY <2>3, <3>1
    <3>3. x \in Resolutions /\ x.pc = "shell" /\ x.key = res[l].key /\ x.began = res[l].began
      BY <3>1 DEF Resolutions
    <3> HIDE DEF x
    <3>4. /\ res' \in [Loops -> Resolutions]
          /\ \A m \in Loops :
               /\ res'[m].pc # "idle" => res'[m].key \in Keys
               /\ res'[m].pc \in {"direct", "shell"} /\ res'[m].began < evictions[res'[m].key[2]]
                    => res'[m].key[2] \in raced
      BY <2>1, <3>1, <3>2, <3>3, ResEnds
    <3> QED BY <1>0, <2>1, <2>3, <3>4, DnsFrame
  <2> QED BY <1>2, <2>2, <2>3 DEF resolveViaDirectDNS
<1>3. ASSUME NEW l \in Loops, shellResolve(l) PROVE Inv'
  <2>1. UNCHANGED <<evictions, raced, at, conn, client, attempts>> /\ res[l].pc = "shell"
    BY <1>3 DEF shellResolve
  <2>2. CASE Answer(l)
    BY <2>1, <2>2, AnswerInv
  <2>3. CASE res' = [res EXCEPT ![l].pc = "failed"] /\ UNCHANGED cache
    <3> DEFINE x == [res[l] EXCEPT !.pc = "failed"]
    <3>1. res[l] \in Resolutions /\ res \in [Loops -> Resolutions] /\ res[l].key \in Keys
      BY <2>1 DEF Inv, TypeOK
    <3>2. res' = [res EXCEPT ![l] = x]
      BY <2>3, <3>1
    <3>3. x \in Resolutions /\ x.pc = "failed" /\ x.key = res[l].key
      BY <3>1 DEF Resolutions
    <3> HIDE DEF x
    <3>4. /\ res' \in [Loops -> Resolutions]
          /\ \A m \in Loops :
               /\ res'[m].pc # "idle" => res'[m].key \in Keys
               /\ res'[m].pc \in {"direct", "shell"} /\ res'[m].began < evictions[res'[m].key[2]]
                    => res'[m].key[2] \in raced
      BY <3>1, <3>2, <3>3, ResEnds
    <3> QED BY <1>0, <2>1, <2>3, <3>4, DnsFrame
  <2> QED BY <1>3, <2>2, <2>3 DEF shellResolve
<1>4. ASSUME NEW key \in Keys, StaleResolves(key) PROVE Inv'
  <2>1. /\ ResolveHost("stale", key) /\ "stale" \in Loops
        /\ UNCHANGED <<cache, evictions, raced, at, conn, client, attempts>>
    BY <1>4 DEF StaleResolves, Loops
  <2>2. /\ res' \in [Loops -> Resolutions]
        /\ \A m \in Loops :
             /\ res'[m].pc # "idle" => res'[m].key \in Keys
             /\ res'[m].pc \in {"direct", "shell"} /\ res'[m].began < evictions[res'[m].key[2]]
                  => res'[m].key[2] \in raced
    BY <2>1, ResolveOK
  <2> QED BY <1>0, <2>1, <2>2, DnsFrame
<1> QED BY <1>1, <1>2, <1>3, <1>4

\* A step of the attempt that leaves the cache alone.
LEMMA AttemptFrame ==
    ASSUME Inv, UNCHANGED <<cache, evictions, raced>>,
           at' \in AttemptStates, conn' \in Sockets, client' \in BOOLEAN,
           attempts' \in attempts..MaxAttempts, res' \in [Loops -> Resolutions],
           \A l \in Loops :
             /\ res'[l].pc # "idle" => res'[l].key \in Keys
             /\ res'[l].pc \in {"direct", "shell"} /\ res'[l].began < evictions[res'[l].key[2]]
                  => res'[l].key[2] \in raced,
           at'.pc \in {"resolve", "system"} => at'.dns \in Modes,
           \/ attempts' > attempts
           \/ at'.pc \in {"idle", "misconfigured", "ssh"}
           \/ at.pc \notin {"idle", "misconfigured", "ssh"},
           SocketOK', WireOK'
    PROVE  Inv'
<1>0. attempts \in 0..MaxAttempts /\ MaxAttempts \in Nat /\ evictions \in [Hosts -> 0..MaxAttempts]
  BY TransportAssumption DEF Inv, TypeOK
<1>1. TypeOK'
  <2>1. attempts' \in 0..MaxAttempts
    BY <1>0
  <2> QED BY <2>1 DEF Inv, TypeOK, Cached
<1>2. \A h \in Hosts :
        /\ evictions'[h] <= attempts'
        /\ at'.pc \notin {"idle", "misconfigured", "ssh"} => evictions'[h] < attempts'
  <2> TAKE h \in Hosts
  <2>1. /\ evictions[h] \in 0..MaxAttempts /\ evictions[h] <= attempts
        /\ at.pc \notin {"idle", "misconfigured", "ssh"} => evictions[h] < attempts
    BY <1>0 DEF Inv, DnsOK
  <2> QED BY <1>0, <2>1
<1>3. DnsOK'
  BY <1>2 DEF Inv, DnsOK, EvictedStaysAway, Cached
<1> QED BY <1>1, <1>3 DEF Inv

\* An error return, from wherever: the socket is closed.
LEMMA FailedOK ==
    ASSUME Inv, at.pc # "idle", Failed, UNCHANGED client
    PROVE  /\ at' \in AttemptStates /\ at'.pc = "idle" /\ conn' \in Sockets
           /\ client' \in BOOLEAN /\ SocketOK' /\ WireOK'
<1>1. at' = NoAttempt /\ conn' = NoConn
  BY DEF Failed
<1>2. at.pc \in {"resolve", "system", "fallback", "misconfigured", "connect", "tls", "payload",
                 "probe", "judge", "ssh"} /\ client \in BOOLEAN
  BY DEF Inv, TypeOK, AttemptStates
<1>3. ~client
  BY <1>2 DEF Inv, SocketOK
<1> QED BY <1>1, <1>2, <1>3, IdleFacts DEF SocketOK, WireOK

\* A step of the attempt that has nothing to do with DNS.
LEMMA QuietFrame ==
    ASSUME Inv, UNCHANGED <<dnsVars, attempts>>,
           at' \in AttemptStates, conn' \in Sockets, client' \in BOOLEAN, at'.pc \notin {"resolve", "system"},
           \/ at'.pc \in {"idle", "misconfigured", "ssh"}
           \/ at.pc \notin {"idle", "misconfigured", "ssh"},
           SocketOK', WireOK'
    PROVE  Inv'
<1>1. attempts \in 0..MaxAttempts /\ attempts' = attempts /\ MaxAttempts \in Nat
  BY TransportAssumption DEF Inv, TypeOK
<1>2. attempts' \in attempts..MaxAttempts
  BY <1>1
<1>3. UNCHANGED <<cache, evictions, raced>> /\ res' = res
  BY DEF dnsVars
<1>4. /\ res' \in [Loops -> Resolutions]
      /\ \A l \in Loops :
           /\ res'[l].pc # "idle" => res'[l].key \in Keys
           /\ res'[l].pc \in {"direct", "shell"} /\ res'[l].began < evictions[res'[l].key[2]]
                => res'[l].key[2] \in raced
  BY <1>3 DEF Inv, TypeOK, DnsOK
<1> QED BY <1>2, <1>3, <1>4, AttemptFrame

\* The attempt moves on: nothing else of it changes.
LEMMA Moves ==
    ASSUME NEW a \in AttemptStates,
           NEW pc \in {"resolve", "system", "fallback", "connect", "tls", "payload", "probe",
                       "judge", "ssh", "misconfigured"}
    PROVE  /\ [a EXCEPT !.pc = pc] \in AttemptStates /\ [a EXCEPT !.pc = pc].pc = pc
           /\ [a EXCEPT !.pc = pc].profile = a.profile /\ [a EXCEPT !.pc = pc].dns = a.dns
  BY DEF AttemptStates

\* A fresh socket, with what the peer sends first.
LEMMA DialledOK ==
    ASSUME Inv, at.pc \in {"resolve", "system", "fallback"}, Dialled, UNCHANGED client
    PROVE  /\ at' \in AttemptStates /\ at'.pc = "connect" /\ conn' \in Sockets
           /\ client' \in BOOLEAN /\ SocketOK' /\ WireOK'
<1> DEFINE p == at.profile
           first(status) == (IF p.proxy = "connect" THEN status ELSE <<>>) \o Greeting
<1>1. at \in AttemptStates /\ client = FALSE
  BY DEF Inv, TypeOK, SocketOK
<1>2. at' \in AttemptStates /\ at'.pc = "connect" /\ at'.profile = p
  <2>1. at' = [at EXCEPT !.pc = "connect", !.second = FALSE, !.dns = ""]
    BY DEF Dialled
  <2> QED BY <1>1, <2>1 DEF AttemptStates
<1>3. PICK x \in {"200", "503", "junk"} :
        conn' = [NoConn EXCEPT !.open = TRUE, !.wire = first(<<x>>)]
  <2>1. PICK status \in {<<"200">>, <<"503">>, <<"junk">>} :
          conn' = [NoConn EXCEPT !.open = TRUE, !.wire = first(status)]
    BY DEF Dialled, Greeting
  <2> QED BY <2>1
<1>4. Greeting \in Seq(Tokens) /\ <<x>> \in Seq(Tokens)
  BY BannerFacts DEF Greeting, Tokens, Statuses
<1>5. <<>> \o Greeting = Greeting
  BY <1>4
<1>6. /\ first(<<x>>) \in Seq(Tokens)
      /\ p.proxy = "connect" => first(<<x>>) = <<x>> \o Greeting
      /\ p.proxy # "connect" => first(<<x>>) = Greeting
  BY <1>4, <1>5
<1> HIDE DEF first
<1>7. /\ conn' \in Sockets /\ conn'.open = TRUE /\ conn'.wire = first(<<x>>)
      /\ conn'.read = <<>> /\ conn'.cut = FALSE
  BY <1>3, <1>6, IdleFacts DEF Sockets, NoConn
<1>8. Greeting' = Greeting
  BY <1>2 DEF Greeting
<1>9. WireOK'
  BY <1>2, <1>6, <1>7, <1>8 DEF WireOK
<1>10. SocketOK'
  BY <1>1, <1>2, <1>7 DEF SocketOK
<1> QED BY <1>1, <1>2, <1>7, <1>9, <1>10

\* The dials.
LEMMA DialSteps ==
    ASSUME Inv, DialResolved \/ DialSystem \/ DialFallback
    PROVE  Inv'
<1>0. /\ at \in AttemptStates /\ conn \in Sockets /\ client \in BOOLEAN
      /\ attempts \in 0..MaxAttempts /\ MaxAttempts \in Nat /\ attempts \in attempts..MaxAttempts
      /\ "tunnel" \in Loops
  BY TransportAssumption DEF Inv, TypeOK, Loops
<1>1. CASE DialResolved
  <2>1. /\ at.pc = "resolve" /\ UNCHANGED <<cache, evictions, raced, client, attempts>>
        /\ res' = [res EXCEPT !["tunnel"] = NoRes]
    BY <1>1 DEF DialResolved
  <2>2. /\ res' \in [Loops -> Resolutions]
        /\ \A m \in Loops :
             /\ res'[m].pc # "idle" => res'[m].key \in Keys
             /\ res'[m].pc \in {"direct", "shell"} /\ res'[m].began < evictions[res'[m].key[2]]
                  => res'[m].key[2] \in raced
    BY <1>0, <2>1, IdleFacts, ResEnds
  <2>3. CASE Dialled
    <3>1. /\ at' \in AttemptStates /\ at'.pc = "connect" /\ conn' \in Sockets
          /\ client' \in BOOLEAN /\ SocketOK' /\ WireOK'
      BY <2>1, <2>3, DialledOK
    <3> QED BY <1>0, <2>1, <2>2, <3>1, AttemptFrame
  <2>4. CASE Failed
    <3>1. /\ at' \in AttemptStates /\ at'.pc = "idle" /\ conn' \in Sockets
          /\ client' \in BOOLEAN /\ SocketOK' /\ WireOK'
      BY <2>1, <2>4, FailedOK
    <3> QED BY <1>0, <2>1, <2>2, <3>1, AttemptFrame
  <2>5. ASSUME NEW pc \in {"system", "fallback"}, at' = [at EXCEPT !.pc = pc], UNCHANGED conn
        PROVE  Inv'
    <3>1. at' \in AttemptStates /\ at'.pc = pc /\ at'.dns = at.dns
      BY <1>0, <2>5 DEF AttemptStates
    <3>2. SocketOK' /\ WireOK'
      BY <2>1, <2>5, <3>1 DEF Inv, SocketOK, WireOK
    <3>3. at'.dns \in Modes
      BY <2>1, <3>1 DEF Inv, DnsOK
    <3> QED BY <1>0, <2>1, <2>2, <2>5, <3>1, <3>2, <3>3, AttemptFrame
  <2> QED BY <1>1, <2>3, <2>4, <2>5 DEF DialResolved
<1>2. CASE DialSystem
  <2>1. at.pc = "system" /\ UNCHANGED <<cache, evictions, raced, client, attempts>>
    BY <1>2 DEF DialSystem
  <2>2. CASE Dialled /\ UNCHANGED res
    <3>1. /\ at' \in AttemptStates /\ at'.pc = "connect" /\ conn' \in Sockets
          /\ client' \in BOOLEAN /\ SocketOK' /\ WireOK'
      BY <2>1, <2>2, DialledOK
    <3>2. UNCHANGED <<dnsVars, attempts>>
      BY <2>1, <2>2 DEF dnsVars
    <3> QED BY <2>1, <3>1, <3>2, QuietFrame
  <2>3. CASE /\ at' = [at EXCEPT !.pc = "resolve", !.second = TRUE]
             /\ ResolveHost("tunnel", <<at.dns, DialHost(at.profile)>>)
             /\ UNCHANGED conn
    <3>1. at.dns \in Modes
      BY <2>1 DEF Inv, DnsOK
    <3>2. <<at.dns, DialHost(at.profile)>> \in Keys
      BY <3>1 DEF Keys, DialHost, Hosts
    <3>3. /\ res' \in [Loops -> Resolutions]
          /\ \A m \in Loops :
               /\ res'[m].pc # "idle" => res'[m].key \in Keys
               /\ res'[m].pc \in {"direct", "shell"} /\ res'[m].began < evictions[res'[m].key[2]]
                    => res'[m].key[2] \in raced
      BY <1>0, <2>3, <3>2, ResolveOK
    <3>4. at' \in AttemptStates /\ at'.pc = "resolve" /\ at'.dns = at.dns
      BY <1>0, <2>3 DEF AttemptStates
    <3>5. SocketOK' /\ WireOK'
      BY <2>1, <2>3, <3>4 DEF Inv, SocketOK, WireOK
    <3> QED BY <1>0, <2>1, <2>3, <3>1, <3>3, <3>4, <3>5, AttemptFrame
  <2> QED BY <1>2, <2>2, <2>3 DEF DialSystem
<1>3. CASE DialFallback
  <2>1. at.pc = "fallback" /\ UNCHANGED <<dnsVars, client, attempts>>
    BY <1>3 DEF DialFallback
  <2>2. CASE Dialled
    <3>1. /\ at' \in AttemptStates /\ at'.pc = "connect" /\ conn' \in Sockets
          /\ client' \in BOOLEAN /\ SocketOK' /\ WireOK'
      BY <2>1, <2>2, DialledOK
    <3> QED BY <2>1, <3>1, QuietFrame
  <2>3. CASE Failed
    <3>1. /\ at' \in AttemptStates /\ at'.pc = "idle" /\ conn' \in Sockets
          /\ client' \in BOOLEAN /\ SocketOK' /\ WireOK'
      BY <2>1, <2>3, FailedOK
    <3> QED BY <2>1, <3>1, QuietFrame
  <2> QED BY <1>3, <2>2, <2>3 DEF DialFallback
<1> QED BY <1>1, <1>2, <1>3

\* dialEndpoint: a profile that lacks its proxy is turned down without a socket.
LEMMA BeginStep ==
    ASSUME Inv, NEW p \in Saved \cup Incomplete, NEW mode \in Modes, NEW literal \in BOOLEAN,
           BeginAttempt(p, mode, literal)
    PROVE  Inv'
<1> DEFINE a == [NoAttempt EXCEPT !.profile = p, !.dns = mode]
<1>0. /\ conn \in Sockets /\ client = FALSE /\ at.pc \in {"idle", "misconfigured"}
      /\ attempts \in 0..MaxAttempts /\ MaxAttempts \in Nat /\ "tunnel" \in Loops
      /\ UNCHANGED <<cache, evictions, raced, conn, client>>
      /\ attempts < MaxAttempts /\ attempts' = attempts + 1
  BY TransportAssumption DEF Inv, TypeOK, Loops, BeginAttempt
<1>1. attempts' \in attempts..MaxAttempts /\ attempts' > attempts
  BY <1>0
<1>2. a \in AttemptStates /\ a.dns = mode
  BY IdleFacts DEF AttemptStates
<1>3. conn.open = FALSE
  BY <1>0 DEF Inv, SocketOK, Sockets
<1>4. PICK pc \in {"misconfigured", "fallback", "system", "resolve"} :
        at' = [a EXCEPT !.pc = pc]
  <2>1. CASE at' = [a EXCEPT !.pc = "misconfigured"]
    BY <2>1
  <2>2. CASE at' = [a EXCEPT !.pc = IF literal THEN "fallback"
                                      ELSE IF mode = "device" THEN "system" ELSE "resolve"]
    <3>1. (IF literal THEN "fallback" ELSE IF mode = "device" THEN "system" ELSE "resolve")
            \in {"fallback", "system", "resolve"}
      OBVIOUS
    <3> QED BY <2>2, <3>1
  <2> QED BY <2>1, <2>2 DEF BeginAttempt
<1>5. res' = res \/ ResolveHost("tunnel", <<mode, DialHost(p)>>)
  BY DEF BeginAttempt
<1> HIDE DEF a
<1>6. at' \in AttemptStates /\ at'.pc = pc /\ at'.dns = mode
  BY <1>2, <1>4 DEF AttemptStates
<1>7. SocketOK' /\ WireOK'
  BY <1>0, <1>3, <1>4, <1>6 DEF SocketOK, WireOK
<1>8. /\ res' \in [Loops -> Resolutions]
      /\ \A m \in Loops :
           /\ res'[m].pc # "idle" => res'[m].key \in Keys
           /\ res'[m].pc \in {"direct", "shell"} /\ res'[m].began < evictions[res'[m].key[2]]
                => res'[m].key[2] \in raced
  <2>1. CASE res' = res
    BY <2>1 DEF Inv, TypeOK, DnsOK
  <2>2. CASE ResolveHost("tunnel", <<mode, DialHost(p)>>)
    <3>1. <<mode, DialHost(p)>> \in Keys
      BY DEF Keys, DialHost, Hosts
    <3> QED BY <1>0, <2>2, <3>1, ResolveOK
  <2> QED BY <1>5, <2>1, <2>2
<1> QED BY <1>0, <1>1, <1>6, <1>7, <1>8, AttemptFrame

\* CONNECT takes the answer and, if it is cut, what follows it.
LEMMA ConnectStep == ASSUME Inv, httpCONNECT PROVE Inv'
<1>0. /\ at \in AttemptStates /\ conn \in Sockets /\ client = FALSE /\ at.pc = "connect"
      /\ conn.open = TRUE /\ conn.read = <<>> /\ conn.cut = FALSE
      /\ UNCHANGED <<dnsVars, client, attempts>>
  BY DEF Inv, TypeOK, SocketOK, WireOK, httpCONNECT, Sockets
<1>1. CASE at.profile.proxy # "connect" /\ at' = [at EXCEPT !.pc = "tls"] /\ UNCHANGED conn
  <2>1. at' \in AttemptStates /\ at'.pc = "tls" /\ at'.profile = at.profile
    BY <1>0, <1>1, Moves
  <2>2. Greeting' = Greeting
    BY <2>1 DEF Greeting
  <2>3. SocketOK' /\ WireOK'
    BY <1>0, <1>1, <2>1, <2>2 DEF Inv, SocketOK, WireOK
  <2> QED BY <1>0, <1>1, <2>1, <2>3, QuietFrame
<1>2. CASE Failed
  <2>1. /\ at' \in AttemptStates /\ at'.pc = "idle" /\ conn' \in Sockets
        /\ client' \in BOOLEAN /\ SocketOK' /\ WireOK'
    BY <1>0, <1>2, FailedOK
  <2> QED BY <1>0, <2>1, QuietFrame
<1>3. ASSUME NEW n \in 1..Len(conn.wire), at.profile.proxy = "connect",
             at' = [at EXCEPT !.pc = "tls"],
             conn' = [conn EXCEPT !.wire = Left(n), !.cut = n > 1]
      PROVE  Inv'
  <2>1. at' \in AttemptStates /\ at'.pc = "tls" /\ at'.profile = at.profile
    BY <1>0, <1>3, Moves
  <2>2. Greeting' = Greeting
    BY <2>1 DEF Greeting
  <2>3. conn.wire \in Seq(Tokens) /\ Left(n) \in Seq(Tokens) /\ (n > 1) \in BOOLEAN
    BY <1>0 DEF Sockets, Left
  <2>4. /\ conn' \in Sockets /\ conn'.open = TRUE /\ conn'.read = <<>>
        /\ conn'.wire = Left(n) /\ conn'.cut = (n > 1)
    BY <1>0, <1>3, <2>3 DEF Sockets
  <2>5. ~conn'.cut => conn'.wire = Greeting
    <3> SUFFICES ASSUME ~(n > 1) PROVE Left(n) = Greeting
      BY <2>4
    <3>1. n = 1
      BY <2>3
    <3>2. PICK x \in {"200", "503", "junk"} : conn.wire = <<x>> \o Greeting
      BY <1>0, <1>3 DEF Inv, WireOK
    <3>3. Greeting \in Seq(Tokens) /\ <<x>> \in Seq(Tokens) /\ Len(<<x>>) = 1
      BY BannerFacts DEF Greeting, Tokens, Statuses
    <3>4. /\ Len(conn.wire) = 1 + Len(Greeting)
          /\ \A i \in 1..Len(Greeting) : conn.wire[1 + i] = Greeting[i]
      <4>1. \A s, t \in Seq(Tokens) :
              /\ Len(s \o t) = Len(s) + Len(t)
              /\ \A i \in 1..Len(t) : (s \o t)[Len(s) + i] = t[i]
        BY ConcatElements
      <4> QED BY <3>2, <3>3, <4>1
    <3> HIDE DEF Greeting
    <3>5. /\ Left(1) \in Seq(Tokens) /\ Len(Left(1)) = Len(Greeting)
          /\ \A i \in 1..Len(Left(1)) : Left(1)[i] = Greeting[i]
      <4>1. ASSUME NEW s \in Seq(Tokens), NEW m \in 1..Len(s)
            PROVE  /\ Len(SubSeq(s, m + 1, Len(s))) = Len(s) - m
                   /\ \A i \in 1..(Len(s) - m) : SubSeq(s, m + 1, Len(s))[i] = s[m + i]
        OBVIOUS
      <4>2. 1 \in 1..Len(conn.wire) /\ Len(conn.wire) - 1 = Len(Greeting)
        BY <3>3, <3>4
      <4> QED BY <2>3, <3>1, <3>4, <4>1, <4>2 DEF Left
    <3> QED BY <3>1, <3>3, <3>5, SeqEqual
  <2>6. SocketOK' /\ WireOK'
    BY <1>0, <2>1, <2>2, <2>4, <2>5 DEF SocketOK, WireOK
  <2> QED BY <1>0, <2>1, <2>4, <2>6, QuietFrame
<1> QED BY <1>1, <1>2, <1>3 DEF httpCONNECT

\* The handshake reads nothing of what follows it.
LEMMA TlsStep == ASSUME Inv, TLSHandshake PROVE Inv'
<1>0. /\ at \in AttemptStates /\ conn \in Sockets /\ client = FALSE /\ at.pc = "tls"
      /\ conn.open = TRUE /\ conn.read = <<>>
      /\ UNCHANGED <<dnsVars, client, attempts>>
  BY DEF Inv, TypeOK, SocketOK, WireOK, TLSHandshake, Sockets
<1>1. CASE ~usesTLS(at.profile) /\ at' = [at EXCEPT !.pc = "payload"] /\ UNCHANGED conn
  <2>1. at' \in AttemptStates /\ at'.pc = "payload" /\ at'.profile = at.profile
    BY <1>0, <1>1, Moves
  <2>2. SocketOK' /\ WireOK'
    BY <1>0, <1>1, <2>1 DEF Inv, SocketOK, WireOK, Greeting
  <2> QED BY <1>0, <1>1, <2>1, <2>2, QuietFrame
<1>2. CASE at' = [at EXCEPT !.pc = "misconfigured"] /\ conn' = NoConn
  <2>1. at' \in AttemptStates /\ at'.pc = "misconfigured"
    BY <1>0, <1>2, Moves
  <2>2. SocketOK' /\ WireOK'
    BY <1>0, <1>2, <2>1, IdleFacts DEF SocketOK, WireOK
  <2> QED BY <1>0, <1>2, <2>1, <2>2, IdleFacts, QuietFrame
<1>3. CASE Failed
  <2>1. /\ at' \in AttemptStates /\ at'.pc = "idle" /\ conn' \in Sockets
        /\ client' \in BOOLEAN /\ SocketOK' /\ WireOK'
    BY <1>0, <1>3, FailedOK
  <2> QED BY <1>0, <2>1, QuietFrame
<1>4. CASE /\ at' = [at EXCEPT !.pc = "payload"]
           /\ conn' = [conn EXCEPT !.wire = IF at.profile.payload = "off" THEN Banner ELSE <<>>]
  <2> DEFINE w == IF at.profile.payload = "off" THEN Banner ELSE <<>>
  <2>1. at' \in AttemptStates /\ at'.pc = "payload" /\ at'.profile = at.profile
    BY <1>0, <1>4, Moves
  <2>2. w \in Seq(Tokens)
    BY BannerFacts
  <2>3. /\ conn' \in Sockets /\ conn'.open = TRUE /\ conn'.read = <<>> /\ conn'.wire = w
    BY <1>0, <1>4, <2>2 DEF Sockets
  <2>4. SocketOK' /\ WireOK'
    BY <1>0, <2>1, <2>3 DEF SocketOK, WireOK
  <2> QED BY <1>0, <2>1, <2>3, <2>4, QuietFrame
<1> QED BY <1>1, <1>2, <1>3, <1>4 DEF TLSHandshake

\* The answer to the payload is unread when the probe begins.
LEMMA PayloadStep == ASSUME Inv, SendPayload PROVE Inv'
<1>0. /\ at \in AttemptStates /\ conn \in Sockets /\ client = FALSE /\ at.pc = "payload"
      /\ conn.open = TRUE /\ conn.read = <<>> /\ conn.wire \in Seq(Tokens)
      /\ UNCHANGED <<dnsVars, client, attempts>>
  BY DEF Inv, TypeOK, SocketOK, WireOK, SendPayload, Sockets
<1>1. CASE at.profile.payload = "off" /\ at' = [at EXCEPT !.pc = "ssh"] /\ UNCHANGED conn
  <2>1. at' \in AttemptStates /\ at'.pc = "ssh" /\ at'.profile = at.profile
    BY <1>0, <1>1, Moves
  <2>2. ~conn.cut => Has(conn.wire, Banner)
    BY <1>0, <1>1, BannerEnds DEF Inv, WireOK
  <2>3. SocketOK' /\ WireOK'
    BY <1>0, <1>1, <2>1, <2>2 DEF SocketOK, WireOK
  <2> QED BY <1>0, <1>1, <2>1, <2>3, QuietFrame
<1>2. CASE Failed
  <2>1. /\ at' \in AttemptStates /\ at'.pc = "idle" /\ conn' \in Sockets
        /\ client' \in BOOLEAN /\ SocketOK' /\ WireOK'
    BY <1>0, <1>2, FailedOK
  <2> QED BY <1>0, <2>1, QuietFrame
<1>3. ASSUME NEW answer \in {<<>>, <<"junk">>} \cup {<<s>> : s \in Statuses},
             at.profile.payload # "off",
             at' = [at EXCEPT !.pc = IF at.profile.payload = "read" THEN "probe" ELSE "ssh"],
             conn' = [conn EXCEPT !.wire = @ \o answer \o Banner]
      PROVE  Inv'
  <2> DEFINE v == conn.wire \o answer
             w == v \o Banner
  <2>1. PICK pc \in {"probe", "ssh"} : at' = [at EXCEPT !.pc = pc]
    BY <1>3
  <2>2. at' \in AttemptStates /\ at'.pc = pc
    BY <1>0, <2>1 DEF AttemptStates
  <2>3. answer \in Seq(Tokens) /\ Len(answer) \in 0..1
    <3>1. CASE answer = <<>>
      BY <3>1
    <3>2. ASSUME NEW s \in Tokens, answer = <<s>> PROVE answer \in Seq(Tokens) /\ Len(answer) = 1
      BY <3>2
    <3> QED BY <1>3, <3>1, <3>2 DEF Tokens
  <2>4. v \in Seq(Tokens) /\ w \in Seq(Tokens) /\ Has(w, Banner)
    <3>1. v \in Seq(Tokens)
      BY <1>0, <2>3
    <3> HIDE DEF v
    <3>2. w \in Seq(Tokens)
      BY <3>1, BannerFacts
    <3> QED BY <3>1, <3>2, BannerEnds
  <2>5. /\ conn' \in Sockets /\ conn'.open = TRUE /\ conn'.read = <<>> /\ conn'.wire = w
        /\ conn'.cut = conn.cut
    BY <1>0, <1>3, <2>4 DEF Sockets
  <2>6. ~conn.cut => Answered(conn'.read \o conn'.wire)
    <3> SUFFICES ASSUME ~conn.cut PROVE Answered(w)
      BY <2>4, <2>5
    <3>1. conn.wire = <<>>
      BY <1>0, <1>3 DEF Inv, WireOK
    <3>2. v = answer
      BY <2>3, <3>1
    <3>3. \A s, t \in Seq(Tokens) :
            /\ Len(s \o t) = Len(s) + Len(t)
            /\ \A i \in 1..Len(t) : (s \o t)[Len(s) + i] = t[i]
      BY ConcatElements
    <3>4. 1 \in 1..Len(Banner) /\ 2 \in 1..Len(Banner)
      BY BannerFacts
    <3>5. /\ Len(w) = Len(answer) + 2 /\ w[Len(answer) + 1] = "SS" /\ w[Len(answer) + 2] = "H-"
      <4>1. w = answer \o Banner
        BY <3>2
      <4> HIDE DEF w
      <4>2. /\ Len(w) = Len(answer) + Len(Banner)
            /\ \A i \in 1..Len(Banner) : w[Len(answer) + i] = Banner[i]
        BY <2>3, <3>3, <4>1, BannerFacts
      <4> QED BY <3>4, <4>2, BannerFacts
    <3> QED BY <2>3, <3>5 DEF Answered
  <2> HIDE DEF w
  <2>7. SocketOK' /\ WireOK'
    BY <1>0, <2>1, <2>2, <2>4, <2>5, <2>6 DEF SocketOK, WireOK
  <2> QED BY <1>0, <2>1, <2>2, <2>5, <2>7, QuietFrame
<1> QED BY <1>1, <1>2, <1>3 DEF SendPayload

\* What the probe has read and what is still on the wire are the answer, unless a
\* read was cut off.
LEMMA ProbeSteps == ASSUME Inv, readProbe \/ ProbeEnds PROVE Inv'
<1>0. /\ at \in AttemptStates /\ conn \in Sockets /\ client = FALSE /\ at.pc = "probe"
      /\ conn.open = TRUE /\ conn.wire \in Seq(Tokens) /\ conn.read \in Seq(Tokens)
      /\ conn.cut \in BOOLEAN /\ (~conn.cut => Answered(conn.read \o conn.wire))
      /\ UNCHANGED <<dnsVars, client, attempts>>
  BY DEF Inv, TypeOK, SocketOK, WireOK, readProbe, ProbeEnds, Sockets
<1>1. ASSUME NEW n \in 1..Len(conn.wire),
             conn' = [conn EXCEPT !.wire = Left(n), !.read = @ \o Taken(n)],
             at' = [at EXCEPT !.pc = IF Has(conn.read \o Taken(n), Banner)
                                     THEN "judge" ELSE "probe"]
      PROVE  Inv'
  <2> DEFINE r == conn.read \o Taken(n)
  <2>1. /\ Taken(n) \in Seq(Tokens) /\ Left(n) \in Seq(Tokens)
        /\ r \o Left(n) = conn.read \o conn.wire
    BY <1>0, ReadingMoves DEF Taken, Left
  <2>2. r \in Seq(Tokens)
    BY <1>0, <2>1
  <2>3. PICK pc \in {"judge", "probe"} :
          at' = [at EXCEPT !.pc = pc] /\ (pc = "judge" => Has(r, Banner))
    BY <1>1
  <2>4. at' \in AttemptStates /\ at'.pc = pc
    BY <1>0, <2>3 DEF AttemptStates
  <2>5. /\ conn' \in Sockets /\ conn'.open = TRUE /\ conn'.read = r /\ conn'.wire = Left(n)
        /\ conn'.cut = conn.cut
    BY <1>0, <1>1, <2>1, <2>2 DEF Sockets
  <2> HIDE DEF r
  <2>6. SocketOK' /\ WireOK'
    BY <1>0, <2>1, <2>3, <2>4, <2>5 DEF SocketOK, WireOK
  <2> QED BY <1>0, <2>3, <2>4, <2>5, <2>6, QuietFrame
<1>2. CASE Failed
  <2>1. /\ at' \in AttemptStates /\ at'.pc = "idle" /\ conn' \in Sockets
        /\ client' \in BOOLEAN /\ SocketOK' /\ WireOK'
    BY <1>0, <1>2, FailedOK
  <2> QED BY <1>0, <2>1, QuietFrame
<1>3. CASE /\ conn.read # <<>> /\ at' = [at EXCEPT !.pc = "judge"]
           /\ conn' = [conn EXCEPT !.cut = @ \/ conn.read[Len(conn.read)] = "SS"]
  <2> DEFINE cut == conn.cut \/ conn.read[Len(conn.read)] = "SS"
  <2>1. at' \in AttemptStates /\ at'.pc = "judge"
    BY <1>0, <1>3, Moves
  <2>2. cut \in BOOLEAN
    OBVIOUS
  <2>3. /\ conn' \in Sockets /\ conn'.open = TRUE /\ conn'.read = conn.read
        /\ conn'.wire = conn.wire /\ conn'.cut = cut
    <3> HIDE DEF cut
    <3>1. conn' = [conn EXCEPT !.cut = cut]
      BY <1>3 DEF cut
    <3> QED BY <1>0, <2>2, <3>1 DEF Sockets
  <2>4. SocketOK' /\ WireOK'
    BY <1>0, <1>3, <2>1, <2>3 DEF SocketOK, WireOK
  <2> QED BY <1>0, <2>1, <2>3, <2>4, QuietFrame
<1> QED BY <1>1, <1>2, <1>3 DEF readProbe, ProbeEnds

\* EvictHost before the handshake: at most one eviction of a host per attempt, and
\* whoever is resolving an evicted host is remembered.
LEMMA EvictInv ==
    ASSUME Inv, NEW hosts \in SUBSET Hosts, EvictHost(hosts), UNCHANGED <<res, client, attempts>>,
           at.pc = "judge", at' \in AttemptStates, at'.pc = "ssh", conn' \in Sockets,
           SocketOK', WireOK'
    PROVE  Inv'
<1>0. /\ attempts \in 0..MaxAttempts /\ MaxAttempts \in Nat
      /\ evictions \in [Hosts -> 0..MaxAttempts] /\ raced \subseteq Hosts
      /\ res \in [Loops -> Resolutions] /\ \A l \in Loops : res[l].pc # "idle" => res[l].key \in Keys
  BY TransportAssumption DEF Inv, TypeOK
<1>1. /\ cache' \in [Keys -> Entries]
      /\ IsFiniteSet(Cached') /\ Cardinality(Cached') <= CacheMax
      /\ \A k \in Cached' : k \in Cached /\ cache'[k] = cache[k] /\ k[2] \notin hosts
  BY EvictOK DEF Inv
<1>2. /\ evictions' = [h \in Hosts |-> IF h \in hosts THEN evictions[h] + 1 ELSE evictions[h]]
      /\ raced' = raced \cup {h \in hosts : \E l \in Loops :
                                res[l].pc \in {"direct", "shell"} /\ res[l].key[2] = h}
  BY DEF EvictHost
<1>3. \A h \in Hosts : /\ evictions'[h] \in 0..MaxAttempts /\ evictions'[h] <= attempts
                       /\ h \notin hosts => evictions'[h] = evictions[h]
  <2> TAKE h \in Hosts
  <2>1. evictions[h] < attempts /\ evictions[h] \in 0..MaxAttempts
    BY <1>0 DEF Inv, DnsOK
  <2>2. evictions'[h] = IF h \in hosts THEN evictions[h] + 1 ELSE evictions[h]
    BY <1>2
  <2> QED BY <1>0, <2>1, <2>2
<1>4. TypeOK'
  <2>1. evictions' \in [Hosts -> 0..MaxAttempts]
    BY <1>2, <1>3
  <2>2. raced' \subseteq Hosts
    BY <1>0, <1>2
  <2>3. client \in BOOLEAN
    BY DEF Inv, TypeOK
  <2> QED BY <1>0, <1>1, <2>1, <2>2, <2>3 DEF TypeOK
<1>5. ASSUME NEW l \in Loops, res[l].pc \in {"direct", "shell"},
             res[l].began < evictions'[res[l].key[2]]
      PROVE  res[l].key[2] \in raced'
  <2>1. res[l].key[2] \in Hosts
    BY <1>0, <1>5, KeyHost
  <2>2. CASE res[l].key[2] \in hosts
    BY <1>2, <1>5, <2>2
  <2>3. CASE res[l].key[2] \notin hosts
    BY <1>2, <1>3, <1>5, <2>1, <2>3 DEF Inv, DnsOK
  <2> QED BY <2>2, <2>3
<1>6. ASSUME NEW k \in Cached', cache'[k].gen < evictions'[k[2]]
      PROVE  k[2] \in raced'
  <2>1. k \in Cached /\ cache'[k] = cache[k] /\ k[2] \notin hosts /\ k[2] \in Hosts
    BY <1>1, KeyHost DEF Cached
  <2> QED BY <1>2, <1>3, <1>6, <2>1 DEF Inv, DnsOK, EvictedStaysAway
<1>7. DnsOK'
  BY <1>3, <1>5, <1>6 DEF DnsOK, EvictedStaysAway
<1> QED BY <1>4, <1>7 DEF Inv

\* The connection is closed, or goes on with its banner.
LEMMA JudgeStep == ASSUME Inv, JudgeAnswer PROVE Inv'
<1> DEFINE banner == Has(conn.read, Banner)
           hosts == {"ssh"} \cup (IF at.profile.proxy # "nil" THEN {"proxy"} ELSE {})
<1>0. /\ at \in AttemptStates /\ conn \in Sockets /\ client = FALSE /\ at.pc = "judge"
      /\ conn.open = TRUE /\ conn.wire \in Seq(Tokens) /\ conn.read \in Seq(Tokens)
      /\ UNCHANGED <<res, client, attempts>>
  BY DEF Inv, TypeOK, SocketOK, JudgeAnswer, Sockets
<1>4. <<>> \in Seq(Tokens)
  OBVIOUS
<1>1. CASE Failed /\ UNCHANGED <<cache, evictions, raced>>
  <2>1. /\ at' \in AttemptStates /\ at'.pc = "idle" /\ conn' \in Sockets
        /\ client' \in BOOLEAN /\ SocketOK' /\ WireOK'
    BY <1>0, <1>1, FailedOK
  <2>2. UNCHANGED <<dnsVars, attempts>>
    BY <1>0, <1>1 DEF dnsVars
  <2> QED BY <1>0, <2>1, <2>2, QuietFrame
<1>2. CASE /\ at' = [at EXCEPT !.pc = "ssh"] /\ conn' = prefixConn(Banner)
           /\ UNCHANGED <<cache, evictions, raced>>
  <2>1. at' \in AttemptStates /\ at'.pc = "ssh"
    BY <1>0, <1>2, Moves
  <2>2. Banner \o conn.wire \in Seq(Tokens) /\ Has(Banner \o conn.wire, Banner)
    BY <1>0, BannerFacts, BannerEnds
  <2>3. conn' \in Sockets /\ conn'.open = TRUE /\ conn'.wire = Banner \o conn.wire
    BY <1>0, <1>2, <1>4, <2>2 DEF Sockets, prefixConn
  <2>4. SocketOK' /\ WireOK'
    BY <1>0, <2>1, <2>2, <2>3 DEF SocketOK, WireOK
  <2>5. UNCHANGED <<dnsVars, attempts>>
    BY <1>0, <1>2 DEF dnsVars
  <2> QED BY <1>0, <2>1, <2>3, <2>4, <2>5, QuietFrame
<1>3. CASE /\ ~banner /\ at' = [at EXCEPT !.pc = "ssh"] /\ conn' = [conn EXCEPT !.read = <<>>]
           /\ EvictHost(hosts) \/ UNCHANGED <<cache, evictions, raced>>
  <2>1. at' \in AttemptStates /\ at'.pc = "ssh"
    BY <1>0, <1>3, Moves
  <2>2. /\ conn' \in Sockets /\ conn'.open = TRUE /\ conn'.wire = conn.wire
        /\ conn'.cut = conn.cut
    BY <1>0, <1>3, <1>4 DEF Sockets
  <2>3. ~conn.cut => Has(conn.wire, Banner)
    BY <1>0, <1>3, BannerToCome DEF Inv, WireOK
  <2>4. SocketOK' /\ WireOK'
    BY <1>0, <2>1, <2>2, <2>3 DEF SocketOK, WireOK
  <2>5. CASE EvictHost(hosts)
    <3>1. hosts \in SUBSET Hosts
      BY DEF Hosts
    <3> HIDE DEF hosts
    <3> QED BY <1>0, <2>1, <2>2, <2>4, <2>5, <3>1, EvictInv
  <2>6. CASE UNCHANGED <<cache, evictions, raced>>
    <3>1. UNCHANGED <<dnsVars, attempts>>
      BY <1>0, <2>6 DEF dnsVars
    <3> QED BY <1>0, <2>1, <2>2, <2>4, <3>1, QuietFrame
  <2> QED BY <1>3, <2>5, <2>6
<1> QED BY <1>1, <1>2, <1>3 DEF JudgeAnswer

\* The SSH handshake hands the socket over, the client closes it.
LEMMA ClientSteps == ASSUME Inv, SSHHandshake \/ ClientCloses PROVE Inv'
<1>1. CASE SSHHandshake
  <2>0. /\ client = FALSE /\ at.pc = "ssh" /\ conn.open = TRUE /\ conn \in Sockets
        /\ UNCHANGED <<dnsVars, attempts>>
    BY <1>1 DEF Inv, TypeOK, SocketOK, SSHHandshake, Sockets
  <2>1. CASE Failed /\ UNCHANGED client
    <3>1. /\ at' \in AttemptStates /\ at'.pc = "idle" /\ conn' \in Sockets
          /\ client' \in BOOLEAN /\ SocketOK' /\ WireOK'
      BY <2>0, <2>1, FailedOK
    <3> QED BY <2>0, <3>1, QuietFrame
  <2>2. CASE at' = NoAttempt /\ client' = TRUE /\ UNCHANGED conn
    <3>1. SocketOK' /\ WireOK'
      BY <2>0, <2>2, IdleFacts DEF SocketOK, WireOK
    <3> QED BY <2>0, <2>2, <3>1, IdleFacts, QuietFrame
  <2> QED BY <1>1, <2>1, <2>2 DEF SSHHandshake
<1>2. CASE ClientCloses
  <2>0. /\ client /\ at \in AttemptStates /\ client' = FALSE /\ conn' = NoConn /\ at' = at
        /\ UNCHANGED <<dnsVars, attempts>>
    BY <1>2 DEF Inv, TypeOK, ClientCloses
  <2>1. at.pc = "idle"
    BY <2>0 DEF Inv, SocketOK, AttemptStates
  <2>2. SocketOK' /\ WireOK'
    BY <2>0, <2>1, IdleFacts DEF SocketOK, WireOK
  <2> QED BY <2>0, <2>1, <2>2, IdleFacts, QuietFrame
<1> QED BY <1>1, <1>2

\* Every step keeps the invariant.
LEMMA NextInv == Inv /\ [Next]_vars => Inv'
<1> SUFFICES ASSUME Inv, [Next]_vars PROVE Inv'
  OBVIOUS
<1>1. CASE UNCHANGED vars
  BY <1>1 DEF vars, Inv, TypeOK, Cached, SocketOK, DnsOK, EvictedStaysAway, WireOK, Greeting
<1>2. CASE Next
  BY <1>2, DnsSteps, BeginStep, DialSteps, ConnectStep, TlsStep, PayloadStep, ProbeSteps,
     JudgeStep, ClientSteps DEF Next
<1> QED BY <1>1, <1>2

\* The invariant holds of every behaviour.
LEMMA InvHolds == Spec => []Inv
  BY InitInv, NextInv, PTL DEF Spec

-----------------------------------------------------------------------------
(* The theorems *)

\* dnsx's hostCache never exceeds its limit, whatever is stored and evicted in
\* which order, and the attempt only ever resolves hosts it was asked for.
THEOREM TypeCorrect == Spec => []TypeOK
<1>1. Inv => TypeOK
  BY DEF Inv
<1> QED BY <1>1, InvHolds, PTL

\* openPreparedSSHConn and attemptSSHAuth close the socket on every error return,
\* whatever the profile and whichever step fails: between attempts a socket is
\* open exactly when an SSH client owns it.
THEOREM NoSocketLeaks == Spec => []NoConnLeak
<1>1. Inv => NoConnLeak
  BY DEF Inv, SocketOK, NoConnLeak
<1> QED BY <1>1, InvHolds, PTL

\* readProbe, its judgement and prefixConn lose no piece of the banner, however
\* the bytes arrive and whatever the allowed statuses are, unless a read cut it
\* without knowing.
THEOREM BannerReachesSSH == Spec => []BannerKept
<1>1. Inv => BannerKept
  BY DEF Inv, WireOK, BannerKept
<1> QED BY <1>1, InvHolds, PTL

\* EvictHost works for every mode at once: an answer from before the eviction comes
\* back only from a resolution that the eviction overtook.
THEOREM EvictionIsFinal == Spec => []EvictedStaysAway
<1>1. Inv => EvictedStaysAway
  BY DEF Inv, DnsOK
<1> QED BY <1>1, InvHolds, PTL
=============================================================================
