------------------------------ MODULE Transport ------------------------------
(***************************************************************************)
(* One connection attempt of the tunnel: resolve the endpoint (package     *)
(* dnsx with its cache), dial it, optionally CONNECT through an HTTP proxy, *)
(* shake hands for TLS, send the payload and read the answer, then hand    *)
(* the socket to SSH.  Attempts follow each other; the last attempt of a    *)
(* loop that a slow stop left behind resolves beside them, in the same cache. *)
(*                                                                         *)
(* The bytes of a connection are tokens: an HTTP status, and the two halves *)
(* of the SSH banner, which arrive together or apart.  An answer of the DNS *)
(* is the number of evictions that preceded it.                            *)
(***************************************************************************)
EXTENDS Naturals, Sequences, FiniteSets, FiniteSetsExt

CONSTANTS
    Modes,          \* DNS modes in use, "device" and others
    CacheMax,       \* the limit of hostCache, 2000
    MaxAttempts,    \* bound: attempts of the tunnel
    Allowed         \* the payload's allowed statuses, by default 101, 200, 204, 302

ASSUME TransportAssumption ==
    /\ Modes # {} /\ CacheMax \in Nat \ {0} /\ MaxAttempts \in Nat
    /\ Allowed \subseteq STRING

VARIABLES
    cache,      \* hostCache.entries: per key its entry, NoEntry for none
    evictions,  \* history: per host, how often it was evicted
    raced,      \* history: hosts that were evicted while they were resolved
    res,        \* per loop, the resolution in progress
    at,         \* the attempt
    conn,       \* its socket: the bytes on the way and whether it is open
    client,     \* the SSH client of the last attempt owns an open socket
    attempts    \* attempts so far

vars == <<cache, evictions, raced, res, at, conn, client, attempts>>

dnsVars == <<cache, evictions, raced, res>>

Loops == {"tunnel", "stale"}
Hosts == {"ssh", "proxy"}
Statuses == {"200", "302", "503"}
Banner == <<"SS", "H-">>
Tokens == Statuses \cup {"junk", "SS", "H-"}

Has(s, t) == \E i \in 1..(Len(s) - Len(t) + 1) : SubSeq(s, i, i + Len(t) - 1) = t

-----------------------------------------------------------------------------
(* Profiles *)

ProxyModes == {"http_proxy", "http_proxy_tls_sni"}
TlsModes == {"tls_sni", "http_proxy_tls_sni"}
TransportModes == {"direct"} \cup ProxyModes \cup TlsModes

\* A saved profile: the proxy and the TLS settings that the mode needs are there,
\* given or by default.  The chain says the same as the mode.
buildTransport(mode, hp, tlsCfg, payload) ==
    [mode |-> mode,
     proxy |-> IF mode \notin ProxyModes THEN "nil" ELSE IF hp = "nil" THEN "socket" ELSE hp,
     tls |-> IF mode \notin TlsModes THEN "nil" ELSE "set",
     payload |-> payload]

Saved ==
    {buildTransport(m, hp, t, p) : m \in TransportModes, hp \in {"nil", "socket", "connect"},
                                   t \in {"nil", "set"}, p \in {"off", "send", "read"}}

\* A profile edited by hand may lack what its mode needs.
Incomplete ==
    {[mode |-> m, proxy |-> "nil", tls |-> "nil", payload |-> "off"] : m \in ProxyModes \cup TlsModes}

usesHTTPProxy(p) == p.mode \in ProxyModes
usesTLS(p) == p.mode \in TlsModes

DialHost(p) == IF usesHTTPProxy(p) THEN "proxy" ELSE "ssh"

-----------------------------------------------------------------------------
\* wire: sent by the peer and not read; read: what the probe has read; cut: a
\* read took a piece of the banner and did not know it.
NoConn == [open |-> FALSE, wire |-> <<>>, read |-> <<>>, cut |-> FALSE]

\* second: the resolver is asked for the second time.
NoAttempt == [pc |-> "idle", profile |-> buildTransport("direct", "nil", "nil", "off"),
              dns |-> "", second |-> FALSE]

NoRes == [pc |-> "idle", key |-> <<"", "">>, began |-> 0]

Keys == Modes \X Hosts

\* expires: later than that of every entry before it; fresh: not yet expired.
Entries == [gen: 0..MaxAttempts, expires: Nat, fresh: BOOLEAN]

NoEntry == [gen |-> 0, expires |-> 0, fresh |-> FALSE]

\* The keys that hostCache has.
Cached == {k \in Keys : cache[k].expires # 0}

Resolutions ==
    [pc: {"idle", "direct", "shell", "found", "failed"}, key: Keys \cup {NoRes.key},
     began: 0..MaxAttempts]

AttemptStates ==
    [pc: {"idle", "resolve", "system", "fallback", "connect", "tls", "payload", "probe",
          "judge", "ssh", "misconfigured"},
     profile: Saved \cup Incomplete, dns: Modes \cup {""}, second: BOOLEAN]

Sockets == [open: BOOLEAN, wire: Seq(Tokens), read: Seq(Tokens), cut: BOOLEAN]

TypeOK ==
    /\ cache \in [Keys -> Entries] /\ IsFiniteSet(Cached) /\ Cardinality(Cached) <= CacheMax
    /\ evictions \in [Hosts -> 0..MaxAttempts] /\ raced \subseteq Hosts
    /\ res \in [Loops -> Resolutions] /\ \A l \in Loops : res[l].pc # "idle" => res[l].key \in Keys
    /\ at \in AttemptStates /\ conn \in Sockets
    /\ client \in BOOLEAN /\ attempts \in 0..MaxAttempts

Init ==
    /\ cache = [k \in Keys |-> NoEntry]
    /\ evictions = [h \in Hosts |-> 0] /\ raced = {}
    /\ res = [l \in Loops |-> NoRes]
    /\ at = NoAttempt /\ conn = NoConn /\ client = FALSE /\ attempts = 0

-----------------------------------------------------------------------------
(* dnsx *)

\* Five minutes are over for the oldest entry that still counts.
EntryExpires ==
    /\ \E k \in Cached :
         /\ cache[k].fresh
         /\ \A j \in Cached : cache[j].fresh => cache[k].expires <= cache[j].expires
         /\ cache' = [cache EXCEPT ![k].fresh = FALSE]
    /\ UNCHANGED <<evictions, raced, res, at, conn, client, attempts>>

Oldest == CHOOSE k \in Cached : \A j \in Cached : cache[k].expires <= cache[j].expires

Latest == Max({0} \cup {cache[k].expires : k \in Cached})

\* Mutation: the oldest entry makes room one entry too late.
storeLate(key, gen) ==
    [(IF Cardinality(Cached) > CacheMax THEN [cache EXCEPT ![Oldest] = NoEntry] ELSE cache)
       EXCEPT ![key] = [gen |-> gen, expires |-> Latest + 1, fresh |-> TRUE]]

\* cache: at the limit the oldest entry goes, also when the key is not new.
store(key, gen) ==
    [(IF Cardinality(Cached) >= CacheMax THEN [cache EXCEPT ![Oldest] = NoEntry] ELSE cache)
       EXCEPT ![key] = [gen |-> gen, expires |-> Latest + 1, fresh |-> TRUE]]

\* Mutation: only the entry of one mode is dropped.
EvictHostOneMode(hosts) ==
    /\ cache' = [k \in Keys |-> IF k \in {"device"} \X hosts THEN NoEntry ELSE cache[k]]
    /\ evictions' = [h \in Hosts |-> IF h \in hosts THEN evictions[h] + 1 ELSE evictions[h]]
    /\ raced' = raced \cup {h \in hosts : \E l \in Loops : res[l].pc \in {"direct", "shell"} /\ res[l].key[2] = h}

\* Every mode's entry of the hosts is dropped.
EvictHost(hosts) ==
    /\ cache' = [k \in Keys |-> IF k[2] \in hosts THEN NoEntry ELSE cache[k]]
    /\ evictions' = [h \in Hosts |-> IF h \in hosts THEN evictions[h] + 1 ELSE evictions[h]]
    /\ raced' = raced \cup {h \in hosts : \E l \in Loops : res[l].pc \in {"direct", "shell"} /\ res[l].key[2] = h}

\* ResolveHost begins: an entry in time is the answer.
ResolveHost(l, key) ==
    res' = [res EXCEPT ![l] =
              [pc |-> IF cache[key].fresh THEN "found" ELSE "direct",
               key |-> key, began |-> evictions[key[2]]]]

\* The answer is kept as of the moment the question was asked.
Answer(l) ==
    /\ cache' = store(res[l].key, res[l].began)
    /\ res' = [res EXCEPT ![l].pc = "found"]

\* The configured servers, or the carrier's, are asked all at once.
resolveViaDirectDNS(l) ==
    /\ res[l].pc = "direct"
    /\ \/ Answer(l)
       \/ res' = [res EXCEPT ![l].pc = "shell"] /\ UNCHANGED cache
    /\ UNCHANGED <<evictions, raced, at, conn, client, attempts>>

\* getent, toybox and ping.
shellResolve(l) ==
    /\ res[l].pc = "shell"
    /\ \/ Answer(l)
       \/ res' = [res EXCEPT ![l].pc = "failed"] /\ UNCHANGED cache
    /\ UNCHANGED <<evictions, raced, at, conn, client, attempts>>

\* The other loop: it resolves, and its attempt is of no interest here.
StaleResolves(key) ==
    /\ res["stale"].pc = "idle"
    /\ ResolveHost("stale", key)
    /\ UNCHANGED <<cache, evictions, raced, at, conn, client, attempts>>

-----------------------------------------------------------------------------
(* dialTCPResolved *)

\* Mutation: a failed step leaves the socket to the garbage collector.
FailedOpen == at' = NoAttempt /\ UNCHANGED conn

\* An error return, with the Close that precedes it.
Failed == at' = NoAttempt /\ conn' = NoConn

\* The socket is there; what the peer sends first depends on what it expects.
Dialled ==
    LET p == at.profile
        greets == ~usesTLS(p) /\ p.payload = "off"
    IN  /\ at' = [at EXCEPT !.pc = "connect", !.second = FALSE, !.dns = ""]
        /\ \E status \in {<<"200">>, <<"503">>, <<"junk">>} :
             conn' = [NoConn EXCEPT !.open = TRUE,
                        !.wire = (IF p.proxy = "connect" THEN status ELSE <<>>)
                                   \o (IF greets THEN Banner ELSE <<>>)]

\* dialEndpoint; a literal address needs no DNS, device mode asks the system first.
BeginAttempt(p, mode, literal) ==
    /\ at.pc \in {"idle", "misconfigured"} /\ ~client /\ attempts < MaxAttempts
    /\ attempts' = attempts + 1
    /\ LET a == [NoAttempt EXCEPT !.profile = p, !.dns = mode] IN
         \/ /\ usesHTTPProxy(p) /\ p.proxy = "nil"
            /\ at' = [a EXCEPT !.pc = "misconfigured"]
            /\ UNCHANGED res
         \/ /\ ~(usesHTTPProxy(p) /\ p.proxy = "nil")
            /\ at' = [a EXCEPT !.pc = IF literal THEN "fallback"
                                      ELSE IF mode = "device" THEN "system" ELSE "resolve"]
            /\ IF mode # "device" /\ ~literal THEN ResolveHost("tunnel", <<mode, DialHost(p)>>)
               ELSE UNCHANGED res
    /\ UNCHANGED <<cache, evictions, raced, conn, client>>

\* One of the addresses answers, or none does; without any, or after the first
\* round, there is a next way.
DialResolved ==
    /\ at.pc = "resolve" /\ res["tunnel"].pc \in {"found", "failed"}
    /\ \/ res["tunnel"].pc = "found" /\ Dialled
       \/ /\ ~at.second
          /\ at' = [at EXCEPT !.pc = "system"] /\ UNCHANGED conn
       \/ /\ at.second /\ res["tunnel"].pc = "failed"
          /\ at' = [at EXCEPT !.pc = "fallback"] /\ UNCHANGED conn
       \/ at.second /\ res["tunnel"].pc = "found" /\ Failed
    /\ res' = [res EXCEPT !["tunnel"] = NoRes]
    /\ UNCHANGED <<cache, evictions, raced, client, attempts>>

\* By host name; when that fails, the resolver, also after a first round.
DialSystem ==
    /\ at.pc = "system"
    /\ \/ Dialled /\ UNCHANGED res
       \/ /\ at' = [at EXCEPT !.pc = "resolve", !.second = TRUE]
          /\ ResolveHost("tunnel", <<at.dns, DialHost(at.profile)>>)
          /\ UNCHANGED conn
    /\ UNCHANGED <<cache, evictions, raced, client, attempts>>

\* A literal address, or the fallback addresses of the profile.
DialFallback ==
    /\ at.pc = "fallback"
    /\ Dialled \/ Failed
    /\ UNCHANGED <<dnsVars, client, attempts>>

-----------------------------------------------------------------------------
(* openPreparedSSHConn *)

\* A read takes what has arrived.
Taken(n) == SubSeq(conn.wire, 1, n)
Left(n) == SubSeq(conn.wire, n + 1, Len(conn.wire))

\* One read, of up to 4096 bytes: what follows the answer is lost with it.
httpCONNECT ==
    /\ at.pc = "connect"
    /\ \/ /\ at.profile.proxy # "connect"
          /\ at' = [at EXCEPT !.pc = "tls"] /\ UNCHANGED conn
       \/ /\ at.profile.proxy = "connect"
          /\ \/ Failed
             \/ \E n \in 1..Len(conn.wire) :
                  /\ conn.wire[1] = "200"
                  /\ at' = [at EXCEPT !.pc = "tls"]
                  /\ conn' = [conn EXCEPT !.wire = Left(n), !.cut = n > 1]
    /\ UNCHANGED <<dnsVars, client, attempts>>

TLSHandshake ==
    /\ at.pc = "tls"
    /\ \/ /\ ~usesTLS(at.profile)
          /\ at' = [at EXCEPT !.pc = "payload"] /\ UNCHANGED conn
       \/ /\ usesTLS(at.profile) /\ at.profile.tls = "nil"
          /\ at' = [at EXCEPT !.pc = "misconfigured"] /\ conn' = NoConn
       \/ /\ usesTLS(at.profile) /\ at.profile.tls # "nil"
          /\ \/ Failed
             \/ /\ at' = [at EXCEPT !.pc = "payload"]
                /\ conn' = [conn EXCEPT !.wire = IF at.profile.payload = "off" THEN Banner ELSE <<>>]
    /\ UNCHANGED <<dnsVars, client, attempts>>

\* The peer answers the payload with any statuses and then speaks SSH.
SendPayload ==
    /\ at.pc = "payload"
    /\ \/ /\ at.profile.payload = "off"
          /\ at' = [at EXCEPT !.pc = "ssh"] /\ UNCHANGED conn
       \/ at.profile.payload # "off" /\ Failed
       \/ /\ at.profile.payload # "off"
          /\ at' = [at EXCEPT !.pc = IF at.profile.payload = "read" THEN "probe" ELSE "ssh"]
          /\ \E answer \in {<<>>, <<"junk">>} \cup {<<s>> : s \in Statuses} :
               conn' = [conn EXCEPT !.wire = @ \o answer \o Banner]
    /\ UNCHANGED <<dnsVars, client, attempts>>

\* readProbe reads on until it has seen the banner.
readProbe ==
    /\ at.pc = "probe"
    /\ \E n \in 1..Len(conn.wire) :
         /\ conn' = [conn EXCEPT !.wire = Left(n), !.read = @ \o Taken(n)]
         /\ at' = [at EXCEPT !.pc = IF Has(conn.read \o Taken(n), Banner)
                                    THEN "judge" ELSE "probe"]
    /\ UNCHANGED <<dnsVars, client, attempts>>

\* The time is over or the peer is done: with nothing read it is an error.
ProbeEnds ==
    /\ at.pc = "probe"
    /\ \/ Failed
       \/ /\ conn.read # <<>>
          /\ at' = [at EXCEPT !.pc = "judge"]
          /\ conn' = [conn EXCEPT !.cut = @ \/ conn.read[Len(conn.read)] = "SS"]
    /\ UNCHANGED <<dnsVars, client, attempts>>

StatusesRead == {s \in Statuses : Has(conn.read, <<s>>)}

allowedStatuses(got) == got \subseteq Allowed

RateLimited == {"301", "302", "503"}

\* What was read from the banner on is put in front of the bytes to come.
prefixConn(prefix) == [conn EXCEPT !.wire = prefix \o @, !.read = <<>>]

\* Mutation: the banner that was read is not put back.
JudgeAnswerNoPrefix ==
    /\ at.pc = "judge"
    /\ \/ ~allowedStatuses(StatusesRead) /\ Failed
       \/ /\ allowedStatuses(StatusesRead)
          /\ at' = [at EXCEPT !.pc = "ssh"]
          /\ conn' = [conn EXCEPT !.read = <<>>]
    /\ UNCHANGED <<dnsVars, client, attempts>>

\* A status that is not allowed ends the attempt.  With the banner SSH gets what
\* was read from there on; with statuses only it goes on, and the host is
\* evicted when one of them says that it is rate limited.
JudgeAnswer ==
    /\ at.pc = "judge"
    /\ LET fine == allowedStatuses(StatusesRead)
           banner == Has(conn.read, Banner)
       IN  \/ /\ ~fine \/ (~banner /\ StatusesRead = {})
              /\ Failed
              /\ UNCHANGED <<cache, evictions, raced>>
           \/ /\ fine /\ banner
              /\ at' = [at EXCEPT !.pc = "ssh"]
              /\ conn' = prefixConn(Banner)
              /\ UNCHANGED <<cache, evictions, raced>>
           \/ /\ fine /\ ~banner /\ StatusesRead # {}
              /\ at' = [at EXCEPT !.pc = "ssh"]
              /\ conn' = [conn EXCEPT !.read = <<>>]
              /\ IF StatusesRead \cap RateLimited # {}
                 THEN EvictHost({"ssh"} \cup (IF at.profile.proxy # "nil" THEN {"proxy"} ELSE {}))
                 ELSE UNCHANGED <<cache, evictions, raced>>
    /\ UNCHANGED <<res, client, attempts>>

\* attemptSSHAuth: NewClientConn fails or the client owns the socket.
SSHHandshake ==
    /\ at.pc = "ssh"
    /\ \/ Failed /\ UNCHANGED client
       \/ /\ Has(conn.wire, Banner)
          /\ at' = NoAttempt
          /\ client' = TRUE
          /\ UNCHANGED conn
    /\ UNCHANGED <<dnsVars, attempts>>

\* The tunnel loop is done with the client.
ClientCloses ==
    /\ client
    /\ client' = FALSE /\ conn' = NoConn
    /\ UNCHANGED <<dnsVars, at, attempts>>

-----------------------------------------------------------------------------
Next ==
    \/ EntryExpires
    \/ \E l \in Loops : resolveViaDirectDNS(l) \/ shellResolve(l)
    \/ \E key \in Keys : StaleResolves(key)
    \/ \E p \in Saved \cup Incomplete, mode \in Modes, literal \in BOOLEAN :
         BeginAttempt(p, mode, literal)
    \/ DialResolved \/ DialSystem \/ DialFallback
    \/ httpCONNECT \/ TLSHandshake \/ SendPayload \/ readProbe \/ ProbeEnds
    \/ JudgeAnswer \/ SSHHandshake \/ ClientCloses

Spec == Init /\ [][Next]_vars

-----------------------------------------------------------------------------
(* Properties *)

\* Whichever step fails, no socket is left open: between attempts one is open
\* exactly when an SSH client owns it.
NoConnLeak == at.pc \in {"idle", "misconfigured"} => (conn.open <=> client)

\* The SSH handshake gets the server's banner from its first byte, also when the
\* probe has read it, unless it came in one read with the answer to CONNECT or
\* the probe's time ended in the middle of it.
BannerKept ==
    at.pc = "ssh" /\ ~conn.cut => Has(conn.wire, Banner)

\* An evicted answer stays away: an entry from before the last eviction of its
\* host exists only if the host was being resolved at an eviction.
EvictedStaysAway ==
    \A key \in Cached : cache[key].gen < evictions[key[2]] => key[2] \in raced
=============================================================================
