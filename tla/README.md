# A TLA+ model of SSHCustom-Magisk

SSHCustom-Magisk is an Android root module: a Go daemon (`cmd/sshcustomd`) keeps
one SSH session to a server, redirects the device's TCP traffic and DNS into it
with iptables, and is started, stopped and watched by shell scripts. This
directory models the parts of it that are concurrent or stateful, checks them
with TLC on small instances and proves the most important safety properties with
TLAPS for every instance. Paths below are relative to the repository.

## The system

| Component | State | Operations | Interacts with |
|---|---|---|---|
| Tunnel loop (`engine.go`, `tunnelLoop`, `tunClient`) | position in the loop, delay, `listenerCancel`, `iptablesUp`, the client pointer, the SSH session, `transportErrorCount` | wait, probe the route, authenticate, publish, start listeners, apply rules, wait for the session, trip the breaker, tear down; keepalive | context of `startTunnel`, stream handlers through the client pointer, `State`, iptables |
| Tunnel lifecycle (`main.go`, `startTunnel`, `stopTunnel`) | `tunnelRunning`, `explicitStop`, `tunnelCancel`, `tunnelDone`, `module.prop` | start, stop, restart, restart after an unexpected exit, shutdown, the `module.prop` monitor | `/api/v1/control`, `/api/v1/profile/select`, the loop, `net_clean.sh` |
| State and notifications (`main.go`, `State`) | the fields, the subscribers and their one-slot channels | `set`, `Subscribe`, `broadcast`, `Snapshot`, `/api/v1/events` | everyone writes it; the dashboard and the monitor read it |
| Stream handlers (`engine.go`, `pipeBoth`) | one goroutine per connection, counters on the client | SOCKS5, transparent proxy, dial with retry, copy both ways | client pointer, error counter |
| iptables rules (`internal/iptables`, `net_clean.sh`) | the kernel's chains, IPv6 and captive portal settings | `Apply`, `Cleanup`, the script's clean-up | loop, stop, scripts |
| DNS resolver and forwarder (`internal/dnsx`, `dnsForwardLoop`) | bounded cache with expiry | resolve, evict, forward | transport set-up, listeners |
| SSH transport set-up (`attemptSSHAuth` and what it calls) | the connection being built | dial, CONNECT, TLS, payload, handshake | loop |
| Profiles and configuration | two JSON files, the copies in memory | select, save, delete, patch | HTTP API, loop |
| Module scripts (`src/module`) | pid files, marker files, processes | start, stop, idle, pause, resume, watchdog | daemon's API and signals |

What is hard here: `startTunnel` and `stopTunnel` run in as many goroutines as
there are requests and are ordered by two atomic flags only; the loop may sit in
an SSH handshake that does not watch its context; the kernel's rules are shared by
the loop, the stop's script and the next loop; notifications coalesce; the carrier
may die silently. `PROJECT.json` lists these hazards line by line.

What makes each part correct, in a sentence: the loop never drops the routing
while it reconnects, never leaks a session and returns when told to; the lifecycle
runs one loop, a stop leaves nothing behind and always returns; no subscriber
misses a change and none can stall a setter; a stream is counted where it runs and
ends when either side does; applying and cleaning rules are inverse from every
intermediate state; the cache never serves what was evicted; the stores always name
an existing profile; the watchdog never leaves the device without a watchdog.

## Modules

| Module | Models |
|---|---|
| `TunnelService` | abstract: what the daemon may rely on about a run of the tunnel |
| `TunnelLoop` | `tunnelLoop` with its teardown, `keepAlive`, the dials of the stream handlers, the environment; implements `TunnelService` |
| `TunnelLoopProofs` | the inductive invariant of the loop, the theorems and the refinement |
| `TunnelControl` | `startTunnel`, `stopTunnel`, the goroutine around the loop, control requests, the `module.prop` monitor, shutdown |
| `TunnelControlProofs` | ownership of rules and client pointer for any number of requests; complete stops and the status line for requests that do not overlap |
| `StateBroadcast` | `State.set`, `Subscribe`, `broadcast`, `Snapshot`, the event stream |
| `StateBroadcastProofs` | that no notification is lost |
| `Iptables` | `internal/iptables` and `net_clean.sh`, command by command |
| `IptablesProofs` | exact rules, exempt carrier and complete clean-ups, for any interfaces, configurations and failures |
| `ModuleScripts` | `sshcustom.sh`, the watchdog, the boot and action scripts as processes |
| `ModuleScriptsProofs` | that a stop stops and an enabled module is watched, for every command |
| `Streams` | SOCKS5 and transparent handlers, `dialStreamWithRetry`, `pipeBoth`, the DNS forwarder |
| `StreamsProofs` | counters, order of data and end, DNS answers, for any number of connections |
| `Stores` | `profiles.json` and `config.json` with crash and start |
| `StoresProofs` | coherence of the profiles, a whole `config.json`, kept patches |
| `Transport` | one connection attempt from resolver cache to SSH handshake |
| `TransportProofs` | sockets, banner and cache, for any size of the cache and number of attempts |

`MC...` modules hold the instances for TLC: constants, and for `MCTunnelControl`
the symmetry and the view its runs use.

Definitions whose comment begins with "Mutation:" are deliberately wrong
variants of the definition that follows them. They are part of no specification;
each shows that some property would catch that mistake.

### TunnelLoop

`pc` is the place in `tunnelLoop`: `select` (the delay), `route` (the probe),
`auth` (inside `attemptSSHAuth`, building the transport), `handshake` (inside
`xssh.NewClientConn`, which has no deadline and does not watch the context), `publish`, `listen`, `apply`/`applying` (inside
`iptables.Apply`), `wait` (the session), `lost`, `report`, and the deferred
teardown in two steps. A step ends where another goroutine can tell the difference.
Two adjacent publications of one pass (the route's fields, then
`PAUSED_NO_NETWORK` or `CONNECTING_SSH`) are one step. Data is reduced to what the
properties need: `rules` is `none`, `partial` or `full`; a session is `up`, `silent`
(the carrier died without a reset), `corrupt` (streams fail, keepalives do not) or
`closed`; a dial belongs to the current session or to an older one. Only the newest
client is modelled: `NoStaleClient` is what justifies that, since no older one is
open when a new one is stored; the keepAlive goroutine of a closed client lingers until its next
`select` (`clientDone`, `KeepAliveDone`) and can do no more than close that client again. A panic
may come anywhere in the loop (`LoopPanics`). The retries of `dialStreamWithRetry` are further
dials. `delay` keeps its value in seconds. `cfg.TransparentProxy.Enabled` is a
constant of a behaviour; no handler of the API changes it.

`ownErrors` is a history variable: the errors that the newest session caused. It is
read by `BreakerBlamesOwnSession` only.

### TunnelControl

Each request and each loop goroutine has a `pc`; every load and store of the shared
variables, every publication, file write and wait of `startTunnel` and `stopTunnel`
is a step. A loop goroutine that restarts itself runs `startTunnel` too, so its
steps take any actor. `tunnelCancel` and `tunnelDone` are plain variables that
several goroutines write without a lock; they hold a pointer each, so a racing read
yields an old or a new value, which the interleaving covers. The loop is reduced to
what the lifecycle sees of it: the pointer, the rules, `iptablesUp`, the published
State. `Apply` always succeeds here (its failures are in `TunnelLoop`). A stop's
wait may end at any time, as its 5 s may run out at any time. The reuse of a member
of `Loops` for a new goroutine waits until nobody refers to the old one.

`late` and `lastDone` are history variables: whether some stop gave up on a loop,
and how the last request ended.

### StateBroadcast

A value of State is reduced to one bit per reader, `stale`: State changed since that
reader's last snapshot; so there is no counter to bound. `owed` is a history
variable: State changed since the reader's last snapshot or its `Subscribe`,
whichever is later. `State.mu` and `State.subsMu` make their sections atomic; the
gap between the mutation and the broadcast of one `set`, and the time a reader
spends writing to its connection, are modelled.

### TunnelService

Three variables: was the run told to stop, is it connecting, connected or stopped,
is the device routed. `TunnelLoop` maps its context, its published status and
complete rules to them. Being routed only ever begins while connected and only
ends with the run; losing the connection keeps it. Partial rules of a failed
`Apply` are not routing in this sense. That a run which was told to stop does stop
needs a peer that answers (`AnsweringPeer`): the code alone does not give it.

### Iptables

A command sequence (`Apply`, `Cleanup`, `netClean`) is a sequence of commands, and
`Exec` is what the kernel does with one (external). So the daemon, a script or an
orphaned iptables process can be stopped between any two commands. Commands that
differ in an address or a port only are one command; the six default interfaces
are one, `std`, and those that only the user configures are the constant `OwnIfaces`;
the chains of old versions are `PROXY`. `CommandFails` lets any command of `Apply`
after its pre-pass fail, and `Apply` runs the remaining ones all the same. It returns an
error for those it collects (`reported`), may drop one whose text says that a match or a
target is unknown (`filtered`), and never learns of the best-effort ones: the DNS
redirect, QUIC, IPv6, FORWARD, the captive portal. (The comment at `iptables.go:226` says
of the collected errors that they "do NOT fail Apply()"; they do.) `kernel.holes` records the
chains that miss a rule, `daemon.missed` counts the failures. Commands that take rules away do
not fail, neither in `Cleanup` nor in `net_clean.sh`; and the chains have the default prefix, as
`net_clean.sh` assumes: with another `chains_prefix` the script would not find them.
`sleep 1` in `stop_module` is taken to be long enough for the command a killed
daemon was waiting for.

What the model shows besides the properties: the pre-pass makes the
delete-before-insert of `setupDNSForward` redundant; `cleanupRules` and
`net_clean.sh` delete one FORWARD ACCEPT rule even when it is someone else's; a hook
on an interface that the configuration no longer names survives every clean-up,
and the REDIRECT that a killed daemon's last command appends can refill the chain
behind it (tethered traffic only).

### ModuleScripts

A script is the sequence of its effects on processes and files; `ScriptStep` takes
one. The user's script and one recovery by a watchdog run side by side. Daemons and
watchdogs are process ids that are reused when free. `start_watchdog` is one step:
two scripts that start watchdogs in the same instant, which the token file guards
against, are not told apart. Whether a daemon was started idle makes no difference:
the dashboard may start or stop the tunnel at any time. `alone` is a history
variable: no recovery has overlapped the user's last command. A daemon that got SIGTERM lives
on for up to 5 s and may still connect; the redirect it then installs is `late`. `stop` waits for the daemon that
the pid file names, so only a stray one can do that behind its back. Pid and marker files survive a reboot. `alone` is needed because a
`network-resume` that has passed its test of the enabled marker starts the daemon
again after a `stop`. A recovery that fails leaves no watchdog, only the paused
marker, and nothing will resume the module then; `EnabledIsWatched` says so.

### Streams

`cur` is `clientPtr`; a session is a number. A handler goes from handshake or
original destination over up to three dials to the pipe; a pump holds at most the
chunk it has read. Deadlines and timers may expire at any moment. SOCKS replies are
left out. The SSH channel has no working deadlines
(`third_party/golang.org/x/crypto/ssh/tcpip.go:488`), so an end of stream is passed
on to the local side only, a DNS query whose upstream is silent lasts as long as the
session, and a client that half-closes gets at most 400 ms more of an answer.

### Stores

Profile requests hold a mutex from load to rename and are one step. A configuration
patch is not: it reads the configuration in memory, opens the temporary file,
writes, renames and stores to memory, and two patches may interleave; files are
inodes, so a patch writes to the inode it opened wherever that has been renamed to.
`overlap` is a history variable: two patches were in progress at once. Overlapping patches can lose one
another's change, leave memory and file different, and with a crash leave a torn
`config.json`, with which the daemon does not start; `docs/openapi.yaml:174` promises
an "atomic rename". After the selected profile is deleted the first one is used, and
the next one that is saved becomes selected; with the last one gone the daemon
starts idle only.

### Transport

The bytes of a connection are tokens: a status, and the two halves of the banner.
`Dialled` and `SendPayload` choose what the peer sends. The cache maps a key to its
entry: when it expires, of which only the order matters, so each entry gets the next
number; and the number of evictions of its host that preceded the question. A second loop (one that outlived its stop) resolves in the
same cache. `Saved` is the image of `buildTransport`, `Incomplete` what only an edit
by hand produces. Device mode dials by name first and only then uses the resolver;
fallback addresses are used only if the resolver found nothing. Observed: 301 and 503
are not among the allowed statuses, so the attempt fails before the code that evicts
the host for them (`main.go:1482`; the package comment `dnsx.go:29` names them); at the
limit the cache drops its oldest entry also when it overwrites a key.

## Runs

| Run | Instance | Shows |
|---|---|---|
| `tunnel_loop` | 2 streams, delays 1/2/4, 2 missed keepalives, breaker at 2; fairness | `FailClosed`, `NoStaleClient`, `CleanExit`, `RetryPaced`, the liveness properties `StopTerminates` (a cancelled loop returns, or stays in a handshake for ever), `DeadLinkNoticed`, `Reconnects`, and the refinement `Implements`, its liveness for a peer that answers |
| `breaker` | the code's delays, breaker at 2 | violation: the breaker closes a session for another one's errors |
| `control_serial` | 1 request at a time, 2 loops | `StopIsComplete`, `PropStopped`, `StopReturns` |
| `control_concurrent` | 2 overlapping requests, 2 loops, panics, a signal | `RulesOwned`, `ClientOwned` |
| `control_slow_stop` | 1 request at a time | violation of `StoppedStaysClean` |
| `control_overlap` | 2 overlapping requests, 2 loops | violation of `RunningStaysRouted` |
| `broadcast` | 2 setters, 2 dashboards of which one may hang, the monitor; fairness | `NothingOwedIsLost`, `SetNeverStalls`, `EventuallyFresh` |
| `iptables` | all hotspot configurations over the default and two own interfaces, leftovers of an older version, up to 2 failing commands per `Apply` | `TypeOK` (one hook per place, none without its chain), `CarrierExempt`, `AppliedExactly`, `StopLeavesNothing`, `NoRedirectAfterClean` |
| `scripts` | 2 daemons, 2 watchdogs, recovery after 2 failures; fairness | `StopStops`, `EnabledIsWatched`, `CrashRecovered` |
| `streams` | 1 connection, 2 queries of which 2 arrive in all, 2 sessions; fairness | `CountersExact`, `EndAfterData`, `AnswersMatch`, `DoneNeverBlocks`, `LostSessionFrees` |
| `stores` | 2 names, 3 profiles, 2 patches, 6 requests or crashes | `SelectionCoherent`, `SelectionStable`, `ConfigWhole`, `PatchesLand` |
| `transport` | every saved profile, 2 DNS modes, a cache of 2 for 4 keys, 2 attempts | `TypeOK` (the cache stays within its limit), `NoConnLeak`, `BannerKept`, `EvictedStaysAway` |

**Types.** Every module states its `TypeOK`. The runs list it where it says something
about a limit (`iptables`, `transport`); for the loop, the lifecycle and the
notifications, the scripts, the streams and the stores it is part of the proved
invariants.

**Bounds.** The counters of the code are bounded by the code itself; the error
counter saturates at the breaker's limit, above which nothing depends on it. The
limits are scaled down (2 of 3 missed keepalives, 2 of 5 errors, a cap of 4 times
the base delay instead of 30) so that every limit is reached, passed and reset
within a few steps; the proofs cover every value of the modules that have them. Two streams are needed for one
dial to be on an old session while another one is on the new. Two requests and two
loops are the smallest instance in which a request overtakes another one and a loop
outlives its stop; with `Overlap = FALSE` one request is as good as two, since it
is issued again when it has finished. These runs limit neither requests nor
reconnects nor sets. `control_concurrent` uses the view `ControlView`: the State
record, `module.prop`, the monitor and the histories influence no other variable,
and its properties do not mention them. `iptables` has two interfaces of the user's, so
that a configuration can change from one to the other with hooks left on the first, and
`MaxFailures = 2` lets a reported and a silent failure meet in one `Apply`; the proofs take any
number. It and `scripts` have no bound but these, the process ids and the limit of failures (2 of 3): starts, crashes, clean-ups and
recoveries go round without end. `streams` needs a session and its successor for a
stream to be dialled on one and counted on the other; handlers share nothing but the
client, its counter and the datagram buffer, so one connection with a query, or two
queries, meet every interference. `stores` bounds the requests: two patches with
crashes between them, or six profile requests in a row, which fill the
file, delete from its middle and create again. `transport` needs two attempts for an
eviction to matter, and a cache smaller than its four keys to reach its limit.

**Deadlock** is checked for the loop, the notifications, the rules and the scripts.
The lifecycle may stop: the process exits. In `streams`, `stores` and `transport`
everything that may arrive has arrived in the end.

**Fairness.** `TunnelLoop`: a goroutine that can run is run, tickers fire, iptables
commands end, the transport set-up returns within its timeouts (Go's scheduler and the
kernel's timers give all of these). Nothing is assumed of the SSH handshake, since the code gives
it neither a deadline nor a context: `StopTerminates` says that a cancelled loop returns
or stays in the handshake for ever. That a peer answers is an assumption of its own
(`AnsweringPeer`), which only the liveness of the refinement makes. Further, a ready case of a `select` that stays ready is not passed over
for ever, as Go chooses among ready cases at random. `Reconnects` is about a
server that can be reached and accepts when asked often enough (`ReachableServer`). `TunnelControl`:
`StopReturns` assumes only that the steps of `stopTunnel` are taken, nothing of the
loop. `StateBroadcast`: nothing is
assumed of a reader that is not `Prompt`. `ModuleScripts`: processes are scheduled
and commands end; nothing is assumed of crashes, the user or the route, and
`CrashRecovered` is about routes that come back and stay, since a watchdog counts
failures anew after an offline round. `Streams`: goroutines run and timers expire
(also the idle timer, 150 s by default, the only thing that frees a pipe whose local
side does not read); nothing is assumed of servers or clients.

## What the violations show

* `breaker`: `transportErrorCount` is global and is read by the first health tick
  of the next session, so dials that failed on a dying session close the new one.
* `control_slow_stop`: the wait of a stop is bounded, the SSH handshake is not.
* `control_overlap`: `tunnelRunning` is checked and set in two steps, so two overlapping
  starts run two loops, each with an SSH session of its own; a stop cancels one of
  them, and its `net_clean.sh` takes the rules of the other, whose `iptablesUp` keeps it
  from applying them again. Without overlapping starts the same comes about in
  another way: the loop's goroutine clears `tunnelRunning` while the stop that waited for it
  still has `net_clean.sh` to run, and a start in between connects and loses its rules.

Modelling met further differences, which no run is spent on:

* After a recovered panic the goroutine skips the code that clears `tunnelRunning` and
  restarts (`main.go:1141`), so nothing restarts the tunnel and starts are refused;
  `CHANGELOG.md:11` promises an auto-restart "with panic recovery". In `TunnelControl` a panic leads
  straight to `gone` (`LoopPanics`).
* `Apply` returns no error although blocking QUIC or disabling IPv6 failed (best effort,
  `iptables.go:210`), so traffic can leave beside the redirect; the head of the package says that leak prevention
  is "always applied with the redirect rules". `AppliedExactly` claims no more than the code gives.
* A `start` that overlaps a recovery removes the pid file of the daemon that the recovery
  has spawned. A later `stop` can only `killall` it, which does not wait, and the daemon
  may connect during its last seconds, after the second `net_clean.sh`: the `late` redirect that
  `StopStops` allows.
* `updateModuleProp` truncates `module.prop` before it writes, and `set_desc` of the scripts
  rewrites the file too (`sed -i`). Whoever reads it in between writes an empty file back,
  and without a description line every later update changes nothing. `TunnelControl` writes the
  status line in one step and leaves this out.
* The README's "2s-60s" backoff is 1 s to 30 s in `tunnelLoop`.
* The monitor of `module.prop` compares with what it last read and not with what was last
  written, so a restart that meets an offline period can leave "running" there.
* The shutdown of the process does not wait for the loop's teardown.
* An event stream takes its first snapshot before it subscribes, and learns of a change in
  between only with the next `set` (at most 20 s later, as `EventuallyFresh` shows).

## Proofs

`TunnelLoopProofs` proves for every set of streams and all delays and limits that
satisfy `DelayAssumption` and `LimitAssumption`: type correctness, `NoStaleClient`,
`StatusHonest`, `RoutingKnown`, `CleanExit`, `RetryPaced`, and the action properties
`FailClosed` and `NoAttemptAfterStop`. None of them is inductive. `Inv` adds which
sessions may be open at which `pc` (`SessionByPC`: a lost session is closed before
the loop reports it), which status is published where (`StatusByPC`: needed because
`CONNECTING_SSH` is published without writing the flags), how far the rules have
come (`RulesByPC`: rules exist only once the listeners are up, so they are applied
once), why the loop leaves (`LeavingReason`), and that a running keepAlive goroutine
is below its limit. `FailClosed` then follows: of all steps only the teardown's gives
up complete rules, and it is reached on a cancellation or a panic only.
`ImplementsSafely` is the refinement of `TunnelService` without its liveness: under
the invariant every action of the loop is an abstract step or a stutter
(`StepRefines`).

`TunnelControlProofs` proves, for any number of requests and loops and with every
kind of interference, type correctness, `RulesOwned` and `ClientOwned`. The
invariant adds `Prepared`: a loop that a start has prepared is not running and
belongs to that start alone, so launching it takes neither rules nor client from
anyone. That at most one loop connects and that a connected loop keeps its rules do not
hold when requests overlap (`control_overlap`), and requests do overlap, so they are no theorems. For requests that do not overlap (`~Overlap`, which
`control_serial` also assumes) the invariant `Serial` says that one request is in progress
at most (`OneRequest`), that at most one
loop is between launch and return and `tunnelRunning` tells (`BusyOK`), and what a start and
a stop have found at each of their steps (`StartOK`, `StopOK`). On top of it `StopIsComplete`
and `PropStopped` are proved without panics and signals (`~MayPanic`, `~MaySignal`,
as in `control_serial`): a recovered panic leaves `tunnelRunning` set, and a terminated
process publishes a last State of its own, which need not be the one a stop leaves.
Their invariant `Calm` says that a loop on its way out has a stop that waits for it
unless `late` records that the stop gave up (`LateOK`), that `tunnelRunning` means a
loop or a start about to launch one (`RunningOK`), that a tunnel that is down has
published it or a loop is about to (`ShownOK`), that nothing changes between a
completed stop and the next request (`DoneOK`), and that the monitor has seen the
State or has a notification, and will overwrite a wrong status (`MonitorOK`).

`StateBroadcastProofs` proves `NothingOwedIsLost` and `SubscribersLive` for any
number of setters and readers; the invariant adds that only registered readers are
owed anything.

`StreamsProofs` proves type correctness, `CountersExact`, `EndAfterData`,
`AnswersMatch` and `DoneNeverBlocks` for any number of queries and sessions and any
finite set of connections (a process has finitely many; the counter is a cardinality).
`HandlerOK` is the strengthening: a handler is counted on a client exactly while it
pipes, and what its two pumps have sent and still will send fits into `done`;
`QueryOK` says that a query handler only ever holds its own question. A step of one
connection then changes the set counted on one client by one element.

`StoresProofs` proves `SelectionCoherent`, the action property `SelectionStable`,
`ConfigWhole` and `PatchesLand` for any finite sets of names and patches
and any limit of at least one profile. For the profiles
every handler is shown to take a coherent file to a coherent file (`SelectingOK`,
`PutOK`, and `KeptElements` for the deletion: `Kept(s, K)`, the elements of `s` at the indices
in `K`, has exactly those elements, each from an index of its own and in order. `SelectSeq` would
say the same, but its definition is recursive and nothing can be proved of it here). For the configuration the invariant follows the inodes:
unless patches have overlapped, one patch is in flight, its temporary file is not the
published one, and from the write on it holds the patch in full.

`TransportProofs` proves `TypeOK`, `NoConnLeak`, `BannerKept` and `EvictedStaysAway`
for any non-empty set of DNS modes, any size of the cache, allowed statuses and number of attempts.
`SocketOK` says at which steps a socket is open and whose it is; `WireOK` where the
banner is at each step, in what was read or still on the wire (`Answered`), unless the
CONNECT read cut it; `DnsOK` that every host is evicted at most once per attempt and
that an answer older than the last eviction was in flight when it happened. The limit
of the cache needs that a full cache has an oldest entry; that comes from the
well-foundedness of the naturals, applied to the set of expiry numbers.

`IptablesProofs` proves `TypeOK`, `CarrierExempt`, `AppliedExactly`,
`StopLeavesNothing` and `NoRedirectAfterClean` for any set `OwnIfaces` of interfaces
and any non-empty set of configurations over them (`ConfigAssumption`: the user's
interfaces are none of the default ones) and any number of failing commands. `AppliedExactly` says
what is true in spite of them: a chain that is there and misses nothing holds its rules exactly, and
all is complete if nothing failed. None is inductive, since each is about
what is true after a whole sequence, and every sequence may be cut off anywhere.
`KernelOK` is what holds of the tables at all times: rules, hooks and missing rules
belong to chains that exist, and a hooked `OUT` or `DNS` holds a prefix of its rules, in their
order, or is known to miss one (`InOrder`). A command is `Safe` in a kernel if it
keeps that: no second hook on a place, no hook to a chain out of order, no rule for a
chain that is hooked. `SafeExec` shows that safe commands keep `KernelOK`, `RemovalSafe` that
commands that take away keep every other command safe; so the late command of a dead
daemon stays safe while a script works beside it (`LateOK`). `ApplyAt` says what the
tables hold after the first `n` commands of `Apply`, over any leftovers (`PrepassAt`, `ChainsAt`),
and what also holds unless a command failed (`InstalledAt`); `ApplyStep` is its
induction step, by the position, `FailStep` that of a command that fails. `FirstPass` and
`SecondPass` say the same of the scripts: after one `net_clean` the chains of the
device's own traffic are empty, or nothing leads to them and no late command can make
it so; the `sleep` of a stop waits for the late command, after which nothing is added
and what the second `net_clean` removes stays removed. TLC checked the invariant on the
`iptables` instance first. A sixth of the module is about the sequences: `Apply` is a
concatenation of seven parts, and the provers need its commands by number.

`ModuleScriptsProofs` proves `StopStops` and `EnabledIsWatched` for any sets of
daemons and watchdogs and all six commands (the `scripts` run has three). The
invariant is about the commands that a script has still to run: whatever disables a
watchdog or a marker is followed by `start watchdog`, unless the script has disabled the
module first (`Orderly`); so an enabled module has a watchdog, or is paused, or some
script still promises one of these (`WatchOK`); a failed `start_daemon` keeps that
promise with `disable` or `pause` (`RestPromises`). `WatchdogOK` says that only the watchdog of the
pid file runs and that the token is its own. `StopOK` says which end of `stop_module`
is left and what is gone by then; `AloneOK` and `DisabledOK` that a recovery beside it,
if there is one, ends at its test of the marker. It was checked by TLC with all
six commands before it was proved.

Model-checked only: the liveness properties (`StopTerminates`, `DeadLinkNoticed`,
`Reconnects`, `StopReturns`, `SetNeverStalls`, `EventuallyFresh`, `LostSessionFrees`,
`CrashRecovered`) and the liveness of the refinement, which are out of the prover's
reach. Every invariant and every action property that a passing run checks is proved.

## Not modelled, and the plan

What is left to prove of the modelled parts is liveness, which stays with TLC.

Left out: the vendored `x/crypto` (third party), metrics (reads `/proc`, floating
point), the read-only API endpoints, file serving and CORS (no state), the public-IP
lookup (one answer kept for 60 s), the command-line probe (`attemptTransport` repeats
the steps of `Transport`), the carrier-DNS property cache, TCP tuning and the
connectivity revalidation, payload templates, the installation scripts, log wording,
the dashboard's HTML. An Accept that fails ends its listener for good while the
redirect stays (`engine.go:433`, `engine.go:496`): the model lets a listener accept
nothing more, and no document promises otherwise.
