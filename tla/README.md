# Osprey: models, checks and proofs

Osprey lets a phone watch and control a Windows machine.  This directory holds
TLA+ models of the agent, of the phone's half of pairing and transport and of the
relay server, TLC configurations that check them on small instances, and TLAPS
proofs of every safety invariant the passing runs check, for every value of the
parameters under the named assumptions.  `PROJECT.json` maps each definition to the source
lines it models and lists runs, mutants, hazards, findings and theorems.

    tlc -workers 2 -config AgentPins.cfg MCAgentPins     # one run
    tlapm AgentPinsProofs.tla                            # one module of proofs

## 1. Inventory

| Component | State | Operations | Hard behaviour | What makes it correct |
|---|---|---|---|---|
| Pin store (`state.rs`, `host.rs`) | `state.json`: peers, consumed nonces, relay enrolment | load, create, save, `add_peer`, `set_relay`, `remove_peers`, `consume_revocation_nonce` | several processes without a common lock; crash and power loss inside a save | saves are atomic, no update lost, a removed pin stays removed, a spent nonce stays spent |
| Identity and keystore (core `identity.rs`, `keystore/`) | sealed identity and token files | load, create, seal | interrupted first run, interrupted enrolment | an open host is the one on disk; an enrolment has its token |
| Registry and watcher (`registry.rs`) | sockets of live sessions | register, drop, `revoke_identity`, `retain_pinned`, `revoke_all`; a poll every 200 ms | reads the store, then sweeps: the store may change between | an unpaired identity keeps no session |
| Revocation handler (`revoke.rs`, core `pairing/revoke.rs`) | write lock | verify, take the lock, load, consume, remove, audit, close sessions | clock read before the lock; a failure in the middle | each signed `pair.revoke` is always answered, a replay refused |
| `run` (`commands/run.rs`) | stop flag, accept loop, session threads | bind, publish, start, accept, serve, stop, join | handshakes in flight when stopping; an accept error | no session admitted on a stale pin; every end is joined and reported |
| `pair`, `unpair` (`commands/`) | their copy of the store; the offer | enrol, show QR, accept, pin; remove, notify | run beside `run` and beside each other | see pin store and pairing |
| Pairing flow (core `pairing/`; iOS `Pairing/`) | offer: secret, consumed, ttl | handshake, confirm, accept, record, pin | sockets and disks failing at any step, stale QR codes | single use, only under the secret, never without an audit record |
| Session protocol (`session.rs`, `pacing.rs`) | stream, last activity | hello, ping, history, subscribe, revoke, bye | push and read share one thread | ticks reach who reads, silent peers are hung up on |
| Metrics engine (`metrics/engine.rs`) | subscribers, bounded channels, flag, condition variable | subscribe, sample, deliver, drop | notification against wait; slow and dead subscribers | no lost wake-up, bounded queues, the drop ends |
| Metrics ring (`metrics/ring.rs`) | samples, next due time | store, history | wrap, gaps, clock jumps | one sample an interval, a history is what it declares |
| Collector (`metrics/collect/`) | two baselines | sample | adapters and counters that change between readings | no throughput that was not carried |
| Relay link and supervisor (`relay/`) | backoff, keepalive | attach, pump, retry | server closes, lost pongs, stop during a sleep | comes back after every outage, backs off, stops |
| Helper supervisor (`helper/`) | helper process per console session | poll, spawn, restart | session switches, failing checks | a helper where the user is |
| Windows service (`service/`) | SCM status, registration, ACL, firewall rule | dispatch, control, report; install, uninstall | each call may fail; the SCM acts meanwhile | stopped means quiet, failures restart, setup keeps its order |
| Noise transport (core `noise/`, FFI) | nonces, partial message, inbound buffer | frame, chunk, reassemble, promote | sizes at the edges, reads that end anywhere | what is received is what was sent |
| Relay server (`relay/src`) | database, hub | issue, redeem, revoke, attach, forward | awaits between check and use | tokens are single-use, a revoked device gets nothing |
| iOS session (`Session/`, `DeviceModel`) | pending requests, state | connect, request, redial | actor re-entrancy | not modelled |
| CLI, paths, QR, generated messages, UI | | | | not modelled: no control of their own |

How they interact: `run`, `pair` and `unpair` are separate processes that share only the
data directory.  Inside `run` the session threads share the registry, the revocation
write lock and the metrics engine; the watcher connects the file to the registry; one
atomic flag stops everything.  The relay and helper supervisors are threads of `run`
that share nothing but that flag.  A phone meets `pair` once, over a socket keyed by the
QR secret, and `run` ever after, over sockets keyed by the pinned static.

## 2. Modules

| Module | Models |
|---|---|
| `AgentPins`, `AgentPinsProofs`, `MCAgentPins` | the store's concurrent readers and writers: `run` with its threads, registry, watcher, and the console processes; the proofs; values for TLC (all revocations signed by `f1`, `m2` one tick later than the others) |
| `Pairing`, `PairingProofs`, `MCPairing` | one host's successive `pair` commands and the phones' attempts |
| `Relay`, `RelayProofs`, `MCRelay` | one account on the relay server: tokens, devices, pairings, hub, frames; symmetry of clients, tokens and sockets |
| `MetricsEngine`, `MetricsProofs` | sampler thread, subscribers and session loops; the proofs about it and the next two |
| `MetricsRing` | what is stored and what `metrics.history` answers |
| `Collector` | network throughput from counters |
| `NoiseTransport`, `NoiseProofs` | framing and chunking between phone and agent |
| `DataDir`, `DataDirProofs` | the files of the data directory, system call by system call, and the commands that open them |
| `AtomicFiles` | what a save promises; `DataDir` implements it |
| `ServiceSetup` | `install` and `uninstall` against the service manager |
| `MCComponents` | ring, collector, transport, directory and setup, which share nothing, in one state space: one of them is active in each behaviour |
| `AgentFlag` | the variable `running`, shared by the next three |
| `RelaySupervisor`, `HelperSupervisor` | the two supervisor threads |
| `AgentLifecycle`, `ServiceProofs` | their composition with `execute` and the service: start, stop, failure, recovery; the proofs about it and `ServiceSetup` |
| `DataLemmas` | lemmas on induction, quotients and sums that the proofs share |

### AgentPins

A pin is a Noise static filed under an identity fingerprint, so `disk.peers` is a
function from fingerprints to statics; `disk.consumed` is the nonce list.  Each
session thread is a program counter `pc[s]` along `serve_one` and `handle_revoke`:

    idle -Accept-> handshake -Handshake-> register -Register-> recheck -Recheck-> serving
    serving -ReceiveRevoke-> verified -LoadLocked-> loaded -ConsumeNonce-> consumed
            -RemovePin-> removed -AuditAndUnlock-> closing -ClosePeerSessions-> unwind -Unwind-> idle

A step boundary stands wherever the code reads or writes something another thread or
process can touch: the read of the pin list at accept, the registry insert, the second
read, the clock, the lock, the load, each of the two saves.  `GiveUp` is the common tail
of the error paths.  The watcher's read and its sweep are two steps.  A console loads
its copy in `OpenHost` and writes it back in `EnrolSave`, `AddPeer` or `RemovePeers`.
`Crash` may happen between any two steps of `run` and keeps only the file.

What a step leaves out: signatures and device ids (a message verifies when it was
signed by the session's identity and is inside the window), the wording of answers, the
audit lines (no step reads them), and messages that do not touch the store.  A failing
operation that leaves the state alone is no step; one that releases the lock or ends a
thread is.  A save is one atomic step here; `DataDir` splits it.  A shutdown of a socket
that fails is left out too: it fails only on a socket that is already disconnected, whose
thread ends by itself.

The registry `live` is a set of its own; `TypeOK` says that it holds exactly the sessions
whose threads hold a handle.  `unpair` selects one peer, all or none (`Selections`), and
saves in each case.  The clock of the machine may be set either way (`Tick`).

`gone`, `applied`, `prunedAt`, `swept` and `raced` are history: no guard reads them.
`raced` becomes TRUE when a process writes the file while another holds a copy it will
write back.  The invariants about the store are stated for behaviours in which that has
not happened: inside `run` the lock is what they test, and between processes there is
none (finding `pin_returns` shows what follows).

### Pairing

The host is a program counter `hpc` along `accept_one`, `respond_inner` and `finish`;
an attempt is one scan, one dial and one run of the phone's flow.  `qr[a]` is the offer
the phone scanned and `at[a]` the one whose listener it reached, which differ when a
phone dials with a stale QR.  IKpsk2 is modelled by what it does: the host answers the first message
whatever the secret; the phone reads the answer only if the secrets agree; the host
learns of it from the confirmation.  Both ends may fail at every step, the audit write
too.  The model has no message that the network invents: the pattern is authenticated.

### Relay

One account: enrolment makes a new account each time, every query carries the account
id and so does every hub key, so accounts meet in nothing but the process.  Each request
is a program counter with a step at every await another request can overtake: `ipc` for
issuing a token, `rpc` for redeeming one, `vpc` for revoking a device, `spc` for a socket,
`fpc` for a frame.  PostgreSQL at READ COMMITTED is modelled by what the code relies on:
a redemption holds its token's row from the claiming UPDATE to the end of its transaction
(`Locked`), reads see committed rows, inserts appear at the commit, a failure or a
`Restart` undoes the claim.  A refusal for a revoked agent or a full quota commits, token
included, as in the code.  `now` is read before the UPDATE, so a token may expire while
the statement waits (`RedeemArrives` and `RedeemClaim` are two steps).

A client stands for a redeem request and for the device it creates.  The rate limiters
are not state: any request may be refused, which over-approximates them.  Audit rows,
`last_seen_at` and answers are left out: nothing reads them.  A socket is `closing` once
the relay has called `close()`; frames still arrive on it, none is sent to it.  `by`,
`late`, `cut` and `overlapped` are history.

### MetricsEngine, MetricsRing, Collector

`MetricsEngine` has a step wherever the code takes or releases the mutex.  The sampler
is `check` (flag and list read under the lock, kept into the wait), `waiting`, `sampling`
(lock released), `deliver`.  A subscription is two steps, `Subscribe` under the lock and
`NotifySampler` after it, so a notification can fall before, into or after a wait; it
reaches only a thread that waits.  A dropped `Subscription` leaves its sender in the list
until a delivery finds it disconnected.  A session is `push`, `wait` and what follows a
request; `AnswerRequest` stands for the requests that only answer.  Intervals have no
length: a wait may end at any time, and what an interval means is stated by liveness.

`MetricsRing` stores timestamps; the clock may jump to any value at any sample.  `History`
is the code's walk back from the newest sample with its spacing bounds and thinning.
`Collector` has adapters with counters, filter rows that repeat them, a loopback, link
changes and driver resets; `moved` and `disturbed` are history.  Bytes are not divided by
time, and volumes, memory and the processor percentage are left out.

### NoiseTransport

Each direction is a sequence of frames, each frame two pieces (prefix, body), read in any
portions.  Frame 1 of a direction is its handshake message.  A body decrypts only in its
place under the expected nonce (the library snow is external).  The agent reads a blocking
stream and accepts chunks; the phone pushes pieces into a bounded buffer, and a message of
several chunks fails there, as the code says.  A payload is a sequence whose elements name
its message and position, so that a mixture is seen.

### DataDir and AtomicFiles

The identity, `state.json` and the relay token are each saved by truncating a temporary
sibling, writing it in two halves, flushing and renaming it.  A process may die and a
write may fail at each step; `PowerLoss` ends every process and may lose unflushed bytes.
A handle follows its file through a rename.  A rename itself is taken to survive a loss of
power, as on a journalled file system: the code does not flush the directory.  Processes
go through `Host::open` (identity, state, first-run creation), then enrol, pin, unpin, and
present their token.

The code has no lock between processes, neither over a save nor over `Host::open`, and
the model has none.  Two history variables say where that shows.  `overlap` is kept for each
file: "now" while saves of it in progress have overlapped, "past" when they have ended and
the file may still hold what they left, "none" once a save that met no other has
succeeded.  `raced` says that running processes each made a new identity or state.
`SavesAreAtomic` is `AtomicFiles!Spec` under the mapping that reads each file as what
`parse_state` and the keystore make of its bytes and each save in progress as pending.
`AtomicFiles` promises of a file that no saves overlapped on that it is whole and replaced
in one step or not at all; of one with overlapping saves it promises nothing until a lone
save succeeds.  What happens then is in the runs `torn_save` and `two_first_runs`.

### RelaySupervisor, HelperSupervisor, AgentLifecycle, ServiceSetup

`RelaySupervisor` is `supervise`, `attach` and `pump`: head, connecting, upgrading,
attached, backoff.  Connecting and upgrading are two states because only the first has an
end of its own: an upgrade the relay does not answer goes on for ever.  Ticks
count the age of the link, the time since the last ping, the time a pong is awaited and
the backoff.  The network is up, refusing or silent, and changes at any time; a revoked
device is refused at the upgrade, and any close may be a terminal one (4001, 4003), since
the agent does not trust the relay.  `HelperSupervisor` is one pass of its loop in three
steps: poll, spawn (which reads the console session again), sleep; `strays` are live helpers
it has forgotten.

`AgentLifecycle` composes both with the service thread: opening, reporting,
binding, publishing, starting, accepting, the scope's join, the joins of the threads, the
drops, the two reports.  When the store cannot be opened, or a report fails, `service_main`
logs it and returns (`returned`): nothing is reported, so the dispatcher does not return
and the process stays as it is.  The mDNS record is `yes` while a daemon answers for it,
`expiring` after a deregistration that was not confirmed, `no`; a daemon that cannot be
told to shut down goes on answering until the process ends.  Sessions are one slot, since
the threads are in `AgentPins`; a live one ends only when its peer lets it go or
`revoke_all` shuts it.  `Installations` are the sets of supervisors an agent can have: the
two are started independently, for an enrolment and for a helper beside the agent.

`ServiceSetup` is `install` and `uninstall`, a step per call with its failure, against a
service manager that starts, stops and restarts the service; that a marked service disappears when it is stopped and closed
is the manager's rule, external.

## 3. Runs

| Run | Instance | Checks | Distinct states |
|---|---|---|---|
| `agent_pins` | 2 identities, 2 sessions, 1 console | `TypeOK`, `UnpairedSessionsEnd` | 326 k |
| `agent_revocations` | 1 identity, 2 sessions, 1 console, 3 revocations, clock 0..1, window 0 | `SweptSessionsAreShut`, `LockHeldByWriter`, `SnapshotsCurrent`, `RevokedStaysGone`, `ReplayRefused` | 4.3 M |
| `pairing` | 2 attempts, 2 offers | `TypeOK`, `OfferIsSingleUse`, `PinnedUnderSecret`, `PinnedIsAudited`, `WindowEnds` | 65 k |
| `relay` | 2 clients, 2 tokens, 2 sockets, 1 frame, 2 devices and 1 token an hour allowed | `TypeOK`, `TokenSingleUse`, `RevokedAgentPairsNoMore`, `QuotaHolds`, `SocketReachable`, `NoFrameAfterRevoke` | 1.8 M |
| `metrics` | 2 sessions, 3 channels, queues of 2, 1 idle slice | `TypeOK`, `NoLostWakeup`, `UnwatchedSlowsDown`, `WatchersGetTicks`, `StopCompletes`, `SilentPeersHungUp` | 40 k |
| `components` | see below | `OneSamplePerInterval`, `HistoryAsDeclared`, `NoPhantomBurst`, `MessagesIntact`, `NothingLostAtBoundary`, `FailuresHaveCause`, `OpenHostsAgree`, `EnrolledHasToken`, `SetupIsOrdered`, `SavesAreAtomic` | 1.1 M |
| `lifecycle` | 2 users, backoff 1, 2, 4 | `StoppedMeansQuiet`, `ServiceStops`, `FailureRestarts`, `LinkFollowsNetwork`, `FailuresBackOff`, `HelperFollows` | 150 k |

Runs that show a comment of the source to be wrong:

| Run | Comment | What happens |
|---|---|---|
| `pin_returns` | `state.rs:346`, "the caller uses a successful return as 'the pin is gone'" | a `pair` console that loaded before the `unpair` writes the pin back |
| `revoked_reattach` | `routes/devices.ts:9`, a revoke drops "any live socket for that device" | a socket authenticated before the revocation is attached after the drop |
| `parked_upgrade` | `relay/supervisor.rs:136`, reads have a deadline lest they "park this thread forever" | the deadline is set after the upgrade; a relay that accepts the connection and never answers the upgrade parks the thread, and the stop joins it |
| `torn_save` | `state.rs:353`, "Write the state atomically" | two processes save at once through the one temporary name; the rename of the first publishes the file the second has just truncated |
| `two_first_runs` | `host.rs:5`, "they must all resolve them the same way"; assembling them in one place "makes that impossible" | two processes find no identity, each makes one, and one of them goes on under an identity that is not on disk |

Further instances of the same modules, one `.cfg` each.  Of these TLC finds the property violated:

| Configuration (module) | Property | Comment it is about |
|---|---|---|
| `NonceForgotten` (`MCAgentPins`) | `RevocationAppliesOnce` | `state.rs:326`, "no replay of that nonce can satisfy freshness again": a copy verified while fresh waits for the lock until another revocation has pruned its nonce |
| `LateRegistration` (`MCAgentPins`) | `ShutdownCompletes` | `run.rs:185`: a thread in its handshake registers after `revoke_all` and is not shut down |
| `OfferLost` (`MCPairing`) | `FailedAttemptKeepsOffer` | `pair.rs:162`, "the offer is only consumed on success": it is consumed before the acceptance is sent and recorded |
| `TwoHelpers` (`AgentLifecycle`) | `OneHelper` | `helper/supervisor.rs:1`, "exactly one helper": a failed check forgets a live child |
| `DoomedRetries` (`AgentLifecycle`) | `RevokedStopsTrying` | `relay/supervisor.rs:4`: a revoked device refused at the upgrade is retried for ever |
| `SecondStop` (`AgentLifecycle`) | `StopAcceptedOnce` | `service/windows_impl.rs:156`: Stop is accepted until `execute` has returned |
| `TokenMismatch` (`DataDir`) | `PresentedToIssuer` | `pair.rs:74`, an enrolment is re-used "only when it is for the same relay": interrupted between the token's save and the relay's, the next command presents one relay's token to the other |
| `HeldFailure` (`AgentLifecycle`) | `FailureIsReported` | `service/windows_impl.rs:135`, "The SCM must learn the service is on its way down": an accept error passes by `revoke_all`, and the scope waits for a peer that goes on talking |
| `SilentReturn` (`AgentLifecycle`) | `ReturnsWhenStopping` | `service/windows_impl.rs:79`, "Returns only when the service is stopping": with a store that cannot be opened it returns while the service is starting |

and of these it finds the properties to hold:

| Configuration (module) | Instance | Checks | Distinct states |
|---|---|---|---|
| `AgentLock` (`MCAgentPins`) | 1 identity, 2 sessions, 1 revocation | `RevokeAnswered` | 4.5 k |
| `AgentStops` (`AgentLifecycle`) | both supervisors in one agent, the shortest timers | `StoppedMeansQuiet`, `ServiceStops`, `FailureRestarts` | 213 k |

**Bounds.**  Two sessions are what a race between two threads needs, and one that
closes another; two identities let one stay while the other goes; three
revocations let one be applied, one prune its nonce and one follow a re-pairing.
`MaxClock = 1` with `Window = 0` puts every message on the edge of its window and lets
time pass it.  The console can be opened again without bound, so unpairing and
re-pairing repeat.  `agent_revocations` stops at raced states (`NotRaced`): three of
its invariants say nothing of them, and the other two, `SweptSessionsAreShut` and
`LockHeldByWriter`, are proved for all.  Sessions are symmetric where only safety is
checked.  Two offers are what a stale QR needs and two attempts what a second use needs.  `pairing` and
`OfferLost` do not check for deadlock because their attempts and offers run out, as
the program's do not.  In `relay` two clients contend for one token
and, with two devices allowed, for the last place; the second token can only be issued
when the first is an hour old or the requests overlap; two sockets are what a
reconnection needs, and one frame is enough because frames do not read one another.
Restart is always possible there, so a deadlock check would say nothing.

In `metrics`, three channels for two sessions leave one for a receiver that was dropped and
not yet found; queues of two are full after two samples nobody reads.  In `components`: an
interval of 4, so that the bounds of half and one and a half of it are distinct whole
numbers; a ring of 4 and histories of 2, so that it wraps and thins; a clock to 18, more
than the ring holds; two adapters, so that one can leave while the other counts; messages
of 0, 2, 5 and 6 for chunks of 2 and a limit of 5, which are the empty one, an exact
multiple, the limit and above it; three starts of the service; two processes on the
directory, which is what overlapping saves and first runs need, one relay, one phone and
three ids, which allow an interrupted first run and a raced one.  The constraint
`OneComplication` of that run looks at one complication of the directory at a time: saves of
one file overlap, or two processes took the directory for new, or peers are pinned; the
theorems of section 5 cover the combinations.  The run does not check for deadlock: its
counters run out.  In `lifecycle` the ticks are small and keep the order of the code's
(timeout below interval, a link healthy after both), and an installation has one of the two
supervisors; `AgentStops` has both, and `StoppedIsQuiet` is proved for any.

Every property has a mutant in `PROJECT.json`: a variant of one action, as a plausible
slip would leave it (a lock released early, a prune off by one, a flush left out), under
which TLC finds the property violated.

## 4. Fairness

In `AgentPins`: the scheduler runs every thread that does not wait for
its peer; a handshake ends by the read timeout; the write lock starves nobody (strong
fairness of `LoadLocked`); the watcher polls and its reads do not fail for ever; the
accept loop sees the flag within its slice.  Nothing is assumed of peers or consoles,
nor of `SessionEnds`: a peer may talk for ever.  In `Pairing`: time passes, and `pair`
runs; a silent phone ends a read by `HANDSHAKE_TIMEOUT` and messages have bounded length.
Nothing is assumed of phones.

In `MetricsEngine`: the sampler and the session threads run, `wait_timeout` and
`wait_readable` return when their time is up, and reading the platform does not fail for
ever (strong fairness of `SampleTaken`); nothing is assumed of requests.  In
`AgentLifecycle`: threads run and their sleeps, read slices and ticks pass; a connect ends; a
handshake ends, since it is a bounded number of reads under a read timeout; a session whose
socket was shut down ends; a spawn tried again and again succeeds (strong fairness of
`HelperSpawnOk`, used by `HelperFollows` alone); the service manager carries out the recovery
actions that `install` registers.  Nothing is assumed of the network, the relay, the users or
the peers of live sessions.  Where a property needs them it says so: `LinkFollowsNetwork` and
`HelperFollows` say what follows when network and console settle down; `ServiceStops` and the
second half of `FailureRestarts` have the premises `PeersLetGo`, no peer keeps a session for
ever, and `UpgradesEnd`, the relay leaves no upgrade unanswered, which the code does not
enforce (`LateRegistration`, `HeldFailure`, `parked_upgrade`); `LinkFollowsNetwork` has the second.

## 5. Proofs

Every safety invariant a passing run checks, and the refinement, is also a theorem.  All theorems
are about the specification without fairness (`Spec`, `RingSpec`, `CollectorSpec`,
`NoiseSpec`, `DirSpec`, `SetupSpec`) and hold for every value of the constants under the
named assumption of the module: markers are distinct from values, bounds are naturals,
the sets that must be finite or non-empty are.  No theorem has a hypothesis besides, and
the bounds of section 3 are not among them.  Four of the assumptions say more:

- `RingAssumption`: the interval of the ring is even (`RING_INTERVAL_MS` is 30 000), since
  half of it is compared with exact steps;
- `CollectorAssumption`: the adapters are finitely many and the loopback is none of them,
  since their counters are summed;
- `DirAssumption`: what stands for "absent", "unwritten" and "not saving" is no value a
  file or a save can have (the processes may be any number);
- `LifecycleAssumption`: an installation has no supervisors besides the two.

`AgentPinsProofs` proves one inductive invariant, `IInv`, and reads six theorems off it:

- `TypeCorrect` (`TypeOK`), with `MsgFresh`, that a thread in its revocation has a message
  that was fresh when it read the clock.
- `LockKept` (`LockHeldByWriter`): the lock is held by a thread exactly while it is between
  its load and its release, so every way out of `apply` gives it back.
- `SweepEnforced` (`SweptSessionsAreShut`).  Alone the invariant is not inductive: a
  thread may pass the re-check later.  It needs from `TypeOK` that every thread from
  the re-check on is registered, so that a sweep shuts it, and `SweptUnpinned`, that a
  swept identity is still unpinned, so that the re-check refuses it.
- `NoLostUpdate` (`SnapshotsCurrent`) and `RevocationLasts` (`RevokedStaysGone`), with
  `LockHeldByWriter`: there is one thread at a time that has loaded.
- `ReplaysRefused` (`ReplayRefused`), with `NonceFirst`, that a thread about to remove a
  pin has its nonce on disk, and `AppliedRecorded`, that an applied revocation is on disk
  unless it is past its window at the last pruning.

`PairingProofs` proves `PairingTyped`, `SingleUse`, `SecretNeeded` and `PinsAudited`.
`OfferIsSingleUse` needs that an offer with an accepted attempt is consumed or gone
(`OfferInv`, `ConsumeInv`); `PinnedUnderSecret` needs what each message on a wire says
of its sender (`WireInv`); `PinnedIsAudited` that the host reaches `pin` only through
the record (`AuditInv`).

`RelayProofs` proves `RelayInv` and reads six theorems off it.  `TokenSingleUse` needs
`ClaimInv` (one transaction holds a token's row, and only while it is unused);
`RowInv` says which rows are there while a request runs, and that a live pairing has an active
client; `NoFrameAfterRevoke` needs what a frame past its check was told (`FrameInv`) and
`PairingsAdvance` (a revoked pairing stays so); `QuotaHolds` needs that whoever has
counted still finds room (`QuotaInv`); `TypeOK`, which has a device's row, its pairing and its
token appear together, needs `RowInv` and, since a drop marks the socket the hub names,
`SocketReachable`.  `SocketReachable` is inductive with `TypeOK`.

The inductive invariants of `AgentPins` and `Pairing` were themselves checked by TLC
before they were proved.

`MetricsProofs` is about three modules.

- `EngineTyped` (`TypeOK`) and `NoWakeupLost` (`NoLostWakeup`), with `FlagInv`: the flag says
  what the owner does, and a notification is pending only while the sampler waits.
- `RingKeepsGrid` (`OneSamplePerInterval`): the invariant is inductive with the types, once
  `DivUnique` and `DivShift` say how the cell of a sample moves when the grid does.
- `HistoryDeclared` (`HistoryAsDeclared`) follows state by state: a later sample is a newer
  one (`RingIncreases`), the run back to the first gap is the end of the ring
  (`RunIsSuffix`), and its steps add up when it is thinned (`StepsAddUp`).
- `BurstsAreReal` (`NoPhantomBurst`), with `BaselineInv`: as long as nothing was disturbed, the
  rows counted are the rows of the last complete sample, and their counters add up to
  its totals and what was carried since; after a disturbance they add up to no more.

`NoiseProofs` proves `NoiseInv` and reads `MessagesArriveIntact` (`MessagesIntact`),
`NothingIsLost` (`NothingLostAtBoundary`) and `FailuresExplained` (`FailuresHaveCause`) off it.
`LaidOut` says where the chunks of every message sent lie among the frames; `Reading` says
that the agent is behind the messages it returned by exactly the chunks it holds;
`DownInv` that each message the phone was given was one frame; `BufferInv` that its buffer
is what it is not done with, unless a push was refused.  `SplitFacts` and `OutcomeOfChunk`
carry the arithmetic: chunks of a payload flatten to the payload again, and the ceiling
on chunks is never reached by a payload within the limit.

`DataDirProofs` has no hypothesis on how many processes save or open at once.
`SavesImplementAtomicFiles` (`SavesAreAtomic`) shows initial states and steps of `DirSpec` to
be those of `AtomicFiles!Spec` or stutters, from `SaveInv`: the types and what each process has
in memory (`ProcInv`); a file no saves overlapped on is whole and flushed, and what is behind
a handle is as far as its save has come (`BytesInv`); `overlap` tells when two processes save
one file (`AloneInv`); and the halves of a file, torn or not, are of the file's own kind
(`KindInv`).  `EnrolmentKeepsToken` (`EnrolledHasToken`) adds `TokenInv`: as long as there is no
token, no bytes and no memory know of an enrolment, however saves overlap.  `HostsAgree`
(`OpenHostsAgree`) adds `AgreeInv`: unless two first runs raced, a process past a load or
a save of `Host::open` holds what the directory holds.

`ServiceProofs` proves `StoppedIsQuiet` (`StoppedMeansQuiet`) from `LifeInv`, which says for
each place of the service thread what may be alive, and `SetupOrdered` (`SetupIsOrdered`).

`DataLemmas` holds what these share: quotients, sums over finite sets, and induction.  The
library's induction theorems take a predicate as parameter and cannot be instantiated
here; `Induction` is stated for a *set* of naturals instead, so that a proof gives the
set of those with the property at hand.  This is how the recursive functions behind
`FlattenSeq` and `SumFunction` of the community modules are reasoned about.

The proof of `OutcomeOfChunk` found one definition that could not be reasoned about:
`Outcome` had been a `CASE` with overlapping guards, whose value TLA+ leaves open; it is
now the sequence of refusals that `recv` is.

Model-checked only: the liveness properties (`UnpairedSessionsEnd`, `RevokeAnswered`,
`WindowEnds`, `UnwatchedSlowsDown`, `WatchersGetTicks`, `StopCompletes`, `SilentPeersHungUp`,
`ServiceStops`, `FailureRestarts`, `LinkFollowsNetwork`, `FailuresBackOff`, `HelperFollows`):
fairness and ENABLED are out of the prover's reach.  `RevokeAnswered` is checked by
`AgentLock.cfg`.

## 6. Observations made while modelling

Points at which comment and code differ, or that a reader may want to know, without a run:

- `metrics/engine.rs:22` says the oldest samples of a full queue are dropped; `try_send`
  drops the newest.
- Dead subscribers stay in the list, and the sampler on the live interval, for as long as
  collection keeps failing: only a delivery removes them.
- `metrics/engine.rs:208` says a stored sample lands within one sampler period of its grid
  point; after an outage it does not, and when the clock steps back nothing is stored until
  it has caught up.
- A service whose store cannot be opened, or one of whose reports fails, says nothing more
  to the service manager: it stays StartPending (or as it was) and no recovery action
  follows (`windows_impl.rs:80`).
- `helper/supervisor.rs:46` says the session is 0 when there is no helper; a failed check
  leaves it set.
- The banner of `run` is written with `?` while threads run (`run.rs:126`): a closed console
  ends `execute` without its joins, in the foreground only.
- An `install` that fails after `create_service` leaves an AutoStart service without
  recovery actions, and a second `install` is refused.
- A service restarted by its recovery actions between the last poll of `uninstall` and the
  deletion runs on, marked for deletion (`again` in `ServiceSetup`).
- The watcher matches by fingerprint, the re-check by the whole pin (`registry.rs:90`): a
  live session under an old static survives a re-pairing under a new one.
- The relay awaits the database for each frame (`routes/ws.ts:81`), so two frames of a
  socket may be forwarded in the other order; Noise then ends the session.
- After `ACCEPT` was sent the host may still fail to pin: the phone then has a host that
  refuses it.

## 7. Not modelled, and the plan

Not modelled: cryptography; the readings of volumes, memory and processor time; address
filtering and mDNS itself; the named pipe of the helper (nothing creates its server);
CLI and QR rendering; generated message types; user interface; the relay's migrations,
policies and rate-limiter windows; enrolment at the relay, which makes a new account each
time.  Taken on trust of the platform: a rename is durable, and a shutdown of a connected socket
succeeds.  The phone's session client (`SessionMux`, `DeviceModel`, the ordering of
`NoiseSession.swift`'s send gate) has control of its own and is the largest gap.

To be proved next: the safety that the liveness properties rest on, as action theorems
(the delay of a supervisor falls only after a link or a helper has lasted; a window
never moves its deadline), and of
`RelaySupervisor` and `HelperSupervisor` their types and that the live helper is
the one the supervisor knows unless it is counted among the strays.
