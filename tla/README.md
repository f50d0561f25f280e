# Crabnet in TLA+

Crabnet carries IP packets between a client and a server through a TUN device
and UDP. In its Noise-IK mode the two sides first run a four-message
authenticated handshake and then forward packets encrypted; in its legacy mode
they forward plaintext. Around this the process merges and validates its
configuration, installs routes, IPv4 forwarding and a NAT table on the host and
removes them when it ends. This directory models those parts, checks them with
TLC on small instances, and proves the most important facts with TLAPS.

`PROJECT.json` maps every definition to the lines it models. Paths below are
relative to the repository root.

## 1. The system

| Part | Source | State | Operations |
| --- | --- | --- | --- |
| Session manager | `src/session.rs` | pending candidates by source, next identifier, running or closed | admit, expire, remove, shut down |
| Server handshake coordinator | `src/handshake/server.rs`, with the policy `src/session/server.rs` and the provider `src/crypto/noise_ik/server.rs` | policy state, registry by identifier, Noise contexts by identifier, committed session | receive `ClientHello`, receive `ClientFinish`, check timeouts, shut down |
| Client handshake coordinator | `src/handshake/client.rs`, with `src/session/client.rs` and `src/crypto/noise_ik/client.rs` | policy state with attempt and deadline, Noise context | start, receive `ServerHello`, receive `ServerFinish`, check timeout, shut down |
| Noise-IK runtime | `src/noise_runtime.rs`, `src/handshake/adapter.rs` | the process and its socket | the handshake loops of both roles |
| Encrypted data plane | `src/data_plane/{runtime,session,crypto}.rs` | send sequence, replay window, traffic counters, idle timer | TUN to UDP, UDP to TUN, idle expiry, Ctrl+C |
| Legacy plaintext mode | `src/client.rs`, `src/server.rs` | registered peer, statistics | TUN to UDP, UDP to TUN, Ctrl+C |
| Codecs | `src/protocol/*`, `src/data_plane/frame.rs` | none | construct, encode, decode |
| Configuration | `src/config.rs`, `src/tun.rs` | none after start | merge, validate |
| Network lifecycle | `src/main.rs`, `src/application.rs`, `src/routing/*`, `src/nat/*` | applied routes and forwarding, applied NAT, the host itself | bind, run, rollback, cleanup |
| Firewall diagnostics | `src/firewall/*` | none | list chains, assess |

How they interact: `main` merges arguments and file, validates, and calls
`Application::bind`, which runs the diagnostics (on a server), creates the client
or the server, and installs NAT and routes. In Noise-IK mode a runtime drives its
coordinator with datagrams and with timers. The coordinator drives a policy (who
may do what, when) and a provider (Noise) in lockstep and closes both when they
disagree. On establishment the runtime takes the committed transport out of the
coordinator and hands it to the data plane. In legacy mode the forwarding loop
starts at once. When the run returns, `Application` cleans up.

What makes it hard: UDP loses, repeats, delays, truncates and reorders; candidates
of several sources live in three maps that separate calls change; deadlines race
datagrams; processes restart while old datagrams are under way; sequence
numbers, windows and counters have edges; the loops await between checking
a limit and counting; Ctrl+C arrives at any moment; every command on the host can
fail, in cleanup as well, while the administrator changes the same routes and
tables; what validation accepted is examined again, by other code, later.
`PROJECT.json` lists these hazards with their lines and the properties that cover
them.

## 2. Modules

| Module | Models |
| --- | --- |
| `Maps` | finite maps (`HashMap`): type, insertion, removal |
| `SessionManager` | the session manager; `ServerCoordinator` conjoins its actions with its own |
| `ServerCoordinator` | the server coordinator, extending `SessionManager` with registry, contexts, committed session and the messages sent |
| `ClientCoordinator` | the client coordinators of a set of clients |
| `NoiseRuntime` | both loops over UDP, composed of an instance of each coordinator |
| `DataPlane` | the two encrypted forwarding loops of one session |
| `DataPlaneSelect` | the same loops with the order in which the biased `select!` polls its branches |
| `AtMostOnceChannel` | the abstract channel `DataPlane` implements: each end delivers only what the peer sent, each packet at most once |
| `CodecLimits` | the lengths the three codecs derive when constructed, and when construction fails |
| `Frames` | what the three codecs write and accept |
| `LegacyTunnel` | the plaintext loops of a server and several clients |
| `Configuration` | `from_args`, `validate`, and what is derived from an accepted configuration: route operations, NAT specification, the later checks, the diagnostics' assessment |
| `NetworkLifecycle` | one process from its command line to its exit, against the host's routes, forwarding setting and NAT table |
| `ServerCoordinatorProofs` | theorems about `SessionManager` and `ServerCoordinator`: the manager, the coordinator's maps, then the sessions it establishes |
| `ClientCoordinatorProofs` | theorems about `ClientCoordinator` |
| `NoiseRuntimeLemmas`, `NoiseRuntimeProofs` | theorems about `NoiseRuntime`: the inductive invariant and the server's steps, then the clients' steps and the results |
| `DataPlaneProofs` | theorems about `DataPlane` and `DataPlaneSelect` |
| `LegacyTunnelProofs` | theorems about `Frames` and `LegacyTunnel` |
| `NetworkLifecycleLemmas`, `NetworkLifecycleProofs` | theorems about `Configuration` and `NetworkLifecycle`: types and phases, then the host and the results |
| `MC*` | instances for TLC |

### How the models correspond to the code

**Coordinators.** One action is one whole call of a public method, with all the
calls it makes to policy and provider: every handler first expires what is due
in all maps, then takes one of its branches (one disjunct each). Deadlines are
due at their own instant. Errors that the code raises when its own maps disagree
(`CandidateRegistryMissing`, `ClientPhaseMismatch` and the like) are no branches
of the model; they are the invariants `CandidatesInStep` and `ClientPhasesAgree`.
`AuthenticatedPendingCommit` and other phases that exist only inside one call do
not appear. Errors that an input can cause, deadline overflow, exhausted
identifiers, a tag that does not verify, a missing context, are actions and set
`fatal` or `failed`.

**Noise** is symbolic. A `ClientHello` payload is a value; the responder draws a
fresh ephemeral for every payload it accepts; the session identifier and the keys
are the pair of both. A `ServerHello` is authentic for a client if it answers the
client's own payload, a `Finish` message if it is encrypted under the same pair.
Whether the control data inside is the expected one (`Profile::validate_control`)
is a Boolean input.

**Runtime.** The network is the set of all datagrams ever sent; receiving one
does not remove it. A process may end at any moment and be launched again with a
new coordinator. The client sends each message once and one deadline bounds its
whole handshake. Attempt identifiers start at 1 in every process, so a restarted
client uses 1 again. A client's source address is its `bind_addr`, so addresses and
clients are one set.

**Data plane.** Each end is one task. A branch of `select!` is split where it
awaits `send_to` or `write_packet`. A frame is its sender, sequence, nonce, the
ordinal of the packet it carries (standing for its content) and its size. Time is
kept as the time since the last successful activity. Frames reflected to their
sender, and frames of any sequence that do not authenticate, arrive as well. The
reason a loop returns does not name the direction. `DataPlane` lets any ready
branch run; `DataPlaneSelect` adds the poll, which prefers the idle deadline, then
Ctrl+C, then a packet, and the moments between a poll and the branch it settled on.

**Codecs.** A datagram is its length, the fields of the common header and a body.
The codecs read different bytes of the body: an attempt identifier, or a session
identifier with direction and sequence. `Truncate` is what `recv` does to a datagram
longer than the buffer. Each decoder is the conjunction of its checks; which of
several errors a rejected datagram gives is not told apart.

**Legacy mode.** A branch of the loop is one step: nothing else that the loop owns
changes while it awaits. Clients of this mode, peers that run the encrypted mode,
and damaged datagrams share the server's socket. Every read, send, receive and
write may fail, which ends the loop, and so may waiting for the signal, at any turn
(`SignalFails`). `turns` counts what a loop took and bounds the
model; `StatsExact` compares the statistics with it.

**Configuration.** An address is a family and a host, a network a family, a prefix length,
the set of hosts it contains and the host bits it was written with (`bits`, 0 for none):
`IpNet` keeps them, and neither parsing nor validation rejects or clears them. An
optional value is a set of at most one. The key file is represented by whether it
loads, the session limits by the idle timeout and the smallest of the four others. Ports,
bind addresses, gateways and the log level play no part in anything checked here.

**Network lifecycle.** A step is one command (`ip`, `sysctl`, `nft`) or one call that
creates something. It may fail, and then has no effect. Between any two steps the
administrator may change routes, the setting or the table. `holder` says who made an
entry. The kernel keeps a destination without host bits (`Entry`); it masks those of an
IPv6 route and refuses an IPv4 route that has some. `destination_matches` compares with the
destination as it was written, so an entry is found again only if it had none or is the
default route (`Recognized`). The table's fingerprint contains the handle the kernel gave it, which is never
given twice. The previous value of the forwarding setting is 0 whenever Crabnet
changes it, so reverting sets it to 0. `touched` and `fresh` are history variables that
only properties read; `refusal` records which check refused the configuration. The first
turn of the encrypted loop adds the idle timeout to the present `Instant`; `MaxIdle` is the
largest timeout for which there is such an instant, and a larger one is refused there. The
places that listen for Ctrl+C are the forwarding loops; once tokio has registered its
handler it stays, so a later Ctrl+C during cleanup is ignored, and an earlier one ends
the process on the spot.

## 3. Runs

Passing runs:

| Run | Instance | Distinct states | What it checks |
| --- | --- | --- | --- |
| `server_coordinator` | 3 sources, capacity 2, 2 attempts, 2 payloads of which 1 acceptable, 4 identifiers, instants 0 to 4 | 5,621 | `WithinCapacity`, `CandidatesNeverChange`: candidates are bounded, fixed, and identifiers never reused. `CandidatesInStep`: the three maps agree after every call. `SessionsBindPeers`, `EstablishedInTime`: a session belongs to the source and attempt it was offered to and completes before its deadline. `RemovalIsExact`: a datagram leaves the candidates of all sources but its sender in every map as they were, while the server listens; only the sender's own session or a fatal error ends that. `DueCandidatesRemoved`: no call leaves a candidate that was due when it was made. `LifecycleIsMonotone`: no reopening, no second peer |
| `client_coordinator` | 2 clients, 2 attempts, timeout 2, instants 0 to 6 | 1,797 | `ClientPhasesAgree`; `FinishesAnswerHellos`: one `ClientFinish` per attempt, for its own `ServerHello`, under reordered, repeated and foreign answers; `PhasesOnlyAdvance`: a session comes from the finish phase before the deadline, and a closed client has no keys |
| `handshake_contention` | 3 clients, 1 of them not allowed, capacity 1 | 26,300 | `ServerPeerProven`: the server forwards only for an allowed client that proved the session's keys. `DuplicateFinishNeverFatal`. Liveness: `ClientRunResolves`, `CandidatesResolve` |
| `handshake_restarts` | 1 client, 2 runs of each process | 279,123 | `SessionsAgree`: an established client was confirmed by a server that committed the same session, and two sides that forward to each other share keys. `SessionUsedOnce`: no keys serve two data sessions, so nonces are not reused across restarts |
| `data_plane_window` | 5 sequences, window 2 | 72,486 | `NonceUsedOnce` up to exhaustion, the handshake's nonce included; `WindowCorrect`: a sequence is accepted if and only if it is fresh and in the window, and only authentic ones are remembered; `DeliversAtMostOnce`: refinement of `AtMostOnceChannel` |
| `data_plane_select` | packets of length 0 to 3, different limits per side and direction, a signal at any moment | 331,747 | `LimitsHold` although time passes and counters lag while a call is awaited. `CtrlCPreempts`: after a signal at most the one packet already settled on crosses. Liveness: `SessionEnds` |
| `legacy_tunnel` | a server with MTU 2, clients with MTU 3 and 200, one stray datagram, up to 3 turns of a loop, counters up to 2 | 389,232 | `OnePeer`: one client is served, and only a valid frame makes a client the peer. `StatsExact`: what is taken is counted once, and only when it succeeded. `FramesUnambiguous`: what any decoder accepts is what the matching encoder writes, and no datagram suits two codecs or roles, over the datagrams under way and 36 samples at the edges. Liveness: `CtrlCEndsLoop` |
| `network_lifecycle` | 15 files and 6 command lines, every subset of 5 chains, 3 table changes, idle timeouts 0, 1 and 3 against a `MaxIdle` of 2 | 195,431 | `OwnershipTracked`, `LeftoverReported`: nothing Crabnet made is forgotten or left without being reported, but for routes written with host bits (section 6). `PreexistingPreserved`, `ChangedStateKept`: nothing of others is removed. `TransportNotCaptured`: no route captures the client's own transport. `LateRefusalsKnown`: what validation accepts is refused later only in the encrypted mode, by its data codec for the MTU or by its loop for the idle timeout, and then never forwards. `AssessmentConservative`. Liveness: `RestoreCompletes` |

One run of each module also checks the module's type invariant.

Runs in which TLC finds a documented statement violated (section 6):
`server_duplicate_finish`, `handshake_delayed_finish`, `network_ctrl_c`,
`network_large_mtu`.

### Bounds

* `server_coordinator`: three sources are one more than the capacity, so a hello
  is refused at capacity, and two live candidates can interfere. Four identifiers
  and the instants 0 to 4 reach `CandidateIdExhausted` and `DeadlineOverflow`, and let a
  candidate expire and be replaced. Payloads differ only in whether they are
  acceptable; two hellos with the same payload still draw different ephemerals. Sources
  are interchangeable, and no property distinguishes them: symmetry is sound.
* Runtime: `MaxInstant`, `MaxCandidateId` and the numbers of runs are bounds of the
  model. Near the end of modelled time datagrams count as lost (`InHorizon`), so
  that overflow, which `server_coordinator` covers, does not appear here. Two runs
  of each process suffice for an old datagram to meet a new process on
  either side, and for both to happen at once.
* `data_plane_window`: `MaxSequence` stands for `u64::MAX - 1` and `Width` for 1024.
  Five sequences and width 2 let the window slide twice and meet both edges. The
  theorems cover every value.
* `data_plane_select`: `CounterMax` stands for `u64::MAX`. The limits are chosen so
  that each one, and the overflow of the byte counter, is what ends some session.
* `legacy_tunnel`: the server's MTU is the smaller one, so it meets frames it finds
  oversized; counters saturate at 2 within three turns; two clients compete for the
  one place. Strays are a handshake message, an empty datagram and a damaged frame;
  samples are a valid datagram of every kind with each header field and length
  changed by one. The theorems cover every datagram, MTU and number of turns.
* `network_lifecycle`: two operations are enough for a rollback with something before
  and something after the failing one; three table changes for creating, editing and
  replacing. Files and command lines are chosen so that each clause of validation
  that a later check repeats decides some start, and so that overrides change the
  outcome; there are MTUs on both sides of the data codec's limit, idle timeouts on both
  sides of `MaxIdle`, and a route with host bits of each family. The theorems cover every configuration.
* Deadlock checking is off in runs where the processes may all have ended.

### Fairness

* `FairRuntimeSpec`: time passes and due timers fire (`timeout_at`, `sleep_until`).
  No datagram has to arrive and no process to be launched.
* `FairSelectSpec`: time passes, each task is scheduled, awaited socket and TUN calls
  return. Nothing is assumed of traffic, and no branch of `select!` is assumed to be
  served fairly: the order of polling alone brings deadline and signal their turn.
* `FairTunnelSpec`: the legacy loops' `select!` polls in random order, so a completed
  signal future, which stays completed, is chosen eventually. That waiting for the
  signal fails is possible, never due.
* `FairLifecycleSpec`: every command the process awaits returns. The code sets no
  timeout on commands, so this is an assumption on `ip`, `sysctl` and `nft`.

## 4. Proofs

Everything below holds for every value of the constants that satisfies the named
`ASSUME`s, which say what the constructors refuse (a zero capacity, timeout, limit
or MTU), that sets of sources are finite, that bounds are numbers, and that
configurations, arguments and datagrams have their types.

**`ServerCoordinatorProofs`.**

* `ManagerCorrect`, of the manager by itself, and from it `CapacityKept` and `CandidatesStay`
  of the coordinator. That each call makes at most one step of the manager
  (`ServerImplementsManager`) is how the model is written and only carries facts over.
  `ManagerInv` (types, `WithinCapacity`, `IdsDistinct`) is inductive as it stands. Most
  operations keep a part of the map, so one lemma (`PartKeepsTypes`) serves them; `Admit`
  needs the cardinality of a set with one element more (`Grows`, `CapacityStep`). What
  needs counting comes last in the module, after its `INSTANCE` of the library's theorems.
* `ServerTypeCorrect`, `CandidatesAlwaysInStep`: the code's check compares one direction and a count,
  which is not inductive. `CoordinatorInv` states the links between `pending`,
  `registry` and `contexts` in both directions (`MapsLinked`) and the stable
  combinations of states (`PhasesLinked`); equal counts follow because source to
  identifier is a bijection.
* `SessionsAlwaysBindPeers`: from `OfferInv`, that every context has been offered to
  the source registered for it and that ephemerals in messages have been drawn
  already.
* `AlwaysEstablishedInTime`, `RemovalAlwaysExact`, `LifecycleAlwaysMonotone`: action
  properties, from `CoordinatorInv` and one step. `RemovalIsExact` names the sender: that an
  abort in the registry and the contexts, which are keyed by identifier, spares the
  others needs `MapsLinked`, by which two sources never own the same identifier.
* `DeadlinesAlwaysNear`, `DueAlwaysRemoved` (`DueCandidatesRemoved`): what `CandidatesResolve` rests on besides
  fairness. A candidate's deadline is at most one timeout away, and any call of the
  coordinator, a dropped or fatal one included, removes everything that is due: in the
  proof, each of the manager's operations begins with the expiry pass or clears the map.

**`ClientCoordinatorProofs`.** A step of a client closes it, starts it, takes a
`ServerHello` or takes a `ServerFinish` (`StepKinds`); everything else leaves it alone.
`ClientInv` joins types and `ClientPhasesAgree` with `SentInv` and `ErasedInv`.
`FinishesAnswerHellos` is not inductive alone: that a hello is answered once needs that
a client which has not left the hello phase has sent no `ClientFinish`, and that the
hello its context remembers is among those it sent. Results: `ClientTypeCorrect`,
`PhasesAlwaysAgree`, `FinishesAlwaysAnswerHellos`, `PhasesAlwaysAdvance`, for any number of
clients, any timeout and any order of answers. They are about one process per client; a restarted
client is a new coordinator, which `NoiseRuntime` adds.

**`NoiseRuntimeLemmas`, `NoiseRuntimeProofs`.** About the composition: any set of
clients, any number of runs of each process, datagrams of every earlier run under way.
`RuntimeAssumption` says that the allowlist is of clients' keys and that timeouts, instants
and runs are numbers. None of the properties is inductive; what carries them is an order
of age, the number of responder ephemerals drawn so far. `RuntimeInv` has four parts.

* `SentInv`: a hello is answered by one `ClientFinish` at most, and whatever the server
  says to a later run of a client has a younger ephemeral than what an earlier run of that
  client confirmed.
* `ClientsInv`: what a client's coordinator holds is of its present run. Before its
  `ServerHello` no `ClientFinish` answers its hello; after it, its own has been sent; an
  established client has been confirmed.
* `CandidatesInv`: a candidate was offered to the client its hello names, and is younger
  than every session confirmed by this server process or an earlier one.
* `ServerInv`: the loop and the coordinator are in step; an established session is of an
  allowed client that sent the `ClientFinish` for it, and no confirmed session is younger.

A step of one side leaves the other's part alone (`ClientsUndisturbed`,
`ServerUndisturbed`), since messages under way only become more. The server's many
branches come down to four: candidates are removed (`Prune`), all of them are (`Clear`),
one is admitted (`AdmissionKeeps`, the youngest) or committed (`CommitmentKeeps`). Results:

* `ServerPeerAlwaysProven`: the server forwards only for an allowed client that proved the
  session's keys.
* `DuplicateFinishAlwaysHarmless`: a duplicate `ClientFinish` never reaches the provider
  without its context, because the loop leaves with the session.
* `SessionsAlwaysAgree`: an established client was confirmed by a server that committed the
  same session, and two sides that forward to each other share keys. Were the
  server's session of an earlier run of the client, it would be older than the one the
  client was confirmed, although no confirmed session is younger than the server's.
* `SessionsAlwaysFresh`, an action property: a server enters the data plane with a session
  that was never confirmed before, by any of its runs, so no keys serve two data sessions
  and nonces are not reused across restarts.
* `RunsAlwaysBudgeted`, `RunDeadlineNeverMoves`: what `ClientRunResolves` rests on besides
  fairness. The deadline that `run` computes is not moved by anything that arrives, is at
  most one timeout away and is never after the coordinator's, which every phase renews: an
  accepted `ServerHello` sets that one to a full timeout from then.

**`DataPlaneProofs`.** `DataInv` joins the types with `SentInv` (a frame's sequence is
below the next one and determines the frame), `WindowInv` (what was delivered is
remembered or below the window, and nothing else is remembered), `CountersInv` (sequence
and deliveries equal the counters, plus one while a call is awaited) and the limits.
Results: `DataTypeCorrect`, `NoncesAlwaysFresh`, `WindowAlwaysCorrect`, `LimitsAlwaysHold`
and `DataPlaneIsAtMostOnce`, the refinement of `AtMostOnceChannel`. `WindowInv` is needed
for the refinement: that a frame is not delivered twice follows from what the window
remembers, not from the frame. `SelectImplementsData`: every step of the loops with the
order of polling is a step of the loops without it, so all of this holds of
`DataPlaneSelect` as well. `CtrlCAlwaysPreempts`: after a signal at most one more packet
crosses. `CtrlCPreempts` is not inductive; `SelectInv` adds that none has crossed since the
signal while the packet the loop had settled on is still to be handled.
`CreditAlwaysBounded`, `ActivityAlwaysPaid`: what `SessionEnds` rests on besides fairness. The
packets an end may still count are a natural number that never grows, and a step that
sets back the idle time uses up one of them. So the idle time is set back finitely often,
whatever is replayed or forged, and between two such steps it grows up to the timeout.
That the counters of a loop that has returned are within the limits does not follow from
`CountersInv`, which is about running loops, and is shown along with it.

**`LegacyTunnelProofs`.** `DatagramsUnambiguous` is about the codecs alone, for every
datagram and MTU: the buffer is one byte longer than the largest frame, so a
truncated datagram is longer than its declared length admits; versions and kinds
separate the codecs. `TunnelInv` joins the types with `AtMostOne`, `Routed` (what the
server sent goes to its peer), `OnePeer`, `ClientsServed` (only the peer was served)
and `StatsExact`. `OnePeer` is not inductive alone: that a client which received a
packet of the server's is the peer needs that every such message under way is
addressed to the peer. Results: `TunnelTypeCorrect`, `AlwaysOnePeer`,
`StatsAlwaysExact`, `FramesAlwaysUnambiguous`.

**`NetworkLifecycleLemmas`, `NetworkLifecycleProofs`.** `Phases` says what the command
the process is at implies for the managers: lists are empty before the first
operation, nothing has failed before cleanup, every step after validation has a
valid configuration. Steps fall into four kinds: those of the route manager, those on
the table, the administrator's and the rest; each part of `LifecycleInv` is shown for
each kind. `RoutesInv` relates the lists with the host: what Crabnet holds is the entry of
a listed operation, without exception while it installs and but for unrecognised ones after
that; what is listed and is the administrator's was touched, the operations before `index`
are in place. `TableInv` does so for the table: until somebody touches it, a loaded
table has Crabnet's rules. `ReportInv` ties what remains at the end to
`cleanupFailed`. Results: `LifecycleTypeCorrect`, `OwnershipAlwaysTracked`,
`LeftoverAlwaysReported`, `TransportNeverCaptured`, `LateRefusalsExact`,
`AssessmentAlwaysConservative`, and the action properties `PreexistingAlwaysPreserved`
and `ChangedStateAlwaysKept`. `LateRefusalsExact` rests on `ValidPasses`: the checks of
`build_nat_spec`, the session limits, the keys and the plaintext and handshake codecs
follow from `Config::validate` for every configuration. Two checks are left: the encrypted
data codec refuses exactly the MTUs above 65389, the first turn of the encrypted loop
exactly the idle timeouts past `MaxIdle`, and a process with either never gets to forward.

`CleanupAlwaysAdvances` and `CleanupAlwaysBounded` are what `RestoreCompletes` rests on besides
fairness. `CleanupWork` counts the commands cleanup may still run; each command, whether
it succeeds or fails, makes it smaller and goes on with cleanup or ends the process, and
an administrator's step leaves it alone. It is bounded by three per operation of the plan
and three more, because no operation is ever recorded twice (`LedgerBounded`): one that
could not be reverted is kept in `failed`, and goes back to `applied` only when cleanup
has left the routes.

## 5. Only model-checked

* All liveness properties: fairness and `ENABLED` are outside the prover. These are `ClientRunResolves`,
  `CandidatesResolve`, `SessionEnds`, `CtrlCEndsLoop` and `RestoreCompletes`. Every invariant
  and action property of the passing runs is also a theorem.
* Of four of them the part without fairness is proved, for every value of the constants:
  the deadlines and ranking functions of section 4. What TLC alone shows is that the
  timers and commands, being enabled and fair, are in the end taken. `CtrlCEndsLoop` has
  no such part besides `CtrlCAlwaysPreempts`.

## 6. Where documents and code disagree

* `handshake_delayed_finish`. A `ClientFinish` whose tag does not verify under the
  keys of the present candidate makes the provider return an error, the
  coordinator fail closed and the server process end. A client that restarts
  while its first `ClientFinish` is delayed is enough. `docs/noise-ik-provider-design.md`
  (line 471) calls a decryption failure an expected remote rejection, and
  `docs/handshake.md` (line 123) says an invalid remote message is not a local
  program failure.
* `server_duplicate_finish`. A second `ClientFinish` of the established peer is
  permitted by the policy, but the provider has moved the context away by then
  and the coordinator fails closed. `docs/handshake.md` (line 146) says the
  confirmation may be prepared again. The runtime stops driving the coordinator at
  establishment, so the process is not affected (`DuplicateFinishNeverFatal`).
* `network_ctrl_c`. Ctrl+C during the handshake ends the process without cleanup. In the
  trace the routes and the forwarding setting were there before, so what Crabnet leaves is
  its NAT table. `docs/noise-ik-provider-design.md` (line 480) says orderly shutdown with OS
  cleanup.
* `network_large_mtu`. An MTU above 65389 passes validation. In Noise-IK mode it is
  refused by `DataFrameCodec::new`, which is called after TUN, routes and NAT are in
  place and the handshake has completed. `docs/encrypted-v2-data-plane-design.md`
  (lines 709 and 710) builds the codec before TUN and networking state.
* No run, but worth knowing: `idle_timeout_seconds` is checked to be positive only. One so
  large that the present instant plus it is not representable is refused with
  `DeadlineOverflow` (`src/data_plane/session.rs`, lines 410 to 414) in the first turn of the
  encrypted loop, with routes, NAT and session in place. `LateRefusalsKnown` names this
  refusal and that of the MTU; `LateRefusalsExact` shows that there is no third.
* No run, but worth knowing: an IPv6 route written with host bits, such as one to host 5 of a
  /64, is installed masked. At cleanup `destination_matches` (`src/routing/linux.rs`,
  lines 432 to 443) does not find it, `revert_route` takes it for removed and returns `Ok`, and
  the route stays without being reported. `OwnershipTracked` and `LeftoverReported` except
  exactly these entries (`Unrecognized`); without the exception TLC finds them violated.
* No run, but worth knowing: `docs/encrypted-v2-data-plane-design.md` (line 839) maps
  a sequence to nonce `sequence - FIRST_SEQUENCE`, the code to the sequence itself.
  `NonceUsedOnce` holds of the code and fails with the documented mapping, because
  nonce 0 belongs to the `Finish` message under the same key.

## 7. Not modelled

* `src/crypto/fake.rs`: a test double that no build of the program constructs.
* The bytes of prologue, control data and keys (`src/crypto/noise_ik/profile.rs`,
  `keys.rs`): Noise is symbolic, so no property could tell them apart.
* `ChangedStateKept` is about the table as it was listed by a command after `nft -f` loaded
  it; what changes between the two is taken for Crabnet's. When that listing fails, the table
  is deleted without a comparison, which the property leaves out.
* Texts: TOML, the arguments and output of `ip`, `sysctl` and `nft`, logging. The models
  contain what is concluded from them.
* Methods of the server policy that no coordinator calls
  (`handle_authentication_failure`, `handle_unexpected_message`, `classify_data`,
  `reject_authenticated_*`).
* Starvation of the socket by an always readable TUN: the biased `select!` allows it, and
  whether a device is always readable is outside the program.
* The key generator `src/bin/generate_noise_keys.rs`: it writes one file.

## 8. Running

In this directory:

    tlc -workers 2 -config MCServerCoordinator.cfg MCServerCoordinator
    tlapm ServerCoordinatorProofs.tla

`PROJECT.json` pairs every configuration with its module. The definitions whose
comment begins with "Mutant" are plausible mistakes in the definition they are
named after; replacing that definition by one of them makes TLC report the
property that `PROJECT.json` pairs it with.
