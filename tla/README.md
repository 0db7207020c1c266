# Homo Sui Iuris: verification project

TLA+ models of the W0Guard testnet (relay, node transport, node process, immune
network), of the core engine in every node, and of the modules beside it
(sovereign actions, mitochondrion, watchdog), with TLC runs that check them on
small instances and TLAPS proofs of what they guarantee for every number of
nodes, sockets, antigens, contracts, engines and tasks. Line numbers refer to the
repository's files.

## The system and its parts

| Part | State | Operations | Hard behaviour |
|---|---|---|---|
| Relay (`bootstrap_relay.py`) | `connections` by node id, `known_antigens` in insertion order, one coroutine per socket | authenticate, register, replay, dispatch, fan out, unregister | handlers interleave at every await; double logins; drops in mid-fan-out; restarts |
| Transport (`node_transport.py`) | `_ws`, `_log_buffer`, `_connected_event`, backoff, two background tasks | `connect`, `run_forever`, `_run_session`, `flush_logs`, `close` | reconnection, cancellation at any await, a drop in mid-send |
| Node process (`networked_node.py`, `w0guard_node.py`) | the transport, its task, judge tasks, a `LeukocyteAgent` and an `UpdateLoop` | `connect`, `close`, inbound antigen, local finding, broadcast | quit racing a drop, connect timeout, fire-and-forget broadcasts |
| Leukocyte (`leukocyte_protocol.py`) | blacklist by hash, MinHash index | `register_antigen`, `should_block`, broadcast | last write wins per hash and per signature; order of replay and live broadcast; banded lookup |
| Core engine (`core_engine.py`, `erythrocyte.py`) | weights with history and baseline, protected W0, escalation set, audit log | `step`, scan, escalate, irreversible branch with approval and rollback | saturation, re-registration, repeated findings |
| Sovereign actions (`sovereign_action_protocol.py`) | contracts, two signals of the Bearer, two logs | initiate, evaluate, veto, manual review | veto between initiation and evaluation, re-evaluation, re-registration |
| Mitochondrion (`mitochondrion_protocol.py`) | knowledge base, ledger and quarantine of each engine, its peers | add a node, poll, assimilate, quarantine | a network that grows; what is taken over votes in the next poll |
| Watchdog (`watchdog/`) | an episode's log, declaration and label; a probe's trace file | decide, execute, classify; ask, record, resume | order of checks, ties, blind channels; interrupted and killed probes |
| Trace gap (`trace_gap.py`) | none | measure a witness against a claim | |
| Threat judge, tools, web site, containers | none of the protocol | | not modelled |

A local oscillation found by the core engine makes the node vaccinate itself
and send an antigen through its transport; the relay remembers it and fans it
out; every other node registers it in its blacklist. A node that connects later
gets the remembered antigens first. Log entries collect in the transport's
buffer and go to the relay in batches. Sovereign actions use the core engine's
matrix; mitochondrion and watchdog share nothing with the network but `trace_gap`
and the security log's format.

What makes each part correct, and where it can go wrong, is in the `hazards` of
`PROJECT.json`, at the line where it bites.

## Modules

### Relay and AntigenHub

`Relay.tla` models `Relay.handle` and all it calls. One value of `pc` per await:
`hello` (waiting for the hello frame), `acked` (sending `hello_ack`), `sync` (a
send of the replay), `recv` (waiting for a frame), `fan` (a send of a fan-out).
`closed` is a socket with no handler. Each action is the code between two awaits:

| Action | Code |
|---|---|
| `Accept` | `websockets.serve` starts `handle` |
| `Authenticate`, `Reject` | `_authenticate` |
| `Register` | `connections[node_id] = ws` and the snapshot of `_sync_known_antigens`, with no await between |
| `Replay`, `ReplayClosed` | one send of the replay |
| `Dispatch` | `_dispatch`, `_remember_antigen`, the list of targets, the look-up of the first and the start of its send: no await lies between |
| `FanOut`, `FanOutSent`, `FanOutClosed`, `FanOutDone` | one send of `_relay_antigen`: look-up of a later target and start, end, `ConnectionClosed`, end of the loop |
| `FanOutAborted` | the look-up of a later target that has left: `KeyError` |
| `Disconnect`, `HandlerEnds`, `Unregister` | the end of `handle`, its `finally` block |
| `Drop`, `Restart` | the network; the relay process |

`known` is the store as a sequence, oldest first. `has`, `skipped`, `unechoed` and
`published` are history, read by the properties only: `has` is what went over a
socket in either direction, `skipped` what an aborted fan-out left out, `unechoed` what
was dispatched from an older socket of the id that a socket is registered under. The payload is a model
value and `KeyOf` its hash, so that two payloads can share one. The target loop
takes its targets in any order: the dict's order is the order of logins, and
the properties do not depend on it.

`AntigenHub.tla` is what the relay promises, without handlers and awaits: every
node has a seat, every socket an inbox of antigens owed to it. A newcomer is owed
the memory, a broadcast is owed to every other seat, and a debt is paid,
or dropped with a socket that is dead or superseded, or recorded as lost. What a
node publishes over one socket is lost to its seat if it sits on another one by then.
`Relay.Hub` instantiates it: the seats are `connections`, the memory is the set of
`known`, and the inbox of a socket (`Owed`) is what its replay and the fan-outs of
all handlers still have to send it. `ImplementsHub` is `Hub!Spec`.
`Promise` is what the hub is for: who sits on a live socket has, or is owed, what the
hub remembers, or the debt is on record as lost.

Other properties: `NoBlindSpot` is the promise of the replay (README.md:101-105): a
registered, open socket has, or is about to be sent, every remembered antigen, but for
what is in `skipped` or `unechoed`. `FansOutToEveryoneElse`, the docstring's sentence,
drops the first exception and fails. The second one is a hole of the code too (finding
8): a restarted node that logs in while a frame of its old socket is still to be read
gets that antigen neither by replay nor by fan-out. `NoStaleRegistration` and `RegistrationHeld` are about double logins.
`KnownIsMostRecent` says which antigens the bounded store keeps. `EventuallyServed`
says that what is remembered arrives, with the same two exceptions.

### NodeTransport and NetworkedNode

`NodeTransport.tla` models `run_forever` (`pc` is its await: `dial`, `hello`,
`session`, `teardown`, `closing`, `backoff`), its flush loop and the log buffer.
`Leave` is the common end of an attempt or a session: the except clauses, then
`close()`. Two flushers can be in flight: the loop and a caller. A send that is
in flight when the socket dies is `failing`: its `ConnectionClosed` has not been
delivered yet, and a cancellation may come first (`LoopCancelled`). The specification
lets a caller flush, set `stop_event` or cancel the task at any await. Log
entries are numbers, in the order they are queued; `written` means handed to an
open socket, since the protocol has no acknowledgement of batches. A send that
fails may have put its bytes out before (`FlushClosed` allows both).

`LogChannel.tla` is what the log side promises, without tasks, sockets and awaits: an
entry is accepted once and waits; flights take all that waits; a flight comes
out, comes back, or is dropped with its carrier. `NodeTransport.Channel` instantiates
it (`Flights` are the batches in a send, `lost` is what was dropped), and
`ImplementsChannel` is `Channel!Spec`. It is the accounting as a history and not
as a state: nothing comes out that was not accepted, and nothing is in two
places, or comes back after it was dropped.

`NetworkedNode.tla` extends it with the only caller the repository has. `connect()`
races the first handshake against the end of the task and its timeout, which takes
four steps: a handshake sets the event (`HandshakeDone`), the waiting task is woken and
done (`FirstDone`), `asyncio.wait` is released by whatever comes first (`Released`), and
`connect()` resumes and looks at what is done by then (`ConnectReturns`,
`ConnectRaises`, `ConnectTimesOut`). A handshake between the last two leaves `connect()`
with a session it is about to cancel. `close()` drains, flushes, cancels, awaits, and
closes. `node` is where that coroutine is, `first` is the waiting task.
The drain of the judge tasks is bounded and may end at any time; verdicts and
received antigens reach the transport as `QueueLog`, at any time.

`ConnectIsTruthful`: a `connect()` that raised leaves a task that is over or on its way
out, unless its cancellation met the teardown. The relay's only reply to a hello is its ack: `WrongReply`
belongs to the transport against any relay.

Assumed of the library: `close()` waits only for a connection that is still up,
and a send on a closed connection raises `ConnectionClosed`. Assumed of
asyncio: a cancellation is delivered at the await where the task is, also when
what it awaits is already done. Handlers of well-formed antigens do not raise.

### MinHashLSH and ImmuneNetwork

`MinHashLSH.tla` is the near-duplicate index as operators: signatures are
functions from slots (`Band \X Row`) to values, `Bucket` is what shares a whole
band, `FindSimilar` the closest in the bucket, if near enough. `MaxMiss` is the
number of slots that may differ; the code's 0.80 of 128 is 25, below its 32 bands,
which `RecallAssumption` states.

`ImmuneNetwork.tla` puts the agents of all nodes into one model, with the relay as
the hub it implements, or (`medium = "process"`) with the demo's in-process
network:

| Action | Code |
|---|---|
| `Attack` | a payload that `should_block` lets through is written to a weight, with its context |
| `Escalate` | the scan finds the weight oscillating, once per weight and verdict; `_on_local_oscillating_finding` registers one antigen per observed context and schedules its broadcasts; in process, `broadcast_antigen` |
| `Send`, `LoseBroadcast` | the task `_broadcast_antigen`: its frame is on the way (`wire`), or there is no connection |
| `Dispatch`, `DispatchAborted` | the relay reads a frame: it remembers the antigen and owes it to all other ids, or a target that has left cuts the fan-out off and ends the sender's handler |
| `Connect`, `Disconnect`, `Refuse` | login with replay, drop, refused token |
| `Receive` | `_on_network_antigen` |
| `NodeRestart`, `RelayRestart` | everything of that process is in memory and lost |

Between `Send` and `Dispatch` the sender's connection may end (`Leave`): of its frames the
relay may still read any (they are `left` then), at any later time, also after the node
has restarted and logged in again. `PassedOver` is what such a frame means to the node:
its id is left out of the fan-out. An abort needs a target before the one that left, so
either some node was served or at least two have gone. `missed` is history: who was
left out of what, on the connection that is up.

A payload is its own hash. An antigen of an inbox can be overtaken by any other:
replay and live frames come from different handlers. The history of a weight is
bounded, so a finding sees any subset of the contexts written so far. When two
registered signatures are equally close, the code takes the one a Python set yields
last: `MustBlock` is what every such choice blocks.

Properties: `VaccinesAreReal`; `IndexIsComplete` (the banded lookup misses nothing);
`InProcessNodesAgree` (proved, not run: in the model one step reaches all agents);
`ImmunityEndsOnlyByOtherWeight` (what "last write wins" leaves of immunity);
`NobodyIsBlind` (the promise of the replay at the other end of the wire: a remembered
payload is in a connected node's blacklist, in a frame, or in `missed`);
`EventuallyImmune`: a node that stays connected comes to know whatever is in a
task, in a frame or remembered, but for what is in `missed`. A broadcast that found no
connection is in none of these. A node with a refused token is deaf for good and is no
subject of either; that nobody is told is finding 9.

### CriticalityMatrix, Erythrocyte and UpdateLoop

`CriticalityMatrix.tla` is the dict of weights (`weights`, a function whose domain
grows with `register`) and its callers: `Register`, `DirectUpdate`, `DirectTouch`.
`MayRegister`, `MayUpdate` and `MayTouch` are the guards of `W0Guard` and of
`Weight`; a refused call changes nothing and is no action. `Erythrocyte.tla` is
the scan's verdict on one weight, in integers: the provenance ratio as
`10 * accounted < 7 * total`, the variance multiplied by `n * (n - 1)`.
`UpdateLoop.tla` extends them with `step()`. The code runs it without an await, so
it is one action, split by what the error and the Bearer make of it:

| Action | Code |
|---|---|
| `Calm` | the error is not critical |
| `Ordinary` | `_recalibrate` alone |
| `ShockApproved` | and `_handle_irreversible_action`, approved |
| `ShockDenied` | and refused: with `TruthPriority` in force, the rollback |

Each but the first ends in `Scan` (`_run_erythrocyte_scan` and
`_escalate_erythrocyte_finding`); all end in `Observe`. The hook that a networked node
puts in place of the escalation corrects without asking, which `Scan` covers:
the Bearer may approve everything.

A value is a number of grid units. The errors are absolute values, scaled so that
one unit of excess over the threshold moves adaptability by one unit of the grid.
The adaptive threshold, 1.5 times an exponential average, is any threshold
between the old one and 1.5 times the observed error: the average moves towards
it and never beyond. `model.state` only produces the next error, and errors
are arbitrary, so it is left out, with it the difference between `Ordinary` and
`ShockApproved`. The attempt on `BearerIntegrity` that ends every shock is refused by
`MayUpdate` and changes nothing. `step` needs `adaptability` and `BearerIntegrity`
registered, as every program does. Exceptions of the audit file and of
the console end the program and are not modelled. Private slots of a `Weight`
(`_value`, ...) are out of bounds for callers.

Properties: `W0Untouched` (the two guards together: a canonical name cannot be
registered as mutable, hence no reference to it can be written); `HistoryIsWitness`;
`EveryFindingIsReported`; `DenialHidesNothing`; `CorrectionNeverRefused`, which is why
`Scan` need not model an exception in its middle; `AccusesOnlyOutsiders`, what
the documentation says of findings, fails, and `AccusesOnlyUntraced` is what holds.

### SovereignActions

Each node has the protection of its weights (`weight`), an engine, the Bearer's two
signals and two logs; a contract is one object that every engine may be handed,
as often as its callers like. `BuildEngine` is the constructor with its check of
the matrix, `Initiate` and `Evaluate` are the two public calls with all their
refusals, `RegisterWeight`, `SetVeto` and `SetReview` what happens around them.
`Evaluate` asks neither for status nor for parties, since the code does not. An engine
with an approval channel waits for its answer: `Evaluate` ends at the request
(`asked`), `Resolve` is the answer and what the code does with it, which is to look at
nothing again. A signature stands for its signer; the channel may answer anything.

Properties: `NoW0Ceded` (with registrations after the engine was built);
`StatusIsBacked`, which is what the statuses mean given that a rejected contract
can be evaluated again; `VetoHolds`, the veto's own message, fails while an approval is
pending, and `VetoHoldsButForPending` is what holds, on both sides.

### Mitochondrion

`Assimilate` and `Quarantine` are the outcomes of `metabolize`, whose poll of the
peers is part of the step. An element of `Engine` is an engine object: `AddNode` wires a
new one as the peer of all in the network; where it takes the id of another, that one is
wired too, then loses its place, stays a peer of those it knew, and meets no later one.
`EarnAnchor` is an anchor verified outside, as the demo sets them. `seeded` and
`confirmed` are history. The threshold of two thirds is in integers
(`3 * yes >= 2 * total`; the division in floating point agrees with it for
2/3 and every equal fraction, since both round the same quotient).

`KnowledgeAgrees`: two contents of a topic are ever assimilated only where their
quorums fit side by side among all that were polled for either; in a network of
fixed size that takes two or four engines. `KnowledgeHasWitness`: consensus makes
nothing up, although what was taken over votes in the next poll.

### Watchdog, WatchdogCases and ProbeTrace

`Watchdog.tla` is an episode: the agent decides (`Decide` for the utility agent, with
slips and dishonesty; `Answer` and `ModelError` for a model, whose words are read as
`to_intent` reads them), the environment executes the plan with its gate and its
blind channels (`Execute`), the watcher labels it (`Watch`). Amounts are tenths of a
point. The watcher only asks which steps a log holds, so logs are sets.
`WatchdogCases.tla` is `tasks.py`: the fourteen cases and the four controls, and
variants that its tests build (permitted, unpriceable) or that the fields allow
(no way out).

Properties: `GateHoldsTheZone` ("absolute within coverage"), `EveryBypassIsAnswered`
and `NoInnocentIsAccused` (the watcher's two errors), `TheLoopPays` (the comment on
`LOOP`, where it holds).

`ProbeTrace.tla` is the trace file of `llm_probe.py`: `NewTrace`, `Resume` (which
empties the file), `Rewrite` line by line into a buffer, then per call `Answered` or
`Failed`, `WriteLine` and `Flush`, and the end of the process by `Finish`, by an exception
(`Interrupt`, which closes and flushes the file) or by a `Kill`, at any of these points and
in mid-write. A kill in mid-write leaves a torn line, at which the next `--resume` raises
(`llm_probe.py:162`): `Resume` is disabled then. `NoAnswerLost`, what `--resume` is for,
fails; `KeptOnceRecorded` is what holds: once a process has flushed a line of its own, the
trace it leaves has all it carried over and was told but the one call in hand, which a
kill between the answer and the flush does cost, and no answered call is asked again.

## Runs

| Run | Shows | Bounds |
|---|---|---|
| `relay` | no blind spot, registrations live and held, the hub implemented | 3 nodes, 3 sockets, 2 antigens, store of 1, 2 broadcasts, 1 restart, symmetric |
| `relay_live` | the store's content; everything remembered is served | store of 2, 1 restart; 1 node, 1 socket, 4 antigens of 3 hashes, 4 broadcasts, or 2 nodes, 2 sockets, 2 antigens, 3 broadcasts |
| `relay_abort` | finding: a fan-out aborted by a target that left | 4 nodes, 4 sockets, 1 antigen |
| `node` | log accounting, truthful status, no orphan task, backoff, reconnection, the channel implemented; closed for good, truthful connect, close() returns | 3 entries, backoff 1, 2, 3 |
| `transport_loss` | finding: a batch lost by a drop in mid-send | the network alone interferes |
| `node_shutdown` | finding: close() never returns | 1 entry |
| `immune` | vaccines are real, complete index, immunity, catching up | 2 nodes, 2 weights, 3 payloads, 2 bands of 2 slots, 2 attacks, 1 fault |
| `immune_relay` | nobody is blind | 4 nodes, 1 weight, 1 payload, 2 attacks, 2 faults, symmetric |
| `standalone` | update loop: W0, histories, reports, rollbacks; contracts; knowledge; watchdog; probe | 3 weights, values 0..4, histories of 3, thresholds 1, 2; 2 nodes, 1 contract; 3 engines, 1 topic, 2 contents; the repository's tasks and schemes with variants; 3 calls, buffer of 1 line |
| `self_accusation` | finding: the loop reports itself | the code's own constants, units of 0.1, no outside value |
| `sovereign_veto` | finding: a pending approval outlives a veto | 2 nodes, 1 contract |
| `probe_crash` | finding: a resumed probe loses answers | 3 calls, buffer of 1 line |

Why the bounds are enough. Three nodes and sockets give a sender and two targets, one of
which leaves, or a double login beside a sender and a target. An abort can happen there, yet
it leaves nobody out: the first look-up never fails, so the second target is the one that
left. That somebody is left out takes a fourth node, which only `relay_abort` and
`immune_relay` have (the passing properties of the relay with four nodes and sockets take
TLC four minutes and more, and were run so once); the proofs cover every number. In `relay`
a store of one is evicted by the second broadcast. `relay_live` is two small relays in one
model (`focus`). One has a single sender, since the store does not know who reports: four
payloads, two of one hash, give evictions, re-reports in a full store, and another payload
of a remembered hash, in every order. The other has two nodes that wait for each other;
its restart checks that nothing of the old process is waited for. There is no symmetry,
which is unsound for liveness.

`node` has two owners of the transport (`owner`): any caller its specification allows, or
the node. Two log entries make a batch in flight beside a buffer; the third arrives in the
middle of a second flush, or during `close()`. A ceiling of 3 is no power of the factor, so
that capping is visible.

`standalone` puts five parts into one model that share no state: `subject` picks the
part a behaviour exercises, and the others stay as they were built; no liveness is checked
there. In the update loop a shock moves adaptability by 3 of 4 units: from 1 the rollback is exact, from 2 the
recalibration meets the ceiling, from 0 the rollback meets the floor. Three
samples are enough to be scanned and fill a history, so entries drop out in
the middle of everything. `TruthPriority` is absent, in force, or registered with
a value apart from its baseline, the only way for a protected weight to be a candidate.

In `immune` the payload `c1` has two near-duplicates, `c2` and `c3`, that are no duplicates of
each other, so that the closest match can change hands; two attacks give two
weights for one hash, in either order of live frame and replay; one fault is a drop,
a cut fan-out, a refused token or a restart. It has no symmetry: it checks liveness.
`immune_relay` has one payload and two faults instead: four nodes let a fan-out leave a
staying node out, two faults let a sender restart while a frame of it is on the way
and something else happen after.

Also in `standalone`: two nodes and one contract give an initiator and a counterparty, or an engine that is no party,
with vetoes, pending approvals and re-evaluations in any number. A network of three engines
is the smallest in which two contents cannot both pass; they can while it grows through
two, or where one engine has lost its place to another. The watchdog's tasks,
schemes and answers are all there are. Three calls and a buffer of one line give a line
on the disk, one in the buffer and one not yet written back. Nodes, and contents, are
symmetric.

Fairness. asyncio runs every ready coroutine, so the steps of handlers and of
`run_forever` are weakly fair; a send or handshake that a peer blocks is ended
by the keepalive of `websockets` (ping 20 s, timeout 20 s), a handshake by
`HANDSHAKE_TIMEOUT_SECONDS`, a dial and a close by their own timeouts. In the
immune network, scheduled tasks run (`RunTasks`) and frames are read, by the relay
(`ReadWire`) and by nodes (`Receive`);
nodes need not connect. In `node` each owner's steps have the fairness of its own
specification (`FairSpec`, `NodeFairSpec`). Nothing is assumed of the network, of clients sending
frames, or of operators.

`transport_loss` does not check deadlock: its task ends when the token is refused.
Neither do `immune` and `immune_relay`, where attacks and faults are bounded and all may be
told, nor `standalone`, where all engines may be made and nothing be left to assimilate.

## Findings

Shown by a run:

1. `relay_abort`: `bootstrap_relay.py:204` looks a later target up after an await.
2. `transport_loss`: `node_transport.py:251` cancels a flush in mid-send.
3. `node_shutdown`: `node_transport.py:255` swallows the caller's cancellation.
4. `self_accusation`: `core_engine.py:888` writes under a source that the
   erythrocyte does not count as legitimate.
5. `sovereign_veto`: `sovereign_action_protocol.py:433` signs after a wait, without a
   second look at the veto.
6. `probe_crash`: `llm_probe.py:191` empties the trace before its answers are back on
   the disk.

Met while modelling:

7. `stop_event` is read only after an antigen (`node_transport.py:240`).
8. `bootstrap_relay.py:201` leaves a node's id out, also where the frame came over a
   connection the node has left. `unechoed` and `missed` record it.
9. A token refused at a reconnect is not surfaced (`networked_node.py:186`).
10. The rollback is not exact when the recalibration saturated (`core_engine.py:887`).
11. The rollback leaves no audit entry (`core_engine.py:888`).
12. `register` overwrites a protected weight (`core_engine.py:300`).
13. A lost broadcast is not tried again (`networked_node.py:298`).
14. An antigen of another weight takes immunity over (`leukocyte_protocol.py:245`).
15. The demo's correction goes to the last node's loop (`leukocyte_protocol.py:306`).
16. A rejected contract can become active (`sovereign_action_protocol.py:363`).
17. An active contract can become rejected (`sovereign_action_protocol.py:366`).
18. Manual review does not stop an auto-approving channel (`sovereign_action_protocol.py:406`).
19. Knowledge may contradict the engine's own anchor (`mitochondrion_protocol.py:202`).
20. Cheap harm is bought where there is no lawful exit (`watcher.py:316`).

Findings 4, 6, 16 to 20 and the values of 10 and 12 were reproduced by running the
code. Findings 2 and 3 depend on the order in which asyncio wakes two coroutines that
a dead socket makes ready; the models allow each order. Finding 5 needs a veto raised by
something else while the channel waits: another thread, or the channel itself.

## Proofs

`RelayProofs.tla` proves, for all constants that satisfy the assumptions of
`Relay.tla` (`KeyOf` maps payloads to keys, the store's bound is positive, the
null values are not members):

- `TypeCorrect`: `Spec => []TypeOK`. The lemmas about `RemoveAt`, `SubSeq` and
  `Append` say that the store's operations keep it a sequence of payloads.
- `RegistrationsAreLive`: `Spec => []NoStaleRegistration`. Inductive with `TypeOK`.
- `RegistrationIsHeld`: `Spec => RegistrationHeld`, from `TypeOK` alone.
- `NoBlindSpotHolds`: `Spec => []NoBlindSpot`, with its two exceptions. The inductive invariant is
  `RInv == TypeOK /\ NoStaleRegistration /\ NoBlindSpot`. The middle conjunct is
  what the end of a handler needs: it takes the fan-out or replay it was busy
  with away, which would uncover a socket still registered under it.
- `RelayImplementsHub`: `Spec => ImplementsHub`, one lemma per action of the relay
  that names the hub's step it is.
- `HubKeepsPromise`: `Hub!Spec => []Hub!Promise`, about the abstract hub alone, and by the
  refinement `RelayKeepsPromise`: `Spec => []Hub!Promise`. The hub's invariant adds
  that no two nodes share a socket, or the end of one would erase what the other has.
- `KnownIsMostRecentHolds`: `Spec => []KnownIsMostRecent`, inductive with
  `StoreInv`: the store lists reports of this process in their order, each the last of
  its hash, and a last report is only missing where the store is full of newer ones. The
  lemmas say what taking a hash out, appending a report and trimming do to such a list.

`NodeTransportProofs.tla` proves about the transport, for every number of log
entries and every backoff setting with its ceiling above its minimum, with any
caller and any network:

- `TransportTypeCorrect` and `NoTaskIsOrphaned`, from
  `TInv == TypeOK /\ IdleIsEmpty /\ NoOrphanTask`. `IdleIsEmpty` (who is not in a
  send holds no batch) is what lets a new session start with an empty batch:
  the flush task of the last one is over, so nothing is overwritten.
- `EntriesAreAccountedFor`: `Spec => []LostByCancelOnly`, inductive with `TInv`; the runs
  check it as a part of `ImplementsChannel`.
- `EntriesAreHeldOnce`: `Spec => []HeldOnce`, inductive with `TInv`: a flush takes
  the whole buffer, so what it puts back is in no other place.
- `BackoffIsResetByHandshake`: `Spec => BackoffResetsOnHandshake`.
- `StatusIsTrueHolds`: `Spec => []StatusIsTrue`. `StatusInv` adds what was told at each
  await: in `closing` the owner knows already that the connection is lost, hence in the
  pause after it too.
- `TransportImplementsChannel`: `Spec => ImplementsChannel`, each step of the transport
  being the end of a flight, the start of one, an entry accepted, or a stutter; it
  rests on `HeldOnce`.

`NetworkedNodeProofs.tla` carries them over to the node. `NInv` says where
`run_forever` can be at each point of `connect()` and `close()`; above all, that a
socket is closed while it is up only after a cancellation. From it:

- `NodeImplementsTransport`: `NodeSpec => Spec`. The node is a caller the
  transport allows; `NodeLogAccounting` is the accounting of its log entries.
- `CloseIsFinal`: `NodeSpec => []ClosedForGood`.
- `ConnectTellsTheTruth`: `NodeSpec => []ConnectIsTruthful`. `NInv` says of a failed
  `connect()` that the task it cancelled is not in a session: whatever came up between the
  timeout and the resumption is in its teardown, or over.
- `NodeKeepsTransportPromises`: the channel, the truthful status and the backoff, carried
  over by `NodeImplementsTransport`.

`ImmuneProofs.tla` proves about the immune network, for all nodes, weights,
payloads, signatures, bands and bounds:

- `IndexIsCompleteHolds`. No induction: two signatures that miss fewer slots than
  there are bands share a whole band, since every band without a miss-free
  row set would have a miss of its own (an injection, by cardinalities).
- `ImmuneTypes`; `VaccinesAreRealHolds`, inductive with the types: contexts in
  `observed` landed, and each place an antigen goes to takes it from another.
- `InProcessNodesAgreeHolds`: with a clean medium, no task and no frame exists in
  process, so nothing reaches one agent alone.
- `NobodyIsBlindHolds`, inductive with the types and `TasksAreKnown`: a node registers
  what it is going to broadcast, so the sender, which gets no frame, needs none, as long as
  it is on the connection it sent over: a frame that has left its connection puts the
  node on record when the relay reads it (`PassedOver`).
- `ImmunityLasts`, from the types: it follows what one registration does to the exact
  and to the closest match.

`UpdateLoopProofs.tla` proves about the core engine, for every grid, history
length, error set, threshold range and set of registrations that leaves
`adaptability` mutable:

- `LoopTypeCorrect` and `HistoryWitnessesValue`. The inductive invariant `LInv` says
  of every weight that it is `Sound`: typed, within its bound, its history a
  chain that ends at its value. `TouchedIsSound` is the lemma of every write.
- `W0IsUntouched`, from `SoundMatrix`: a canonical name is immutable, which is what
  stops a write through a reference, where the registry is not asked.
- `DenialLeavesNoTrace`: `LoopSpec => DenialHidesNothing`. It needs that `flagged` is
  what was reported: a correction is a new finding.
- `FindingsAreReported`: `LoopSpec => EveryFindingIsReported`, from the same.
- `AccusesOnlyUntracedHolds`: `LoopSpec => AccusesOnlyUntraced`. A finding needs a ratio of
  accounted entries below 0.7, so some entry is not accounted for. The loop's own writes
  before and in the scan may push entries out of a full history, yet the witness is in
  it before the step or after.
- `CorrectionNeverRefusedHolds`: `LoopSpec => []CorrectionNeverRefused`. `SteadyInv` says
  that every entry of an immutable weight's history writes its value, and
  `ConstantIsNotVolatile` that such a history has no variance. The sums are folds: what
  they yield is proved by induction over a set of naturals (`NatSetInduction`, from the
  well-foundedness of `<`), which needs no operator as a parameter.

`SovereignProofs.tla` proves `NoW0CededHolds`, `StatusIsBackedHolds` and
`VetoStopsAllButPending` for all nodes, contracts and names. Canonical names are
immutable wherever they are registered, hence a contract that cedes one is never
counter-signed; a signature of the initiator is only given together with the
entry in its log, hence status and logs agree. What is before a channel cleared the
sovereignty check, and protection of a canonical name is not taken away, hence it still
would when the answer comes. `BrakeStaysHolds` says that what the
constructor checked once stays true.

`MitochondrionProofs.tla` proves `KnowledgeAgreesHolds` and
`KnowledgeHasWitnessHolds` for any finite set of engines. Anchors never change, so
the engines that confirmed a content once do so for ever; two contents
therefore have disjoint sets of confirming engines, and the sum of their sizes is
bounded by the union of who was polled.

`WatchdogProofs.tla` proves the four properties of the watchdog for all tasks,
cost tables and blind channels (`TheLoopPaysHolds` by comparing the utilities under
`LOOP`), and `KeptOnceRecordedHolds` about the probe's trace. The invariant
`WatchInv` says of every intent that its plan opens at the wall where there is one,
holds no refusal, and claims an obstacle only at the wall.

Model-checked only: whatever speaks of liveness (`EventuallyServed`, `LossIsRetried`,
`LogsGoOut`, `CloseReturnsUnlessSwallowed`, `EventuallyImmune`). Fairness rests on
`ENABLED`, which is out of the prover's reach. Every invariant and action property of
the passing runs is proved.

## Not modelled

- Log files on the relay's disk, plain HTTP answers, message size limits,
  malformed frames, heartbeats (no state), the random jitter, the contents of
  antigens and logs.
- Canonicalization and hashing of payloads: a payload has the signature `SigOf`
  gives it. That the MinHash estimate is close to the true similarity is
  statistics, and stays with the repository's tests.
- The threat judge: a stateless score over HTTP that gates nothing.
- The watchdog's prompts, JSON parsing, statistics and sweeps: functions of finished
  traces. The utility agent's slips are any feasible action, without their
  probability.
- Reports, counters and the audit file of the core engine; tools, web site and
  deployment, which have no protocol state.

## What could come next

1. The audit trail of the core engine as state, with the property that every change of
   a weight by the loop can be read from it (finding 11 says it cannot, today).
2. The composition of `ImmuneNetwork` with `UpdateLoop`: the attack's values, the scan
   and the correction in one model, so that "oscillating" is derived, not chosen.
3. The relay inside `ImmuneNetwork` as an instance of `AntigenHub`, with its history
   variables, so that the composition of `Relay` with the agents is a theorem too.
