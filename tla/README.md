# TLA+ verification of creek and its Tight transport

This directory holds TLA+ modules that model the repository's own core logic,
the TLC configurations that check them, and TLAPS proofs. `PROJECT.json` lists
components, runs, mutants, the map from definitions to source lines, findings,
hazards and theorems in machine-readable form.

    tlc -workers 2 -config MCCommand.cfg CommandChannel
    tlapm CommandChannel_proofs.tla        # and the other *_proofs modules

## The system

The repository is a small distributed system in C++: **Tight**
(`creek/tight`), a UDP transport with several logical channels per link;
**creek** (`creek/src`), a mesh of *nodes* and *leaves* that forwards calls over
Tight links; and programs around them (a UDP network emulator, a video sender and
player). Third-party code (WebAssembly runtime, codecs, protobuf, gRPC, gtest)
is left aside.

### Tight

One `TightTransport` is one UDP socket with four threads that share a map of
`Peer`s: the **receiver** (decodes datagrams and runs the handlers), the
**reactor** (a beat that calls `send_handshakes`, `send_heartbeats`,
`send_online_announcements`, `send_reports`, `check_report_timeouts`,
`check_offline`, `flush_commands`), the **encode** thread (fragments, FEC,
sequence numbers) and the **sender** (outbound queue, token bucket). The map is
guarded by `m_peers_mutex`, parts of a `Peer` by `peer.m_mu`, other parts
(`m_state` among them) by nothing. Callbacks into the application run on the
thread that found the event.

| component | state | operations | what makes it correct |
|---|---|---|---|
| Command channel (`command.cpp`) | `m_cmd_seq_out`, `m_cmd_next_expected`, `m_cmd_held`, `m_cmd_gap_since` | `send_command`, `handle`, `flush_expired`, `reset` | per session each command leaves at most once, in order; no command is held for ever |
| Selective retransmission (`reassembler.cpp` 61-130, `report.cpp`, `transport.cpp`) | `m_sequence_out`, `m_pending`; `m_next_expected_seq`, `m_recv_seqs`, `m_missing_seqs` | `send_data_packet`, `send_control`, `handle_data`, `build_payload`, `Report::handle`, `handle_ack` | the ack passes only what arrived, is asked for or is given up; nothing asked for is pruned; nothing leaks |
| Link (`transport.cpp`) | `m_state`, `m_reconnect`, `m_last_recv`, `m_crypto_key`, handshake backoff | `connect`, `stop`, the handlers of Handshake, HandshakeAck, Online, Heartbeat, Bye; the periodic senders; `check_offline` | both ends become Online and stay so; a dead peer is noticed; the application is told what happened last |
| Fragmentation, FEC, reassembly (`fragmenter.cpp`, `fec.cpp`, `reassembler.cpp` 132-353) | `m_incoming`, `m_completed` | `fragment`, `handle_data`, recovery, loss report | a message is delivered at most once and only whole; late fragments do not revive it |
| File channel (`transport.cpp` 383-459, 2613-2650) | partial files, manifests | `send_file`, chunk and manifest handlers | a file is completed once, with every chunk, in whatever order they come |
| Send pipeline (`transport.cpp`, `blocking_queue.hpp`) | send, encode and outbound queues, token bucket | `send_message`, `process_send_queue`, `encode_loop`, `sender_loop`, `clear_outbound`, `drain_channel`, `stop` | limits hold, a message is in one place and in order, nothing circulates for ever, `stop` ends every thread |
| Bandwidth and pacing (`bandwidth.hpp`, `transport.cpp`) | rate, recovery step, evacuation window, tokens, loan | report handler, report timeout, `video_capacity_bps`, `notify_video_capacity`, `sender_loop`, `drain_sender` | deep cuts are a window apart and every window ends; debt stays below the loan and is paid back; the application hears of it |
| Codec, CRC, sockets, cryptography | keys | encode, decode, encrypt | byte layout and numeric primitives: not modelled |

### creek

| component | state | operations | what makes it correct |
|---|---|---|---|
| Directory (`routing.cpp`) | endpoints with versions, tombstones, balancer state | `upsert`, `remove`, `merge`, `select` | merges in any order end in the same table; a removed endpoint is not revived by an old snapshot |
| Node runtime (`node_runtime.cpp`) | mounted leaves, last heartbeats | mount, heartbeat, forward, broadcast, sweep | a dead leaf leaves every directory; a request reaches its leaf or is refused |
| Leaf runtime (`leaf_runtime.cpp`) | active parent, pending slots, request ids | `send_routed_request`, `handle_inbound_response`, `invoke_for_hello`, `on_peer_event` | each call ends once, with its own answer or a timeout; the leaf finds a parent that is Online |
| Generic gRPC proxy (`leaf_generic.cpp`) | per stream: phase, buffered frames, write queues, outstanding gRPC operations | new call, classification, read, write, finish, open, frame, close, sweep, cancel | gRPC operations are started one at a time, frames keep their order, every stream ends on both leaves |
| Circuit breaker (`circuit_breaker.cpp`) | per-endpoint state, failures, `opened_at`, probe slots | `allow`, `record_success`, `record_failure`, `reset` | only a probe closes a circuit; a probe decides |
| Task framework (`framework/*.cpp`) | timer heap, two pools, channels, change sets, `m_pending` | arm, pop, re-arm, the four stages of a heartbeat, start, stop | one heartbeat cycle at a time and never none; no message is left behind; periodic tasks run again |
| Filters, WebAssembly, JSON-RPC, Redis, metrics, OTLP, tracing, logging | | | parsing, I/O and observation: not modelled |

Beside them stands the **UDP emulator** (`src/udp_proxy.cpp`, `include/udp_proxy.hpp`): a
receive thread, a sender per direction, a control port and a scenario thread that share a
configuration, a stall schedule and, per direction, a queue, a backlog pointer and four
atomics that describe a change of rate. It is correct when the latest change of
rate is not missed, what it reports as congestion stays close to the queueing on the link,
and a stall ends.

### How they interact, and what is hard

* The network loses, duplicates and reorders datagrams; either process may crash
  and restart at any time with a new key pair and fresh counters.
* Receiver and reactor act on one `Peer` at the same time. `m_state` has no lock,
  `m_pending` is written by three threads, callbacks are made after the lock that
  ordered the data was released, and `check_offline` calls the application in the
  middle of a state change with `m_peers_mutex` held.
* Control and data packets number the same retransmission buffer independently.
* Nothing is resent on a timer of its own: recovery is driven by reports, reports
  by gaps, and gaps by later packets.
* In creek a call waits on a condition variable for an answer that comes through
  two links, and gives up by timeout while the answer may be arriving; the leaf's
  own mutex is taken around calls into the transport.
* A proxied stream is worked on by a completion-queue thread, the backend's thread,
  the stream worker and the sweeper, each of which may be the one to end it.
* The evacuation after a cut of the rate is polled for by the receiver and by the
  application, over atomics and one plain field; the emulator's threads exchange a
  rate change through four atomics that are stored and loaded one by one.

The hazards in `PROJECT.json` name the lines where these bite and the properties
that would show it. Others, met while reading and waiting for a later module or
outside what a model shows (`T` is `creek/tight/src`, `C` is `creek/src`):

* resets and restarts: one end only may see the handshake that resets the command
  channel (`T/transport.cpp:1246`); a restarted sender numbers its messages from 1
  while `m_completed` holds the old ones (`T/fragmenter.cpp:53`); a delayed Handshake
  of the former process replaces the session key (`T/transport.cpp:1259`); after
  `stop` the queues stay closed for the next `start` (`T/transport.cpp:582`); a
  restarted node has no tombstone for what a leaf removed meanwhile
  (`C/node/node_runtime.cpp:239`);
* limits: packets before the first one to arrive, and the last ones, are never
  asked for (`T/reassembler.cpp:99`, `T/transport.cpp:1868`); more than 256 lost
  sequences or 4096 gaps (`T/report.cpp:178`, `92`); `m_files` without expiry
  (`T/transport.cpp:399`); an accepted message dropped on the way back
  (`T/transport.cpp:2326`); a tombstone that expires while a snapshot older than it is still
  on its way (`C/routing.cpp:139`);
* unlocked or re-entrant code, undefined or deadlocked when it goes wrong: `connect`
  erasing a `Peer` in use (`T/transport.cpp:618`), `m_incoming` and `m_file_id_out`
  (`T/reassembler.cpp:150`, `T/transport.cpp:2616`), callbacks under `peer.m_mu` or
  `m_peers_mutex` (`T/transport.cpp:437`, `2266`);
* pacing: control packets wait for tokens like file data (`T/transport.cpp:2093`);
  audio of priority 0 is cleared with the video (`947`); a measured seed may be below
  the minimum rate (`set_seed_and_clamp`), and the slow tier's factor of 0.50 lies
  below the limit of 0.60 that counts as fast (`bandwidth.hpp:133`);
* mesh and calls: a leaf that is not mounted is believed with its own versions
  (`C/node/node_runtime.cpp:255`); a probe answered by `leaf_not_found` is not recorded
  and keeps its slot (`C/leaf/leaf_runtime.cpp:795`); an endpoint refused by its
  circuit stays in the sticky table; the timeout path
  and `stop()` take their locks in opposite orders; `stop()` wakes waiting
  calls with status 0, which reads as OK;
* streams: `BackendStream::start` that fails inside the caller's lock
  (`C/leaf/leaf_generic.cpp:631`), a pump that deletes its stream before `begin()` has
  detached it (`118`), a cancelled client shown to the backend as a half-close
  (`488`), and no sweeper at the destination leaf for a backend opened late;
* framework: `m_changed_keys` is written from several threads without a lock;
* emulator: one random generator for all threads, `bw-min 0` and the division by the
  rate, the lost wake-up of `stop()` (`include/udp_proxy.hpp:139`), a stall that needs the control
  port to be polled, and a `reset` that leaves stall, reordering and L4S as they are.

## The modules

### CommandChannel, OrderedLossyChannel

`CommandChannel` models one direction of the channel with the two threads that
take commands out of it. State variables carry the names of the `Peer` fields:
`cmd_seq_out`, `initialized`, `next_expected`, `held`; `gap_age` counts the time
since `m_cmd_gap_since`. History variables: `handed` (what left the channel in
this session), `fired` (what the callback has seen), `ready[t]` (taken out by
thread `t`, not fired yet). Actions: `send_command`; `handle_command`
with the three branches of `handle` (`HandleNext`, `HandleAhead`, `HandleLate`);
`flush_commands`; `fire_command`; `reset_sender` and `reset_receiver` (a
handshake seen by one end, not necessarily by the other); `Tick`.

A step of the channel under `peer.m_mu` is one action; the callbacks, made after
the mutex was released, are actions of their own. The wire is the set of all
packets ever sent: any may arrive at any time, any number of times or never.
A command's payload is its number.

`OrderedLossyChannel` states what the channel promises, without windows, waits or
threads: what is handed out was sent, the log of a session grows in strictly
increasing order, a reset starts a new log. `ImplementsOrdered` is
`OrderedLossyChannel!Spec` with `sent <- net`.

### TightArq

The data of one endpoint for another. `sequence_out`, `control_seq_out`,
`pending` on the sending side; `next_expected`, `recv_seqs`, `missing` on the
receiving side; `wire` and `reports` between them. An entry of `pending` is
a data packet, a control packet, or `blank`: the entry that
`m_pending[seq].m_bytes = ...` makes when the packet's own is gone by then. `send_data_packet`
and `fill_bytes` are the two critical sections of the encode
thread; `handle_report` and `resend` are `Report::handle` inside and outside
`peer.m_mu`; `handle_data` has the three branches of the sequence tracking
(`TrackFirst`, `TrackAhead`, `TrackLate`); `send_report` is `build_payload`:
gaps of an unreliable channel and gaps too old are dropped, older ones are
reported, the cursor skips both kinds where it stands at them, and only
`MaxMissing` gaps are kept and `MaxListed` reported. `got` and `abandoned` are history:
what arrived, and what an endpoint gave up by its own rules (age, retries, dead
peer, before the first packet, overflow of the list).

Control packets appear with what they do to `pending`; the statistics of the
report are left out; both ends have retransmission enabled.

### TightLink

Two processes at fixed addresses, each with one `Peer` for the other. `state`,
`reconnect` and `key` are `m_state`, `m_reconnect`, and the incarnation of the
process `m_crypto_key` was derived from. `silent` says that `dead_timeout` has
passed since `m_last_recv`. `rx` holds the packet whose `Peer` the receiver has
looked up under `m_peers_mutex` and not yet handled; `reactor` is where
`check_offline` is. `told` is the last `PeerEvent`.

* `receive` and `handle_packet` are two steps, so `check_offline`, `connect` or
  `send_byes` may come between the lookup and the handler. The handler itself is
  one step: it sets `m_last_recv` first, so `check_offline`'s test fails after
  that.
* `check_offline` is three steps: Closed, the callback, Handshake. It keeps
  `m_peers_mutex`, which stops `receive` and not a handler that has its `Peer`.
* `send_byes` and `stop` are two steps: the threads run on between them.
* `Crash` and `start` replace the process: new incarnation, no `Peer`.
* A packet to a full queue is dropped in silence, as `send_raw` does; the wire
  holds at most `MaxFlight` packets to an endpoint, reorders and loses them.
* A heartbeat is received when it is sent. A late one only says that the peer
  lived a little longer.
* Left out: wrong tokens, peer ids, the clock offset; `connect()` for a peer that
  is connected already (it sends one more Handshake); `connect()` while the
  receiver thread works on the anonymous `Peer` it erases (undefined behaviour,
  listed as a hazard).

### TightTransfer

What a receiver makes of the fragments of messages, and of the messages of a file
(`fragmenter.cpp`, `reassembler.cpp` 132-353, the file handlers of
`transport.cpp`). A message is data and parity fragments on the wire, which arrive
in any order, in copies or never. `incoming` is `m_incoming`: the fragments held of
a message; `completed` is `m_completed`, and `files` the chunks and the manifest
a receiver holds. `handle_data` is the whole handler: drop what is completed, store
the fragment, put the message together as soon as any `data_count` fragments are
there, deliver or report it lost, mark it completed. `check_offline` drops
half-received messages after `dead_timeout` and forgets completed ones after the
same time. `send_file` is one step per part, so the sender can be refused
between two of them, and the manifest and the chunks are messages of their own.
The Reed-Solomon code is its rule: any `data_count` fragments restore the message.

### TightPipeline, MCPipeline

A message's way from `send_message` to the encode thread, with the reactor, the
encode thread, the capacity thread and the application as actors. `send_queue` and
`encode_queue` are the queues; `local` is what `process_send_queue` has swapped out
and works through one message at a time, while the application fills the new
queue (`send_message_on` is `send_message`); `clearing` is where `clear_outbound_impl` is between its three loops. A
message is a record of its number, channel and priority, and of whether it is `whole`:
`try_push` takes its argument by value, so a refused task has lost its payload.
`stop` and `stop_close` are the flag and the closing of the queues; `ThreadEnds`
says where each thread can get out. The state of the link comes from outside
(`LinkUp`, `LinkFails`). The outbound queue and the sender thread
are `TightPacer`'s.

### MeshDirectory, MCMesh

The nodes' directories and the leaves that feed them. `dir` and `tomb` are
`endpoints_` and `tombstones_` of a node, `leaves` and `leaf_eps` are `m_leaves` and
`m_leaf_endpoints`, `local` and `gone` a leaf's `m_local_endpoints` and
`m_local_tombstones`. `MergeEntry`, `RemoveEntry` and `RemoveTomb` are `merge` and
`apply_removal`. `handle_directory` is three steps, as it takes `m_mutex` three
times: note the leaf, stamp its endpoints with this node's versions, merge and
broadcast; `on_peer_closed` may come between them. The snapshot of anybody else
is one step, for what could come between its sections may as well come before the
snapshot.

Versions are numbers: `m_version_counter` starts at the time a process starts, so a
process's versions lie `StartGap` above those of the one started before it
(`VersionsApart` checks that the gap is never used up). A leaf's periodic sync is taken
when it would change what some node's table says, and a bounded number of times
when it would not; otherwise the counters would grow without end. A tombstone
expires at each node by itself (`TombstoneExpires`), whatever the others still hold or
send, and at the leaf (`LocalTombstoneExpires`); a sync of another node may bring it back
(`RemoveTomb`), and it meets the endpoint registered again. What the sixty seconds of the
code against a sync every fifteen exclude is only this: while the endpoint is gone, no
snapshot older than the tombstone is left when it expires. Since a tombstone that is
passed to and fro may expire without end, `MaxExpiries` bounds how often a run sees it. Left out: a leaf's own copy of
the directory, the set of known node peers, routing, Redis.

### TightPacer

The rate of one endpoint and what spends it. `btl`, `step`, `stall`, `calibrated` are
the estimator; `fast`, `fresh`, `taken` are what a deep cut leaves behind and whether
the evacuation has processed it; `mode`, `freeze`, `slow`, `keySent` the evacuation
window; `token` and `drain` the bucket and its loan; `told` what the application has
heard. Rates and tokens are small integers: a packet costs one token, a heartbeat
brings `btl` of them. A report is what its ratios are to the thresholds of the code;
any such report may come.

`handle_report` and `check_report_timeouts` are whole handlers. An evacuation is two
steps, `poll_mode`/`poll_edge` (there is a new cut) and `evacuate`, because the
receiver and the application's `video_capacity_bps` may both do it; the sender's
heartbeat is cut where it can be overtaken. In lite mode the reactor's
`drain_sender` takes the sender's place and sends for a quiet application whatever the debt:
`MaxDebt` bounds the debt of that mode, the code does not, and `PacerInv` says nothing of
it. The mode is chosen at the start.

### LeafCalls, MCCalls

Calls of a leaf: `invoke_for_hello` picks an endpoint (round robin, shard key, or the
sticky balancer's entry), asks its breaker, calls a backend of this leaf or sends a
request through the active parent, and tries a second endpoint when the first fails.
`breaker` is the `EndpointStats` of each endpoint, `entry` the sticky session, `pending` the
slots in `m_pending`, `wire` requests and responses under way. An answer takes the slot
(`take_slot`) and fills it (`fill_slot`) in two steps, as `handle_inbound_response` does, so
that a timeout can come between. `generic_begin_stream` is the proxy, which
passes the breaker and tells it nothing. The receiver
makes a link Online, the receiver (a Bye) or the reactor (`check_offline`) closes it; each
thread then reports what it did (`link.firing`), in no order with the other, and the
reactor's link goes back to Handshake after its report, whatever came meanwhile.
`on_peer_event` and `do_sync_work` choose the active parent from these reports and from
`peers()`. `check_offline` reports with `m_peers_mutex` held, which `peers()` takes: asked for
in that report, or by a holder of the leaf's `m_mutex` the report waits for, nobody goes on
(`link.hung`), and what needs `m_mutex` (`MutexFree`) has stopped. `send_to_mesh` gives a
message to the active parent's queue whatever the state of its link, so it may go nowhere. The administrator's
`handle_set_breaker` and `handle_set_sticky` reset what they name at any time. Whether the
average latency is above its threshold is any value; the directory's
contents are fixed here and are `MeshDirectory`'s subject.

### GenericStream

One proxied stream at its ingress leaf and at the leaf of its backend, which may be
the same. `s` is the `IngressStream` (phase, outstanding reads and writes, buffered
frames, `write_queue`, `finish_pending`), `b` the `BackendStream`, `known` whether the
ingress leaf still has the stream, `up` and `down` the mesh, `client` and `app` the two
ends. Each completion handler is one step that ends with `ingress_try_finish`;
the pump, the classification alarm, the stream worker, the backend's
thread and the sweeper interleave. Messages over the mesh arrive in any order,
once or never; a node may refuse an open. Clients and backends send, stop
reading, end or cancel when they like.

### TaskFramework

The framework under a runtime: `heap` and the timer thread, the queues of the cpu and the
io pool, the workers, the heartbeat with the stages of `run_one_cycle` (beat, evolve,
execute, recycle) as steps of the worker that runs it, stage 4 with its
work queue and `m_pending` modulo `Wrap`. `framework_start`, `framework_stop`, `stage4_stop` are the
framework's own, `schedule_periodic`, `cancel_periodic`, `reset_transport` the runtime's. A
timer entry is waiting, due or late. A message is processed to one more
message and one external call, so that a cycle always has something for
the next.

### UdpEmulator, MCEmulator

One direction of the emulator (or both, by `Dirs`). `queue` holds the due times of
packets, `drain` and `bw_drain` the two backlog pointers, all relative to now. A rate
change is four stores under `cfgMutex_` and then a flag (`markBwChanged`); the receive thread takes the
flag and loads them one by one (`recv.at`) before it rescales its queue.
`control_command` and `scenarioLoop` change the configuration, `stall_active` and
`applyStallSchedule` are the control thread's poll, which looks at `stall_` outside and
again inside the mutex. `process` reads the clock for a packet's due time and once more
for `bw_drain`; up to `MaxLag` lies between the two. `MCEmulator` gives the start configuration, the scenario and
the commands.

## What the runs check

| run | configuration | states | result |
|---|---|---|---|
| `command` | 5 commands, 2 resets, RTT unknown or 2 ticks | 82,715 | `TypeOK`, `HeldWaitsOnGap`, `HandedInOrder`, `ImplementsOrdered`, `HeldIsReleased` hold |
| `arq` | 3 data packets on a reliable or an unreliable channel, 1 control packet, 2 reports under way, 1 retry | 81,045 | `NothingPrunedEarly`, `CursorIsExact`, `GapIsSettled`, `AckedIsReleased` hold |
| `link` | a leaf that connects, a node that waits; one crash, stop of the leaf, or outage; 1 packet under way each way | 54,979 | `AnswererIsKeyed`, `Converges`, `DeadIsNoticed` hold |
| `transfer` | 2 messages in every shape: data, or a manifest and a chunk of a file; 1 or 2 data and up to 2 parity fragments, in any order and number | 112,176 | `HandedOnce`, `FiredWhole`, `IncomingIsSettled` hold |
| `pipeline` | 3 messages, video of priority 0 or audio of priority 1; send queue of 2, encode queue of 1; one clear, drain or link failure; stop at any time | 448,308 | `KeptInOrder`, `QueuesEmpty`, `StopEnds` hold |
| `pacer` | seed 2, minimum 1, congestion tiers 1, 2 and 4, bucket of 1, loan of one heartbeat, queue of 1, both modes, lite debt up to 3 | 406,366 | `PacerInv`, `CutsAreSpaced`, `EvacEnds`, `DebtShrinks` hold |
| `mesh` | 2 nodes, 1 leaf with 1 endpoint mounted on both; 3 changes besides revivals, or 2 and one closed link, crash, restart or loss; 2 tombstones expire | 228,950 | `KnownGrows`, `TablesConverge`, `TablesFollow` hold |
| `calls` | 2 callers, one of them sticky; one endpoint of this leaf and one of another; 2 parents; 2 calls and 1 fault; up to 3 closed links, in runs with at most one call or fault | 294,326 | `PendingIsWaited`, `ClosedByProbe`, `ProbeDecides`, `ParentIsFound` hold |
| `streams` | 3 frames on a local, 2 on a remote stream; write queues of 1; 1 message lost | 503,011 | `CallsAreLegal`, `LocalInOrder`, `EndIsReached`, `SpeakerIsCancelled` hold |
| `stream_failed` | a local stream of 3 frames | | `FailedEnds` is violated (finding) |
| `framework` | 2 periodic tasks, 2 cpu workers and 1 io worker, 1 start, 1 message | 83,458 | `OneTick`, `PendingIsExact`, `MessagesAreSeen`, `PeriodicComesBack` hold |
| `emulator` | one direction, rates 1 and 2, queue of 1, backlog 2, lag 1; a stall command against a scenario that switches the limit off | 871,910 | `NoChangeIsMissed`, `LeadsDoNotAddUp`, `StallEnds` hold |

Where a module's state has a type invariant, it is the first conjunct of one of its
safety invariants, which say what the parts of the state have to do with each other:
`CursorIsExact` (what the ack passes arrived or was given up, the cursor stands at
a gap, nothing beyond the cursor is kept without one), `HandedOnce` (a
message is handed over once, not after it was reported lost, and not held when it
could be restored), `KeptInOrder` (a message is in one place, in order),
`TablesFollow` (what a leaf has is in the tables once no tombstone outranks the nodes'
stamps, what it removed leaves them).

Every property of a passing run has a mutant, a changed action or helper that
stands beside the original in its module, under which TLC finds it violated.

**Why the bounds are enough.** Five commands hold two separate gaps with a run
behind each, and two resets give each end a session the other does not know of,
or one end two. Three data packets are the first baseline, a gap and what reveals
it; one control packet collides with one data number. The safety properties of
`TightArq` were also checked with four data packets (2.4 million states) and
those of `TightLink` with two faults and two packets under way (4.8 million).
Not reached by these bounds: more than `MaxListed` lost sequences in a report,
and the eviction of the oldest of more than `MaxMissing` gaps with the cursor
at one of them; both are among the hazards above. With one packet under way `link` still
has every order of Handshake, HandshakeAck and Online, because each is resent and
any may be lost; `MCLinkKey.cfg` uses two. In `pipeline` the encode queue is full with
one task and the send queue with two, so that every refusal and every requeue
happens with a message left to overtake. In `mesh` two nodes have the two version
ranges that all the trouble is about; the leaf is the last of the three processes to be started,
and all six orders were checked. Three changes are a registration, a removal and the
registration after it; the first expiry takes the tombstone of one node and the second that of
the other, or the one that came back. Four changes and three expiries without a fault were
checked as well (2,720,081 states).
In `calls` two failures open a circuit and two callers are enough for a probe and a
late result of a call from before; the one fault may be a lost answer, a dead
endpoint, a reset, a stream or an expiry. Three closed links are both
parents and one of them again, closed by either thread; `ParentIsFound` was also checked
with six, and with three parents and four, without calls. Write queues of one in
`streams` are full while a write is under way, so both the limit and the queue behind it
are met; one lost message may be the open, a frame or the close. In `pacer` the
rate can be cut, recover and be cut again; the bucket is as large as a packet, so that
tokens run out on every heartbeat. In `framework` two cpu workers are what an
overlap of two cycles would need. In `emulator` one direction has the four atomics;
the directions share nothing else that the properties speak of. A lag of one unit is as long
as the time of a packet at rate 2, so leads appear at once; delays were checked too
(`MaxDelay = 1`, 1,672,866 states).

**Fairness.** Weak fairness of the reactor's steps, of a thread in the middle of
an operation and of time: the reactor is a loop, threads are scheduled. Strong
fairness of the arrival of some packet (`receive`) and of some report: of what is sent over and over,
not everything is lost. Strong fairness of the first `connect`: the application
calls it, and it needs only a free mutex. Nothing is assumed of `send_command`,
`send_data_packet`, crashes, stops, `start` or the retransmissions of data.
`Converges` is conditional: *if both processes stay up from some point on*. `TightTransfer` asks that time passes and `check_offline` comes round;
`TightPipeline` that each thread goes on and that a `clear_outbound` or `stop`
under way does; `MeshDirectory` only that some process goes on as long as one
can, since every one of its steps brings the end nearer. `TablesConverge` and
`TablesFollow` are conditional on all links being up from some time
on; what the latter excludes besides (closed links, node crashes) the code does not
keep, see the hazards.
In `TightPacer` the sender's heartbeat goes on, reports keep arriving and each is
followed by the capacity notification, an evacuation that a thread has begun is done, and
clocks run out (strongly, as they compete with the renewal of their windows); the
application sends and polls as it likes. In `LeafCalls` callers' threads go on, which includes
that gRPC calls and `wait_for` meet their deadlines, the transport's threads finish a
response and their reports unless they hang, and the sync task runs. In `GenericStream` the threads of both leaves
go on, the classification window ends, messages arrive unless one of the counted losses
takes them, a client takes what it is sent, and the sweeper comes round; nobody has to
send, end or cancel. In `TaskFramework` time passes and the timer thread and workers
go on (the timer strongly, because a full pool queue is a bound of the model
only). In `UdpEmulator` the holder of the mutex releases it, stall clocks run
out, and the control thread gets the mutex in spite of the others (strongly; they hold it for
microseconds).

**Deadlock.** `CHECK_DEADLOCK FALSE` in the configurations whose system really
stops: a receiver to which nothing more comes, an endpoint that was stopped, a mesh
in which all has been said, a stream that ended, callers whose calls are all made.

**Stopping.** In `link` only the connecting endpoint may be stopped. When the
other one says Bye, the connecting endpoint goes to Closed and stays there until
its application calls `connect()` again: `handle_bye` does not return to
Handshake as `check_offline` does. `Converges` does not hold then.

## Findings

**A stream to be finished with frames queued is not finished.** `stream_failed`:
`ingress_try_finish` sets `finish_pending` when a write is under way; from then on
`generic_on_write` does not start the next queued write, and finds the queue not empty
when it tries to finish. A backend that sends two messages and ends while the first is
being written leaves its client without the second message and without a status, and the
idle sweep, which goes the same way, does not help. `EndIsReached` states
the part that holds: every other stream that is to end does.

### Deviations

Properties that a comment, a document or common sense suggests and the code does not
have, with a configuration that shows each
(`tlc -workers 2 -config <cfg> <module>`):

| configuration | module | property | what happens |
|---|---|---|---|
| `MCCommandFire` | `CommandChannel` | `FiredInOrder` | `handle_command` and `flush_commands` take runs out under the lock and fire them outside it; the run taken later can reach the application first, although `tight.hpp` promises order |
| `MCArqMissing` | `TightArq` | `MissingHasNotArrived` | the packet the cursor waits for is handled by the branch for new sequences, which leaves it in `m_missing_seqs`: it is reported lost, and resent, until it is given up |
| `MCLinkKey` | `TightLink` | `OnlineIsHandshaken` | an Online announcement before the HandshakeAck, or although both were lost, takes an endpoint to Online with no session key, and `send_handshakes` stops |
| `MCTransferFile` | `TightTransfer` | `FileArrives` | a chunk put together before its manifest is dropped and its message marked completed: the file never arrives, though all of it did |
| `MCPipelinePayload` | `MCPipeline` | `PayloadKept` | `try_push` has the payload when it refuses; what `process_send_queue` puts back, and sends later, is empty |
| `MCMeshLeaf` | `MCMesh` | `AuthoritativeLeaf` | of a leaf's two parents the one started later owns its endpoints; when it fails, the other one's stamps are older and ignored until its counter, one step per snapshot, has caught up with the milliseconds between the starts |
| `MCMeshReturn` | `MCMesh` | `NothingBuried` | an endpoint removed and registered again while a tombstone stamped by the node started later is still about: the stamps of the other one do not outrank it, and the sync that brings the tombstone removes what is registered; tombstones are for older snapshots in flight (`routing.hpp:28`) |
| `MCCallsParent` | `MCCalls` | `ParentIsOnline` | the receiver's report of Online comes after the reactor's of Closed, though the link was closed last: the leaf takes a parent that is gone for its active one, and `do_sync_work` looks for another only when it has none |
| `MCCallsHang` | `MCCalls` | `LeafGoesOn` | `check_offline` reports Closed of the active parent with `m_peers_mutex` held, `on_peer_event` asks `peers()` (`leaf_runtime.cpp:341`), which takes it: the reactor waits for itself with the leaf's `m_mutex` held |
| `MCCallsProbe` | `MCCalls` | `ProbeIsPossible` | a stream let in as a probe never records how it ended: the circuit stays half-open and refuses all, where `docs/overview.md:43` says it recovers by itself |
| `MCStreamOrder` | `GenericStream` | `WriteIsLegal` | a half-close overtakes a frame on the mesh and a Write follows WritesDone; `leaf_runtime_impl.hpp:199` says that the single worker preserves order |
| `MCPacerLite` | `TightPacer` | `LimitedPasses` | in lite mode the mark of local pacing is set and never taken back (`transport.cpp:1544` says each report resets it) |
| `MCPacerTold` | `TightPacer` | `PausedForDebt` | a fast evacuation forgives the debt and does not tell the application, which stays paused although `tight.hpp:38` promises the call when the debt is cleared |
| `MCFrameworkStop` | `TaskFramework` | `CancelledIsQuiet` | a task already queued runs after its runtime cancelled it |
| `MCFrameworkRestart` | `TaskFramework` | `OneTick` | `stop` leaves the tick in the timer heap; after a second `start` there are two heartbeats |
| `MCFrameworkChange` | `TaskFramework` | `ChangeIsKept` | a key marked from outside just before a cycle begins is cleared by it and never evolved |
| `MCFrameworkSkip` | `TaskFramework` | `PeriodicComesBack` | a skippable task that is late once does not come back; no caller registers one |
| `MCEmulatorFull` | `MCEmulator` | `LinkIsBusy` | a packet refused by a full queue has already advanced the backlog pointer |
| `MCEmulatorOrder` | `MCEmulator` | `OrderKept` | a packet that comes after the limit was lifted is due before those queued under it, and overtakes them |
| `MCEmulatorRate` | `MCEmulator` | `RateIsPositive` | `stall off` between the poll's two looks at `stall_` lets a stall begin with the cleared rates: a limited link of rate 0 |
| `MCEmulatorBacklog` | `MCEmulator` | `BacklogIsBandwidth` | `process` reads the clock for `due` and later for `bw_base` (`udp_proxy.cpp:556`, `615`): on an idle link the backlog a CE mark goes by ends above the link's schedule by the time between |
| `MCEmulatorStall` | `MCEmulator` | `StallGivesBack` | a second stall command during a stall takes the low rate for the normal one and restores that (`udp_proxy.hpp:277`) |

## What is proved

Each `*_proofs` module extends the modules it is about, has no axiom, and proves its
theorems for every value of the constants that satisfies the named assumption of those
modules. Three of them have a second part about a module of the layer below:
`TightPacer_proofs` about `TightPipeline`, `TightLink_proofs` about `UdpEmulator`,
`MeshDirectory_proofs` about `TaskFramework`; for that the initial predicate and the
specification of these three have names of their own (`PipelineSpec`, `EmulatorSpec`,
`FrameworkSpec`). Every safety property that a passing run checks is stated by a theorem, except
the conjunct `VersionsApart` of `TablesConverge`, which is about the bounds. The assumptions say what the code's constants and configuration are (natural
numbers, non-empty or finite sets) and nothing else; TLC evaluates them in every run. An
inductive invariant was checked by TLC on the instance of the module's run before it was
proved.

| theorem | statement | assumption |
|---|---|---|
| `CommandChannel_proofs!TypeCorrect` | `Spec => []TypeOK` | `CommandConstants` |
| `CommandChannel_proofs!HeldBehindGap` | `Spec => []HeldWaitsOnGap` | |
| `CommandChannel_proofs!InOrder` | `Spec => []HandedInOrder` | |
| `CommandChannel_proofs!Refinement` | `Spec => ImplementsOrdered` | |
| `TightArq_proofs!CursorExact` | `Spec => []CursorIsExact` | `ArqConstants` |
| `TightArq_proofs!PrunedInTime` | `Spec /\ []ListFits => []NothingPrunedEarly` | |
| `TightLink_proofs!AnswererKeyed` | `Spec => []AnswererIsKeyed` | `LinkConstants`: two ends |
| `TightLink_proofs!NoneMissed` | `EmulatorSpec => []NoChangeIsMissed` | `EmulatorAssumption` |
| `TightLink_proofs!LeadsBounded` | `EmulatorSpec /\ []RateIsPositive => LeadsDoNotAddUp` | |
| `TightTransfer_proofs!HandedAtMostOnce` | `Spec => []HandedOnce` | `TransferConstants` |
| `TightTransfer_proofs!CompletedFilesAreWhole` | `Spec => []FiredWhole` | |
| `TightPacer_proofs!PacerKeeps` | `Spec => []PacerInv` | `PacerAssumption` |
| `TightPacer_proofs!DeepCutsSpaced` | `Spec => CutsAreSpaced` | |
| `TightPacer_proofs!DebtOnlyShrinks` | `Spec => DebtShrinks` | |
| `TightPacer_proofs!InOrder` | `PipelineSpec => []KeptInOrder` | `PipelineConstants` |
| `MeshDirectory_proofs!KnowledgeGrows` | `Spec => KnownGrows` | `MeshConstants` |
| `MeshDirectory_proofs!MergeIdempotent`, `MergeCommutes` | about `merge` of one entry | none |
| `MeshDirectory_proofs!OneHeartbeat` | `FrameworkSpec => [](starts <= 1 => OneTick)` | `FrameworkAssumption` |
| `MeshDirectory_proofs!PendingExact` | `FrameworkSpec => [](starts <= 1 => PendingIsExact)` | |
| `LeafCalls_proofs!PendingSlots` | `Spec => []PendingIsWaited` | `CallConstants` |
| `LeafCalls_proofs!ProbeCloses` | `Spec => ClosedByProbe` | |
| `GenericStream_proofs!LegalCalls` | `Spec => []CallsAreLegal` | `StreamConstants` |
| `GenericStream_proofs!LocalOrder` | `Spec => []LocalInOrder` | |

### CommandChannel

`HandedInOrder` is not inductive: a step may append anything to `handed` unless
the cursor is known to have passed what was handed out, and the held commands to lie ahead of the
cursor. The inductive invariant `IInv` therefore adds `SeqOutBound` (the sender's
counter is bounded by the commands sent), `HeldWaitsOnGap`, `HandedPassed` (all
that was handed out lies behind the cursor), and `HeldCame` and `HandedCame` (what is held or
handed out was sent, which the refinement needs). The argument per step:

* `HoleFound`, `FirstHeldLeast`: the two `CHOOSE`s exist, by the least element of
  a non-empty set of numbers (`LeastNat`);
* `RunDrained`, `AfterRunBeyond`: a drained run is consecutive from its start and
  stops below everything that is still held;
* `BatchInOrder`, `BatchGrows`: a batch whose sequences lie between the old and
  the new cursor extends an ordered log to an ordered log;
* `SkipGapStep`, `HandleNextStep`, `HandleAheadStep`, `NextStep`: each action
  preserves `IInv` and either leaves the log alone, extends it, or empties it,
  which are the three kinds of step of `OrderedLossyChannel`.

### TightArq

`CursorIsExact` is made inductive by `SentOnly` (only what was sent is on the wire, in
`m_pending` or about to be resent), by `Cursor`, which says the same of every sequence
between the cursor and a packet that waits beyond it, and by `Aged` (a gap the cursor has
passed is old enough to be on the next report). The cursor's two loops are `CHOOSE`s of a least number that is a hole; `HoleStops` and
`SmallestOfAll` show that there is one and what lies below it, and each branch of
`track_sequence` (`TrackFirstCursor`, `TrackLateCursor`, `TrackAheadCursor`) then keeps
`Cursor`.

`PrunedInTime` adds `Reported`: what a report under way acknowledges and does not list has
arrived or was given up. It has a hypothesis, `ListFits`: the gaps of the moment fit on one report's list. It cannot
be dropped: `send_report` lists at most `MaxListed` sequences (256, `report.cpp:178`) and
acknowledges past the others, so the sender prunes packets that the receiver still waits
for. With `MaxListed = 1`, four data packets and one reliable channel TLC shows this in
13 states. The `arq` run's bounds satisfy the hypothesis; under which losses the code does is
not proved.

### TightLink

`AnswererIsKeyed` speaks of a state in which nobody has restarted. The invariant counts
restarts (`Counted`) and says, as long as there were none (`Pristine`), that all packets are
those of the first processes (`PacketsOfFirst`) and that an endpoint which waits and does not
hold the key has not answered (`Unanswered`): the other end has heard nothing of it but
Handshakes, those only while the Handshake that brings the key is being handled, and is not
Online. `PristineBefore`: a step cannot
lead back to such a state, so the meeting step (`MeetingStep`) may use it.

### UdpEmulator

`NoChangeIsMissed` speaks of a direction between two steps of a protocol without a lock:
fields stored one by one and then a flag, the flag taken and then the fields loaded one by one. The
invariant `EmulatorInv` says that the stores of a change that are still to come end
with the flag of every direction (`FlagsFollow`), that a direction which has not used what
is stored is announced to or is at a reschedule (`Owed`), and that what a reschedule has
loaded so far is what is stored or the direction is announced to (`LoadedIsStored`). The last
part is the argument: a store between two loads is followed by a flag, so the old value is
used only by a reschedule that will be repeated. `StoreStep`, `LoadStep` and `ApplyStep` are the
steps it is about; that a command stores its fields before its flags is in `ReconfigureMarks`
and `StoresFollow`.

`NoneMissed` is about the change stored last: of two changes between two datagrams the
earlier one is never used.

`LeadsDoNotAddUp` compares the two pointers before and after a step: `process` moves both by the
packet's time, one from `due` and the other from its own reading of the clock, so their distance
is at most what it was, or one pause. It needs that `drain` is counted from at most `MaxLag` ago
and `bw_drain` from now (`Pointers`, with `NextPointers`), and `LeadKept` for two maxima
with the same amount added. Its hypothesis, that no rate in force is 0, is that of the code's
own division; `RateIsPositive` is a deviation (`MCEmulatorRate`), so the theorem says what holds
up to the first step of that kind. A reschedule scales the pointers, and with them the lead, and
is excepted.

### TightTransfer

`HandedOnce` fails as an induction because `m_completed` forgets. `Finished` says that it
remembers at least as long as a fragment of the message can be under way, which is what
`check_offline` and the age of the fragments keep. `FiredWhole` needs the sender's
side too: ids are given in turn (`Numbered`), each part of a file is sent once and a file
has one manifest (`Parts`), the held fragments are those of a message that was
sent (`Fragments`), and the file in progress at the receiver has exactly the parts that
were handed over (`Progress`).

### TightPacer

The invariant adds to `PacerInv` that drained video was reported and told
(`Debt`: the sender thread's three steps in order, and no loan, hence no limit, in lite mode), and that after
a deep cut the window or its lock-in is on (`Window`). The
arithmetic is in lemmas about the operators: a cut, a rise and a clamp keep the rate in
its range, the largest loan is within the seed's, a refill pays before it saves.

### TightPipeline

The six places a message can be in are taken together as `Held`, a function from the
number of the place to a sequence, ordered by how far a message there has come. `Good` says of
it, in four parts, that no message is in it twice (`Unique`); that of two messages of one
priority nobody put back, the older one is further, across places and within one (`Ordered`); that the send
queues are by priority (`Sorted`); and that no number is above `accepted` (`Below`). `KeptInOrder`
only speaks of the last place, and is not inductive without the others. Every step is
one of four kinds: a place loses its first message, or all of them (`GoodLeft`); a first message
moves to the end of another place (`GoodMove`, of which put back, put aside and passed on are
the cases); a new message comes (`GoodNew`); both send queues become the swapped-out one
(`GoodSwap`, where the order within a priority depends on there being nothing left in
`local`). The lemmas are about arbitrary places, the steps of the module instantiate them. That a
queue and its limit agree is arithmetic on the lengths (`RoomForOne`).

### MeshDirectory

`KnownGrows` rests on the table's own rule, which is part of the type: an entry that is
alive is newer than the tombstone. `MergeGrows` shows for one entry that a merge never
lowers what is known; the stamping steps need that the handler's snapshot
is a leaf's. `MergeCommutes` assumes that entries of the same version are the same
entry. Versions are stamped by one process, from a range of its own; that no process uses its
range up in the bounded runs is `VersionsApart`, a conjunct of `TablesConverge` that TLC
checks.

### TaskFramework

A heartbeat tick is an entry of the timer heap, an element of the cpu pool's queue, or what
a worker runs. `OneTick` counts them; the invariant says instead, place by place, that there are no
two and, while the framework runs, that there is one (`AtMostOne` and `SomeTick`, in `Lone`), which
each hand-over from one place to the next keeps; the counts are computed from it at the end.
`TicksOnCpu` says who can hold one: nothing of the io pool, and a cpu worker exactly when it is
at a step of a cycle, which makes the change set being counted that of the only
cycle there is. `Counted` then gives `PendingIsExact`: `m_pending` is the calls queued and under way modulo its
width, less the set that is queued and not yet counted.

Both theorems are about executions with one `start()`. After a second one they are false (`MCFrameworkRestart`): the
tick of the first start is still in the heap. The module's run has one start as well; the
invariant was checked with two (1,879,112 states).

### LeafCalls

For `PendingIsWaited` no two waiting callers may share a request id (`Ids`), a response
being handled must have taken its slot out of `m_pending` (`Answers`), and an answer in hand
belongs to a caller that waits (`Slots`). For `ClosedByProbe`, `Probes`: nobody is in flight
at an endpoint whose cooldown is over, so whoever is in flight at a half-open circuit was
let in as a probe.

### GenericStream

`CallsAreLegal` needs to know which step may still start something. `Settled` is the part
about Finish of the ingress call (a `BackendStream` finishes its own): `ingress_try_finish`
and `ingress_queue_write` keep it (`TryFinishSettles`, `QueueWriteSettles`), and every handler of the stream ends in one of them. `Phases`:
before classification nothing was forwarded. `Local`, for a backend of the same leaf: the
half-close is last in `todo`, once the call has it `todo` is empty, the read that brought it
was the last one, and nothing but closes is on the wire. Three lemmas are about kinds of
steps (`QuietStep`, `CallStep`, `BeginStep`), and each action is shown to be of one of them.

`LocalInOrder` is about a call to a backend of the same leaf. `Orderly` says where the frames
are that were sent and have not arrived: towards the backend the next is the one being
written, then come the call's queue and what the pump has to forward, perhaps with the half-close at
the end (`InFlight`); towards the client the one being written and the stream's queue
(`Answers`); and a stream being classified still has them all (`Classifying`). Each
holds only as long as nothing was cancelled, and what makes the property true of an
ended stream is the rest: a stream closes with OK only after a call that ended by itself
(`Closed`), with no frame waiting unless a write is under way or a finish is pending (`Waits`), and the client was told the status of
the stream (`Told`). Rows are described by their elements' positions, so that taking the head or appending needs
no induction (`LineTail` and the lemmas after it).

### Only model-checked

* Every liveness property, and `TablesConverge`, `TablesFollow`, `ProbeDecides` and the other
  properties with `~>` or `<>`: reasoning under fairness is beyond the prover.
* `VersionsApart`, a conjunct of `TablesConverge`: it bounds how many versions a run uses.
* The deviations, which are counterexamples.

## Not modelled

Byte layouts, CRC, socket errors, the numeric content of Reed-Solomon and of the
cryptography, the floating-point filters of the bandwidth estimator (the reports they
decide are any of those the code tells apart), metrics, tracing, logging, parsers, the
filter chain and the WebAssembly runtime, the media programs: they are numeric or
sequential, or they observe.

Of modelled components: a leaf's `stop()` with calls and streams under way, the copy of the
directory a leaf keeps for its own calls, the LRU limit of the sticky table, the hop limit
over several nodes, the known node peers and Redis, the encode step and the switch of
the lite mode, the emulator's `stop()` and statistics, `connect()` racing the receiver over the
`Peer` it erases.

## Plan

1. Composition of **TightLink** with the command channel, with `TightArq` and with
   `TightTransfer`: a restart that resets one and not the other.
2. **MeshRouting**: the leaf's copy of the directory, and requests over nodes whose
   directories differ, with `hop_limit`; composed with `MeshDirectory`'s tables.
3. Stopping: the leaf's `stop()` against callers, streams and the transport's threads, with
   its two lock orders.

Theorems: the conditions on losses and RTT under which `ListFits` holds in `TightArq`;
`OneTick` for any number of starts, once `stop` takes the tick out of the heap; and the refinements that the compositions above call for.
