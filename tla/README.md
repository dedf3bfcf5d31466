# Verification of horsie-actor

TLA+ specifications of the actor runtime in `src/`, the TLC runs that check them on
small instances, and TLAPS proofs of the properties that matter most, for every
value of the constants. `PROJECT.json` holds the tables: which definition models
which lines, which run checks which property, which mutation of which definition
breaks it, and the hazards each property is aimed at.

## 1. The system

horsie-actor runs event-sourced actors on Tokio, on one node or on a cluster.

| Part | Source | What it does |
|---|---|---|
| Journal | `journal.rs` | an append-only log per actor identity, with a snapshot; appends and snapshots are conditional on the last sequence number (the *fence*), compaction is not |
| Event sourcing | `persistent.rs` | recovers an actor from snapshot and events, handles one command at a time: decide, persist, fold, publish, snapshot and compact, acknowledge |
| Actor run loop | `runtime.rs` | `run_actor` and `serve`: the task of one instance, its stop signal, its ways out |
| References | `runtime.rs` | `ActorRef`: tell and ask, a cached link, a deadline |
| Registry | `system.rs`, `path.rs` | a flat map from paths to live instances; creation, `retire`, `halt`, the stop of a subtree |
| Shard routing | `system.rs`, `shard.rs` | sends a command to the node that placement names, starts actors on demand, stops the shards that moved away |
| Placement | `cluster/placement.rs` | rendezvous hashing over the live members |
| Cluster node | `cluster/node.rs` | follows the Raft-agreed live set, the serving flag, retrying send, message ids, the table of waiting callers |
| Deduplication | `cluster/delivery.rs` | a window of message ids already seen |
| Replies | `reply.rs` | `ReplyTo`, a reply handle that may be answered, dropped, or passed on to another node |
| Raft store and network | `cluster/store.rs`, `cluster/network.rs` | what openraft persists and how it talks; openraft itself is a library |
| Transports | `transport.rs`, `transport_tcp.rs` | in-process channels, and TCP with cached connections |
| Test kit | `testkit.rs` | a journal that fails on demand, a conformance suite for journals |

What each keeps and does, and what makes it correct:

| Part | State | Operations | Hard behaviour | Correct when |
|---|---|---|---|---|
| Journal | per identity: events, last number, snapshot | persist, replay, save_snapshot, latest_snapshot, delete_events_before, copy_snapshot, clear | writers that do not know of each other; numbering at the compaction boundary | one history; nothing is dropped that no snapshot covers |
| Event sourcing | state, seq_nr, the effect in hand | recover, handle, persist_events, snapshot_state | crashes at any await, overlapping instances, failed writes | recovery is exact; what was reported survives; an overtaken instance ends |
| Run loop, registry | live rows, tasks, stop signals | get_or_create, retire, halt, stop_at, stop_descendants | stops that cross each other, replacements, handlers that stop their own parents, panics | what runs is reachable; rows leave; children follow; stops return |
| References | a cached link, a bounded mailbox | tell, ask, ask_within | a mailbox that closes between look-up and send | a command is queued or its sender told |
| Placement | the members | owner_of, set_members | ties, unrelated changes | a pure function of the set; minimal movement |
| Shard routing | table, announcement, running shards | deliver_to_shard, dispatch, set_live, release_vacated_shards | nodes that apply one sequence of sets at different times | vacated shards are found and stopped |
| Cluster node | serving flag, counters, waiting table | watch_cluster, send, register, deliver_reply, abandon_waiting | quorum loss, restarts, a full table | no actor on a node without quorum; each caller told once, and its own answer |
| Deduplication | a queue and a set of ids | accept_id | the window's edge, restarts of either end | ids within the window, and only those, are dropped |
| Replies | a channel or an address, armed or not | answer, drop, encode, decode | forwarding over several nodes, cancellation on another task | at most one answer; a waiting caller is owed one |
| Raft store | vote, log, state machine, a file | update, flush, open | a crash between memory and disk | what was promised is on disk |
| TCP transport | connections, pending requests | send, request, read_replies, drop_peer | a reader that ends while a request is added | every request ends |

How they meet: a command sent to a shard is routed by placement (Shards), carried
under a message id by a retrying send and deduplicated (Delivery), brings a reply
handle with it (Replies), finds or creates an instance at a path (Registry), which
recovers from and appends to the journal (Persistent over Journal). Two nodes may
run the same identity at once. This is what the fence is for, and why Persistent has
several instances. On the way out of a node, commands and consensus calls share one
connection per peer (TcpTransport); what consensus agrees on is kept in one file
(RaftStore), and decides whether a node may host actors at all (Hosting).

Each module keeps the control of its own part and leaves its neighbours' choices
open: Persistent may start or lose an instance at any time, which covers every
schedule that Registry and Shards allow; Delivery lets placement choose any
owner at each attempt; Replies lets a send succeed or fail as it likes; Routing lets a shard
move at any time, which covers every placement; RaftStore lets openraft ask for anything
that its contract allows.

## 2. The modules

| Module | Models | Checked by | Proofs |
|---|---|---|---|
| `Journal` | one entry of the journal and its operations | through Persistent | `PersistentProofs` |
| `EventLog` | abstract: what an event-sourced actor promises | property of Persistent | refinement proved |
| `Persistent` | overlapping instances of one actor over one log | `MCPersistent` | `PersistentProofs` |
| `Registry` | the actor tree of one node | `MCRegistry` | `RegistryProofs` |
| `Cluster` | the nodes that `Placement` and `Routing` share | through both | |
| `Placement` | `owner_of` | through Shards | `ShardsProofs` |
| `Shards` | live sets, routing and the sweep, over several nodes | `MCShards` | `ShardsProofs` |
| `Delivery` | message ids, retries, the dedup window | `MCDelivery` | `DeliveryProofs` |
| `Replies` | asks and reply handles across nodes | itself | `RepliesProofs` |
| `Hosting` | one path of one node: mailbox, references, serving and stand-down | itself | `HostingProofs` |
| `Routing` | path and address grammar, registration of types, the two ways to an actor | `MCRouting` | `ShardsProofs` |
| `TcpTransport` | calls over cached connections, and the consensus service behind them | `MCTcpTransport` | `TcpTransportProofs` |
| `AtMostOnce` | abstract: what a call to another node promises | property of TcpTransport | refinement proved |
| `RaftStore` | vote, log, state machine and snapshot in one file | `MCRaftStore` | `RaftStoreProofs` |
| `AtomicStore` | abstract: what a store with one file promises | property of RaftStore | refinement proved |

Definitions whose comment begins with "Mutant:" are deliberate bugs. No
specification uses them; each shows that some property notices it.

### Journal, Persistent, EventLog

`InMemoryJournal` runs every operation under one lock, so `Admit`, `Persist`,
`SaveSnapshot`, `DeleteEventsBefore` and `Replay` are operators on one entry. An event
is an opaque value. A state is the sequence of events folded into it: `apply_event` is
a pure function, so nothing else can be told from a state.

In `Persistent`, each instance has a `phase`, and every journal call is one step, as each
is awaited while others run:

| Action | Code (`persistent.rs`) |
|---|---|
| `Start`, `LoadSnapshot`, `FoldReplay` | `Persistent::new`, the two awaits of `recover` |
| `HandleCommand` | `handle_command` returns some `CommandEffect` |
| `PersistAdmitted`, `PersistConflicts`, `PersistFails` | the outcomes of `persist_events` |
| `Publish` | `on_events_persisted`, and the choice to snapshot |
| `SnapshotAdmitted`, `SnapshotSkipped`, `Compact` | `snapshot_state`, with its early return |
| `Ack` | the acknowledgement, and `Flow::Stop` on a conflict |
| `Lose` | a crash, a dropped handler, a failed start, a stop |

`hist` (every admitted event) and `observed` (every state somebody outside was told is
durable) are history variables. `EventLog` is the promise: one history, instances come up
with all of it, extend it only from a current view, and report only states they hold.

### Registry

`live` is the map of `SystemInner`. An instance goes through `starting`, `serving`,
`retiring`, `sweeping`, `ended`, or panics. A stop is run by an *agent*, an outside
caller, an actor's handler, or an ending instance that sweeps its children, and goes
through `halt` (row out, signal, wait), `collect` (one scan) and `loop` (one halt after the
other). Waiting for a command and handling one are one phase, since `serve` races both
against the stop signal. `before` is a history variable: who was at or under the path when
a stop was called. The node serves throughout, and paths are never refused
(`PathTaken` is an error without a state change). `spawn_at`, which registers nothing, is
left out.

### Placement, Shards

`Score` is an arbitrary function: placement relies on nothing else about its hash.
`OwnerOf` is `max_by_key` over members in ascending order, which keeps the last of equals.

Raft is the growing sequence `agreed`. A leader proposes from what its own node has applied,
which may be behind. Each node applies the sequence (`Apply`), its watch loop sets
the table and then announces (`SetTable`, `Announce`: the two halves of `set_live`), its
sweeper reads the registry once (`SweepBegin`) and asks placement shard by shard
(`SweepShard`). Commands are sent by the sender's placement and delivered without asking
the receiver's. All nodes keep their quorum. `Process` are the nodes that are followed; the others are
members that placement may name. `late` is a history variable: shards that were
started for another node since the registry was last read.

### Delivery

A command's `call` is one run of `ClusterNode::send`: an id minted once, up to
`SEND_ATTEMPTS` attempts, each to whatever owner placement names then. The id is a pair of
node and counter, as the two halves of the `u128`. `Ambiguous` says where
`Transport::send` to a node may fail for a message that does arrive. The trait permits it;
neither of the two transports that ship does it. A node takes one message at a time out of its
inbox, so a `Dispatch` is one step; what comes after the window (decoding, finding or building the
actor, queueing) may fail. Every node may restart, senders too: the counter, the window and the
sends under way are gone, what the network holds is not. `history` (what each process let
through), `queued` (what of it came to an actor) and `era` (how often a node has restarted, and
which of its processes sent a command) are history variables.

### Replies

Between an ask and its end there is one thing that may still answer: a command under
way, a handle, or a reply under way. These are the members of `owed`. `waiting` is the
table of `ClusterNode`, `slot` the correlation that `ask` needs to deregister itself, `chan`
the oneshot channel (open, closed, or holding the answer to some ask). `fault` is a history
variable: the worst that has happened so far, a loss or a restart; what a loss or a restart
breaks is stated up to the first one. The payload is the ask it answers.

### Hosting

One path, the actors that follow each other at it, the clones of one reference, and the
node's view of its cluster.

| Action | Code |
|---|---|
| `Watch`, `Committed`, `ProposeErr` | one turn of `watch_cluster`, and the return of the `client_write` that it awaits |
| `Relay` | the task in `build` that inverts the serving flag |
| `CheckServing`, `Create` | `get_or_create`: `require_serving`, then the registry under its lock |
| `Begin`, `StartOk`, `StartErr` | the first poll of `run_actor` with its `mark_unchanged`; `on_start` |
| `Receive`, `HandledContinue`, `HandledStop`, `StoodDown` | `serve` and the branches of its selects |
| `Retire`, `End`, `Panic` | the ways out of a task |
| `Tell`, `Deliver`, `Closed`, `Resolve`, `Cache` | `ActorRef::tell`, step by step |

A watch channel is a value and a version; a receiver remembers the version it has seen, so
that of several changes it sees the newest. The network and the heartbeats of openraft are
external: `acked` are the peers whose last acknowledgement is within the liveness window. A
follower is the same node with `IsLeader` false. `gap` is a history variable: the tells
during which the path reached nothing. A stop of the subtree is Registry's.

### Routing

Names are sequences of characters here and nowhere else. `Parse`, `Display`, `IsValidName`,
`StartsWith`, `AddressOf` and `ShardRootOf` are the functions of `path.rs` and `shard.rs`; `Texts` is
the join of `Display`, segment by segment. An id is a value, and `Spelling` is its `Display`: two ids
may be spelled alike. `Reads` is what decoding and the extractors do together: which types can
decode which commands, and which ids each then finds. Two types with one name may well have
commands that look the same, and find different ids in the same bytes.

`RecordWire` and `Register` are the two critical sections of `register`; `Startup` is the order in
which each node registers its types, one after the other. `TellHere` and `TellAway` are the
branches of `deliver_to_shard`, `Receive` is `dispatch` with the receiver that `register` made,
`Scan` and `Release` are the sweep. A row remembers which actor the recipe was asked to build and
which command came to it last; `RightActor` says that the type of the actor reads its own shard
and entity out of that command, as they are spelled. `ForeignMeansRefused` says of a command of
another type that the node of the actor refuses that type. The node that sent it need not: if it
registers the two in the other order it refuses the other one.

Actors of a shard end at once in this module, and `Release` asks placement and stops the shard in
one step. Its specification is `RoutingSpec`, with `RoutingInit` and `RoutingNext`, so that one
module can prove about it and about Shards.

### TcpTransport, AtMostOnce

A call takes a connection from the cache or dials one under the cache's lock, registers
itself if it wants an answer, and writes. `wire` and `back` are the two directions of a
connection. A connection breaks without telling anybody (`Break`): a later write may succeed
or fail, the readers at both ends find out when they read on. A call may be dropped at each
await (`Cancel`), and in the middle of a frame (`CancelWrite`), which leaves `Garbage` on
the connection. `late` (registered after `read_replies` had ended) and `hurt` (connections
that the network broke or half a frame went to) are history variables. A message that is
sent goes into an inbox that is assumed to be drained.

`AtMostOnce` knows nothing of connections, ids and tables. A request is unsent, sent, served or over,
in this order; answers are under way to its caller or not; the caller has heard one, or that none
will come; the call has ended well or not. In the mapping a request is sent while it is on a
connection or in the inbox (`OnWire`, `Holds`), served while a task has it (`Taken`), and the answers
under way are the responses on the call's connection that carry its id (`Under`). A failed call says
nothing about whether its request was served, which is what openraft expects of its network.

### RaftStore, AtomicStore

`update` runs its closure on the state in memory and then flushes: `FlushWrite`, `FlushSync`,
`FlushRename`, `FlushReturn`, or `FlushErr` out of any of the first three. `file` is what a reader
would find at the path, `settled` what a loss of power may leave there, since the directory is
not synced: at most the last rename is undone. This is an assumption about the filesystem. POSIX
promises nothing about renames until the directory is synced; where a loss of power may undo several,
older states can come back than the model has. An entry is known by its index: the one that the
cluster agrees on, or a stale one that will be truncated. Membership and live set are known by the entry that set them.
What openraft may call when (append after the last entry, truncate only stale ones, apply
what is committed, purge what a snapshot covers, stop at the first error) is in the guards.

`AtomicStore` is a cell: an update begins, is made at one point (the rename), and returns, or it fails
and leaves nothing behind; whoever opens the store finds what is stored. A torn file would hold no
value. A loss of power may bring back the value before the last update, and no other.

## 3. The runs

`tlc -config X.cfg M` in this directory, with the pairs of `PROJECT.json`; each takes seconds
to a few minutes.

### Runs that pass

| Run | Instance | Shows |
|---|---|---|
| `failover` | 2 overlapping instances, no snapshots, log of 3 | recovery is exact, nothing reported is lost, EventLog is implemented |
| `fence` | 2 instances that both snapshot, fair, log of 3 | compaction drops only what a snapshot covers; an overtaken instance ends |
| `tree` | parent and child, 2 instances, 1 caller, fair | nothing runs unreachable, no row leaks, children follow their parent, a stop reaches all it found; whoever is asked to stop ends, every stop returns |
| `sweep` | 3 members, 2 of them followed, a shard with a tie, 3 agreed states, fair | placement moves only what it has to; no shard that moved away escapes the sweep, late commands aside; it is stopped |
| `dedup_window` | 2 nodes, 3 commands, window 2, 2 attempts, ambiguous errors to one node, each node may restart | the window is exact; a command is dropped only for an earlier copy of itself, where errors are not honest, or for a command of another process of its sender; a reported failure is one where errors are honest |
| `replies` | 2 nodes, 2 asks, a table for 1, 2 hops, every fault, fair | at most one thing may answer a caller; it is the caller's own answer, until a restart; a waiting caller is owed one and every ask ends, and no row is left that nothing will take away, until a loss |
| `rpc` | 2 requests and a message, 1 peer, 2 connections, an inbox for 1, fair | AtMostOnce is implemented: a request is taken up at most once, a call gets its own answer; it hears of the end of its connection; a late eviction harms nobody; a connection that failed is not used again; every call ends |
| `raft_store` | 3 entries (a membership, a live set, a blank one), 2 terms | the file is whole; AtomicStore is implemented: the file holds what was acknowledged; committed entries stay; what is applied is what was agreed; what was purged is in the snapshot |
| `hosting` | a leader of 2, 2 actors one after the other, 2 senders, a mailbox for 1, 1 partition, fair | a tell fails only if the path reached nothing; no command is doubled; every tell ends; a node that stays cut off stops its actors |
| `routing` | 2 nodes, 2 types with one name that they register in different orders, 4 commands of which both types read one, each in its own way, 2 rows and 1 row | a command comes to the actor that its ids spell, from both sides; commands of another type only where the node refuses that type; paths can be read in one way; the sweep stops exactly one shard |

Why the bounds are enough for the cases to happen. A log of 3 holds the batch, the overtaking
write and one more, which is what a skipped event needs. A parent and a child are enough for a
handler that stops its own parent and for two stops that wait for each other. Three agreed
states let a shard leave and come back. A window of 2 with 3 commands overflows. A table for 1
with 2 asks evicts, and a second hop brings a handle home again. Two connections to one peer
are what a late `drop_peer` confuses. Three entries let one be purged, one be in the log and
one be stale. Two actors at a path let a link go stale and be replaced. A shard id that begins
like another, one with a separator in it, and two that are spelled alike are what prefixes and
printing could confuse. One restart of each node reuses an id and empties a window.
The bounds are `MaxSeq`, `MaxAgreed`, `Attempts`, `Window`, `MaxRestarts`, `Capacity`, `MaxHops`, `MaxPartitions`,
`MaxIndex`, `MaxVote`, `MaxRows`, `MaxNet` and the sizes of the sets. The proofs do
without all of them except as parameters.

The types (`TypeOK` of each module) hold in the runs too, and need only be added to a
configuration; each is a theorem, and so are six properties that no run lists: `SnapshotNeverRegresses`,
`NewcomerStays`, `MemoryIsAcked`, `NoHole`, and `OwnAnswer` and `AckedSurvives`, which
`ImplementsAtMostOnce` and `ImplementsAtomicStore` say in more. The case of one instance with snapshots is left to the proofs (`RecoveryExact`,
`ObservedDurable`), and so are trees deeper than two.

Deadlock is checked for Persistent, RaftStore and Routing, where something can always be done
next. The other specifications use up their supply of instances, commands, calls or asks, so
their configurations turn the check off. Symmetry is used only over commands, in a run
without liveness.

### Runs in which a statement of the repository fails

| Run | What is said | What the code does |
|---|---|---|
| `recovery_race` | README: an actor "recovers exactly where the previous one left off" | `recover` reads snapshot and events in two calls. If the instance it displaces snapshots, compacts and writes once more in between, the new one misses events, yet holds the log's last number, so the fence admits it |
| `leader_blocked` | `tests/cluster_e2e.rs:962`: "A partitioned *leader* stands down too" | if the acknowledgement of one peer leaves the window before the quorum's does, the leader proposes a live set without that peer and waits in `client_write` for the quorum it has lost; the serving flag is not looked at again |

`PROJECT.json` quotes each statement with its place. Smaller disagreements are stated in the
modules without a run of their own. TLC finds each in seconds (the second in a minute) with
the change in the last column.

| Statement | What the code does | How to see it |
|---|---|---|
| `cluster/node.rs:202`: a message id is "unique across the cluster"; `system.rs:757`: of a repeat, "the command has already been applied" | the counter starts at zero in every process, so commands of a restarted sender are dropped for those of the process before it; and an id is recorded before the command finds its actor, so the copy of one that found none is dropped, too, where a transport fails for what it delivers | `AlreadyApplied` as property of `dedup_window` |
| `system.rs:311`: the sweep "is what makes it end", of two nodes running one shard | a command that was routed by the old placement and arrives after the sweep starts the shard again, and nothing stops it until the next change | `OverlapEnds` as property of `sweep` |
| `system.rs:566`: a stop "returns once the subtree is quiet" | a child whose row another stop has taken is not waited for when that stop is interrupted | `StopReturnsQuiet` as invariant of `tree` |
| `system.rs:500`: creation has "no window to spawn a second actor in" | `halt` frees the path before the stopped instance has ended | `OneActivePerPath` as invariant of `tree` |
| `runtime.rs:237`: stopping oneself in a handler "would wait for a task that is waiting for the handler to return" | the handler is raced against the stop signal, so the actor ends | `SelfStopWaits` as property of `tree` |
| `runtime.rs:203`: asks that nobody can answer "already fail on their own", those to "a node that stands down" among them | a command that is refused for want of a quorum is dropped undecoded, and its caller is not told | `replies` with `AskEnds` without its condition on `fault` |
| `reply.rs:260`: a handle stops being responsible "only now, once the handle is genuinely on its way" | it is disarmed when encoded; if the send then fails, nobody answers | `replies` with `OwedAnswer` without its condition on `fault` |
| `cluster/node.rs:383`: every request that ends "takes its entry with it" | a handle forwarded after its ask was cancelled registers a row for nobody | `RowsHaveCallers` as invariant of `replies` |
| `cluster/node.rs:359`: an answer with nobody waiting "is dropped" | correlations start at zero in every process, so an old answer can reach a new caller | `replies` with `AnswersMatch` without its condition on `fault` |
| `transport_tcp.rs:398`: the reader "clears every waiter when the connection closes, so a peer that dies mid-request fails the call rather than parking it forever" | a call that registers after that, and whose write the kernel still takes, is parked | `rpc` with `WaiterHeard` over all of `Rpc` |
| `cluster/store.rs:204`: an append is signalled "only after the write is on disk, which is what makes an acknowledged append genuinely durable" | the contents are, the rename is not: a loss of power may bring back the old file | `AckedSurvives` without `reverted` as invariant of `raft_store` |
| `path.rs:41`: "every entry point that takes a name from a caller" checks it; `path.rs:126`: "a path has exactly one reading" | `address_of` takes a shard id as it is, and one with a separator prints as another path | `routing` with `OneReading` without its condition |
| `shard.rs:362`, a test: "Two commands naming one entity are filed under one key, and one naming another is not" | ids that `Display` spells alike have one address, and share the actor that was built for the first; nothing asks `Display` to tell ids apart | `OwnActor` as invariant of `routing` |
| `system.rs:726`: "Refuse everything while this node has no quorum" | an actor created between that check and the first poll of its task takes the stand-down signal for an old one, and stays | `hosting` with `NodeStandsDown` without `Deaf` |

Four comments are out of date and need no run. `cluster/store.rs:277` says that "`Normal` cannot
occur", and line 284 handles the live sets that are sent that way. `path.rs:55` says that "a path
crosses a host as a string", and `shard.rs:97` that an address "is not sent". `system.rs:524` says that
"a stopped actor stays in the map until somebody asks for this name again"; `retire` and `halt` take
the row out, and only a panic leaves it. `cluster/delivery.rs:11` says of the window that it is
"carried in the receiving actor's own state and replayed on recovery"; it belongs to the node, is
persisted nowhere, and is empty after a restart.

### Fairness

Every fairness condition is on a step that a Tokio task takes by itself.

* Persistent: a task that can run does. `HandleCommand` is fair (commands keep coming) and the
  journal's answer is strongly fair (it does not fail for ever), because an overtaken instance
  can find out only by writing. Nothing makes an instance start or crash.
* Registry: `on_start` returns or panics; a select polls its stop branch; scans and halts go on.
  No handler is assumed to return.
* Shards: what is agreed is applied, the watch loop ticks, the sweeper runs, a stop returns.
  Sends, losses, deliveries and restarts are not fair.
* Replies: a send returns, a woken caller runs, a message that is not lost arrives, and an actor
  does something with a handle it holds. Forwarding, losses, stand-downs and restarts are not fair.
* TcpTransport: a call that can go on does, a dial ends in one way or the other (the code sets no
  timeout; TCP's own is meant), readers take the next frame or notice the end, and raft answers or
  gives up. Nothing is assumed of cancellations and failures, nor of when half a frame is completed.
* Hosting: the timer of `watch_cluster` ticks, windows run out, a reachable quorum answers a
  proposal, tasks run, `on_start` and handlers return. Partitions and creations are not fair.

## 4. The proofs

`tlapm M.tla` checks each; there are no unproved statements. They hold for any number of
instances, nodes, paths, commands and so on, under the named assumptions of the modules, which
say only what the constants are. Where a theorem needs more it says so in its statement:
`SafeUse` of Persistent, `SystemFree` and `TypesAreNames` of Routing.

**PersistentProofs**. First the lemmas on the journal's operations, then two layers. `FenceInv`
holds for every use: the entry's last number is the length of the history, what is past the
snapshot is stored as it was admitted, no instance is ahead of the log, and an instance about to
compact is not past the snapshot. The last conjunct is what makes the unconditional compaction
safe, since a snapshot never goes back. From it follow `TypeCorrect`, `CompactionSafe` and
`SnapshotMonotone`. `HistoryInv` says what the states are: the snapshot, every running instance
and everything that was reported are prefixes of the history. It needs `SafeUse`: either no
command asks for a snapshot or there is one instance. `recovery_race` shows that it fails without.
From it follow `RecoveryExact`, `ObservedDurable` and `Refinement`, the implementation of EventLog.

**RegistryProofs**. `TreeInv` (types, rows lead to instances that are there, and running
instances have their rows) is inductive as it stands: `AlwaysReachable`, `NoRowLeaks`. `SweepInv`
adds that children lie strictly below their parents and that the children of a sweeping instance
are on their way out or still on its list: `ChildrenFollow`. `CallInv` says the same of an outside
stop and of whoever was there when it was called: `StopReaches`.

**ShardsProofs**. `SomeoneWins`: among members with bounded scores and ids one beats all the
others, so `OwnerOf` is well defined. Two members never beat each other, so the winner
of a larger set wins every smaller one it belongs to: `RendezvousMoves` for any hash, and
`MovesAreMinimal` for every step of the cluster. `Released` is inductive together with the types:
`VacatedReleased`.

The second half of the module is about Routing. `RouteInv`: the type behind a name bears that name
(`NameInv`), an envelope bears the name of its command's type (`EnvelopeInv`), and a row stands at the
address of the actor it was built for and was last sent something that its type can read and that is
spelled like that address; if it is another type's, the name of that type is taken on this node
(`RowInv`, `Taken`). A name that is taken stays taken, so the other type is refused when it is
registered, if it ever is. Nothing is assumed of ids, spellings, decoders and the order of
registration. It gives `RoutesAreRight` and `ForeignIsRefused`.
`SweepInv` adds that every actor stands under some address or in the application's tree, that a path
has one row, and that a sweep works on shards that commands name. Two addresses differ within their
first four segments unless they are of one shard, so a prefix of whole segments picks out one shard:
`SweepsAreExact`, which also needs that what `RowsOf` collects by an actor's first five segments is
what the prefix of four finds. Here `SystemFree` is assumed: no application gives an actor of its own
the name `system`. `shard.rs` reserves the segment to keep shard addresses "out of the way of the
tree an application builds for itself", and `actor_of` does not enforce it. The first two
theorems do without.

`PathsAreReadOneWay` proves `OneReading`: of the rows that `OneReading` speaks of, whatever `Display`
prints `Parse` reads back, for names of any length. The invariant is `ReadInv`: every segment of such
a row's path is a valid name, hence not empty and free of separators. What remains is about texts.
`Climb` stands in for induction (what holds at zero and is kept by every step below a bound holds up to
the bound, by its least counterexample), and gives where each segment ends in the text (`TextsGrow`),
that the separators are exactly between them (`MarksBefore`, `MarkNumber`), so that cutting there yields
the segments again (`ReadBack`). `TypesAreNames` is assumed: the names of types are valid names.
`Shard::TYPE` is a constant that the code prints into paths and never checks.

**DeliveryProofs**. `WindowInv`: what a process remembers is exactly the end of what it let through,
and equal ids are more than a window apart: `WindowIsKept`. `IdInv`: a call was started by an earlier
process of its node, or its id is below the counter; no two calls of one process share an id, and
everything that carries an id carries it from the call of its command. `SingleInv` adds that among
the nodes outside `Ambiguous` one copy of a command at most is under way or has been let through.
Together they give `RepeatsAreRepeats`, whatever restarts.
`FailInv`: only a call that succeeded left anything behind, except at nodes in `Ambiguous`:
`FailuresAreTrue`.

**RepliesProofs**. `BaseInv`: the types, that one thing at most carries
each ask, that it knows where its caller is, that an ask which is still sending has a
correlation in its slot, and that every correlation in a table is below its node's counter. It
is inductive and gives `HandleLinear`; the
last conjunct gives `OldestGoes`, since the newcomer has the highest correlation and the lowest
goes. `MatchInv` adds that until a restart a correlation belongs to one ask, in tables, handles
and slots alike, so what `deliver_reply` finds is the caller that was asked for: `OwnAnswers`.
`OweInv` adds that until a loss a caller which waits and has been told nothing is carried by
something whose correlation is in the table of its origin: `NobodyForgotten`. `RowInv` adds that
until a loss an ask that was not registered has an empty slot, so registering its handle
overwrites nothing, and that a row is waited for or carried: `NoRowStays`. The steps are
proved per action, each reduced to a lemma on what it does to `owed`, to the tables and to
the channels.

**HostingProofs**. `GapInv`: while the path reaches nothing, every tell that is under way has seen the
gap, and what a tell resolved is still what the path reaches unless it has seen one. The second part
is what makes the retry of `tell` enough: a stale reference means a gap. It gives
`TellsFailOnlyInGaps`. `OnceInv`: a command is at one place of one mailbox at most, only if its tell
has returned success, and only until it is taken out: `CommandsAreSingle`.

**TcpTransportProofs**. The invariant ties everything that travels to a registered call: an id belongs
to one call of its connection, and entries, frames, requests and responses carry the connection and
the id of theirs (`AnswersAreOwn`). `EntryThere` strengthens `WaiterHeard` to calls that are still
writing, since `read_replies` may end in between (`WaitersAreHeard`). `HeldWhole` strengthens
`EvictionHarmless` to connections that anybody holds, by the cache or by a call, and says that half a
frame lies only on a connection that was broken (`EvictionsAreHarmless`). `CacheSound`, that a
connection is cached for one peer and that its users call this peer, is why `drop_peer` looks in the
right place (`CorpsesAreGone`).

`CallsAreAtMostOnce` is the refinement, `Spec => ImplementsAtMostOnce`. It needs one more invariant,
`Once`: a request is written once, and from then on it is on its connection, in the inbox, with a
task, or nowhere, and never twice in one of them. The first half of that part says what each step moves
(`WriteMoves`, `ServeMoves`, `TakeMoves`, `RespondMoves`), the second which step of AtMostOnce it
is (`CallRefines`, `ReadRefines`, `EndRefines`, `ServeRefines`, `LossRefines`, `TakeRefines`,
`RespondRefines`). A write is a send, or gives the request up if the connection is dead
without the kernel knowing; `serve` is no step at all; the end of a connection loses any number of
requests and answers at once. That a response reaches its own call and no other is `IdsDistinct`
with `ResponsesOwned`, and a fresh id has no old responses because ids are below `next_request`.

**RaftStoreProofs**. `FileInv` relates the three copies of the state (memory, file, what a loss of
power leaves) to the stage of the flush: `FileWhole`, `AckDurable`, `MemoryDurable`, and the refinement
`StoreIsAtomic`, in which the rename is the update and everything before it is none. `StoreInv` says
that every copy that a crash could bring back is good: its log is contiguous, agreed entries
come first, what is committed is there, and what is applied, or in a snapshot, is what the agreed log
determines. It has to speak of all copies at once, because `open` may pick any of them:
`LogContiguous`, `CommittedStays`, `AppliedIsAgreed`, `PurgedCovered`. `LeastExists` and
`GreatestExists` (a non-empty set of numbers has a least element, and a bounded one a greatest)
stand in for induction: they follow from the library's `WFMin`, which takes a set
where its induction theorems take an operator.

Only model-checked: all liveness (`OvertakenEnds`, `AskedEnds`, `StopTerminates`, `VacatedStops`,
`AskEnds`, `CallEnds`, `TellEnds`, `NodeStandsDown`), since the prover handles neither fairness nor
ENABLED. Every other property of every run that passes is a theorem.

## 5. What is not modelled

* openraft's algorithm: a library. Shards takes from it that the agreed states form one sequence,
  RaftStore in which order it calls its storage, Hosting what its metrics say.
* The in-process transport: a queue for tests without connections, ids or retries. Its errors are
  honest, which is Delivery's assumption about nodes outside `Ambiguous`.
* Traits, plain data and errors (`actor.rs`, `behaviour.rs`, `envelope.rs`, `error.rs`,
  `persistence_id.rs`): no state of their own.
* The test kit: the failures that its journal injects are actions of Persistent.
* Bytes: codecs, lengths of frames, the proof in the TCP handshake, log wording. A frame is whole
  or half, a handshake is accepted or not.
* The FNV-1a arithmetic of `score`: any function of shard and node will do.
* `copy_snapshot` and `clear` of the journal, which only tests and forks call, and `spawn_at`
  without a registry, a test hook.
* Nodes that lose their quorum, in Registry, Shards and Routing; Hosting and Replies have them.

## 6. Roadmap

1. **Fork** of a journal (`copy_snapshot`, `clear`) against a paused writer.
2. Composition: Shards with the fence of Persistent, so that overlapping owners are seen to write
   one history.
3. If `recover` is changed to read snapshot and events in one call, and `watch_cluster` to propose
   in a task of its own: `recovery_race` and `leader_blocked` become passing runs, and `SafeUse`
   and `Blocked` go away.
