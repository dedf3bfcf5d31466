------------------------------ MODULE Hosting -------------------------------
(***************************************************************************)
(* One path of one node: the actors that live there one after the other,   *)
(* their mailboxes, the references that tell them something, and the       *)
(* signal that makes a node without a quorum stop what it hosts.           *)
(*                                                                         *)
(* Covers ActorRef::tell with its cached link, Link::send, run_actor and   *)
(* serve (runtime.rs), the relay of ActorSystem::build and the part of     *)
(* get_or_create that a path sees (system.rs), and watch_cluster           *)
(* (cluster/node.rs).  Children are Registry's, placement is Shards'.      *)
(***************************************************************************)
EXTENDS Naturals, Sequences, FiniteSets

CONSTANTS
  Peer,            \* the other voters
  IsLeader,        \* whether this node leads
  Instance,        \* actors; their number bounds the creations
  Sender,          \* tells, one each, through clones of one reference
  Capacity,        \* MAILBOX_CAPACITY
  MaxPartitions,   \* bounds how often the node is cut off
  None

ASSUME HostingAssumption ==
  /\ Capacity \in Nat \ {0} /\ MaxPartitions \in Nat
  /\ IsLeader \in BOOLEAN
  /\ None \notin Instance

VARIABLES
  connected, cuts,   \* whether the peers can be reached; how often they could not
  acked,             \* the peers heard from within the liveness window
  agreed,            \* the peers in the agreed live set
  watcher,           \* watch_cluster: None, or the live set it is proposing
  serving,           \* ClusterNode::serving and serving_tx: a value and its version
  relayed,           \* the version that the relay of build has seen
  signal,            \* SystemInner::stand_down: a value and its version
  row,               \* SystemInner::live at the path
  creator,           \* get_or_create: "idle", or "may" past require_serving
  st,                \* how far each actor has come
  marked,            \* the version of the signal that its task has seen
  mailbox,           \* what was told it
  slot,              \* ActorRef::link, which clones share
  pc, link,          \* how far each tell has come, and the link it holds
  gap,               \* history: the tells during which the path reached nothing
  got                \* history: how often each was taken out of a mailbox

node == <<connected, cuts, acked, agreed, watcher, serving>>
cluster == <<node, relayed, signal>>
actors == <<row, creator, st, marked, mailbox, got>>
tells == <<slot, pc, link>>
vars == <<cluster, actors, tells, gap>>

Init ==
  /\ connected = TRUE /\ cuts = 0
  /\ acked = Peer /\ agreed = Peer
  /\ watcher = None
  /\ serving = [value |-> TRUE, version |-> 0] /\ relayed = 0
  /\ signal = [value |-> FALSE, version |-> 0]
  /\ row = None /\ creator = "idle"
  /\ st = [i \in Instance |-> "unborn"]
  /\ marked = [i \in Instance |-> 0]
  /\ mailbox = [i \in Instance |-> << >>]
  /\ slot = None
  /\ pc = [s \in Sender |-> "idle"]
  /\ link = [s \in Sender |-> None]
  /\ gap = {}
  /\ got = [s \in Sender |-> 0]

\* Link::is_alive: the mailbox goes when the task has ended.
Alive(i) == i # None /\ st[i] \notin {"unborn", "ended"}

\* The path reaches nothing: the tells that are under way remember it.
Nothing == row = None \/ ~Alive(row)
Underway == {s \in Sender : pc[s] \notin {"idle", "ok", "err"}}
SeesGap == gap' = IF Nothing' THEN gap \cup Underway' ELSE gap

----------------------------------------------------------------------------
(* The cluster *)

Partition ==
  /\ connected /\ cuts < MaxPartitions
  /\ connected' = FALSE
  /\ cuts' = cuts + 1
  /\ UNCHANGED <<acked, agreed, watcher, serving, relayed, signal, actors, tells, gap>>

Heal ==
  /\ ~connected
  /\ connected' = TRUE
  /\ UNCHANGED <<cuts, acked, agreed, watcher, serving, relayed, signal, actors, tells, gap>>

\* The last acknowledgement of a peer leaves the window, or a new one arrives.
Expire(p) ==
  /\ ~connected /\ p \in acked
  /\ acked' = acked \ {p}
  /\ UNCHANGED <<connected, cuts, agreed, watcher, serving, relayed, signal, actors, tells, gap>>

Hear(p) ==
  /\ connected /\ p \notin acked
  /\ acked' = acked \cup {p}
  /\ UNCHANGED <<connected, cuts, agreed, watcher, serving, relayed, signal, actors, tells, gap>>

\* A quorum with this node in it; a follower hears one peer, the leader.
QuorumAcked ==
  IF IsLeader THEN 2 * (Cardinality(acked) + 1) > Cardinality(Peer) + 1 ELSE acked # {}

Bump(watch, value) == [value |-> value, version |-> watch.version + 1]

\* Mutant: the flag is lowered and nobody is told.
Watch_NoSend ==
  /\ watcher = None
  /\ serving' = [serving EXCEPT !.value = QuorumAcked]
  /\ watcher' = IF IsLeader /\ acked # agreed THEN acked ELSE None
  /\ UNCHANGED <<connected, cuts, acked, agreed, relayed, signal, actors, tells, gap>>

\* watch_cluster, one turn: the serving flag, sent when it changes; a leader that
\* sees another live set than the agreed one proposes it and waits.
Watch ==
  /\ watcher = None
  /\ serving' = IF serving.value # QuorumAcked THEN Bump(serving, QuorumAcked) ELSE serving
  /\ watcher' = IF IsLeader /\ acked # agreed THEN acked ELSE None
  /\ UNCHANGED <<connected, cuts, acked, agreed, relayed, signal, actors, tells, gap>>

\* client_write returns: a quorum has the entry ...
Committed ==
  /\ watcher # None /\ connected
  /\ agreed' = watcher
  /\ watcher' = None
  /\ UNCHANGED <<connected, cuts, acked, serving, relayed, signal, actors, tells, gap>>

\* ... or this node hears that another one leads.
ProposeErr ==
  /\ watcher # None /\ connected
  /\ watcher' = None
  /\ UNCHANGED <<connected, cuts, acked, agreed, serving, relayed, signal, actors, tells, gap>>

\* The relay task of build: the newest value, inverted.
Relay ==
  /\ relayed # serving.version
  /\ relayed' = serving.version
  /\ signal' = Bump(signal, ~serving.value)
  /\ UNCHANGED <<node, actors, tells, gap>>

----------------------------------------------------------------------------
(* The actor *)

Move(i, from, to) == st[i] \in from /\ st' = [st EXCEPT ![i] = to]

\* get_or_create: require_serving reads the flag before the registry is locked ...
CheckServing ==
  /\ creator = "idle"
  /\ serving.value
  /\ creator' = "may"
  /\ UNCHANGED <<cluster, row, st, marked, mailbox, got, tells, gap>>

\* ... and an actor is spawned unless one is alive there.  The reference that the
\* first caller gets, its link cached, is the one whose clones tell.
Create ==
  /\ creator = "may"
  /\ creator' = "idle"
  /\ IF Alive(row)
     THEN UNCHANGED <<row, st, slot>>
     ELSE \E i \in Instance :
            /\ row' = i
            /\ Move(i, {"unborn"}, "spawned")
            /\ slot' = IF row = None /\ \A j \in Instance : st[j] = "unborn" THEN i ELSE slot
  /\ UNCHANGED <<cluster, marked, mailbox, got, pc, link, gap>>

\* run_actor: the task runs for the first time.  Whatever the signal says by now
\* counts as seen.
Begin(i) ==
  /\ Move(i, {"spawned"}, "starting")
  /\ marked' = [marked EXCEPT ![i] = signal.version]
  /\ UNCHANGED <<cluster, row, creator, mailbox, got, tells, gap>>

\* on_start returns; it is raced against nothing.
StartOk(i) ==
  /\ Move(i, {"starting"}, "idle")
  /\ UNCHANGED <<cluster, row, creator, marked, mailbox, got, tells, gap>>

StartErr(i) ==
  /\ Move(i, {"starting"}, "leaving")
  /\ UNCHANGED <<cluster, row, creator, marked, mailbox, got, tells, gap>>

\* serve: a command is taken out of the mailbox, and handled.
Receive(i) ==
  /\ Move(i, {"idle"}, "handling")
  /\ mailbox[i] # << >>
  /\ got' = [got EXCEPT ![Head(mailbox[i])] = @ + 1]
  /\ mailbox' = [mailbox EXCEPT ![i] = Tail(@)]
  /\ UNCHANGED <<cluster, row, creator, marked, tells, gap>>

HandledContinue(i) ==
  /\ Move(i, {"handling"}, "idle")
  /\ UNCHANGED <<cluster, row, creator, marked, mailbox, got, tells, gap>>

HandledStop(i) ==
  /\ Move(i, {"handling"}, "leaving")
  /\ UNCHANGED <<cluster, row, creator, marked, mailbox, got, tells, gap>>

\* stood_down, which both selects of serve race: of several changes it sees the
\* newest value.
StoodDown(i) ==
  /\ st[i] \in {"idle", "handling"}
  /\ marked[i] # signal.version
  /\ marked' = [marked EXCEPT ![i] = signal.version]
  /\ st' = [st EXCEPT ![i] = IF signal.value THEN "leaving" ELSE @]
  /\ UNCHANGED <<cluster, row, creator, mailbox, got, tells, gap>>

\* The end of run_actor: the entry goes first, and the mailbox stays open while
\* the children stop ...
Retire(i) ==
  /\ Move(i, {"leaving"}, "ending")
  /\ row' = IF row = i THEN None ELSE row
  /\ UNCHANGED <<cluster, creator, marked, mailbox, got, tells>>
  /\ SeesGap

\* Mutant: the task waits until its mailbox is empty.
End_Drained(i) ==
  /\ Move(i, {"ending"}, "ended")
  /\ mailbox[i] = << >>
  /\ UNCHANGED <<cluster, row, creator, marked, mailbox, got, tells>>
  /\ SeesGap

\* ... then the task ends and what is left in the mailbox is dropped.
End(i) ==
  /\ Move(i, {"ending"}, "ended")
  /\ mailbox' = [mailbox EXCEPT ![i] = << >>]
  /\ UNCHANGED <<cluster, row, creator, marked, got, tells>>
  /\ SeesGap

\* A handler panics: the task ends, and its entry stays.
Panic(i) ==
  /\ Move(i, {"handling"}, "ended")
  /\ mailbox' = [mailbox EXCEPT ![i] = << >>]
  /\ UNCHANGED <<cluster, row, creator, marked, got, tells>>
  /\ SeesGap

----------------------------------------------------------------------------
(* tell *)

Goto(s, p) == pc' = [pc EXCEPT ![s] = p]

\* The cached link, if there is one.
Tell(s) ==
  /\ pc[s] = "idle" /\ \E i \in Instance : st[i] # "unborn"
  /\ link' = [link EXCEPT ![s] = slot]
  /\ Goto(s, IF slot = None THEN "resolve" ELSE "first")
  /\ UNCHANGED <<cluster, actors, slot>>
  /\ SeesGap

\* Link::send: it waits while the mailbox is full.
Deliver(s) ==
  /\ pc[s] \in {"first", "second"}
  /\ Alive(link[s]) /\ Len(mailbox[link[s]]) < Capacity
  /\ mailbox' = [mailbox EXCEPT ![link[s]] = Append(@, s)]
  /\ Goto(s, "ok")
  /\ UNCHANGED <<cluster, row, creator, st, marked, got, slot, link, gap>>

\* Mutant: a send that fails is final, the first one too.
Closed_Final(s) ==
  /\ pc[s] \in {"first", "second"}
  /\ ~Alive(link[s])
  /\ Goto(s, "err")
  /\ UNCHANGED <<cluster, actors, slot, link, gap>>

\* The mailbox is closed: the first time the link is forgotten, if it is still
\* the cached one, and the second time that is the answer.
Closed(s) ==
  /\ pc[s] \in {"first", "second"}
  /\ ~Alive(link[s])
  /\ IF pc[s] = "first"
     THEN Goto(s, "resolve") /\ slot' = IF slot = link[s] THEN None ELSE slot
     ELSE Goto(s, "err") /\ UNCHANGED slot
  /\ UNCHANGED <<cluster, actors, link, gap>>

\* Mutant: after a failure the command is sent twice.
Resolve_Resends(s) ==
  /\ pc[s] = "resolve" /\ Alive(row)
  /\ link' = [link EXCEPT ![s] = row]
  /\ mailbox' = [mailbox EXCEPT ![row] = IF Len(@) < Capacity THEN Append(@, s) ELSE @]
  /\ Goto(s, "cache")
  /\ UNCHANGED <<cluster, row, creator, st, marked, got, slot, gap>>

\* resolve: the registry is asked under its lock; it creates nothing ...
Resolve(s) ==
  /\ pc[s] = "resolve"
  /\ IF Alive(row)
     THEN link' = [link EXCEPT ![s] = row] /\ Goto(s, "cache")
     ELSE Goto(s, "err") /\ UNCHANGED link
  /\ UNCHANGED <<cluster, actors, slot, gap>>

\* ... and what it found goes into the cache.
Cache(s) ==
  /\ pc[s] = "cache"
  /\ slot' = link[s]
  /\ Goto(s, "second")
  /\ UNCHANGED <<cluster, actors, link, gap>>

----------------------------------------------------------------------------
Step(i) ==
  \/ Begin(i) \/ StartOk(i) \/ StartErr(i) \/ Receive(i) \/ HandledContinue(i)
  \/ HandledStop(i) \/ Retire(i) \/ End(i)

Next ==
  \/ Partition \/ Heal \/ Watch \/ Committed \/ ProposeErr \/ Relay
  \/ \E p \in Peer : Expire(p) \/ Hear(p)
  \/ CheckServing \/ Create
  \/ \E i \in Instance : Step(i) \/ StoodDown(i) \/ Panic(i)
  \/ \E s \in Sender : Tell(s) \/ Deliver(s) \/ Closed(s) \/ Resolve(s) \/ Cache(s)

Spec == Init /\ [][Next]_vars

\* The timer of watch_cluster ticks, windows run out, what a reachable quorum is
\* proposed is answered, and the tasks run.  on_start and the handlers return.
Fairness ==
  /\ WF_vars(Watch \/ Committed \/ ProposeErr) /\ WF_vars(Relay)
  /\ \A p \in Peer : WF_vars(Expire(p) \/ Hear(p))
  /\ \A i \in Instance : WF_vars(Step(i)) /\ WF_vars(StoodDown(i))
  /\ \A s \in Sender : WF_vars(Deliver(s) \/ Closed(s) \/ Resolve(s) \/ Cache(s))

FairSpec == Spec /\ Fairness

----------------------------------------------------------------------------
(* Properties *)

Watched == [value : BOOLEAN, version : Nat]

\* The variables have their types; a mailbox holds what its capacity allows.
TypeOK ==
  /\ connected \in BOOLEAN /\ cuts \in 0..MaxPartitions
  /\ acked \subseteq Peer /\ agreed \subseteq Peer
  /\ watcher \in (SUBSET Peer) \cup {None}
  /\ serving \in Watched /\ relayed \in Nat /\ signal \in Watched
  /\ row \in Instance \cup {None} /\ creator \in {"idle", "may"}
  /\ st \in [Instance -> {"unborn", "spawned", "starting", "idle", "handling",
                          "leaving", "ending", "ended"}]
  /\ marked \in [Instance -> Nat]
  /\ mailbox \in [Instance -> Seq(Sender)]
  /\ \A i \in Instance : Len(mailbox[i]) <= Capacity
  /\ slot \in Instance \cup {None}
  /\ pc \in [Sender -> {"idle", "first", "resolve", "cache", "second", "ok", "err"}]
  /\ link \in [Sender -> Instance \cup {None}]
  /\ gap \subseteq Sender
  /\ got \in [Sender -> Nat]

\* "A path whose actor has been recreated is not a failure": a tell fails only if,
\* at some moment of the call, the path really reached nothing.
FailsOnlyInGap == \A s \in Sender : pc[s] = "err" => s \in gap

\* A failed send hands its command back for one more try; still no command is in
\* two mailboxes, handled twice, or delivered by a tell that reported a failure.
Copies(s) ==
  got[s] + Cardinality({x \in Instance \X (1..Capacity) :
      x[2] \in DOMAIN mailbox[x[1]] /\ mailbox[x[1]][x[2]] = s})
DeliveredOnce == \A s \in Sender : Copies(s) <= (IF pc[s] = "ok" THEN 1 ELSE 0)

\* Every tell ends, also one that waits for a full mailbox whose actor goes away.
TellEnds == []<>(Underway = {})

\* The task had not run when the signal was raised, or had run only since: it
\* counts the signal as seen (mark_unchanged).
Deaf(i) == signal.value /\ marked[i] = signal.version
\* watch_cluster waits for a quorum that it cannot reach, and has not noticed.
Blocked == watcher # None /\ ~connected /\ serving.value

\* A node that stays cut off stops every actor it hosts; what can stay are actors
\* that were being created just then, and everything if the watcher is blocked.
NodeStandsDown ==
  <>[]~connected =>
    <>[](Blocked \/ \A i \in Instance : st[i] \in {"unborn", "spawned", "ended"} \/ Deaf(i))

\* A node that a quorum no longer answers stops serving: what watch_cluster says
\* of a leader that is partitioned away.
LeaderStandsDown == <>[]~connected => <>[]~serving.value

=============================================================================
