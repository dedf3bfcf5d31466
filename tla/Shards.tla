------------------------------- MODULE Shards -------------------------------
(***************************************************************************)
(* Where shards run: every node applies the agreed live set at its own     *)
(* pace (watch_cluster, set_live), routes commands by the placement it has *)
(* applied (deliver_to_shard, ClusterNode::send), starts an actor for a    *)
(* command that reaches it (dispatch), and stops the shards that moved     *)
(* away (watch_placement, release_vacated_shards).  These are different    *)
(* tasks on different nodes, and nothing orders them but what is modelled. *)
(*                                                                         *)
(* Every node has a quorum throughout; Raft is the growing sequence of     *)
(* states it has agreed on.                                                *)
(***************************************************************************)
EXTENDS Placement, Sequences

CONSTANTS
  Process,     \* the nodes that are followed; the others are members only
  Sender,      \* the nodes that commands are sent from
  MaxAgreed    \* bound: how many states are ever agreed

ASSUME ProcessAssumption == Process \subseteq Node /\ Sender \subseteq Process

VARIABLES
  agreed,      \* the states of the replicated state machine, oldest first
  store,       \* RaftStore: how many of them each node has applied
  table,       \* PlacementTable: the members each node places over
  telling,     \* set_live is between the table and the announcement
  fresh,       \* live_watch holds a set that watch_placement has not seen
  running,     \* the shards with an actor in the node's registry
  todo,        \* what is left of the sweep that is going on
  net,         \* commands on their way to the owner the sender found
  late         \* history: started for another node's shard since the last scan

vars == <<agreed, store, table, telling, fresh, running, todo, net, late>>
node == <<table, telling, fresh, running, todo, late>>

State == [live : SUBSET Node, voters : SUBSET Node]
Envelope == [to : Node, shard : Shard]

Init ==
  /\ agreed = <<[live |-> {}, voters |-> Node]>>
  /\ store = [n \in Node |-> 1]
  /\ table = [n \in Node |-> {}]
  /\ telling = [n \in Node |-> FALSE]
  /\ fresh = [n \in Node |-> FALSE]
  /\ running = [n \in Node |-> {}]
  /\ todo = [n \in Node |-> {}]
  /\ net = {}
  /\ late = [n \in Node |-> {}]

----------------------------------------------------------------------------
(* The agreed live set *)

Usable(state) == state.live \cap state.voters

Last == agreed[Len(agreed)]

Agree(state) ==
  /\ Len(agreed) < MaxAgreed
  /\ agreed' = Append(agreed, state)
  /\ UNCHANGED <<store, node, net>>

\* The leader publishes what it observes: itself and the voters it has heard
\* from, when that is not what its node has applied, which may be behind.
Propose(leader, live) ==
  LET applied == agreed[store[leader]]
  IN /\ leader \in live /\ live \ {leader} \subseteq applied.voters
     /\ live # Usable(applied)
     /\ Agree([Last EXCEPT !.live = live])

\* An operator changes the membership.
Reconfigure(voters) ==
  /\ voters # {} /\ voters # Last.voters
  /\ Agree([Last EXCEPT !.voters = voters])

\* The state machine applies entries, or installs a snapshot of several.
Apply(n, k) ==
  /\ k \in (store[n] + 1)..Len(agreed)
  /\ store' = [store EXCEPT ![n] = k]
  /\ UNCHANGED <<agreed, node, net>>

\* set_live, the first half.  A tick that reaffirms the set announces nothing.
SetTable(n) ==
  LET live == Usable(agreed[store[n]])
  IN /\ ~telling[n] /\ live # table[n]
     /\ table' = [table EXCEPT ![n] = live]
     /\ telling' = [telling EXCEPT ![n] = TRUE]
     /\ UNCHANGED <<agreed, store, fresh, running, todo, net, late>>

\* Mutant: only a node that dropped out of the set is told that it moved.
Announce_OnlyLeavers(n) ==
  /\ telling[n]
  /\ telling' = [telling EXCEPT ![n] = FALSE]
  /\ fresh' = [fresh EXCEPT ![n] = @ \/ n \notin table[n]]
  /\ UNCHANGED <<agreed, store, table, running, todo, net, late>>

\* set_live, the second half.
Announce(n) ==
  /\ telling[n]
  /\ telling' = [telling EXCEPT ![n] = FALSE]
  /\ fresh' = [fresh EXCEPT ![n] = TRUE]
  /\ UNCHANGED <<agreed, store, table, running, todo, net, late>>

----------------------------------------------------------------------------
(* Commands *)

\* deliver_to_shard: placement is asked once, and the command goes to the node
\* it names, this one included.  With no live member the send fails.  A failed
\* attempt that is retried is a Lose and another Send.
Send(n, shard) ==
  LET owner == OwnerOf(table[n], shard)
  IN /\ owner # None
     /\ net' = net \cup {[to |-> owner, shard |-> shard]}
     /\ UNCHANGED <<agreed, store, node>>

Lose(c) ==
  /\ net' = net \ {c}
  /\ UNCHANGED <<agreed, store, node>>

\* The receiver resolves the actor or builds it.  It does not ask placement.
Deliver(c) ==
  LET n == c.to
      moved == OwnerOf(table[n], c.shard) # n /\ c.shard \notin running[n]
  IN /\ net' = net \ {c}
     /\ running' = [running EXCEPT ![n] = @ \cup {c.shard}]
     /\ late' = IF moved THEN [late EXCEPT ![n] = @ \cup {c.shard}] ELSE late
     /\ UNCHANGED <<agreed, store, table, telling, fresh, todo>>

\* The last actor of the shard stops by itself.
Finish(n, shard) ==
  /\ shard \in running[n]
  /\ running' = [running EXCEPT ![n] = @ \ {shard}]
  /\ late' = [late EXCEPT ![n] = @ \ {shard}]
  /\ UNCHANGED <<agreed, store, table, telling, fresh, todo, net>>

----------------------------------------------------------------------------
(* The sweep *)

\* Mutant: only a node that dropped out of the set looks for shards to release.
SweepBegin_OnlyLeavers(n) ==
  /\ fresh[n] /\ todo[n] = {} /\ n \notin table[n]
  /\ fresh' = [fresh EXCEPT ![n] = FALSE]
  /\ todo' = [todo EXCEPT ![n] = running[n]]
  /\ late' = [late EXCEPT ![n] = {}]
  /\ UNCHANGED <<agreed, store, table, telling, running, net>>

\* watch_placement wakes, and release_vacated_shards reads the registry.
SweepBegin(n) ==
  /\ fresh[n] /\ todo[n] = {}
  /\ fresh' = [fresh EXCEPT ![n] = FALSE]
  /\ todo' = [todo EXCEPT ![n] = running[n]]
  /\ late' = [late EXCEPT ![n] = {}]
  /\ UNCHANGED <<agreed, store, table, telling, running, net>>

\* One shard of the sweep: placement is asked now, not when the sweep began.
SweepShard(n) ==
  \E shard \in todo[n] :
    LET gone == IF OwnerOf(table[n], shard) = n THEN {} ELSE {shard}
    IN /\ todo' = [todo EXCEPT ![n] = @ \ {shard}]
       /\ running' = [running EXCEPT ![n] = @ \ gone]
       /\ late' = [late EXCEPT ![n] = @ \ gone]
       /\ UNCHANGED <<agreed, store, table, telling, fresh, net>>

\* The process dies and comes back with its store and an empty table.
Restart(n) ==
  /\ table' = [table EXCEPT ![n] = {}]
  /\ telling' = [telling EXCEPT ![n] = FALSE]
  /\ fresh' = [fresh EXCEPT ![n] = FALSE]
  /\ running' = [running EXCEPT ![n] = {}]
  /\ todo' = [todo EXCEPT ![n] = {}]
  /\ late' = [late EXCEPT ![n] = {}]
  /\ UNCHANGED <<agreed, store, net>>

Next ==
  \/ \E n \in Process, s \in SUBSET Node : Propose(n, s)
  \/ \E s \in SUBSET Node : Reconfigure(s)
  \/ \E n \in Process, k \in 1..MaxAgreed : Apply(n, k)
  \/ \E n \in Process : SetTable(n) \/ Announce(n) \/ SweepBegin(n) \/ SweepShard(n)
  \/ \E n \in Process : Restart(n)
  \/ \E n \in Sender, shard \in Shard : Send(n, shard)
  \/ \E n \in Process, shard \in Shard : Finish(n, shard)
  \/ \E c \in net : Lose(c)
  \/ \E c \in net : c.to \in Process /\ Deliver(c)

Spec == Init /\ [][Next]_vars

\* What is agreed reaches every node, the watch loop ticks, the sweeper runs,
\* and a stop returns.
Fairness ==
  \A n \in Process :
    /\ WF_vars(\E k \in 1..MaxAgreed : Apply(n, k))
    /\ WF_vars(SetTable(n)) /\ WF_vars(Announce(n))
    /\ WF_vars(SweepBegin(n)) /\ WF_vars(SweepShard(n))

FairSpec == Spec /\ Fairness

----------------------------------------------------------------------------
(* Properties *)

\* The variables of the nodes (ClusterNode, SystemInner) have their types.
TypeOK ==
  /\ agreed \in Seq(State) /\ agreed # << >>
  /\ store \in [Node -> 1..Len(agreed)]
  /\ table \in [Node -> SUBSET Node]
  /\ telling \in [Node -> BOOLEAN]
  /\ fresh \in [Node -> BOOLEAN]
  /\ running \in [Node -> SUBSET Shard]
  /\ todo \in [Node -> SUBSET Shard]
  /\ net \in SUBSET Envelope
  /\ late \in [Node -> SUBSET Shard]

\* A shard that hashed away never escapes the sweep: a shard that runs on a node
\* whose placement names another is about to be swept, or its actor was started
\* by a command that came after the node had last read its registry.
Released ==
  \A n \in Node : \A shard \in running[n] :
    \/ OwnerOf(table[n], shard) = n
    \/ telling[n] \/ fresh[n]
    \/ shard \in todo[n] \/ shard \in late[n]

\* A shard does not move because some unrelated node came or went: a new owner
\* means that the old one left or that the new one has just joined.
MinimalMoves ==
  [][\A n \in Node, shard \in Shard :
       LET old == OwnerOf(table[n], shard)
           new == OwnerOf(table[n]', shard)
       IN  table[n] # {} /\ table[n]' # {} /\ old # new
             => old \notin table[n]' \/ new \notin table[n]]_vars

\* What the sweep is for: a shard that moved away, and was not started late, is
\* stopped, unless it comes back.
VacatedStops ==
  \A n \in Node, shard \in Shard :
    /\ shard \in running[n] /\ shard \notin late[n]
    /\ OwnerOf(table[n], shard) # n
    ~> shard \notin running[n] \/ OwnerOf(table[n], shard) = n

\* release_vacated_shards: for a beat the new owner "may have started before the
\* old one stops", and this sweep "is what makes it end".
OverlapEnds ==
  \A m, n \in Node, shard \in Shard :
    m # n /\ shard \in running[m] /\ shard \in running[n]
      ~> ~(shard \in running[m] /\ shard \in running[n])

=============================================================================
