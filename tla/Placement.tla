----------------------------- MODULE Placement -----------------------------
(***************************************************************************)
(* Who hosts what (cluster/placement.rs): rendezvous hashing of a shard    *)
(* over a set of members.  A pure function: all that two nodes have to     *)
(* share is the set.                                                       *)
(***************************************************************************)
EXTENDS Cluster, Integers, FiniteSets

CONSTANTS
  Shard,       \* a type name with a shard id
  Score,       \* score(type_name, shard_id, node): any hash at all
  MaxId        \* u64::MAX, which bounds scores and node ids

ASSUME PlacementAssumption ==
  /\ MaxId \in Nat
  /\ Node \subseteq 0..MaxId
  /\ Score \in [Shard \X Node -> 0..MaxId]
  /\ None \notin Node

\* max_by_key goes through the members in ascending order and keeps the last of
\* equals, so the highest id wins a tie.
Beats(n, m, shard) ==
  \/ Score[<<shard, n>>] > Score[<<shard, m>>]
  \/ Score[<<shard, n>>] = Score[<<shard, m>>] /\ n >= m

Wins(n, members, shard) == n \in members /\ \A m \in members : Beats(n, m, shard)

\* Mutant: the score is that of a member's position in the set, not of its id.
OwnerOf_ByPosition(members, shard) ==
  LET position(n) == Cardinality({m \in members : m =< n})
  IN  IF members = {} THEN None
      ELSE CHOOSE n \in members :
             \A m \in members : Beats(position(n), position(m), shard)

OwnerOf(members, shard) ==
  IF members = {} THEN None ELSE CHOOSE n \in members : Wins(n, members, shard)

=============================================================================
