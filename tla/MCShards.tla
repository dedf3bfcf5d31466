------------------------------ MODULE MCShards ------------------------------
(***************************************************************************)
(* A small cluster for TLC.  Node ids and scores are small numbers; the    *)
(* first and the third node tie on the shard.                              *)
(***************************************************************************)
EXTENDS Shards

TiedShard == {"s"}

ScoreOf == <<3, 0, 3>>

MCScore == [p \in Shard \X Node |-> ScoreOf[p[2]]]

=============================================================================
