---------------------------- MODULE MCRaftStore -----------------------------
(***************************************************************************)
(* A small instance of RaftStore.                                          *)
(***************************************************************************)
EXTENDS RaftStore

\* The cluster is formed, a live set is agreed, a leader is elected.
Kinds == <<"membership", "live", "blank">>

=============================================================================
