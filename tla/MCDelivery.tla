----------------------------- MODULE MCDelivery -----------------------------
(***************************************************************************)
(* Two nodes and a few commands for TLC.                                   *)
(***************************************************************************)
EXTENDS Delivery, TLC

Commands == Permutations(Command)

=============================================================================
