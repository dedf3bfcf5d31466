------------------------------ MODULE Cluster -------------------------------
(* What the modules on several nodes have in common.                          *)

CONSTANTS
  Node,        \* NodeId
  None         \* Option::None

=============================================================================
