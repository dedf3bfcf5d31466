---------------------------- MODULE MCPersistent ----------------------------
(***************************************************************************)
(* Small instances of Persistent for TLC.                                  *)
(***************************************************************************)
EXTENDS Persistent

CONSTANTS e1, e2

Eff(events, snapshot, stop) ==
  [events |-> events, snapshot |-> snapshot, stop |-> stop]

\* A query, single events that can be told apart, a batch, and a final batch.
PlainEffects ==
  {Eff(<< >>, FALSE, FALSE), Eff(<<e1>>, FALSE, FALSE),
   Eff(<<e2>>, FALSE, FALSE), Eff(<<e1, e2>>, FALSE, FALSE),
   Eff(<<e2>>, FALSE, TRUE)}

\* The two that matter for a race: an event, and an event with a snapshot.
RaceEffects == {Eff(<<e1>>, FALSE, FALSE), Eff(<<e2>>, TRUE, FALSE)}

=============================================================================
