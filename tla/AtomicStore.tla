---------------------------- MODULE AtomicStore -----------------------------
(***************************************************************************)
(* What a store that keeps one value in a file promises: an update happens *)
(* at one point or not at all, and one that has returned stays.  A process *)
(* that dies loses nothing of what is stored; only a loss of power may     *)
(* take the last update back, as a whole.  The store opens with what is    *)
(* stored, and goes on from there.                                         *)
(***************************************************************************)
CONSTANTS
  Value,
  First      \* what a store that was never written holds

VARIABLES
  phase,     \* "idle", "busy" or "done" with an update; "failed", "down"
  wanted,    \* what its user reads: the last update that was asked for
  stored,    \* what the next open finds
  before     \* what it finds if the power goes

atomVars == <<phase, wanted, stored, before>>

AtomInit ==
  /\ phase = "idle"
  /\ wanted = First /\ stored = First /\ before = First

Begin ==
  /\ phase = "idle" /\ phase' = "busy"
  /\ wanted' \in Value
  /\ UNCHANGED <<stored, before>>

Commit ==
  /\ phase = "busy" /\ phase' = "done"
  /\ stored' = wanted /\ before' = stored
  /\ UNCHANGED wanted

\* An update that has returned is stored, so the user reads what is stored.
Ack ==
  /\ phase = "done" /\ phase' = "idle"
  /\ wanted = stored
  /\ UNCHANGED <<wanted, stored, before>>

\* An update that fails was not made, and the store is not used any more.
Fail ==
  /\ phase = "busy" /\ phase' = "failed"
  /\ UNCHANGED <<wanted, stored, before>>

Die ==
  /\ phase # "down" /\ phase' = "down"
  /\ wanted' = First
  /\ \/ UNCHANGED <<stored, before>>
     \/ stored' \in {stored, before} /\ before' = stored'

AtomSettle ==
  /\ before' = stored
  /\ UNCHANGED <<phase, wanted, stored>>

Reopen ==
  /\ phase = "down" /\ phase' = "idle"
  /\ wanted' = stored
  /\ UNCHANGED <<stored, before>>

AtomNext == Begin \/ Commit \/ Ack \/ Fail \/ Die \/ AtomSettle \/ Reopen

AtomSpec == AtomInit /\ [][AtomNext]_atomVars

=============================================================================
