------------------------------ MODULE Persistent ------------------------------
(***************************************************************************)
(* Event-sourced actors over one log (persistent.rs).  Several instances   *)
(* of the same actor may be running: placement may give the identity to a  *)
(* new host while the old one is still alive, and every host shares the    *)
(* journal.  An instance recovers, handles commands one at a time, and may *)
(* be lost at any await: it crashes, its handler is cancelled by a stop or *)
(* a stand-down, or its start fails.  Every journal call is a step of its  *)
(* own, since each is awaited and other instances run in between.          *)
(***************************************************************************)
EXTENDS Journal

CONSTANTS
  Instance,   \* the places where an instance of the actor may run
  Effect,     \* the CommandEffects its command handler may return
  NoView,     \* for EventLog: the view of an instance that is not up
  MaxSeq      \* bound on the length of the log

EffectType == [events : Seq(Event), snapshot : BOOLEAN, stop : BOOLEAN]

ASSUME EffectAssumption == Effect \subseteq EffectType
ASSUME MaxSeqAssumption == MaxSeq \in Nat
ASSUME NoViewAssumption == NoView \notin Seq(Event)

VARIABLES
  entry,      \* the journal's entry for this actor's PersistenceId
  phase,      \* where each instance is in run_actor, on_start or handle
  state,      \* Persistent::state: the events folded into it, in order
  seq_nr,     \* Persistent::seq_nr
  effect,     \* what the command being handled decided
  result,     \* the outcome of its durable write
  hist,       \* history: every event ever admitted, in order
  observed    \* history: the states told to somebody outside as durable, by
              \* on_events_persisted or by an Ok ack

vars == <<entry, phase, state, seq_nr, effect, result, hist, observed>>

Phase == {"down", "snapshot", "replay", "idle", "persist", "publish",
          "save", "compact", "ack"}

Result == {"none", "ok", "conflict", "failed"}

NoEffect == [events |-> << >>, snapshot |-> FALSE, stop |-> FALSE]

Init ==
  /\ entry = EmptyEntry
  /\ phase = [i \in Instance |-> "down"]
  /\ state = [i \in Instance |-> << >>]
  /\ seq_nr = [i \in Instance |-> 0]
  /\ effect = [i \in Instance |-> NoEffect]
  /\ result = [i \in Instance |-> "none"]
  /\ hist = << >>
  /\ observed = {}

----------------------------------------------------------------------------

Goto(i, p) == phase' = [phase EXCEPT ![i] = p]

\* The instance is gone and everything it held in memory with it.
Gone(i) ==
  /\ Goto(i, "down")
  /\ state' = [state EXCEPT ![i] = << >>]
  /\ seq_nr' = [seq_nr EXCEPT ![i] = 0]
  /\ effect' = [effect EXCEPT ![i] = NoEffect]
  /\ result' = [result EXCEPT ![i] = "none"]

\* Persistent::new, and the actor's task starts.
Start(i) ==
  /\ phase[i] = "down"
  /\ Goto(i, "snapshot")
  /\ UNCHANGED <<entry, state, seq_nr, effect, result, hist, observed>>

\* recover, first half: the latest snapshot, or the initial state.
LoadSnapshot(i) ==
  /\ phase[i] = "snapshot"
  /\ Goto(i, "replay")
  /\ state' = [state EXCEPT ![i] = SnapState(entry)]
  /\ seq_nr' = [seq_nr EXCEPT ![i] = SnapSeq(entry)]
  /\ UNCHANGED <<entry, effect, result, hist, observed>>

\* recover, second half: fold what the journal stores past that number, taking
\* the journal's numbering and not counting.
FoldReplay(i) ==
  LET seqs == Replay(entry, seq_nr[i])
  IN /\ phase[i] = "replay"
     /\ Goto(i, "idle")
     /\ state' = [state EXCEPT ![i] = Fold(@, entry, seqs)]
     /\ seq_nr' = [seq_nr EXCEPT ![i] = IF seqs = << >> THEN @ ELSE seqs[Len(seqs)]]
     /\ UNCHANGED <<entry, effect, result, hist, observed>>

\* handle_command decides; the decision may depend on the command and on the
\* state, so any effect is possible.
HandleCommand(i) ==
  /\ phase[i] = "idle"
  /\ \E e \in Effect :
       /\ seq_nr[i] + Len(e.events) =< MaxSeq
       /\ effect' = [effect EXCEPT ![i] = e]
  /\ Goto(i, "persist")
  /\ UNCHANGED <<entry, state, seq_nr, result, hist, observed>>

\* persist_events: the conditional append, then the fold.  A batch with no
\* event makes the call too.
PersistAdmitted(i) ==
  LET batch == effect[i].events
  IN /\ phase[i] = "persist"
     /\ Admit(entry, seq_nr[i])
     /\ entry' = Persist(entry, batch)
     /\ hist' = hist \o batch
     /\ state' = [state EXCEPT ![i] = @ \o batch]
     /\ seq_nr' = [seq_nr EXCEPT ![i] = @ + Len(batch)]
     /\ result' = [result EXCEPT ![i] = "ok"]
     /\ Goto(i, "publish")
     /\ UNCHANGED <<effect, observed>>

\* Mutant: on a conflict the writer adopts the log's number and tries again.
PersistConflicts_Retry(i) ==
  /\ phase[i] = "persist"
  /\ ~Admit(entry, seq_nr[i])
  /\ seq_nr' = [seq_nr EXCEPT ![i] = entry.last_seq]
  /\ UNCHANGED <<entry, phase, state, effect, result, hist, observed>>

PersistConflicts(i) ==
  /\ phase[i] = "persist"
  /\ ~Admit(entry, seq_nr[i])
  /\ result' = [result EXCEPT ![i] = "conflict"]
  /\ Goto(i, "ack")
  /\ UNCHANGED <<entry, state, seq_nr, effect, hist, observed>>

\* Mutant: a failed write is logged, and handled as if it had succeeded.
PersistFails_Swallowed(i) ==
  /\ phase[i] = "persist"
  /\ state' = [state EXCEPT ![i] = @ \o effect[i].events]
  /\ result' = [result EXCEPT ![i] = "ok"]
  /\ Goto(i, "publish")
  /\ UNCHANGED <<entry, seq_nr, effect, hist, observed>>

\* An event does not encode, or the backend fails: nothing is appended and
\* nothing is folded.
PersistFails(i) ==
  /\ phase[i] = "persist"
  /\ result' = [result EXCEPT ![i] = "failed"]
  /\ Goto(i, "ack")
  /\ UNCHANGED <<entry, state, seq_nr, effect, hist, observed>>

\* on_events_persisted, for a batch that is not empty.
Publish(i) ==
  /\ phase[i] = "publish"
  /\ observed' = IF effect[i].events = << >> THEN observed
                 ELSE observed \cup {state[i]}
  /\ Goto(i, IF effect[i].snapshot /\ ~effect[i].stop THEN "save" ELSE "ack")
  /\ UNCHANGED <<entry, state, seq_nr, effect, result, hist>>

\* snapshot_state: the conditional save ...
SnapshotAdmitted(i) ==
  /\ phase[i] = "save"
  /\ Admit(entry, seq_nr[i])
  /\ entry' = SaveSnapshot(entry, state[i], seq_nr[i])
  /\ Goto(i, "compact")
  /\ UNCHANGED <<state, seq_nr, effect, result, hist, observed>>

\* ... whose rejection, or failure, returns before anything is deleted ...
SnapshotSkipped(i) ==
  /\ phase[i] = "save"
  /\ Goto(i, "ack")
  /\ UNCHANGED <<entry, state, seq_nr, effect, result, hist, observed>>

\* ... and the unconditional compaction, which may fail.
Compact(i) ==
  /\ phase[i] = "compact"
  /\ entry' \in {entry, DeleteEventsBefore(entry, seq_nr[i])}
  /\ Goto(i, "ack")
  /\ UNCHANGED <<state, seq_nr, effect, result, hist, observed>>

\* Mutant: a conflict is reported and the instance carries on.
Ack_ConflictCarriesOn(i) ==
  /\ phase[i] = "ack"
  /\ \/ result[i] = "ok" /\ observed' = observed \cup {state[i]}
     \/ UNCHANGED observed
  /\ IF effect[i].stop
       THEN Gone(i)
       ELSE /\ Goto(i, "idle")
            /\ effect' = [effect EXCEPT ![i] = NoEffect]
            /\ result' = [result EXCEPT ![i] = "none"]
            /\ UNCHANGED <<state, seq_nr>>
  /\ UNCHANGED <<entry, hist>>

\* The ack, if the command carried one, and then the flow: a conflict ends the
\* instance as a requested stop does.
Ack(i) ==
  /\ phase[i] = "ack"
  /\ \/ result[i] = "ok" /\ observed' = observed \cup {state[i]}
     \/ UNCHANGED observed
  /\ IF effect[i].stop \/ result[i] = "conflict"
       THEN Gone(i)
       ELSE /\ Goto(i, "idle")
            /\ effect' = [effect EXCEPT ![i] = NoEffect]
            /\ result' = [result EXCEPT ![i] = "none"]
            /\ UNCHANGED <<state, seq_nr>>
  /\ UNCHANGED <<entry, hist>>

\* A crash, a cancelled handler, a failed start or a stop between commands.
Lose(i) ==
  /\ phase[i] # "down"
  /\ Gone(i)
  /\ UNCHANGED <<entry, hist, observed>>

Next ==
  \E i \in Instance :
    \/ Start(i)
    \/ LoadSnapshot(i)
    \/ FoldReplay(i)
    \/ HandleCommand(i)
    \/ PersistAdmitted(i)
    \/ PersistConflicts(i)
    \/ PersistFails(i)
    \/ Publish(i)
    \/ SnapshotAdmitted(i)
    \/ SnapshotSkipped(i)
    \/ Compact(i)
    \/ Ack(i)
    \/ Lose(i)

Spec == Init /\ [][Next]_vars

\* Scheduling: a task that can run does run.  Commands keep arriving and the
\* journal does not fail for ever, which is when the code promises anything.
Fairness ==
  \A i \in Instance :
    /\ WF_vars(LoadSnapshot(i))
    /\ WF_vars(FoldReplay(i))
    /\ WF_vars(HandleCommand(i))
    /\ SF_vars(PersistAdmitted(i) \/ PersistConflicts(i))
    /\ WF_vars(Publish(i))
    /\ WF_vars(SnapshotSkipped(i) \/ SnapshotAdmitted(i))
    /\ WF_vars(Compact(i))
    /\ WF_vars(Ack(i))

FairSpec == Spec /\ Fairness

----------------------------------------------------------------------------
(* Properties *)

Running(i) == phase[i] \notin {"down", "snapshot", "replay"}

\* The variables have their types, the journal entry included (Entry, Persistent).
TypeOK ==
  /\ IsEntry(entry)
  /\ phase \in [Instance -> Phase]
  /\ state \in [Instance -> Seq(Event)]
  /\ seq_nr \in [Instance -> Nat]
  /\ effect \in [Instance -> Effect \cup {NoEffect}]
  /\ result \in [Instance -> Result]
  /\ hist \in Seq(Event)
  /\ observed \subseteq Seq(Event)

\* Every event that was ever admitted is still in the journal unless a saved
\* snapshot is at or past it: compaction, which is unconditional, never drops
\* an event that only a rejected or missing snapshot would cover, even when a
\* stale instance that paused between its save and its delete wakes up.
NothingLostToCompaction ==
  /\ entry.last_seq = Len(hist)
  /\ \A s \in 1..Len(hist) :
       s =< SnapSeq(entry) \/ (s \in DOMAIN entry.events /\ entry.events[s] = hist[s])

\* README: a fresh actor with the same identity recovers exactly where the
\* previous one left off.  The state of every running instance is the fold of
\* the history up to its seq_nr, with nothing skipped and nothing twice.
StateIsHistory ==
  \A i \in Instance :
    Running(i) => /\ seq_nr[i] =< Len(hist)
                  /\ state[i] = SubSeq(hist, 1, seq_nr[i])

\* What was announced through on_events_persisted or acknowledged Ok is part
\* of what the next recovery rebuilds, whatever crashed since.
ObservedSurvives ==
  \A s \in observed : /\ Len(s) =< Len(Recovered(entry))
                      /\ s = SubSeq(Recovered(entry), 1, Len(s))

\* save_snapshot never replaces a snapshot by an older one, and a history that
\* was compacted behind a snapshot is never needed again.
SnapshotNeverRegresses == [][SnapSeq(entry') >= SnapSeq(entry)]_vars

\* An instance that another one has overtaken does not stay up failing every
\* write: a conflict is terminal (the "zombie" of Persistent::handle).
OvertakenEnds ==
  \A i \in Instance :
    (Running(i) /\ seq_nr[i] < entry.last_seq) ~> phase[i] = "down"

\* Snapshots and overlapping instances do not meet.  Recovery reads the
\* snapshot and the events in two calls; only under this assumption can no
\* other instance move the snapshot and compact in between.
SafeUse ==
  \/ \A e \in Effect : ~e.snapshot
  \/ \A i, j \in Instance : i = j

EL == INSTANCE EventLog WITH
        log <- hist,
        view <- [i \in Instance |-> IF Running(i) THEN state[i] ELSE NoView],
        told <- observed

\* The runtime implements the abstract event log.
ImplementsEventLog == EL!ELSpec

=============================================================================
