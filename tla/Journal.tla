------------------------------- MODULE Journal -------------------------------
(***************************************************************************)
(* The journal's record of one actor, and the operations on it             *)
(* (journal.rs).  InMemoryJournal runs each operation under one lock, so   *)
(* each is one operator from an entry to an entry.  A stored event is      *)
(* opaque bytes in the code and a member of Event here; a stored state is  *)
(* the sequence of events folded into it, which is all that a pure         *)
(* apply_event can depend on.                                              *)
(***************************************************************************)
EXTENDS Integers, Sequences, FiniteSets, Functions

CONSTANTS
  Event,        \* what an actor may persist
  NoSnapshot    \* the None of Entry::snapshot

Snapshot == [state : Seq(Event), seq : Nat]

ASSUME NoSnapshotAssumption == NoSnapshot \notin Snapshot

\* `events` is a Vec<(seq, bytes)> in ascending order of distinct seq: here a
\* function from the sequence numbers that are stored to the events.
IsEntry(entry) ==
  /\ entry \in [events : {entry.events}, last_seq : Nat,
                snapshot : Snapshot \cup {NoSnapshot}]
  /\ DOMAIN entry.events \subseteq Nat
  /\ entry.events \in [DOMAIN entry.events -> Event]

\* Entry::default(), which is also what every read makes of a missing entry.
EmptyEntry == [events |-> << >>, last_seq |-> 0, snapshot |-> NoSnapshot]

----------------------------------------------------------------------------
(* Reads *)

\* Where recovery starts from: the snapshot's sequence number, 0 without one.
SnapSeq(entry) == IF entry.snapshot = NoSnapshot THEN 0 ELSE entry.snapshot.seq

SnapState(entry) ==
  IF entry.snapshot = NoSnapshot THEN << >> ELSE entry.snapshot.state

\* The members of a finite set of numbers in ascending order.
Ascending(S) ==
  [i \in 1..Cardinality(S) |->
     CHOOSE s \in S : Cardinality({t \in S : t =< s}) = i]

\* The sequence numbers that replay(after) yields, in the order it yields them.
Replay(entry, after) == Ascending({s \in DOMAIN entry.events : s > after})

\* The stored events with these numbers, folded into a state one by one.
Fold(state, entry, seqs) == state \o [k \in 1..Len(seqs) |-> entry.events[seqs[k]]]

\* What a recovery that nothing interrupts rebuilds from an entry.
Recovered(entry) == Fold(SnapState(entry), entry, Replay(entry, SnapSeq(entry)))

----------------------------------------------------------------------------
(* Writes *)

\* Mutant: a journal that appends unconditionally.
Admit_Unconditional(entry, expected) == TRUE

\* The fence: the log still ends where the writer believes it does.
Admit(entry, expected) == entry.last_seq = expected

\* The append that an admitted persist performs.
Persist(entry, batch) ==
  LET last == entry.last_seq
      next == last + Len(batch)
  IN [entry EXCEPT
        !.last_seq = next,
        !.events = [s \in DOMAIN entry.events \cup (last + 1 .. next) |->
                      IF s > last THEN batch[s - last] ELSE entry.events[s]]]

\* The replacement that an admitted save_snapshot performs.
SaveSnapshot(entry, state, seq) ==
  [entry EXCEPT !.snapshot = [state |-> state, seq |-> seq]]

\* Mutant: off by one, it drops the first event past the snapshot too.
DeleteEventsBefore_OffByOne(entry, seq) ==
  [entry EXCEPT !.events = Restrict(@, {s \in DOMAIN @ : s > seq + 1})]

\* Unconditional: it drops whatever is numbered seq or less.
DeleteEventsBefore(entry, seq) ==
  [entry EXCEPT !.events = Restrict(@, {s \in DOMAIN @ : s > seq})]

=============================================================================
