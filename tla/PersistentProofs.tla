--------------------------- MODULE PersistentProofs ---------------------------
(***************************************************************************)
(* What the runtime's event sourcing guarantees for any number of          *)
(* instances, any log length and any command effects.                      *)
(*                                                                         *)
(* The argument has two layers.  FenceInv holds for every use: the journal *)
(* entry always records the whole admitted history, no instance is ahead   *)
(* of it, and an instance about to compact is not past the snapshot.       *)
(* HistoryInv adds what the states are, and holds when snapshots and       *)
(* overlapping instances do not meet (SafeUse): recovery reads the         *)
(* snapshot and the events in two calls, and only then can nothing move    *)
(* the snapshot in between.                                                *)
(*                                                                         *)
(* Under both are facts about the journal's operations, for every entry    *)
(* and every log: what Replay yields, what a recovery rebuilds, and that   *)
(* each write keeps an entry a faithful record of the history behind it.   *)
(***************************************************************************)
EXTENDS Persistent, FiniteSetTheorems, SequenceTheorems, TLAPS

----------------------------------------------------------------------------
(* The journal *)

\* An entry records a history: it ends where the history ends, what it stores
\* is the history's tail, and a snapshot is at or past whatever is missing.
Records(rec, log) ==
  /\ rec.last_seq = Len(log)
  /\ SnapSeq(rec) \in 0..Len(log)
  /\ \E base \in 0..SnapSeq(rec) : DOMAIN rec.events = base + 1 .. Len(log)
  /\ \A s \in DOMAIN rec.events : rec.events[s] = log[s]

\* The members of an interval in ascending order: the k-th is the one with k
\* members at or below it.
LEMMA AscendingInterval ==
  ASSUME NEW lo \in Nat, NEW n \in Nat, lo =< n
  PROVE  Ascending(lo + 1 .. n) = [k \in 1 .. n - lo |-> lo + k]
<1> DEFINE S == lo + 1 .. n
<1>0. \A m \in Nat : lo =< m => Cardinality(lo + 1 .. m) = m - lo
  <2> TAKE m \in Nat
  <2>1. Cardinality(lo + 1 .. m) = IF lo + 1 > m THEN 0 ELSE m - (lo + 1) + 1
    <3>1. lo + 1 \in Int /\ m \in Int
      OBVIOUS
    <3> QED
      BY <3>1, FS_Interval
  <2> QED
    BY <2>1
<1>1. Cardinality(S) = n - lo
  BY <1>0
<1>2. ASSUME NEW s \in S
      PROVE  Cardinality({t \in S : t =< s}) = s - lo
  <2>1. {t \in S : t =< s} = lo + 1 .. s
    OBVIOUS
  <2>2. s \in Nat /\ lo =< s
    OBVIOUS
  <2> QED
    BY <2>1, <2>2, <1>0, Zenon
<1>3. ASSUME NEW k \in 1 .. n - lo
      PROVE  (CHOOSE s \in S : Cardinality({t \in S : t =< s}) = k) = lo + k
  <2>1. lo + k \in S /\ Cardinality({t \in S : t =< lo + k}) = k
    BY <1>2
  <2>2. \A s \in S : Cardinality({t \in S : t =< s}) = k => s = lo + k
    BY <1>2
  <2> HIDE DEF S
  <2> QED
    BY <2>1, <2>2
<1> HIDE DEF S
<1>4. Ascending(S) = [k \in 1 .. n - lo |-> lo + k]
  BY <1>1, <1>3 DEF Ascending
<1> QED
  BY <1>4 DEF S

\* The number a replay starts from: past what the caller has, and past what
\* was compacted away.
From(base, after) == IF after > base THEN after ELSE base

\* replay(after) yields every stored number past `after`, in order.
LEMMA ReplayYields ==
  ASSUME NEW rec, NEW n \in Nat, NEW base \in 0..n, NEW after \in 0..n,
         DOMAIN rec.events = base + 1 .. n
  PROVE  Replay(rec, after)
           = [k \in 1 .. n - From(base, after) |-> From(base, after) + k]
<1>1. {s \in DOMAIN rec.events : s > after} = From(base, after) + 1 .. n
  BY DEF From
<1>2. From(base, after) \in Nat /\ From(base, after) =< n
  BY DEF From
<1> QED
  BY <1>1, <1>2, AscendingInterval, Zenon DEF Replay

\* Folding a replay adds exactly the tail of the history that was yielded, and
\* leaves the reader at the end of the log, or where it was.
LEMMA FoldYields ==
  ASSUME NEW log \in Seq(Event), NEW rec, NEW start \in Seq(Event),
         Records(rec, log),
         NEW after \in 0..Len(log)
  PROVE  LET seqs == Replay(rec, after)
         IN /\ \E lo \in 0..Len(log) :
                 /\ Fold(start, rec, seqs) = start \o SubSeq(log, lo + 1, Len(log))
                 /\ SnapSeq(rec) =< after => lo = after
            /\ (IF seqs = << >> THEN after ELSE seqs[Len(seqs)]) \in after..Len(log)
            /\ SnapSeq(rec) =< after =>
                 (IF seqs = << >> THEN after ELSE seqs[Len(seqs)]) = Len(log)
<1> DEFINE n == Len(log)
           seqs == Replay(rec, after)
<1>1. n \in Nat
  OBVIOUS
<1>2. PICK base \in 0..SnapSeq(rec) : DOMAIN rec.events = base + 1 .. n
  BY DEF Records
<1>3. base \in 0..n
  BY <1>1, <1>2 DEF Records
<1> DEFINE lo == From(base, after)
<1>4. seqs = [k \in 1 .. n - lo |-> lo + k]
  BY <1>1, <1>2, <1>3, ReplayYields
<1>5. /\ lo \in 0..n
      /\ after =< lo
      /\ SnapSeq(rec) =< after => lo = after
  BY <1>1, <1>2, <1>3 DEF From, Records
<1> HIDE DEF lo
<1>6. n - lo \in Nat /\ Len(seqs) = n - lo
  BY <1>1, <1>4, <1>5
<1>7. [k \in 1..Len(seqs) |-> rec.events[seqs[k]]] = SubSeq(log, lo + 1, n)
  <2> DEFINE read == [k \in 1..Len(seqs) |-> rec.events[seqs[k]]]
  <2>1. \A k \in 1 .. n - lo : read[k] = log[lo + k]
    <3> TAKE k \in 1 .. n - lo
    <3>1. seqs[k] = lo + k
      BY <1>4
    <3>2. lo + k \in DOMAIN rec.events
      BY <1>2, <1>3, <1>5 DEF From, lo
    <3> QED
      BY <1>6, <3>1, <3>2 DEF Records
  <2>2. \A k \in lo + 1 .. n : log[k] \in Event
    BY <1>1, <1>5
  <2>3. /\ SubSeq(log, lo + 1, n) \in Seq(Event)
        /\ Len(SubSeq(log, lo + 1, n)) = n - lo
        /\ \A k \in 1 .. n - lo : SubSeq(log, lo + 1, n)[k] = log[lo + k]
    BY <1>1, <1>5, <2>2, SubSeqProperties
  <2>4. read = [k \in 1 .. n - lo |-> log[lo + k]]
    BY <1>6, <2>1
  <2>5. SubSeq(log, lo + 1, n) = [k \in 1 .. n - lo |-> log[lo + k]]
    BY <2>3, LenProperties, Zenon
  <2> QED
    BY <2>4, <2>5, Zenon
<1>8. Fold(start, rec, seqs) = start \o SubSeq(log, lo + 1, n)
  BY <1>7, Zenon DEF Fold
<1>9. (IF seqs = << >> THEN after ELSE seqs[Len(seqs)])
        = IF n = lo THEN after ELSE n
  <2>1. CASE n = lo
    BY <1>4, <2>1
  <2>2. CASE n # lo
    <3>1. n - lo \in 1 .. n - lo
      BY <1>1, <1>5, <2>2
    <3>2. seqs # << >> /\ seqs[n - lo] = lo + (n - lo)
      BY <1>4, <3>1
    <3> QED
      BY <1>1, <1>5, <1>6, <2>2, <3>2
  <2> QED
    BY <2>1, <2>2
<1> HIDE DEF seqs
<1>10. (IF n = lo THEN after ELSE n) \in after..n
  BY <1>1, <1>5
<1>11. SnapSeq(rec) =< after => (IF n = lo THEN after ELSE n) = n
  BY <1>5
<1> QED
  BY <1>5, <1>8, <1>9, <1>10, <1>11, Zenon DEF seqs

\* An uninterrupted recovery from a snapshot that is the fold of the history up
\* to its number rebuilds the whole history.
LEMMA RecoveredIsHistory ==
  ASSUME NEW log \in Seq(Event), NEW rec,
         Records(rec, log),
         SnapState(rec) = SubSeq(log, 1, SnapSeq(rec))
  PROVE  Recovered(rec) = log
<1> DEFINE q == SnapSeq(rec)
           n == Len(log)
<1>1. n \in Nat /\ q \in 0..n
  BY DEF Records
<1>2. SubSeq(log, 1, q) \in Seq(Event)
  BY <1>1, SubSeqProperties
<1>3. Recovered(rec) = SubSeq(log, 1, q) \o SubSeq(log, q + 1, n)
  <2>1. PICK lo \in 0..n :
          /\ Fold(SubSeq(log, 1, q), rec, Replay(rec, q))
               = SubSeq(log, 1, q) \o SubSeq(log, lo + 1, n)
          /\ SnapSeq(rec) =< q => lo = q
    BY <1>1, <1>2, FoldYields, Zenon
  <2>2. lo = q
    BY <1>1, <2>1
  <2>3. Recovered(rec) = Fold(SubSeq(log, 1, q), rec, Replay(rec, q))
    BY DEF Recovered
  <2> HIDE DEF q, n
  <2> QED
    BY <2>1, <2>2, <2>3, Zenon
<1>4. SubSeq(log, 1, q) \o SubSeq(log, q + 1, n) = SubSeq(log, 1, n)
  <2>1. 1 \in 1 .. Len(log) + 1 /\ q \in 1 - 1 .. Len(log) /\ n \in q .. Len(log)
    BY <1>1
  <2> HIDE DEF q, n
  <2> QED
    BY <2>1, ConcatAdjacentSubSeq
<1> QED
  BY <1>3, <1>4, SubSeqFull, Zenon

----------------------------------------------------------------------------

\* An admitted append keeps the entry a record of the longer history.
LEMMA PersistRecords ==
  ASSUME NEW log \in Seq(Event), NEW rec, NEW batch \in Seq(Event),
         IsEntry(rec), Records(rec, log)
  PROVE  /\ IsEntry(Persist(rec, batch))
         /\ Records(Persist(rec, batch), log \o batch)
         /\ Persist(rec, batch).snapshot = rec.snapshot
<1> DEFINE last == rec.last_seq
           next == last + Len(batch)
           new == Persist(rec, batch)
           stored == DOMAIN rec.events \cup (last + 1 .. next)
<1>1. /\ last = Len(log) /\ last \in Nat /\ Len(batch) \in Nat
      /\ next \in Nat /\ last =< next
  BY DEF Records
<1>2. /\ new.last_seq = next
      /\ new.snapshot = rec.snapshot
      /\ new.events = [s \in stored |->
                         IF s > last THEN batch[s - last] ELSE rec.events[s]]
      /\ new \in [events : {new.events}, last_seq : Nat,
                  snapshot : Snapshot \cup {NoSnapshot}]
  BY <1>1, Zenon DEF Persist, IsEntry
<1>3. SnapSeq(new) = SnapSeq(rec)
  BY <1>2 DEF SnapSeq
<1>4. PICK base \in 0..SnapSeq(rec) : DOMAIN rec.events = base + 1 .. last
  BY <1>1 DEF Records
<1>5. base \in Nat /\ base =< last
  BY <1>1, <1>4 DEF Records
<1>6. stored = base + 1 .. next
  BY <1>1, <1>4, <1>5
<1>7. DOMAIN new.events = stored
  BY <1>2
<1>8. /\ log \o batch \in Seq(Event)
      /\ Len(log \o batch) = next
      /\ \A s \in 1..next : (log \o batch)[s] = IF s =< last THEN log[s] ELSE batch[s - last]
  BY <1>1, ConcatProperties
<1>9. \A s \in stored : new.events[s] = (log \o batch)[s]
  <2> TAKE s \in stored
  <2>1. s \in 1..next
    BY <1>1, <1>5, <1>6
  <2>2. CASE s > last
    BY <1>1, <1>2, <1>8, <2>1, <2>2
  <2>3. CASE s =< last
    <3>1. s \in DOMAIN rec.events
      BY <1>1, <1>4, <1>5, <1>6, <2>3
    <3>2. new.events[s] = rec.events[s]
      BY <1>1, <1>2, <2>1, <2>3
    <3> QED
      BY <1>8, <2>1, <2>3, <3>1, <3>2 DEF Records
  <2> QED
    BY <1>1, <2>1, <2>2, <2>3
<1>10. \A s \in stored : new.events[s] \in Event
  <2> TAKE s \in stored
  <2>1. s \in 1..next
    BY <1>1, <1>5, <1>6
  <2> QED
    BY <1>8, <1>9, <2>1
<1>11. IsEntry(new)
  <2>1. stored \subseteq Nat
    BY <1>1, <1>5, <1>6
  <2>2. new.events \in [stored -> Event]
    BY <1>2, <1>10, Zenon
  <2> HIDE DEF new, stored
  <2> QED
    BY <1>2, <1>7, <2>1, <2>2 DEF IsEntry
<1>12. Records(new, log \o batch)
  <2>1. SnapSeq(new) \in 0..next /\ base \in 0..SnapSeq(new)
    BY <1>1, <1>3, <1>4 DEF Records
  <2> HIDE DEF new, stored, next
  <2> QED
    BY <1>2, <1>6, <1>7, <1>8, <1>9, <2>1, Zenon DEF Records
<1> QED
  BY <1>2, <1>11, <1>12

\* A snapshot that the fence admits ends at the end of the history, so it is
\* past every earlier one.
LEMMA SaveRecords ==
  ASSUME NEW log \in Seq(Event), NEW rec, NEW start \in Seq(Event),
         IsEntry(rec), Records(rec, log)
  PROVE  LET new == SaveSnapshot(rec, start, Len(log))
         IN /\ IsEntry(new)
            /\ Records(new, log)
            /\ SnapSeq(new) = Len(log)
            /\ SnapState(new) = start
<1> DEFINE snap == [state |-> start, seq |-> Len(log)]
           new == SaveSnapshot(rec, start, Len(log))
<1>1. snap \in Snapshot /\ snap # NoSnapshot
  BY NoSnapshotAssumption DEF Snapshot
<1>2. /\ new.last_seq = rec.last_seq
      /\ new.events = rec.events
      /\ new.snapshot = snap
      /\ new \in [events : {new.events}, last_seq : Nat,
                  snapshot : Snapshot \cup {NoSnapshot}]
  BY <1>1, Zenon DEF SaveSnapshot, IsEntry
<1>3. SnapSeq(new) = Len(log) /\ SnapState(new) = start
  BY <1>1, <1>2 DEF SnapSeq, SnapState
<1> HIDE DEF new
<1>4. IsEntry(new)
  BY <1>2 DEF IsEntry
<1>5. Records(new, log)
  <2>1. PICK base \in 0..SnapSeq(rec) : DOMAIN rec.events = base + 1 .. Len(log)
    BY DEF Records
  <2>2. base \in 0..SnapSeq(new)
    BY <1>3, <2>1 DEF Records
  <2>3. new.last_seq = Len(log) /\ DOMAIN new.events = base + 1 .. Len(log)
    BY <1>2, <2>1, Zenon DEF Records
  <2>4. SnapSeq(new) \in 0..Len(log)
    BY <1>3
  <2>5. \A s \in DOMAIN new.events : new.events[s] = log[s]
    BY <1>2, Zenon DEF Records
  <2> QED
    BY <2>2, <2>3, <2>4, <2>5, Zenon DEF Records
<1> QED
  BY <1>3, <1>4, <1>5 DEF new

\* Compaction up to a number that the snapshot has reached drops nothing that
\* the snapshot does not cover.
LEMMA CompactRecords ==
  ASSUME NEW log \in Seq(Event), NEW rec,
         IsEntry(rec), Records(rec, log),
         NEW seq \in 0..SnapSeq(rec)
  PROVE  LET new == DeleteEventsBefore(rec, seq)
         IN /\ IsEntry(new)
            /\ Records(new, log)
            /\ new.snapshot = rec.snapshot
<1> DEFINE new == DeleteEventsBefore(rec, seq)
           kept == {s \in DOMAIN rec.events : s > seq}
<1>1. /\ new.last_seq = rec.last_seq
      /\ new.events = [s \in kept |-> rec.events[s]]
      /\ new.snapshot = rec.snapshot
      /\ new \in [events : {new.events}, last_seq : Nat,
                  snapshot : Snapshot \cup {NoSnapshot}]
  BY DEF DeleteEventsBefore, Restrict, IsEntry
<1>2. SnapSeq(new) = SnapSeq(rec)
  BY <1>1 DEF SnapSeq
<1>3. IsEntry(new)
  <2>1. kept \subseteq Nat /\ DOMAIN new.events = kept
    BY <1>1 DEF IsEntry
  <2>2. new.events \in [kept -> Event]
    BY <1>1 DEF IsEntry
  <2> HIDE DEF new, kept
  <2> QED
    BY <1>1, <2>1, <2>2 DEF IsEntry
<1>4. Records(new, log)
  <2>1. PICK base \in 0..SnapSeq(rec) : DOMAIN rec.events = base + 1 .. Len(log)
    BY DEF Records
  <2>2. SnapSeq(rec) \in 0..Len(log) /\ Len(log) \in Nat
    BY DEF Records
  <2>3. PICK b \in 0..SnapSeq(rec) : kept = b + 1 .. Len(log)
    <3>1. CASE seq > base
      <4>1. kept = seq + 1 .. Len(log)
        BY <2>1, <2>2, <3>1
      <4> QED
        BY <4>1
    <3>2. CASE seq =< base
      <4>1. kept = base + 1 .. Len(log)
        BY <2>1, <2>2, <3>2
      <4> QED
        BY <4>1
    <3>3. seq > base \/ seq =< base
      BY <2>1, <2>2
    <3> QED
      BY <3>1, <3>2, <3>3, Zenon
  <2>4. DOMAIN new.events = kept
    BY <1>1
  <2>5. \A s \in kept : new.events[s] = log[s]
    BY <1>1 DEF Records
  <2> HIDE DEF new, kept
  <2> QED
    BY <1>1, <1>2, <2>3, <2>4, <2>5 DEF Records
<1> QED
  BY <1>1, <1>3, <1>4

----------------------------------------------------------------------------
(* The runtime *)


\* First layer, for any use of the runtime: the entry records the history, no
\* instance is ahead of it, and one about to compact is within the snapshot.
FenceInv ==
  /\ TypeOK
  /\ Records(entry, hist)
  /\ \A i \in Instance : seq_nr[i] =< Len(hist)
  /\ \A i \in Instance : phase[i] = "compact" => seq_nr[i] =< SnapSeq(entry)

\* Second layer, under SafeUse: the snapshot, every instance and everything
\* that was reported hold a prefix of the history.
HistoryInv ==
  /\ SnapState(entry) = SubSeq(hist, 1, SnapSeq(entry))
  /\ \A i \in Instance : Running(i) => state[i] = SubSeq(hist, 1, seq_nr[i])
  /\ \A i \in Instance : phase[i] = "replay" =>
       seq_nr[i] = SnapSeq(entry) /\ state[i] = SnapState(entry)
  /\ \A i \in Instance : phase[i] = "save" => effect[i].snapshot
  /\ \A s \in observed : Len(s) =< Len(hist) /\ s = SubSeq(hist, 1, Len(s))

\* Steps that touch neither the journal nor the history.
LEMMA QuietStep ==
  ASSUME FenceInv, UNCHANGED <<entry, hist>>, TypeOK',
         \A i \in Instance : seq_nr'[i] =< Len(hist),
         \A i \in Instance : phase'[i] = "compact" =>
           phase[i] = "compact" /\ seq_nr'[i] = seq_nr[i]
  PROVE  FenceInv'
BY DEF FenceInv

\* Whatever handle_command decided is a batch of events and two flags.
LEMMA EffectTyped ==
  ASSUME TypeOK, NEW i \in Instance
  PROVE  /\ effect[i].events \in Seq(Event)
         /\ effect[i].snapshot \in BOOLEAN
         /\ effect[i].stop \in BOOLEAN
<1>1. NoEffect \in EffectType
  BY DEF NoEffect, EffectType
<1>2. effect[i] \in EffectType
  BY <1>1, EffectAssumption DEF TypeOK
<1> QED
  BY <1>2 DEF EffectType

\* A journal with no entry records the empty history.
LEMMA FenceInit == Init => FenceInv
<1> SUFFICES ASSUME Init PROVE FenceInv
  OBVIOUS
<1>1. IsEntry(entry)
  BY DEF Init, EmptyEntry, IsEntry
<1>2. TypeOK
  BY <1>1 DEF Init, TypeOK, Phase, Result
<1>3. Records(entry, hist)
  <2>1. SnapSeq(entry) = 0
    BY DEF Init, EmptyEntry, SnapSeq
  <2>2. DOMAIN entry.events = 0 + 1 .. 0 /\ Len(hist) = 0 /\ entry.last_seq = 0
    BY DEF Init, EmptyEntry
  <2>3. \A s \in DOMAIN entry.events : FALSE
    BY <2>2
  <2> QED
    BY <2>1, <2>2, <2>3 DEF Records
<1> QED
  BY <1>2, <1>3 DEF Init, FenceInv

\* Every step of every instance keeps the first layer: an append or a save is
\* admitted only at the end of the log, and compaction follows an admitted save.
LEMMA FenceNext == FenceInv /\ [Next]_vars => FenceInv'
<1> SUFFICES ASSUME FenceInv, [Next]_vars PROVE FenceInv'
  OBVIOUS
<1> USE DEF Goto
<1>0. /\ TypeOK /\ Records(entry, hist) /\ hist \in Seq(Event) /\ Len(hist) \in Nat
      /\ SnapSeq(entry) \in 0..Len(hist)
  BY DEF FenceInv, TypeOK, Records
<1>1. ASSUME NEW i \in Instance, Start(i) PROVE FenceInv'
  <2>1. TypeOK'
    BY <1>0, <1>1 DEF Start, TypeOK, Phase
  <2> QED
    BY <1>0, <1>1, <2>1, QuietStep DEF Start, TypeOK, FenceInv
<1>2. ASSUME NEW i \in Instance, LoadSnapshot(i) PROVE FenceInv'
  <2>1. SnapState(entry) \in Seq(Event) /\ SnapSeq(entry) \in Nat
    BY <1>0 DEF SnapState, SnapSeq, TypeOK, IsEntry, Snapshot
  <2>2. TypeOK'
    BY <1>0, <1>2, <2>1 DEF LoadSnapshot, TypeOK, Phase
  <2> QED
    BY <1>0, <1>2, <2>2, QuietStep DEF LoadSnapshot, TypeOK, FenceInv
<1>3. ASSUME NEW i \in Instance, FoldReplay(i) PROVE FenceInv'
  <2> DEFINE seqs == Replay(entry, seq_nr[i])
             next == IF seqs = << >> THEN seq_nr[i] ELSE seqs[Len(seqs)]
  <2>1. state[i] \in Seq(Event) /\ seq_nr[i] \in 0..Len(hist)
    BY <1>0 DEF TypeOK, FenceInv
  <2>2. PICK lo \in 0..Len(hist) :
          Fold(state[i], entry, seqs) = state[i] \o SubSeq(hist, lo + 1, Len(hist))
    BY <1>0, <2>1, FoldYields, Zenon
  <2>3. next \in seq_nr[i]..Len(hist)
    BY <1>0, <2>1, FoldYields, Zenon
  <2>4. SubSeq(hist, lo + 1, Len(hist)) \in Seq(Event)
    BY <1>0, SubSeqProperties
  <2>5. Fold(state[i], entry, seqs) \in Seq(Event)
    BY <2>1, <2>2, <2>4, ConcatProperties
  <2>6. /\ state' = [state EXCEPT ![i] = Fold(state[i], entry, seqs)]
        /\ seq_nr' = [seq_nr EXCEPT ![i] = next]
        /\ phase' = [phase EXCEPT ![i] = "idle"]
        /\ UNCHANGED <<entry, effect, result, hist, observed>>
    BY <1>0, <1>3 DEF FoldReplay, TypeOK
  <2> HIDE DEF seqs, next
  <2>7. TypeOK'
    BY <1>0, <2>1, <2>3, <2>5, <2>6 DEF TypeOK, Phase
  <2> QED
    BY <1>0, <2>1, <2>3, <2>6, <2>7, QuietStep DEF TypeOK, FenceInv
<1>4. ASSUME NEW i \in Instance, HandleCommand(i) PROVE FenceInv'
  <2>1. TypeOK'
    BY <1>0, <1>4 DEF HandleCommand, TypeOK, Phase
  <2> QED
    BY <1>0, <1>4, <2>1, QuietStep DEF HandleCommand, TypeOK, FenceInv
<1>5. ASSUME NEW i \in Instance, PersistAdmitted(i) PROVE FenceInv'
  <2> DEFINE batch == effect[i].events
  <2>1. batch \in Seq(Event) /\ Len(batch) \in Nat
    BY <1>0, EffectTyped
  <2>2. IsEntry(entry)
    BY <1>0 DEF TypeOK
  <2>3. /\ IsEntry(entry')
        /\ Records(entry', hist')
        /\ entry'.snapshot = entry.snapshot
    BY <1>0, <1>5, <2>1, <2>2, PersistRecords DEF PersistAdmitted
  <2>4. SnapSeq(entry)' = SnapSeq(entry)
    BY <2>3 DEF SnapSeq
  <2>5. hist' \in Seq(Event) /\ Len(hist') = Len(hist) + Len(batch)
    BY <1>0, <1>5, <2>1, ConcatProperties DEF PersistAdmitted
  <2>6. state[i] \o batch \in Seq(Event)
    BY <1>0, <2>1, ConcatProperties DEF TypeOK
  <2>7. TypeOK'
    BY <1>0, <1>5, <2>1, <2>3, <2>5, <2>6 DEF PersistAdmitted, TypeOK, Phase, Result
  <2>8. \A j \in Instance : seq_nr'[j] =< Len(hist')
    BY <1>0, <1>5, <2>1, <2>5 DEF PersistAdmitted, TypeOK, FenceInv
  <2>9. \A j \in Instance : phase'[j] = "compact" => seq_nr'[j] =< SnapSeq(entry')
    BY <1>0, <1>5, <2>4 DEF PersistAdmitted, TypeOK, FenceInv
  <2> QED
    BY <2>3, <2>7, <2>8, <2>9 DEF FenceInv
<1>6. ASSUME NEW i \in Instance, PersistConflicts(i) PROVE FenceInv'
  <2>1. TypeOK'
    BY <1>0, <1>6 DEF PersistConflicts, TypeOK, Phase, Result
  <2> QED
    BY <1>0, <1>6, <2>1, QuietStep DEF PersistConflicts, TypeOK, FenceInv
<1>7. ASSUME NEW i \in Instance, PersistFails(i) PROVE FenceInv'
  <2>1. TypeOK'
    BY <1>0, <1>7, Zenon DEF PersistFails, TypeOK, Phase, Result
  <2> QED
    BY <1>0, <1>7, <2>1, QuietStep DEF PersistFails, TypeOK, FenceInv
<1>8. ASSUME NEW i \in Instance, Publish(i) PROVE FenceInv'
  <2>1. TypeOK'
    BY <1>0, <1>8 DEF Publish, TypeOK, Phase
  <2> QED
    BY <1>0, <1>8, <2>1, QuietStep DEF Publish, TypeOK, FenceInv
<1>9. ASSUME NEW i \in Instance, SnapshotAdmitted(i) PROVE FenceInv'
  <2>1. state[i] \in Seq(Event) /\ seq_nr[i] = Len(hist) /\ IsEntry(entry)
    BY <1>0, <1>9 DEF SnapshotAdmitted, Admit, Records, TypeOK
  <2>2. /\ IsEntry(entry')
        /\ Records(entry', hist)
        /\ SnapSeq(entry') = Len(hist)
    BY <1>0, <1>9, <2>1, SaveRecords DEF SnapshotAdmitted
  <2>3. TypeOK'
    BY <1>0, <1>9, <2>2 DEF SnapshotAdmitted, TypeOK, Phase
  <2>4. \A j \in Instance : seq_nr'[j] =< Len(hist')
    BY <1>9 DEF SnapshotAdmitted, FenceInv
  <2> QED
    BY <1>9, <2>2, <2>3, <2>4 DEF SnapshotAdmitted, FenceInv
<1>10. ASSUME NEW i \in Instance, SnapshotSkipped(i) PROVE FenceInv'
  <2>1. TypeOK'
    BY <1>0, <1>10 DEF SnapshotSkipped, TypeOK, Phase
  <2> QED
    BY <1>0, <1>10, <2>1, QuietStep DEF SnapshotSkipped, TypeOK, FenceInv
<1>11. ASSUME NEW i \in Instance, Compact(i) PROVE FenceInv'
  <2>1. seq_nr[i] \in 0..SnapSeq(entry) /\ IsEntry(entry)
    BY <1>0, <1>11 DEF Compact, TypeOK, FenceInv
  <2>2. /\ IsEntry(entry')
        /\ Records(entry', hist)
        /\ entry'.snapshot = entry.snapshot
    BY <1>0, <1>11, <2>1, CompactRecords DEF Compact
  <2>3. SnapSeq(entry') = SnapSeq(entry)
    BY <2>2 DEF SnapSeq
  <2>4. TypeOK'
    BY <1>0, <1>11, <2>2 DEF Compact, TypeOK, Phase
  <2>5. \A j \in Instance : phase'[j] = "compact" => phase[j] = "compact"
    BY <1>0, <1>11 DEF Compact, TypeOK
  <2> QED
    BY <1>11, <2>2, <2>3, <2>4, <2>5 DEF Compact, FenceInv
<1>12. ASSUME NEW i \in Instance, Ack(i) PROVE FenceInv'
  <2>1. observed' \subseteq Seq(Event) /\ UNCHANGED <<entry, hist>>
    BY <1>0, <1>12 DEF Ack, TypeOK
  <2>2. CASE Gone(i)
    <3>1. TypeOK'
      BY <1>0, <2>1, <2>2 DEF Gone, TypeOK, Phase, Result
    <3> QED
      BY <1>0, <2>1, <2>2, <3>1, QuietStep DEF Gone, TypeOK, FenceInv
  <2>3. CASE ~Gone(i)
    <3>1. /\ phase' = [phase EXCEPT ![i] = "idle"]
          /\ effect' = [effect EXCEPT ![i] = NoEffect]
          /\ result' = [result EXCEPT ![i] = "none"]
          /\ UNCHANGED <<state, seq_nr>>
      BY <1>12, <2>3 DEF Ack
    <3>2. TypeOK'
      BY <1>0, <2>1, <3>1 DEF TypeOK, Phase, Result
    <3> QED
      BY <1>0, <2>1, <3>1, <3>2, QuietStep DEF TypeOK, FenceInv
  <2> QED
    BY <2>2, <2>3
<1>13. ASSUME NEW i \in Instance, Lose(i) PROVE FenceInv'
  <2>1. TypeOK'
    BY <1>0, <1>13 DEF Lose, Gone, TypeOK, Phase, Result
  <2> QED
    BY <1>0, <1>13, <2>1, QuietStep DEF Lose, Gone, TypeOK, FenceInv
<1>14. CASE UNCHANGED vars
  BY <1>14, Zenon DEF vars, FenceInv, TypeOK, Records, SnapSeq
<1> QED
  BY <1>1, <1>2, <1>3, <1>4, <1>5, <1>6, <1>7, <1>8, <1>9, <1>10, <1>11,
     <1>12, <1>13, <1>14 DEF Next

\* The journal entry always records the whole admitted history, no instance is
\* ahead of it, and none compacts past the snapshot.
THEOREM FenceHolds == Spec => []FenceInv
BY FenceInit, FenceNext, PTL DEF Spec

\* Every variable keeps its type, recovery and compaction included.
THEOREM TypeCorrect == Spec => []TypeOK
<1>1. FenceInv => TypeOK
  BY DEF FenceInv
<1> QED
  BY <1>1, FenceHolds, PTL

\* Compaction never drops an event that no saved snapshot covers, for any
\* number of instances, stale ones included.
THEOREM CompactionSafe == Spec => []NothingLostToCompaction
<1>1. FenceInv => NothingLostToCompaction
  <2> SUFFICES ASSUME FenceInv, NEW s \in 1..Len(hist)
               PROVE  /\ entry.last_seq = Len(hist)
                      /\ s =< SnapSeq(entry) \/ (s \in DOMAIN entry.events /\ entry.events[s] = hist[s])
    BY DEF NothingLostToCompaction, FenceInv, Records
  <2>1. PICK base \in 0..SnapSeq(entry) : DOMAIN entry.events = base + 1 .. Len(hist)
    BY DEF FenceInv, Records
  <2>2. SnapSeq(entry) \in Nat
    BY DEF FenceInv, TypeOK, Records
  <2> QED
    BY <2>1, <2>2 DEF FenceInv, Records
<1> QED
  BY <1>1, FenceHolds, PTL

\* The fence on save_snapshot keeps the snapshot from ever moving backwards.
THEOREM SnapshotMonotone == Spec => SnapshotNeverRegresses
<1>1. FenceInv /\ [Next]_vars => [SnapSeq(entry') >= SnapSeq(entry)]_vars
  <2> SUFFICES ASSUME FenceInv, Next PROVE SnapSeq(entry') >= SnapSeq(entry)
    OBVIOUS
  <2>1. SnapSeq(entry) \in Nat /\ hist \in Seq(Event) /\ SnapSeq(entry) =< Len(hist)
    BY DEF FenceInv, TypeOK, Records
  <2>2. CASE entry' = entry
    BY <2>1, <2>2
  <2>3. CASE entry'.snapshot = entry.snapshot
    BY <2>1, <2>3 DEF SnapSeq
  <2>4. ASSUME NEW i \in Instance, SnapshotAdmitted(i)
        PROVE  SnapSeq(entry') >= SnapSeq(entry)
    <3>1. state[i] \in Seq(Event) /\ seq_nr[i] = Len(hist) /\ IsEntry(entry)
      BY <2>4 DEF SnapshotAdmitted, Admit, FenceInv, Records, TypeOK
    <3>2. SnapSeq(entry') = Len(hist)
      BY <2>1, <2>4, <3>1, SaveRecords DEF SnapshotAdmitted, FenceInv
    <3> QED
      BY <2>1, <3>2
  <2>5. ASSUME NEW i \in Instance, PersistAdmitted(i)
        PROVE  entry'.snapshot = entry.snapshot
    BY <2>1, <2>5, EffectTyped, PersistRecords DEF PersistAdmitted, FenceInv, TypeOK
  <2>6. ASSUME NEW i \in Instance, Compact(i)
        PROVE  entry'.snapshot = entry.snapshot
    BY <2>1, <2>6, CompactRecords DEF Compact, FenceInv, TypeOK
  <2>7. \/ entry' = entry
        \/ \E i \in Instance : SnapshotAdmitted(i) \/ PersistAdmitted(i) \/ Compact(i)
    BY DEF Next, Start, LoadSnapshot, FoldReplay, HandleCommand, PersistConflicts,
           PersistFails, Publish, SnapshotSkipped, Ack, Lose
  <2> QED
    BY <2>2, <2>3, <2>4, <2>5, <2>6, <2>7
<1> QED
  BY <1>1, FenceHolds, PTL DEF Spec, SnapshotNeverRegresses

----------------------------------------------------------------------------
(* The second layer *)

\* Growing the history leaves its prefixes alone.
LEMMA PrefixStays ==
  ASSUME NEW h \in Seq(Event), NEW batch \in Seq(Event), NEW n \in 0..Len(h)
  PROVE  SubSeq(h \o batch, 1, n) = SubSeq(h, 1, n)
OBVIOUS

\* A whole sequence is a prefix of itself.
LEMMA WholePrefix ==
  ASSUME NEW h \in Seq(Event)
  PROVE  SubSeq(h, 1, Len(h)) = h
OBVIOUS

\* A writer the journal admits has applied the whole history.
LEMMA AdmittedIsCurrent ==
  ASSUME FenceInv, HistoryInv, NEW i \in Instance, Running(i), Admit(entry, seq_nr[i])
  PROVE  seq_nr[i] = Len(hist) /\ state[i] = hist
<1>1. seq_nr[i] = Len(hist) /\ hist \in Seq(Event)
  BY DEF FenceInv, TypeOK, Records, Admit
<1>2. state[i] = SubSeq(hist, 1, seq_nr[i])
  BY DEF HistoryInv
<1> QED
  BY <1>1, <1>2, WholePrefix

\* The empty journal records the empty history.
LEMMA HistoryInit == Init => HistoryInv
<1> SUFFICES ASSUME Init PROVE HistoryInv
  OBVIOUS
<1>1. SnapState(entry) = << >> /\ SnapSeq(entry) = 0 /\ hist = << >>
  BY DEF Init, EmptyEntry, SnapState, SnapSeq
<1>2. SubSeq(<< >>, 1, 0) = << >>
  OBVIOUS
<1> QED
  BY <1>1, <1>2 DEF Init, HistoryInv, Running

\* A step that leaves the journal and the history alone, and each instance
\* where its view says, leaves every view right.
LEMMA HistoryQuiet ==
  ASSUME HistoryInv, UNCHANGED <<entry, hist>>,
         \A j \in Instance : Running(j)' => state'[j] = SubSeq(hist, 1, seq_nr'[j]),
         \A j \in Instance : phase'[j] = "replay" =>
           seq_nr'[j] = SnapSeq(entry) /\ state'[j] = SnapState(entry),
         \A j \in Instance : phase'[j] = "save" => effect'[j].snapshot,
         \A s \in observed' : s \in observed
                              \/ \E j \in Instance : Running(j) /\ s = state[j],
         FenceInv
  PROVE  HistoryInv'
<1>1. \A j \in Instance : Running(j) =>
        Len(state[j]) =< Len(hist) /\ state[j] = SubSeq(hist, 1, Len(state[j]))
  <2> SUFFICES ASSUME NEW j \in Instance, Running(j)
               PROVE  Len(state[j]) =< Len(hist) /\ state[j] = SubSeq(hist, 1, Len(state[j]))
    OBVIOUS
  <2>1. /\ hist \in Seq(Event) /\ seq_nr[j] \in 0..Len(hist)
        /\ state[j] = SubSeq(hist, 1, seq_nr[j])
    BY DEF FenceInv, TypeOK, HistoryInv
  <2>2. Len(SubSeq(hist, 1, seq_nr[j])) = seq_nr[j]
    BY <2>1
  <2> QED
    BY <2>1, <2>2
<1> QED
  BY <1>1, Zenon DEF HistoryInv

\* The second half of recover brings an instance up at the end of the history.
LEMMA FoldRecovers ==
  ASSUME FenceInv, HistoryInv, NEW i \in Instance, FoldReplay(i)
  PROVE  /\ state' = [state EXCEPT ![i] = hist]
         /\ seq_nr' = [seq_nr EXCEPT ![i] = Len(hist)]
<1> DEFINE seqs == Replay(entry, seq_nr[i])
           next == IF seqs = << >> THEN seq_nr[i] ELSE seqs[Len(seqs)]
<1>1. /\ phase[i] = "replay" /\ seq_nr[i] = SnapSeq(entry)
      /\ state[i] = SnapState(entry)
  BY DEF FoldReplay, HistoryInv
<1>2. /\ Records(entry, hist) /\ hist \in Seq(Event) /\ state[i] \in Seq(Event)
      /\ seq_nr[i] \in 0..Len(hist) /\ SnapSeq(entry) =< seq_nr[i]
  BY <1>1 DEF FenceInv, TypeOK, Records
<1>3. Fold(state[i], entry, seqs) = hist
  BY <1>1, <1>2, RecoveredIsHistory, Zenon DEF Recovered, HistoryInv
<1>4. next = Len(hist)
  BY <1>2, FoldYields
<1>5. /\ state' = [state EXCEPT ![i] = Fold(state[i], entry, seqs)]
      /\ seq_nr' = [seq_nr EXCEPT ![i] = next]
  BY DEF FoldReplay, FenceInv, TypeOK
<1> HIDE DEF seqs, next
<1> QED
  BY <1>3, <1>4, <1>5

\* Under SafeUse every step keeps every view a prefix of the history.
LEMMA HistoryNext ==
  ASSUME SafeUse
  PROVE  FenceInv /\ HistoryInv /\ [Next]_vars => HistoryInv'
<1> SUFFICES ASSUME FenceInv, HistoryInv, [Next]_vars PROVE HistoryInv'
  OBVIOUS
<1> USE DEF Goto
<1>0. /\ phase \in [Instance -> Phase] /\ state \in [Instance -> Seq(Event)]
      /\ seq_nr \in [Instance -> Nat] /\ effect \in [Instance -> Effect \cup {NoEffect}]
      /\ hist \in Seq(Event) /\ SnapSeq(entry) \in 0..Len(hist)
      /\ \A i \in Instance : seq_nr[i] \in 0..Len(hist)
      /\ FenceInv
  BY DEF FenceInv, TypeOK, Records
<1>1. ASSUME NEW i \in Instance, Start(i) PROVE HistoryInv'
  BY <1>0, <1>1, HistoryQuiet DEF Start, Running, HistoryInv
<1>2. ASSUME NEW i \in Instance, LoadSnapshot(i) PROVE HistoryInv'
  BY <1>0, <1>2, HistoryQuiet DEF LoadSnapshot, Running, HistoryInv
<1>3. ASSUME NEW i \in Instance, FoldReplay(i) PROVE HistoryInv'
  <2>1. /\ state' = [state EXCEPT ![i] = hist] /\ seq_nr' = [seq_nr EXCEPT ![i] = Len(hist)]
        /\ phase' = [phase EXCEPT ![i] = "idle"]
        /\ UNCHANGED <<entry, effect, result, hist, observed>>
    BY <1>3, FoldRecovers, Zenon DEF FoldReplay
  <2> QED
    BY <1>0, <2>1, WholePrefix, HistoryQuiet, SMTT(30) DEF Running, HistoryInv
<1>4. ASSUME NEW i \in Instance, HandleCommand(i) PROVE HistoryInv'
  BY <1>0, <1>4, HistoryQuiet, SMTT(30) DEF HandleCommand, Running, HistoryInv
<1>5. ASSUME NEW i \in Instance, PersistAdmitted(i) PROVE HistoryInv'
  <2> DEFINE batch == effect[i].events
  <2>1. batch \in Seq(Event) /\ IsEntry(entry)
    BY <1>0, EffectTyped DEF FenceInv, TypeOK
  <2>2. entry'.snapshot = entry.snapshot
    BY <1>0, <1>5, <2>1, PersistRecords DEF PersistAdmitted, FenceInv
  <2>3. SnapSeq(entry') = SnapSeq(entry) /\ SnapState(entry') = SnapState(entry)
    BY <2>2 DEF SnapSeq, SnapState
  <2>4. seq_nr[i] = Len(hist) /\ state[i] = hist
    <3>1. Running(i) /\ Admit(entry, seq_nr[i])
      BY <1>5 DEF PersistAdmitted, Running
    <3> QED
      BY <1>0, <3>1, AdmittedIsCurrent
  <2>5. /\ hist' = hist \o batch /\ hist' \in Seq(Event)
        /\ Len(hist') = Len(hist) + Len(batch) /\ Len(batch) \in Nat
    BY <1>0, <1>5, <2>1, ConcatProperties DEF PersistAdmitted
  <2>6. \A n \in 0..Len(hist) : SubSeq(hist', 1, n) = SubSeq(hist, 1, n)
    BY <1>0, <2>1, <2>5, PrefixStays
  <2>7. state'[i] = hist' /\ seq_nr'[i] = Len(hist')
    BY <1>0, <1>5, <2>4, <2>5 DEF PersistAdmitted
  <2>8. /\ phase' = [phase EXCEPT ![i] = "publish"] /\ UNCHANGED <<effect, observed>>
        /\ \A j \in Instance \ {i} : state'[j] = state[j] /\ seq_nr'[j] = seq_nr[j]
    BY <1>0, <1>5 DEF PersistAdmitted
  <2>9. SnapState(entry') = SubSeq(hist', 1, SnapSeq(entry'))
    BY <1>0, <2>3, <2>6 DEF HistoryInv
  <2>10. ASSUME NEW j \in Instance, Running(j)'
         PROVE  state'[j] = SubSeq(hist', 1, seq_nr'[j])
    <3>1. CASE j = i
      BY <2>5, <2>7, <3>1, WholePrefix
    <3>2. CASE j # i
      <4>1. Running(j)
        BY <1>0, <2>8, <2>10, <3>2 DEF Running
      <4> QED
        BY <1>0, <2>6, <2>8, <3>2, <4>1 DEF HistoryInv
    <3> QED
      BY <3>1, <3>2
  <2>11. \A j \in Instance : phase'[j] = "replay" =>
           seq_nr'[j] = SnapSeq(entry') /\ state'[j] = SnapState(entry')
    BY <1>0, <2>3, <2>8 DEF HistoryInv
  <2>12. \A j \in Instance : phase'[j] = "save" => effect'[j].snapshot
    BY <1>0, <2>8 DEF HistoryInv
  <2>13. ASSUME NEW s \in observed'
         PROVE  Len(s) =< Len(hist') /\ s = SubSeq(hist', 1, Len(s))
    <3>1. /\ s \in Seq(Event) /\ Len(s) =< Len(hist) /\ s = SubSeq(hist, 1, Len(s))
      BY <2>8, <2>13 DEF HistoryInv, FenceInv, TypeOK
    <3>2. Len(s) \in 0..Len(hist)
      BY <1>0, <3>1
    <3> QED
      BY <2>5, <2>6, <3>1, <3>2
  <2> QED
    BY <2>9, <2>10, <2>11, <2>12, <2>13, Zenon DEF HistoryInv
<1>6. ASSUME NEW i \in Instance, PersistConflicts(i) PROVE HistoryInv'
  BY <1>0, <1>6, HistoryQuiet DEF PersistConflicts, Running, HistoryInv
<1>7. ASSUME NEW i \in Instance, PersistFails(i) PROVE HistoryInv'
  BY <1>0, <1>7, HistoryQuiet, Zenon DEF PersistFails, Running, HistoryInv
<1>8. ASSUME NEW i \in Instance, Publish(i) PROVE HistoryInv'
  BY <1>0, <1>8, HistoryQuiet, Zenon DEF Publish, Running, HistoryInv
<1>9. ASSUME NEW i \in Instance, SnapshotAdmitted(i) PROVE HistoryInv'
  <2>1. seq_nr[i] = Len(hist) /\ state[i] = hist /\ IsEntry(entry)
    <3>1. Running(i) /\ Admit(entry, seq_nr[i])
      BY <1>9, Zenon DEF SnapshotAdmitted, Running
    <3>2. IsEntry(entry)
      BY <1>0 DEF FenceInv, TypeOK
    <3> QED
      BY <1>0, <3>1, <3>2, AdmittedIsCurrent
  <2>2. SnapSeq(entry') = Len(hist) /\ SnapState(entry') = hist
    BY <1>0, <1>9, <2>1, SaveRecords DEF SnapshotAdmitted, FenceInv
  <2>3. \A j \in Instance : j = i
    <3>1. effect[i].snapshot
      BY <1>9 DEF SnapshotAdmitted, HistoryInv
    <3>2. effect[i] \in Effect
      BY <1>0, <3>1 DEF NoEffect
    <3> QED
      BY <3>1, <3>2, ZenonT(30) DEF SafeUse
  <2>4. \A j \in Instance : phase'[j] = "compact"
    BY <1>0, <1>9, <2>3 DEF SnapshotAdmitted
  <2> QED
    BY <1>0, <1>9, <2>1, <2>2, <2>4, WholePrefix DEF SnapshotAdmitted, HistoryInv, Running
<1>10. ASSUME NEW i \in Instance, SnapshotSkipped(i) PROVE HistoryInv'
  BY <1>0, <1>10, HistoryQuiet DEF SnapshotSkipped, Running, HistoryInv
<1>11. ASSUME NEW i \in Instance, Compact(i) PROVE HistoryInv'
  <2>1. seq_nr[i] \in 0..SnapSeq(entry) /\ IsEntry(entry)
    BY <1>0, <1>11 DEF Compact, TypeOK, FenceInv
  <2>2. entry'.snapshot = entry.snapshot
    BY <1>0, <1>11, <2>1, CompactRecords DEF Compact, FenceInv
  <2>3. SnapSeq(entry') = SnapSeq(entry) /\ SnapState(entry') = SnapState(entry)
    BY <2>2 DEF SnapSeq, SnapState
  <2> QED
    BY <1>0, <1>11, <2>3 DEF Compact, HistoryInv, Running
<1>12. ASSUME NEW i \in Instance, Ack(i) PROVE HistoryInv'
  <2>1. /\ \A s \in observed' : s \in observed \/ s = state[i]
        /\ Running(i) /\ UNCHANGED <<entry, hist>>
    BY <1>12 DEF Ack, Running
  <2>2. CASE Gone(i)
    BY <1>0, <2>1, <2>2, HistoryQuiet DEF Gone, Running, HistoryInv
  <2>3. CASE ~Gone(i)
    <3>1. /\ phase' = [phase EXCEPT ![i] = "idle"]
          /\ effect' = [effect EXCEPT ![i] = NoEffect]
          /\ UNCHANGED <<state, seq_nr>>
      BY <1>12, <2>3 DEF Ack
    <3> QED
      BY <1>0, <2>1, <3>1, HistoryQuiet DEF Running, HistoryInv
  <2> QED
    BY <2>2, <2>3
<1>13. ASSUME NEW i \in Instance, Lose(i) PROVE HistoryInv'
  BY <1>0, <1>13, HistoryQuiet, Zenon DEF Lose, Gone, Running, HistoryInv
<1>14. CASE UNCHANGED vars
  BY <1>14 DEF vars, HistoryInv, Running, SnapSeq, SnapState
<1> QED
  BY <1>1, <1>2, <1>3, <1>4, <1>5, <1>6, <1>7, <1>8, <1>9, <1>10, <1>11,
     <1>12, <1>13, <1>14 DEF Next

\* Both layers hold of every behaviour.
LEMMA HistoryHolds ==
  ASSUME SafeUse
  PROVE  Spec => [](FenceInv /\ HistoryInv)
<1>1. Init => HistoryInv
  BY HistoryInit
<1>2. FenceInv /\ HistoryInv /\ [Next]_vars => HistoryInv'
  BY HistoryNext
<1> QED
  BY <1>1, <1>2, FenceHolds, PTL DEF Spec

\* A running instance holds exactly the history up to its seq_nr: a fresh
\* instance recovers where the previous one left off (recover,
\* persist_events), as long as SafeUse keeps snapshots and overlap apart.
THEOREM RecoveryExact ==
  ASSUME SafeUse
  PROVE  Spec => []StateIsHistory
<1>1. FenceInv /\ HistoryInv => StateIsHistory
  BY DEF FenceInv, HistoryInv, StateIsHistory
<1> QED
  BY <1>1, HistoryHolds, PTL

\* What on_events_persisted announced or an ack confirmed is a prefix of what
\* the next recovery rebuilds.
THEOREM ObservedDurable ==
  ASSUME SafeUse
  PROVE  Spec => []ObservedSurvives
<1>1. FenceInv /\ HistoryInv => ObservedSurvives
  <2> SUFFICES ASSUME FenceInv, HistoryInv PROVE ObservedSurvives
    OBVIOUS
  <2>1. Recovered(entry) = hist
    BY RecoveredIsHistory, Zenon DEF FenceInv, TypeOK, HistoryInv
  <2> QED
    BY <2>1 DEF HistoryInv, ObservedSurvives
<1> QED
  BY <1>1, HistoryHolds, PTL

----------------------------------------------------------------------------
(* Refinement *)

\* The refinement mapping: an instance that is up shows its state.
View == [i \in Instance |-> IF Running(i) THEN state[i] ELSE NoView]

\* Every step of the runtime is a step of the abstract event log, or none.
LEMMA StepRefines ==
  FenceInv /\ HistoryInv /\ [Next]_vars => [EL!ELNext]_(EL!elvars)
<1> SUFFICES ASSUME FenceInv, HistoryInv, [Next]_vars
             PROVE  EL!ELNext \/ UNCHANGED <<hist, View, observed>>
  BY DEF EL!elvars, View
<1> USE DEF Goto
<1>0. /\ phase \in [Instance -> Phase] /\ state \in [Instance -> Seq(Event)]
      /\ seq_nr \in [Instance -> Nat] /\ hist \in Seq(Event)
      /\ \A i \in Instance : seq_nr[i] \in 0..Len(hist)
  BY DEF FenceInv, TypeOK
<1>1. ASSUME NEW i \in Instance, UNCHANGED <<hist, observed, state>>,
             phase' \in [Instance -> Phase], Running(i)' = Running(i),
             \A j \in Instance \ {i} : phase'[j] = phase[j]
      PROVE  UNCHANGED <<hist, View, observed>>
  BY <1>1 DEF Running, View
<1>2. ASSUME NEW i \in Instance, Start(i) \/ HandleCommand(i) \/ PersistConflicts(i)
             \/ PersistFails(i) \/ SnapshotAdmitted(i) \/ SnapshotSkipped(i) \/ Compact(i)
      PROVE  UNCHANGED <<hist, View, observed>>
  BY <1>0, <1>1, <1>2, Zenon DEF Start, HandleCommand, PersistConflicts, PersistFails,
     SnapshotAdmitted, SnapshotSkipped, Compact, Running, Phase
<1>3. ASSUME NEW i \in Instance, LoadSnapshot(i) PROVE UNCHANGED <<hist, View, observed>>
  <2>1. \A j \in Instance : Running(j)' = Running(j) /\ (Running(j) => state'[j] = state[j])
    BY <1>0, <1>3 DEF LoadSnapshot, Running
  <2> QED
    BY <1>3, <2>1 DEF LoadSnapshot, View
<1>4. ASSUME NEW i \in Instance, FoldReplay(i) PROVE EL!ELNext
  <2>1. View[i] = NoView /\ UNCHANGED <<hist, observed>>
    BY <1>4 DEF FoldReplay, View, Running
  <2>2. \A j \in Instance : View'[j] = IF j = i THEN hist ELSE View[j]
    <3>1. state' = [state EXCEPT ![i] = hist]
      BY <1>4, FoldRecovers
    <3>2. phase' = [phase EXCEPT ![i] = "idle"]
      BY <1>4 DEF FoldReplay
    <3> QED
      BY <1>0, <3>1, <3>2 DEF View, Running
  <2>3. View' = [View EXCEPT ![i] = hist]
    BY <2>2, Zenon DEF View
  <2>4. EL!ComeUp(i)
    BY <2>1, <2>3 DEF EL!ComeUp, View
  <2> QED
    BY <2>4 DEF EL!ELNext
<1>5. ASSUME NEW i \in Instance, PersistAdmitted(i) PROVE EL!ELNext
  <2>1. effect[i].events \in Seq(Event)
    BY EffectTyped DEF FenceInv
  <2>2. state[i] = hist
    <3>1. Running(i) /\ Admit(entry, seq_nr[i])
      BY <1>5 DEF PersistAdmitted, Running
    <3> QED
      BY <3>1, AdmittedIsCurrent
  <2>3. hist' = hist \o effect[i].events /\ state'[i] = hist' /\ UNCHANGED observed
    BY <1>0, <1>5, <2>2 DEF PersistAdmitted
  <2>4. /\ hist' \in Seq(Event) /\ Len(hist) =< Len(hist')
        /\ hist = SubSeq(hist', 1, Len(hist))
    BY <1>0, <2>1, <2>3, ConcatProperties, PrefixStays, WholePrefix
  <2>5. View[i] = hist
    BY <1>5, <2>2 DEF PersistAdmitted, View, Running
  <2>6. \A j \in Instance : View'[j] = IF j = i THEN hist' ELSE View[j]
    BY <1>0, <1>5, <2>3, Zenon DEF PersistAdmitted, View, Running
  <2>7. View' = [View EXCEPT ![i] = hist']
    BY <2>6, Zenon DEF View
  <2>8. EL!Extend(i)
    BY <2>3, <2>4, <2>5, <2>7 DEF EL!Extend, View
  <2> QED
    BY <2>8 DEF EL!ELNext
<1>6. ASSUME NEW i \in Instance, Publish(i)
      PROVE  EL!ELNext \/ UNCHANGED <<hist, View, observed>>
  <2>1. UNCHANGED <<hist, View>> /\ View[i] = state[i] /\ View[i] # NoView
    BY <1>0, <1>6, NoViewAssumption DEF Publish, View, Running
  <2>2. observed' = observed \/ observed' = observed \cup {View[i]}
    BY <1>6, <2>1 DEF Publish
  <2>3. ASSUME observed' = observed \cup {View[i]} PROVE EL!Tell(i)
    BY <2>1, <2>3 DEF EL!Tell, View
  <2> QED
    BY <2>1, <2>2, <2>3 DEF EL!ELNext
<1>7. ASSUME NEW i \in Instance, Gone(i) PROVE View' = [View EXCEPT ![i] = NoView]
  <2>1. \A j \in Instance : View'[j] = IF j = i THEN NoView ELSE View[j]
    BY <1>0, <1>7 DEF Gone, View, Running
  <2> QED
    BY <2>1, Zenon DEF View
<1>8. ASSUME NEW i \in Instance, Ack(i)
      PROVE  EL!ELNext \/ UNCHANGED <<hist, View, observed>>
  <2>1. View[i] = state[i] /\ View[i] # NoView /\ UNCHANGED hist
    BY <1>0, <1>8, NoViewAssumption DEF Ack, View, Running
  <2>2. observed' = observed \/ observed' = observed \cup {View[i]}
    BY <1>8, <2>1 DEF Ack
  <2>3. UNCHANGED View \/ View' = [View EXCEPT ![i] = NoView]
    <3>1. CASE Gone(i)
      BY <1>7, <3>1
    <3>2. CASE ~Gone(i)
      BY <1>0, <1>8, <3>2 DEF Ack, View, Running
    <3> QED
      BY <3>1, <3>2
  <2>4. ASSUME observed' = observed \cup {View[i]} PROVE EL!Tell(i)
    BY <2>1, <2>3, <2>4 DEF EL!Tell, EL!GoDown, View
  <2>5. ASSUME observed' = observed, View' = [View EXCEPT ![i] = NoView] PROVE EL!End(i)
    BY <2>1, <2>5 DEF EL!End, EL!GoDown, View
  <2> QED
    BY <2>1, <2>2, <2>3, <2>4, <2>5 DEF EL!ELNext
<1>9. ASSUME NEW i \in Instance, Lose(i) PROVE EL!ELNext
  <2>1. EL!End(i)
    BY <1>7, <1>9 DEF Lose, EL!End, EL!GoDown, View
  <2> QED
    BY <2>1 DEF EL!ELNext
<1>10. CASE UNCHANGED vars
  BY <1>10 DEF vars, View, Running
<1> QED
  BY <1>2, <1>3, <1>4, <1>5, <1>6, <1>8, <1>9, <1>10 DEF Next

\* The runtime implements the abstract event log: one history, instances that
\* come up holding all of it, and reports only of states that were held.
THEOREM Refinement ==
  ASSUME SafeUse
  PROVE  Spec => ImplementsEventLog
<1>1. Init => EL!ELInit
  BY DEF Init, EL!ELInit, Running
<1> QED
  BY <1>1, StepRefines, HistoryHolds, PTL DEF Spec, ImplementsEventLog, EL!ELSpec

=============================================================================
