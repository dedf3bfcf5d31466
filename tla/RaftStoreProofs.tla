-------------------------- MODULE RaftStoreProofs ---------------------------
(***************************************************************************)
(* Proofs about RaftStore, for a log and terms of any length.              *)
(***************************************************************************)
EXTENDS RaftStore, WellFoundedInduction, TLAPS

----------------------------------------------------------------------------
(* Numbers *)

\* A set of numbers that is not empty has a least one.
LEMMA LeastExists ==
  ASSUME NEW T \in SUBSET Nat, T # {}
  PROVE  \E x \in T : \A y \in T : x <= y
<1> DEFINE R == OpToRel(<, Nat)
<1>1. IsWellFoundedOn(R, Nat)
  BY NatLessThanWellFounded, Zenon
<1> HIDE DEF R
<1>2. PICK x \in T : \A y \in T : ~(<<y, x>> \in R)
  BY <1>1, WFMin, Zenon
<1>3. ASSUME NEW y \in T PROVE x <= y
  <2>1. ~(<<y, x>> \in R)
    BY <1>2
  <2> QED
    BY <2>1 DEF R, OpToRel
<1> QED
  BY <1>3

\* One that is bounded has a greatest one.
LEMMA GreatestExists ==
  ASSUME NEW S \in SUBSET Nat, S # {}, NEW n \in Nat, \A x \in S : x <= n
  PROVE  \E x \in S : \A y \in S : y <= x
<1> DEFINE T == {n - x : x \in S}
<1>1. T \in SUBSET Nat /\ T # {}
  <2>1. \A x \in S : n - x \in Nat
    OBVIOUS
  <2>2. PICK x \in S : TRUE
    BY Zenon
  <2>3. n - x \in T
    OBVIOUS
  <2> QED
    BY <2>1, <2>3
<1> HIDE DEF T
<1>2. PICK t \in T : \A y \in T : t <= y
  BY <1>1, LeastExists
<1>3. PICK x \in S : t = n - x
  BY DEF T
<1>4. ASSUME NEW y \in S PROVE y <= x
  <2>1. n - y \in T
    BY DEF T
  <2> QED
    BY <1>2, <1>3, <2>1
<1> QED
  BY <1>4

----------------------------------------------------------------------------
(* The file *)

\* What ties the file to the memory at every point of a flush.  Raft runs only on a
\* state that is acknowledged or being flushed; only a loss of power reverts.
FileInv ==
  /\ file.whole /\ settled.whole
  /\ io = "rename" => synced
  /\ raft # "up" => io = "idle"
  /\ raft # "down" => ~reverted
  /\ raft = "up" => flushing = mem
  /\ raft = "up" /\ io # "return" => file.state = acked
  /\ raft = "up" /\ io = "return" => file.state = mem
  /\ raft = "up" /\ io = "idle" => acked = mem
  /\ ~reverted => file.state \in {acked, flushing}

\* Every operation of the log and of the state machine but the first half of
\* build_snapshot is one call of update.
LEMMA OperationUpdates ==
  ASSUME SaveVote \/ SaveCommitted \/ AppendEntries \/ TruncateAfter \/ Purge
           \/ Apply \/ BuildStore \/ InstallSnapshot
  PROVE  \E s : Update(s)
BY Zenon DEF SaveVote, SaveCommitted, AppendEntries, TruncateAfter, Purge, Apply,
       BuildStore, InstallSnapshot

\* Every step keeps the file and the memory in step.
LEMMA FileNext == FileInv /\ [Next]_vars => FileInv'
<1> SUFFICES ASSUME FileInv, [Next]_vars PROVE FileInv'
  OBVIOUS
<1> USE DEF FileInv, files, history
<1>1. ASSUME NEW s, Update(s) PROVE FileInv'
  BY <1>1 DEF Update
<1>2. CASE BuildRead
  BY <1>2 DEF BuildRead
<1>3. CASE FlushWrite
  BY <1>3 DEF FlushWrite
<1>4. CASE FlushSync
  BY <1>4 DEF FlushSync
<1>5. CASE FlushRename
  BY <1>5 DEF FlushRename
<1>6. CASE FlushReturn
  BY <1>6 DEF FlushReturn
<1>7. CASE FlushErr
  BY <1>7 DEF FlushErr
<1>8. CASE Crash
  BY <1>8 DEF Crash, Down
<1>9. CASE PowerLoss
  BY <1>9, Zenon DEF PowerLoss, Down
<1>10. CASE Settle
  BY <1>10 DEF Settle
<1>11. CASE Open
  BY <1>11 DEF Open
<1>12. CASE UNCHANGED vars
  BY <1>12 DEF vars
<1> QED
  BY <1>1, <1>2, <1>3, <1>4, <1>5, <1>6, <1>7, <1>8, <1>9, <1>10, <1>11, <1>12,
     OperationUpdates DEF Next

\* The file and the memory stay in step.
LEMMA FileHolds == Spec => []FileInv
<1>1. Init => FileInv
  BY DEF Init, FileInv, Missing
<1> QED
  BY <1>1, FileNext, PTL DEF Spec

\* flush syncs the sibling before it renames it: whatever crashes, at whatever
\* step, the file that is there can be read.
THEOREM FileWhole == Spec => []NeverTorn
<1>1. FileInv => NeverTorn
  BY DEF FileInv, NeverTorn
<1> QED
  BY <1>1, FileHolds, PTL

\* update returns after flush has: what it acknowledged is in the file.
THEOREM AckDurable == Spec => []AckedSurvives
<1>1. FileInv => AckedSurvives
  BY DEF FileInv, AckedSurvives
<1> QED
  BY <1>1, FileHolds, PTL

\* A flush that fails leaves memory ahead of the file, and raft is stopped then:
\* whoever reads the state between updates reads what is on disk.
THEOREM MemoryDurable == Spec => []MemoryIsAcked
<1>1. FileInv => MemoryIsAcked
  BY DEF FileInv, MemoryIsAcked
<1> QED
  BY <1>1, FileHolds, PTL

----------------------------------------------------------------------------
(* The state that is stored *)

\* The entries of a state are those from the purge to some last one ...
IsLast(s, m) ==
  /\ m \in Index /\ s.purged <= m
  /\ \A i \in 1..MaxIndex : s.log[i] # "none" <=> s.purged < i /\ i <= m
Contiguous(s) == \E m : IsLast(s, m)

\* ... the agreed ones come first, and the committed ones are among them ...
AgreedFirst(s) ==
  \A i, j \in 1..MaxIndex :
    s.purged < j /\ j <= i /\ s.log[i] = "agreed" => s.log[j] = "agreed"
CommittedIn(s) ==
  \A i \in 1..MaxIndex : i <= s.committed /\ s.purged < i => s.log[i] = "agreed"

\* ... and what it has applied, and what its snapshot holds, is agreed; the
\* snapshot is not ahead.
AppliedIs(s) ==
  /\ s.sm = Agreed(s.sm.applied)
  /\ s.snapshot # None =>
       s.snapshot.data = Agreed(s.snapshot.last) /\ s.snapshot.last <= s.sm.applied

Good(s) ==
  s \in Persisted /\ Contiguous(s) /\ AgreedFirst(s) /\ CommittedIn(s) /\ AppliedIs(s)

Stored == {mem, file.state, settled.state, acked, flushing}

\* Every copy of the state is good, and so is the snapshot under way; openraft
\* knows the snapshot that is kept unless a build has put an older one back.
StoreInv ==
  /\ TypeOK
  /\ \A s \in Stored : Good(s)
  /\ io # "idle" => raft = "up"
  /\ build # None => /\ build \in Snapshot /\ raft = "up"
                     /\ build.data = Agreed(build.last) /\ build.last <= mem.sm.applied
  /\ raft # "down" /\ ~overtaken => covered = LastOf(mem.snapshot)
  /\ ~overtaken => \A s \in Stored : s.purged <= LastOf(s.snapshot)

\* Latest is the last entry of a kind.
LEMMA LatestType ==
  ASSUME NEW kind, NEW i \in Index PROVE Latest(kind, i) \in Index
<1> DEFINE S == {j \in 1..i : Kind[j] = kind}
<1>1. CASE S = {}
  BY <1>1, StoreAssumption DEF Latest, Index
<1>2. CASE S # {}
  <2>1. PICK x \in S : \A y \in S : y <= x
    <3>1. S \in SUBSET Nat /\ i \in Nat /\ \A x \in S : x <= i
      BY StoreAssumption DEF Index
    <3> QED
      BY <1>2, <3>1, GreatestExists, Zenon
  <2>2. Latest(kind, i) \in S
    BY <1>2, <2>1 DEF Latest
  <2> QED
    BY <2>2, StoreAssumption DEF Index
<1> QED
  BY <1>1, <1>2

\* ... and one entry further it is that entry or the same.
LEMMA LatestStep ==
  ASSUME NEW kind, NEW i \in Index, i # 0
  PROVE  Latest(kind, i) = IF Kind[i] = kind THEN i ELSE Latest(kind, i - 1)
<1> DEFINE S(k) == {j \in 1..k : Kind[j] = kind}
<1>0. i \in Nat /\ i - 1 \in Nat
  BY StoreAssumption DEF Index
<1>1. CASE Kind[i] = kind
  <2>1. i \in S(i) /\ \A k \in S(i) : k <= i
    BY <1>0, <1>1
  <2>2. \A j \in S(i) : (\A k \in S(i) : k <= j) => j = i
    BY <1>0, <2>1
  <2>3. Latest(kind, i) = CHOOSE j \in S(i) : \A k \in S(i) : k <= j
    BY <2>1 DEF Latest
  <2> QED
    BY <1>1, <2>1, <2>2, <2>3
<1>2. CASE Kind[i] # kind
  <2> DEFINE M(T) == IF T = {} THEN 0 ELSE CHOOSE j \in T : \A k \in T : k <= j
  <2>1. S(i) = S(i - 1)
    BY <1>0, <1>2
  <2>2. Latest(kind, i) = M(S(i)) /\ Latest(kind, i - 1) = M(S(i - 1))
    BY DEF Latest
  <2> HIDE DEF M, S
  <2> QED
    BY <1>2, <2>1, <2>2
<1> QED
  BY <1>1, <1>2

\* What is agreed has its type.
LEMMA AgreedType ==
  ASSUME NEW i \in Index
  PROVE  Agreed(i) \in Data /\ Agreed(i).applied = i
BY LatestType DEF Agreed, Data

\* apply makes what is agreed at an entry from what was agreed before it.
LEMMA AgreedStep ==
  ASSUME NEW i \in Index, i # 0
  PROVE  Agreed(i) = [applied    |-> i,
                      membership |-> IF Kind[i] = "membership" THEN i
                                     ELSE Agreed(i - 1).membership,
                      live       |-> IF Kind[i] = "live" THEN i
                                     ELSE Agreed(i - 1).live]
BY LatestStep DEF Agreed

\* Nothing is agreed before the first entry.
LEMMA AgreedNothing == Agreed(0) = Empty
<1>1. \A kind : Latest(kind, 0) = 0
  BY DEF Latest
<1> QED
  BY <1>1 DEF Agreed, Empty

\* The last entry of a state without holes is where its entries end.
LEMMA LastIs ==
  ASSUME NEW s \in Persisted, NEW m, IsLast(s, m) PROVE Last(s) = m
<1>0. m \in Nat /\ m <= MaxIndex /\ s.purged \in Nat /\ MaxIndex \in Nat
  BY StoreAssumption DEF IsLast, Index, Persisted
<1>1. CASE m = s.purged
  <2>1. Indexes(s) = {}
    BY <1>0, <1>1 DEF IsLast, Indexes
  <2> QED
    BY <1>1, <2>1 DEF Last
<1>2. CASE m # s.purged
  <2>1. m \in Indexes(s) /\ \A j \in Indexes(s) : j <= m
    BY <1>0, <1>2 DEF IsLast, Indexes
  <2>2. \A j \in Indexes(s) : (\A k \in Indexes(s) : k <= j) => j = m
    BY <1>0, <2>1 DEF Indexes
  <2> QED
    BY <2>1, <2>2 DEF Last
<1> QED
  BY <1>1, <1>2

\* Default, what open makes of no file, is good.
LEMMA DefaultGood == Good(Default)
<1>1. Default \in Persisted
  BY StoreAssumption DEF Default, Persisted, Empty, Data, Index
<1>2. 0 \in Index /\ IsLast(Default, 0)
  BY StoreAssumption DEF Default, IsLast, Index
<1>3. Default.sm = Agreed(Default.sm.applied)
  BY AgreedNothing DEF Default, Empty
<1>4. Contiguous(Default)
  BY <1>2 DEF Contiguous
<1>5. AgreedFirst(Default) /\ CommittedIn(Default)
  BY StoreAssumption DEF Default, AgreedFirst, CommittedIn
<1>6. AppliedIs(Default)
  BY <1>3 DEF AppliedIs, Default
<1> QED
  BY <1>1, <1>4, <1>5, <1>6 DEF Good

\* States with the same log ...
LEMMA SameLog ==
  ASSUME NEW s, NEW t, s.log = t.log, s.purged = t.purged
  PROVE  /\ Contiguous(s) <=> Contiguous(t)
         /\ AgreedFirst(s) <=> AgreedFirst(t)
         /\ s.committed = t.committed => (CommittedIn(s) <=> CommittedIn(t))
<1>1. \A m : IsLast(s, m) <=> IsLast(t, m)
  BY DEF IsLast
<1> QED
  BY <1>1 DEF Contiguous, AgreedFirst, CommittedIn

\* ... and states that have applied the same and hold the same snapshot.
LEMMA SameApplied ==
  ASSUME NEW s, NEW t, s.sm = t.sm, s.snapshot = t.snapshot
  PROVE  AppliedIs(s) <=> AppliedIs(t)
BY DEF AppliedIs

\* Each operation makes a good state from a good one: save_vote ...
LEMMA VoteGood ==
  ASSUME Good(mem), NEW v \in 0..MaxVote
  PROVE  Good([mem EXCEPT !.vote = v])
<1> DEFINE s == [mem EXCEPT !.vote = v]
<1>1. s \in Persisted
  BY DEF Good, Persisted
<1>2. /\ s.log = mem.log /\ s.purged = mem.purged /\ s.committed = mem.committed
      /\ s.sm = mem.sm /\ s.snapshot = mem.snapshot
  BY DEF Good, Persisted
<1> HIDE DEF s
<1>3. Contiguous(s) /\ AgreedFirst(s) /\ CommittedIn(s)
  BY <1>2, SameLog DEF Good
<1>4. AppliedIs(s)
  BY <1>2, SameApplied DEF Good
<1> QED
  BY <1>1, <1>3, <1>4 DEF Good, s

\* ... save_committed ...
LEMMA CommittedGood ==
  ASSUME Good(mem), NEW i \in 1..MaxIndex, mem.log[i] = "agreed"
  PROVE  Good([mem EXCEPT !.committed = i])
<1> DEFINE s == [mem EXCEPT !.committed = i]
<1>0. i \in Index /\ i \in Nat
  BY StoreAssumption DEF Index
<1>1. s \in Persisted
  BY <1>0 DEF Good, Persisted
<1>2. /\ s.log = mem.log /\ s.purged = mem.purged /\ s.committed = i
      /\ s.sm = mem.sm /\ s.snapshot = mem.snapshot
  BY DEF Good, Persisted
<1> HIDE DEF s
<1>3. CommittedIn(s)
  BY <1>0, <1>2 DEF Good, AgreedFirst, CommittedIn
<1>4. Contiguous(s) /\ AgreedFirst(s)
  BY <1>2, SameLog DEF Good
<1>5. AppliedIs(s)
  BY <1>2, SameApplied DEF Good
<1> QED
  BY <1>1, <1>3, <1>4, <1>5 DEF Good, s

\* ... append ...
LEMMA AppendGood ==
  ASSUME Good(mem), NEW to \in 1..MaxIndex, NEW right \in Index,
         to > Last(mem), right \in Last(mem)..to,
         right > Last(mem) => \A i \in Indexes(mem) : mem.log[i] = "agreed"
  PROVE  Good([mem EXCEPT !.log = [i \in 1..MaxIndex |->
                 IF i \in (Last(mem) + 1)..to
                 THEN IF i <= right THEN "agreed" ELSE "stale"
                 ELSE mem.log[i]]])
<1>0. PICK last : IsLast(mem, last)
  BY DEF Good, Contiguous
<1>1. Last(mem) = last
  BY <1>0, LastIs DEF Good
<1> DEFINE log == [i \in 1..MaxIndex |->
                     IF i \in (last + 1)..to
                     THEN IF i <= right THEN "agreed" ELSE "stale"
                     ELSE mem.log[i]]
           s == [mem EXCEPT !.log = log]
<1>2. log \in [1..MaxIndex -> {"none", "agreed", "stale"}]
  BY Zenon DEF Good, Persisted
<1>3. s \in Persisted
  BY <1>2 DEF Good, Persisted
<1>4. /\ s.log = log /\ s.purged = mem.purged /\ s.committed = mem.committed
      /\ s.sm = mem.sm /\ s.snapshot = mem.snapshot
  BY DEF Good, Persisted
<1> HIDE DEF s
<1>5. /\ last \in Nat /\ mem.purged \in Nat /\ to \in Nat /\ right \in Nat
      /\ MaxIndex \in Nat /\ mem.purged <= last /\ last < to /\ to \in Index
      /\ right \in last..to
  BY <1>0, <1>1, StoreAssumption DEF IsLast, Index, Good, Persisted
<1>6. \A i \in 1..MaxIndex : log[i] = IF i > last /\ i <= to
                                      THEN IF i <= right THEN "agreed" ELSE "stale"
                                      ELSE mem.log[i]
  BY <1>5
<1> HIDE DEF log
<1>7. \A i \in 1..MaxIndex : mem.log[i] # "none" <=> mem.purged < i /\ i <= last
  BY <1>0 DEF IsLast
<1>8. Contiguous(s)
  <2>1. IsLast(s, to)
    BY <1>4, <1>5, <1>6, <1>7 DEF IsLast
  <2> QED
    BY <2>1 DEF Contiguous
<1>9. AgreedFirst(s)
  <2>1. \A i \in 1..MaxIndex :
          right > last /\ mem.purged < i /\ i <= last => mem.log[i] = "agreed"
    BY <1>1, <1>7 DEF Indexes
  <2> QED
    BY <1>4, <1>5, <1>6, <1>7, <2>1 DEF Good, AgreedFirst
<1>10. CommittedIn(s)
  BY <1>4, <1>5, <1>6, <1>7 DEF Good, CommittedIn
<1>11. AppliedIs(s)
  BY <1>4, SameApplied DEF Good
<1> QED
  BY <1>1, <1>3, <1>8, <1>9, <1>10, <1>11 DEF Good, s, log

\* ... truncate_after ...
LEMMA TruncateGood ==
  ASSUME Good(mem), NEW from \in 1..MaxIndex, mem.log[from] = "stale"
  PROVE  Good([mem EXCEPT !.log = Kept({i \in 1..MaxIndex : i < from})])
<1>0. PICK last : IsLast(mem, last)
  BY DEF Good, Contiguous
<1> DEFINE log == Kept({i \in 1..MaxIndex : i < from})
           s == [mem EXCEPT !.log = log]
<1>1. /\ log \in [1..MaxIndex -> {"none", "agreed", "stale"}]
      /\ \A i \in 1..MaxIndex : log[i] = IF i < from THEN mem.log[i] ELSE "none"
  BY Zenon DEF Good, Persisted, Kept
<1> HIDE DEF log
<1>2. s \in Persisted
  BY <1>1 DEF Good, Persisted
<1>3. /\ s.log = log /\ s.purged = mem.purged /\ s.committed = mem.committed
      /\ s.sm = mem.sm /\ s.snapshot = mem.snapshot
  BY DEF Good, Persisted
<1> HIDE DEF s
<1>4. /\ last \in Nat /\ mem.purged \in Nat /\ from \in Nat /\ from - 1 \in Index
      /\ MaxIndex \in Nat /\ mem.purged < from /\ from <= last
      /\ \A i \in 1..MaxIndex : mem.log[i] # "none" <=> mem.purged < i /\ i <= last
  BY <1>0, StoreAssumption DEF IsLast, Index, Good, Persisted
<1>5. Contiguous(s)
  <2>1. IsLast(s, from - 1)
    BY <1>1, <1>3, <1>4 DEF IsLast
  <2> QED
    BY <2>1 DEF Contiguous
<1>6. AgreedFirst(s)
  BY <1>1, <1>3, <1>4 DEF Good, AgreedFirst
<1>7. CommittedIn(s)
  <2>1. \A i \in 1..MaxIndex : from <= i => mem.log[i] # "agreed"
    BY <1>4 DEF Good, AgreedFirst
  <2> QED
    BY <1>1, <1>3, <1>4, <2>1 DEF Good, CommittedIn
<1>8. AppliedIs(s)
  BY <1>3, SameApplied DEF Good
<1> QED
  BY <1>2, <1>5, <1>6, <1>7, <1>8 DEF Good, s, log

\* ... purge ...
LEMMA PurgeGood ==
  ASSUME Good(mem), NEW upto \in 1..MaxIndex, upto > mem.purged
  PROVE  Good([mem EXCEPT !.log = Kept({i \in 1..MaxIndex : i > upto}), !.purged = upto])
<1>0. PICK last : IsLast(mem, last)
  BY DEF Good, Contiguous
<1> DEFINE log == Kept({i \in 1..MaxIndex : i > upto})
           s == [mem EXCEPT !.log = log, !.purged = upto]
           end == IF last < upto THEN upto ELSE last
<1>1. /\ log \in [1..MaxIndex -> {"none", "agreed", "stale"}]
      /\ \A i \in 1..MaxIndex : log[i] = IF i > upto THEN mem.log[i] ELSE "none"
  BY Zenon DEF Good, Persisted, Kept
<1> HIDE DEF log
<1>2. upto \in Index /\ upto \in Nat
  BY StoreAssumption DEF Index
<1>3. s \in Persisted
  BY <1>1, <1>2, Zenon DEF Good, Persisted
<1>4. /\ s.log = log /\ s.purged = upto /\ s.committed = mem.committed
      /\ s.sm = mem.sm /\ s.snapshot = mem.snapshot
  BY DEF Good, Persisted
<1> HIDE DEF s
<1>5. /\ last \in Nat /\ last \in Index /\ mem.purged \in Nat /\ MaxIndex \in Nat
      /\ \A i \in 1..MaxIndex : mem.log[i] # "none" <=> mem.purged < i /\ i <= last
  BY <1>0, StoreAssumption DEF IsLast, Index, Good, Persisted
<1>6. Contiguous(s)
  <2>1. IsLast(s, end)
    BY <1>1, <1>2, <1>4, <1>5 DEF IsLast
  <2> QED
    BY <2>1 DEF Contiguous
<1>7. AgreedFirst(s)
  BY <1>1, <1>2, <1>4, <1>5 DEF Good, AgreedFirst
<1>8. CommittedIn(s)
  BY <1>1, <1>2, <1>4, <1>5 DEF Good, CommittedIn
<1>9. AppliedIs(s)
  BY <1>4, SameApplied DEF Good
<1> QED
  BY <1>3, <1>6, <1>7, <1>8, <1>9 DEF Good, s, log

\* ... apply ...
LEMMA ApplyGood ==
  ASSUME Good(mem), NEW i, i = mem.sm.applied + 1, i <= mem.committed
  PROVE  Good([mem EXCEPT !.sm =
                 [applied    |-> i,
                  membership |-> IF Kind[i] = "membership" THEN i ELSE @.membership,
                  live       |-> IF Kind[i] = "live" THEN i ELSE @.live]])
<1>0. /\ i \in Index /\ i # 0 /\ i - 1 = mem.sm.applied /\ mem.sm.applied \in Nat
      /\ i \in Nat
  <2>1. mem.sm.applied \in Index /\ mem.committed \in Index
    BY DEF Good, Persisted, Data
  <2> QED
    BY <2>1, StoreAssumption DEF Index
<1> DEFINE s == [mem EXCEPT !.sm = Agreed(i)]
<1>1. [applied    |-> i,
       membership |-> IF Kind[i] = "membership" THEN i ELSE mem.sm.membership,
       live       |-> IF Kind[i] = "live" THEN i ELSE mem.sm.live] = Agreed(i)
  BY <1>0, AgreedStep DEF Good, AppliedIs
<1>2. Agreed(i) \in Data /\ Agreed(i).applied = i
  BY <1>0, AgreedType
<1>3. s \in Persisted
  BY <1>2 DEF Good, Persisted
<1>4. /\ s.log = mem.log /\ s.purged = mem.purged /\ s.committed = mem.committed
      /\ s.sm = Agreed(i) /\ s.snapshot = mem.snapshot
  BY DEF Good, Persisted
<1> HIDE DEF s
<1>5. Contiguous(s) /\ AgreedFirst(s) /\ CommittedIn(s)
  BY <1>4, SameLog DEF Good
<1>6. AppliedIs(s)
  <2>1. ASSUME s.snapshot # None
        PROVE  /\ s.snapshot.data = Agreed(s.snapshot.last) /\ s.snapshot.last <= i
    <3>1. s.snapshot.last \in Nat
      BY <1>3, <2>1, StoreAssumption DEF Persisted, Snapshot, Index
    <3> QED
      BY <1>0, <1>4, <2>1, <3>1 DEF Good, AppliedIs
  <2> QED
    BY <1>2, <1>4, <2>1 DEF AppliedIs
<1> QED
  BY <1>1, <1>3, <1>5, <1>6 DEF Good, s

\* ... the second half of build_snapshot ...
LEMMA BuildGood ==
  ASSUME Good(mem), NEW b \in Snapshot, b.data = Agreed(b.last), b.last <= mem.sm.applied
  PROVE  Good([mem EXCEPT !.snapshot = b])
<1> DEFINE s == [mem EXCEPT !.snapshot = b]
<1>1. s \in Persisted
  BY DEF Good, Persisted
<1>2. /\ s.log = mem.log /\ s.purged = mem.purged /\ s.committed = mem.committed
      /\ s.sm = mem.sm /\ s.snapshot = b
  BY DEF Good, Persisted
<1> HIDE DEF s
<1>3. Contiguous(s) /\ AgreedFirst(s) /\ CommittedIn(s)
  BY <1>2, SameLog DEF Good
<1>4. AppliedIs(s)
  BY <1>2 DEF Good, AppliedIs
<1> QED
  BY <1>1, <1>3, <1>4 DEF Good, s

\* ... and install_snapshot.
LEMMA InstallGood ==
  ASSUME Good(mem), NEW i \in 1..MaxIndex
  PROVE  Good([mem EXCEPT !.sm = Agreed(i), !.snapshot = [last |-> i, data |-> Agreed(i)]])
<1> DEFINE b == [last |-> i, data |-> Agreed(i)]
           s == [mem EXCEPT !.sm = Agreed(i), !.snapshot = b]
<1>0. i \in Index /\ i \in Nat
  BY StoreAssumption DEF Index
<1>1. Agreed(i) \in Data /\ Agreed(i).applied = i
  BY <1>0, AgreedType
<1>2. b \in Snapshot /\ b.last = i /\ b.data = Agreed(i)
  BY <1>0, <1>1 DEF Snapshot
<1> HIDE DEF b
<1>3. s \in Persisted
  BY <1>1, <1>2, Zenon DEF Good, Persisted
<1>4. /\ s.log = mem.log /\ s.purged = mem.purged /\ s.committed = mem.committed
      /\ s.sm = Agreed(i) /\ s.snapshot = b
  BY DEF Good, Persisted
<1> HIDE DEF s
<1>5. Contiguous(s) /\ AgreedFirst(s) /\ CommittedIn(s)
  BY <1>4, SameLog DEF Good
<1>6. AppliedIs(s)
  BY <1>0, <1>1, <1>2, <1>4 DEF AppliedIs
<1> QED
  BY <1>3, <1>5, <1>6 DEF Good, s, b

----------------------------------------------------------------------------
(* The steps *)

\* What an update has to show for every copy of the state to stay good.
LEMMA UpdateStep ==
  ASSUME StoreInv, NEW s, Update(s), Good(s),
         build' # None => build' = build, build' \in Snapshot \cup {None},
         mem.sm.applied <= s.sm.applied,
         covered' \in Index, overtaken' \in BOOLEAN, overtaken => overtaken',
         ~overtaken' => covered' = LastOf(s.snapshot) /\ s.purged <= LastOf(s.snapshot)
  PROVE  StoreInv'
<1>0. /\ mem' = s /\ flushing' = s /\ io' = "write" /\ raft = "up" /\ raft' = "up"
      /\ synced' = synced /\ file' = file /\ settled' = settled
      /\ acked' = acked /\ reverted' = reverted
  BY DEF Update, files
<1>1. TypeOK'
  BY <1>0 DEF StoreInv, TypeOK, Good
<1>2. \A t \in Stored' : Good(t)
  BY <1>0 DEF StoreInv, Stored
<1>3. build' # None => /\ build' \in Snapshot /\ raft' = "up"
                       /\ build'.data = Agreed(build'.last)
                       /\ build'.last <= mem'.sm.applied
  <2> SUFFICES ASSUME build' # None PROVE /\ build \in Snapshot
                       /\ build.data = Agreed(build.last) /\ build.last <= s.sm.applied
    BY <1>0
  <2>1. /\ build \in Snapshot
        /\ build.data = Agreed(build.last) /\ build.last <= mem.sm.applied
    BY DEF StoreInv
  <2>2. build.last \in Nat /\ mem.sm.applied \in Nat /\ s.sm.applied \in Nat
    BY <2>1, StoreAssumption
    DEF StoreInv, TypeOK, Good, Persisted, Data, Snapshot, Index
  <2> QED
    BY <2>1, <2>2
<1>4. ~overtaken' => covered' = LastOf(mem'.snapshot)
  BY <1>0
<1>5. ~overtaken' => \A t \in Stored' : t.purged <= LastOf(t.snapshot)
  BY <1>0 DEF StoreInv, Stored
<1> QED
  BY <1>0, <1>1, <1>2, <1>3, <1>4, <1>5 DEF StoreInv

\* An update that leaves the applied state and the snapshot alone.
LEMMA SameStep ==
  ASSUME StoreInv, NEW s, Update(s), Good(s), UNCHANGED <<covered, build, overtaken>>,
         s.sm = mem.sm, s.snapshot = mem.snapshot, s.purged = mem.purged
  PROVE  StoreInv'
<1>1. /\ mem.sm.applied \in Nat /\ build \in Snapshot \cup {None} /\ covered \in Index
      /\ overtaken \in BOOLEAN /\ raft = "up"
  BY StoreAssumption DEF Update, StoreInv, TypeOK, Persisted, Data, Index
<1>2. ~overtaken => covered = LastOf(s.snapshot) /\ s.purged <= LastOf(s.snapshot)
  BY <1>1 DEF StoreInv, Stored
<1> QED
  BY <1>1, <1>2, UpdateStep

\* The operations of the log keep every copy good ...
LEMMA LogNext ==
  ASSUME StoreInv,
         SaveVote \/ SaveCommitted \/ AppendEntries \/ TruncateAfter \/ Purge
  PROVE  StoreInv'
<1>0. /\ StoreInv /\ Good(mem) /\ mem \in Persisted
      /\ (raft = "up" /\ ~overtaken => covered = LastOf(mem.snapshot))
  BY DEF StoreInv, Stored, TypeOK
<1>1. CASE SaveVote
  <2>1. PICK v \in 0..MaxVote : /\ Update([mem EXCEPT !.vote = v])
                                /\ UNCHANGED <<covered, build, overtaken>>
    BY <1>1 DEF SaveVote
  <2> DEFINE s == [mem EXCEPT !.vote = v]
  <2>2. Good(s)
    BY <1>0, <2>1, VoteGood
  <2>3. /\ s.sm = mem.sm /\ s.snapshot = mem.snapshot /\ s.purged = mem.purged
        /\ Update(s) /\ UNCHANGED <<covered, build, overtaken>>
    BY <1>0, <2>1 DEF Good, Persisted
  <2> HIDE DEF s
  <2> QED
    BY <1>0, <2>2, <2>3, SameStep
<1>2. CASE SaveCommitted
  <2>1. PICK i \in 1..MaxIndex : /\ mem.log[i] = "agreed"
                                /\ Update([mem EXCEPT !.committed = i])
                                /\ UNCHANGED <<covered, build, overtaken>>
    BY <1>2 DEF SaveCommitted
  <2> DEFINE s == [mem EXCEPT !.committed = i]
  <2>2. Good(s)
    BY <1>0, <2>1, CommittedGood
  <2>3. /\ s.sm = mem.sm /\ s.snapshot = mem.snapshot /\ s.purged = mem.purged
        /\ Update(s) /\ UNCHANGED <<covered, build, overtaken>>
    BY <1>0, <2>1 DEF Good, Persisted
  <2> HIDE DEF s
  <2> QED
    BY <1>0, <2>2, <2>3, SameStep
<1>3. CASE AppendEntries
  <2>1. PICK to \in 1..MaxIndex, right \in Index :
               /\ to > Last(mem) /\ right \in Last(mem)..to
               /\ \A i \in Indexes(mem) : right > Last(mem) => mem.log[i] = "agreed"
               /\ Update([mem EXCEPT !.log = [i \in 1..MaxIndex |->
                            IF i \in (Last(mem) + 1)..to
                            THEN IF i <= right THEN "agreed" ELSE "stale"
                            ELSE mem.log[i]]])
               /\ UNCHANGED <<covered, build, overtaken>>
    BY <1>3, Zenon DEF AppendEntries
  <2> DEFINE s == [mem EXCEPT !.log = [i \in 1..MaxIndex |->
                     IF i \in (Last(mem) + 1)..to
                     THEN IF i <= right THEN "agreed" ELSE "stale"
                     ELSE mem.log[i]]]
  <2>2. Good(s)
    BY <1>0, <2>1, AppendGood
  <2>3. /\ s.sm = mem.sm /\ s.snapshot = mem.snapshot /\ s.purged = mem.purged
        /\ Update(s) /\ UNCHANGED <<covered, build, overtaken>>
    BY <1>0, <2>1 DEF Good, Persisted
  <2> HIDE DEF s
  <2> QED
    BY <1>0, <2>2, <2>3, SameStep
<1>4. CASE TruncateAfter
  <2>1. PICK last \in Index :
               /\ last + 1 \in 1..MaxIndex /\ mem.log[last + 1] = "stale"
               /\ Update([mem EXCEPT !.log = Kept({i \in 1..MaxIndex : i < last + 1})])
               /\ UNCHANGED <<covered, build, overtaken>>
    BY <1>4 DEF TruncateAfter
  <2> DEFINE s == [mem EXCEPT !.log = Kept({i \in 1..MaxIndex : i < last + 1})]
  <2>2. Good(s)
    BY <1>0, <2>1, TruncateGood
  <2>3. /\ s.sm = mem.sm /\ s.snapshot = mem.snapshot /\ s.purged = mem.purged
        /\ Update(s) /\ UNCHANGED <<covered, build, overtaken>>
    BY <1>0, <2>1 DEF Good, Persisted
  <2> HIDE DEF s
  <2> QED
    BY <1>0, <2>2, <2>3, SameStep
<1>5. CASE Purge
  <2>1. PICK upto \in 1..MaxIndex :
               /\ upto > mem.purged /\ upto <= covered
               /\ Update([mem EXCEPT !.log = Kept({i \in 1..MaxIndex : i > upto}),
                                     !.purged = upto])
               /\ UNCHANGED <<covered, build, overtaken>>
    BY <1>5, Zenon DEF Purge
  <2> DEFINE s == [mem EXCEPT !.log = Kept({i \in 1..MaxIndex : i > upto}), !.purged = upto]
  <2>2. Good(s)
    BY <1>0, <2>1, PurgeGood, Zenon
  <2>3. /\ s.sm = mem.sm /\ s.snapshot = mem.snapshot /\ s.purged = upto
        /\ Update(s) /\ UNCHANGED <<covered, build, overtaken>>
    BY <1>0, <2>1 DEF Good, Persisted
  <2> HIDE DEF s
  <2>4. /\ mem.sm.applied \in Nat /\ build \in Snapshot \cup {None} /\ covered \in Index
        /\ overtaken \in BOOLEAN /\ raft = "up"
    BY <2>3, StoreAssumption DEF Update, StoreInv, TypeOK, Persisted, Data, Index
  <2>5. ~overtaken => covered = LastOf(s.snapshot) /\ s.purged <= LastOf(s.snapshot)
    BY <1>0, <2>1, <2>3, <2>4
  <2> QED
    BY <2>2, <2>3, <2>4, <2>5, UpdateStep
<1> QED
  BY <1>1, <1>2, <1>3, <1>4, <1>5

\* ... so do those of the state machine ...
LEMMA MachineNext ==
  ASSUME StoreInv, Apply \/ BuildRead \/ BuildStore \/ InstallSnapshot
  PROVE  StoreInv'
<1>0. /\ Good(mem) /\ mem \in Persisted /\ mem.purged \in Nat
      /\ mem.sm \in Data /\ mem.sm.applied \in Nat /\ mem.sm.applied \in Index
      /\ build \in Snapshot \cup {None} /\ covered \in Index /\ covered \in Nat
      /\ overtaken \in BOOLEAN
      /\ (~overtaken => mem.purged <= LastOf(mem.snapshot))
      /\ (raft = "up" /\ ~overtaken => covered = LastOf(mem.snapshot))
  <2>1. Good(mem) /\ (~overtaken => mem.purged <= LastOf(mem.snapshot))
    BY DEF StoreInv, Stored
  <2>2. raft = "up" /\ ~overtaken => covered = LastOf(mem.snapshot)
    BY DEF StoreInv
  <2>3. /\ mem \in Persisted /\ build \in Snapshot \cup {None} /\ covered \in Index
        /\ overtaken \in BOOLEAN
    BY DEF StoreInv, TypeOK
  <2>4. mem.purged \in Index /\ mem.sm \in Data /\ mem.sm.applied \in Index
    BY <2>3 DEF Persisted, Data
  <2>5. Index \subseteq Nat
    BY StoreAssumption DEF Index
  <2> QED
    BY <2>1, <2>2, <2>3, <2>4, <2>5, Zenon
<1>1. CASE Apply
  <2> DEFINE i == mem.sm.applied + 1
             s == [mem EXCEPT !.sm =
                     [applied    |-> i,
                      membership |-> IF Kind[i] = "membership" THEN i ELSE @.membership,
                      live       |-> IF Kind[i] = "live" THEN i ELSE @.live]]
  <2>1. Update(s) /\ i <= mem.committed /\ UNCHANGED <<covered, build, overtaken>>
    BY <1>1 DEF Apply
  <2>2. Good(s)
    BY <1>0, <2>1, ApplyGood
  <2>3. s.sm.applied = i /\ s.snapshot = mem.snapshot /\ s.purged = mem.purged
    BY <1>0 DEF Persisted
  <2> HIDE DEF s
  <2>4. raft = "up" /\ mem.sm.applied <= s.sm.applied
    BY <1>0, <2>1, <2>3 DEF Update
  <2>5. ~overtaken => covered = LastOf(s.snapshot) /\ s.purged <= LastOf(s.snapshot)
    BY <1>0, <2>3, <2>4
  <2> HIDE DEF i
  <2> QED
    BY <1>0, <2>1, <2>2, <2>4, <2>5, UpdateStep
<1>2. CASE BuildRead
  <2>1. /\ raft = "up" /\ raft' = raft /\ build' = [last |-> mem.sm.applied, data |-> mem.sm]
        /\ mem' = mem /\ io' = io /\ covered' = covered /\ UNCHANGED files /\ UNCHANGED history
    BY <1>2 DEF BuildRead
  <2>2. /\ build' \in Snapshot /\ build'.data = Agreed(build'.last)
        /\ build'.last <= mem.sm.applied
    BY <1>0, <2>1 DEF Snapshot, Good, AppliedIs
  <2>3. TypeOK'
    BY <2>1, <2>2 DEF StoreInv, TypeOK, files, history
  <2>4. Stored' = Stored
    BY <2>1 DEF Stored, files, history
  <2> QED
    BY <2>1, <2>2, <2>3, <2>4 DEF StoreInv, history
<1>3. CASE BuildStore
  <2> DEFINE s == [mem EXCEPT !.snapshot = build]
  <2>1. /\ build # None /\ Update(s) /\ build' = None
        /\ covered' = (IF build.last > covered THEN build.last ELSE covered)
        /\ overtaken' = (overtaken \/ covered > build.last)
    BY <1>3 DEF BuildStore
  <2>2. /\ build \in Snapshot /\ build.data = Agreed(build.last)
        /\ build.last <= mem.sm.applied /\ build.last \in Index /\ build.last \in Nat
    BY <2>1, StoreAssumption DEF StoreInv, Snapshot, Index
  <2>3. Good(s)
    BY <1>0, <2>2, BuildGood
  <2>4. s.sm = mem.sm /\ s.snapshot = build /\ s.purged = mem.purged
    BY <1>0 DEF Persisted
  <2> HIDE DEF s
  <2>5. ~overtaken' => covered' = LastOf(s.snapshot) /\ s.purged <= LastOf(s.snapshot)
    <3> SUFFICES ASSUME ~overtaken'
                 PROVE  covered' = build.last /\ mem.purged <= build.last
      BY <2>1, <2>4 DEF LastOf
    <3>1. ~overtaken /\ ~(covered > build.last)
      BY <2>1, Zenon
    <3>2. raft = "up"
      BY <2>1 DEF Update
    <3>3. covered = LastOf(mem.snapshot) /\ mem.purged <= LastOf(mem.snapshot)
      BY <1>0, <3>1, <3>2
    <3> QED
      BY <1>0, <2>1, <2>2, <3>1, <3>3
  <2>6. covered' \in Index /\ overtaken' \in BOOLEAN /\ (overtaken => overtaken')
    BY <1>0, <2>1, <2>2
  <2>7. mem.sm.applied <= s.sm.applied
    BY <1>0, <2>4
  <2> QED
    BY <2>1, <2>3, <2>5, <2>6, <2>7, UpdateStep
<1>4. CASE InstallSnapshot
  <2>1. PICK i \in 1..MaxIndex :
               /\ i > mem.sm.applied
               /\ Update([mem EXCEPT !.sm = Agreed(i),
                                     !.snapshot = [last |-> i, data |-> Agreed(i)]])
               /\ covered' = i
               /\ UNCHANGED <<build, overtaken>>
    BY <1>4, Zenon DEF InstallSnapshot
  <2> DEFINE b == [last |-> i, data |-> Agreed(i)]
             s == [mem EXCEPT !.sm = Agreed(i), !.snapshot = b]
  <2>2. i \in Index /\ i \in Nat
    BY StoreAssumption DEF Index
  <2>3. Agreed(i) \in Data /\ Agreed(i).applied = i
    BY <2>2, AgreedType
  <2>4. b \in Snapshot /\ b # None /\ b.last = i
    BY <2>2, <2>3, NoneAssumption DEF Snapshot
  <2>5. Good(s) /\ Update(s)
    BY <1>0, <2>1, InstallGood, Zenon
  <2> HIDE DEF b
  <2>6. s.sm = Agreed(i) /\ s.snapshot = b /\ s.purged = mem.purged
    BY <1>0 DEF Persisted
  <2> HIDE DEF s
  <2>7. ~overtaken => s.purged <= i
    <3> SUFFICES ASSUME ~overtaken PROVE mem.purged <= i
      BY <2>6
    <3>1. CASE mem.snapshot = None
      BY <1>0, <2>2, <3>1 DEF LastOf
    <3>2. CASE mem.snapshot # None
      <4>1. mem.snapshot.last <= mem.sm.applied /\ mem.snapshot.last \in Nat
        BY <1>0, <3>2, StoreAssumption DEF Good, AppliedIs, Persisted, Snapshot, Index
      <4> QED
        BY <1>0, <2>1, <2>2, <3>2, <4>1 DEF LastOf
    <3> QED
      BY <3>1, <3>2
  <2>8. LastOf(s.snapshot) = i
    BY <2>4, <2>6 DEF LastOf
  <2>9. mem.sm.applied <= s.sm.applied
    BY <1>0, <2>1, <2>2, <2>3, <2>6
  <2> QED
    BY <1>0, <2>1, <2>2, <2>5, <2>7, <2>8, <2>9, UpdateStep
<1> QED
  BY <1>1, <1>2, <1>3, <1>4

\* ... and so do the steps of a flush, the crashes and open: they only copy.
LEMMA CopyNext ==
  ASSUME StoreInv,
         \/ FlushWrite \/ FlushSync \/ FlushRename \/ FlushReturn \/ FlushErr
         \/ Crash \/ PowerLoss \/ Settle \/ Open
  PROVE  StoreInv'
<1> USE DEF files, history
<1>0. /\ TypeOK /\ \A s \in Stored : Good(s)
      /\ (~overtaken => \A s \in Stored : s.purged <= LastOf(s.snapshot))
  BY DEF StoreInv
<1>1. CASE FlushWrite \/ FlushSync \/ FlushRename \/ FlushReturn
  <2>1. /\ UNCHANGED <<mem, raft, covered, build, flushing, reverted, overtaken>>
        /\ io' \in {"idle", "write", "sync", "rename", "return"}
        /\ io # "idle" /\ synced' \in BOOLEAN /\ acked' \in {acked, mem}
        /\ settled' \in {settled, file} /\ file' \in {file, [state |-> mem, whole |-> synced]}
    BY <1>0, <1>1, Zenon DEF FlushWrite, FlushSync, FlushRename, FlushReturn, TypeOK
  <2>2. Stored' \subseteq Stored
    BY <2>1 DEF Stored
  <2>3. TypeOK'
    BY <1>0, <2>1 DEF TypeOK, File
  <2> QED
    BY <2>1, <2>2, <2>3 DEF StoreInv
<1>2. CASE FlushErr
  <2>1. /\ io' = "idle" /\ raft' = "failed" /\ build' = None
        /\ UNCHANGED <<mem, files, covered, history>> /\ io # "idle"
    BY <1>2 DEF FlushErr
  <2>2. Stored' = Stored /\ TypeOK'
    BY <1>0, <2>1 DEF Stored, TypeOK
  <2>3. raft # "down"
    BY <2>1 DEF StoreInv
  <2> QED
    BY <2>1, <2>2, <2>3 DEF StoreInv
<1>3. CASE Crash \/ PowerLoss
  <2>1. /\ raft' = "down" /\ io' = "idle" /\ build' = None /\ covered' = 0 /\ mem' = Default
        /\ UNCHANGED <<synced, acked, flushing, overtaken>>
        /\ reverted' \in BOOLEAN /\ file' \in {file, settled} /\ settled' \in {file, settled}
    BY <1>0, <1>3, Zenon DEF Crash, PowerLoss, Down, TypeOK
  <2>2. Default \in Persisted /\ Default.purged = 0 /\ LastOf(Default.snapshot) = 0
    BY DefaultGood DEF Good, Default, LastOf
  <2>3. Stored' \subseteq Stored \cup {Default}
    BY <2>1 DEF Stored
  <2>4. TypeOK'
    BY <1>0, <2>1, <2>2, StoreAssumption DEF TypeOK, Index
  <2>5. \A s \in Stored' : Good(s)
    BY <1>0, <2>3, DefaultGood
  <2>6. ~overtaken' => \A s \in Stored' : s.purged <= LastOf(s.snapshot)
    BY <1>0, <2>1, <2>2, <2>3
  <2> QED
    BY <2>1, <2>4, <2>5, <2>6 DEF StoreInv
<1>4. CASE Settle
  <2>1. settled' = file /\ UNCHANGED <<mem, io, synced, file, raft, covered, build, history>>
    BY <1>4 DEF Settle
  <2>2. Stored' \subseteq Stored /\ TypeOK'
    BY <1>0, <2>1 DEF Stored, TypeOK
  <2> QED
    BY <2>1, <2>2 DEF StoreInv
<1>5. CASE Open
  <2>1. /\ raft = "down" /\ raft' = "up" /\ mem' = file.state
        /\ covered' = LastOf(file.state.snapshot)
        /\ acked' = file.state /\ flushing' = file.state /\ reverted' = FALSE
        /\ UNCHANGED <<io, files, build, overtaken>>
    BY <1>5 DEF Open
  <2>2. Stored' \subseteq Stored
    BY <2>1 DEF Stored
  <2>3. build = None
    BY <2>1 DEF StoreInv
  <2>4. file.state \in Persisted /\ LastOf(file.state.snapshot) \in Index
    <3>1. file.state \in Persisted
      BY <1>0 DEF TypeOK, File
    <3>2. file.state.snapshot \in Snapshot \cup {None}
      BY <3>1 DEF Persisted
    <3>3. 0 \in Index
      BY StoreAssumption DEF Index
    <3> QED
      BY <3>1, <3>2, <3>3 DEF Snapshot, LastOf
  <2>5. TypeOK'
    BY <1>0, <2>1, <2>4, Zenon DEF TypeOK
  <2> QED
    BY <2>1, <2>2, <2>3, <2>5 DEF StoreInv
<1> QED
  BY <1>1, <1>2, <1>3, <1>4, <1>5

\* Every copy of the state stays good.
LEMMA StoreHolds == Spec => []StoreInv
<1>1. Init => StoreInv
  <2> SUFFICES ASSUME Init PROVE StoreInv
    OBVIOUS
  <2>1. Default \in Persisted /\ Default.purged = 0 /\ LastOf(Default.snapshot) = 0
    BY DefaultGood DEF Good, Default, LastOf
  <2>2. Missing \in File /\ 0 \in Index
    BY <2>1, StoreAssumption DEF Missing, File, Index
  <2>3. TypeOK
    BY <2>1, <2>2, Zenon DEF Init, TypeOK
  <2>4. Stored = {Default}
    BY DEF Init, Stored, Missing
  <2> QED
    BY <2>1, <2>3, <2>4, DefaultGood DEF StoreInv, Init
<1>2. StoreInv /\ [Next]_vars => StoreInv'
  <2> SUFFICES ASSUME StoreInv, [Next]_vars PROVE StoreInv'
    OBVIOUS
  <2>1. CASE UNCHANGED vars
    <3>1. UNCHANGED <<mem, io, synced, file, settled, raft, covered, build,
                      acked, flushing, reverted, overtaken>>
      BY <2>1 DEF vars, files, history
    <3>2. Stored' = Stored
      BY <3>1 DEF Stored
    <3>3. TypeOK'
      BY <3>1 DEF StoreInv, TypeOK
    <3> QED
      BY <3>1, <3>2, <3>3 DEF StoreInv
  <2> QED
    BY <2>1, LogNext, MachineNext, CopyNext DEF Next
<1> QED
  BY <1>1, <1>2, PTL DEF Spec

\* The variables of the store keep their types, for a log of any length.
THEOREM TypeCorrect == Spec => []TypeOK
<1>1. StoreInv => TypeOK
  BY DEF StoreInv
<1> QED
  BY <1>1, StoreHolds, PTL

\* purge takes a prefix and truncate_after a suffix, whatever is appended between.
THEOREM LogContiguous == Spec => []NoHole
<1>1. StoreInv => NoHole
  <2> SUFFICES ASSUME StoreInv, NEW s \in {mem, file.state}, NEW i \in 1..MaxIndex
               PROVE  s.log[i] # "none" <=> i > s.purged /\ i <= Last(s)
    BY DEF NoHole
  <2>1. Good(s)
    BY DEF StoreInv, Stored
  <2>2. PICK m : IsLast(s, m)
    BY <2>1 DEF Good, Contiguous
  <2>3. Last(s) = m
    BY <2>1, <2>2, LastIs DEF Good
  <2>4. s.purged \in Nat /\ i \in Nat
    BY <2>1, StoreAssumption DEF Good, Persisted, Index
  <2> QED
    BY <2>2, <2>3, <2>4 DEF IsLast
<1> QED
  BY <1>1, StoreHolds, PTL

\* No truncation, purge or crash takes a committed entry away.
THEOREM CommittedStays == Spec => []CommittedKept
<1>1. StoreInv => CommittedKept
  <2> SUFFICES ASSUME StoreInv, NEW s \in {mem, file.state}, NEW i \in 1..s.committed,
                      i > s.purged
               PROVE  s.log[i] = "agreed"
    BY DEF CommittedKept
  <2>1. Good(s)
    BY DEF StoreInv, Stored
  <2>2. s.purged \in Nat /\ s.committed \in Index
    BY <2>1, StoreAssumption DEF Good, Persisted, Index
  <2>3. i \in 1..MaxIndex /\ i <= s.committed /\ s.purged < i
    BY <2>2, StoreAssumption DEF Index
  <2> QED
    BY <2>1, <2>3 DEF Good, CommittedIn
<1> QED
  BY <1>1, StoreHolds, PTL

\* What a node has applied at a log id, and what its snapshot holds, is what every
\* node has applied there, through applies, installs, builds and restarts.
THEOREM AppliedIsAgreed == Spec => []AppliedAgreed
<1>1. StoreInv => AppliedAgreed
  BY DEF StoreInv, Stored, Good, AppliedIs, AppliedAgreed
<1> QED
  BY <1>1, StoreHolds, PTL

\* Whoever asks for an entry that was purged can be sent a snapshot that has it.
THEOREM PurgedCovered == Spec => []PurgedIsCovered
<1>1. StoreInv => PurgedIsCovered
  BY DEF StoreInv, Stored, PurgedIsCovered
<1> QED
  BY <1>1, StoreHolds, PTL

----------------------------------------------------------------------------
(* The refinement *)

\* Every step of the store is a step of AtomicStore or none of it.
LEMMA AtomicStep ==
  FileInv /\ TypeOK' /\ [Next]_vars => [Atom!AtomNext]_(Atom!atomVars)
<1> SUFFICES ASSUME FileInv, TypeOK', [Next]_vars PROVE [Atom!AtomNext]_(Atom!atomVars)
  OBVIOUS
<1> USE DEF FileInv, Phase, Reads, files, history, Atom!atomVars
<1>0. mem' \in Persisted
  BY DEF TypeOK
<1>1. ASSUME NEW s, Update(s) PROVE Atom!Begin
  BY <1>0, <1>1 DEF Update, Atom!Begin
<1>2. CASE BuildRead
  BY <1>2 DEF BuildRead
<1>3. CASE FlushWrite
  BY <1>3 DEF FlushWrite
<1>4. CASE FlushSync
  BY <1>4 DEF FlushSync
<1>5. ASSUME FlushRename PROVE Atom!Commit
  BY <1>5 DEF FlushRename, Atom!Commit
<1>6. ASSUME FlushReturn PROVE Atom!Ack
  BY <1>6 DEF FlushReturn, Atom!Ack
<1>7. ASSUME FlushErr PROVE Atom!Fail
  BY <1>7 DEF FlushErr, Atom!Fail
<1>8. ASSUME Crash PROVE Atom!Die
  BY <1>8 DEF Crash, Down, Atom!Die
<1>9. ASSUME PowerLoss PROVE Atom!Die
  BY <1>9 DEF PowerLoss, Down, Atom!Die
<1>10. ASSUME Settle PROVE Atom!AtomSettle
  BY <1>10 DEF Settle, Atom!AtomSettle
<1>11. ASSUME Open PROVE Atom!Reopen
  BY <1>11 DEF Open, Atom!Reopen
<1>12. CASE UNCHANGED vars
  BY <1>12 DEF vars
<1> QED
  BY <1>1, <1>2, <1>3, <1>4, <1>5, <1>6, <1>7, <1>8, <1>9, <1>10, <1>11, <1>12,
     OperationUpdates, Zenon DEF Next, Atom!AtomNext

\* The three steps of flush make an update atomic and durable, for a log of any
\* length: whatever fails and whenever the process dies, the next open finds the
\* value before the update or the one after it, and the latter once it returned.
THEOREM StoreIsAtomic == Spec => ImplementsAtomicStore
<1>1. Init => Atom!AtomInit
  BY DEF Init, Missing, Phase, Reads, Atom!AtomInit
<1> QED
  BY <1>1, AtomicStep, FileHolds, TypeCorrect, PTL
     DEF Spec, ImplementsAtomicStore, Atom!AtomSpec

=============================================================================
