----------------------------- MODULE RaftStore ------------------------------
(***************************************************************************)
(* The durable state of one consensus node (cluster/store.rs): the vote,   *)
(* the log, the applied membership and live set, and the snapshot, in one  *)
(* file that every update rewrites.                                        *)
(*                                                                         *)
(* openraft, which is external, decides which operations are called: it    *)
(* appends after the last entry, truncates only what is not committed,     *)
(* applies what is committed in order, purges what a snapshot covers, and  *)
(* stops at the first storage error.  An entry is known by its index; the  *)
(* membership and the live set are known by the entry that set them.       *)
(***************************************************************************)
EXTENDS Naturals, FiniteSets

CONSTANTS
  MaxIndex,    \* bounds the log
  MaxVote,     \* bounds the terms
  Kind,        \* the payload of each entry that the cluster agrees on
  None

ASSUME StoreAssumption ==
  /\ MaxIndex \in Nat /\ MaxVote \in Nat
  /\ Kind \in [1..MaxIndex -> {"blank", "membership", "live"}]

VARIABLES
  mem,         \* RaftStore::inner
  io,          \* how far a flush has come; it runs under the lock of inner
  synced,      \* whether the contents of the sibling file have reached the disk
  file,        \* the file at RaftStore::path, as a reader would find it
  settled,     \* the file that a loss of power may leave there
  raft,        \* "up", or "failed" after a storage error, or "down"
  covered,     \* openraft's own record of the last entry in a snapshot
  build,       \* what build_snapshot has read and not yet stored
  acked,       \* history: what was opened, or the last update that returned Ok
  flushing,    \* history: the update that is being, or was last, made
  reverted,    \* history: a loss of power has undone a rename
  overtaken    \* history: a snapshot was built across an install_snapshot

files == <<synced, file, settled>>
history == <<acked, flushing, reverted, overtaken>>
vars == <<mem, io, files, raft, covered, build, history>>

Index == 0..MaxIndex     \* 0 is no entry

\* What a snapshot holds: the applied log id, the membership and the live set.
Data == [applied : Index, membership : Index, live : Index]
Empty == [applied |-> 0, membership |-> 0, live |-> 0]
Snapshot == [last : Index, data : Data]

ASSUME NoneAssumption == None \notin Snapshot

\* Persisted.  An entry is the agreed one or one that will be truncated.
Persisted ==
  [vote : 0..MaxVote, log : [1..MaxIndex -> {"none", "agreed", "stale"}],
   purged : Index, committed : Index, sm : Data, snapshot : Snapshot \cup {None}]

Default ==
  [vote |-> 0, log |-> [i \in 1..MaxIndex |-> "none"], purged |-> 0,
   committed |-> 0, sm |-> Empty, snapshot |-> None]

Missing == [state |-> Default, whole |-> TRUE]

Init ==
  /\ mem = Default
  /\ io = "idle"
  /\ synced = FALSE /\ file = Missing /\ settled = Missing
  /\ raft = "up"
  /\ covered = 0
  /\ build = None
  /\ acked = Default /\ flushing = Default
  /\ reverted = FALSE /\ overtaken = FALSE

----------------------------------------------------------------------------
(* update and flush *)

\* update: the closure runs on the state in memory, then the flush begins.
Update(s) ==
  /\ raft = "up" /\ io = "idle"
  /\ mem' = s
  /\ flushing' = s
  /\ io' = "write"
  /\ UNCHANGED <<files, raft, acked, reverted>>

\* The sibling is created and written; nothing says yet that it is on disk.
FlushWrite ==
  /\ io = "write"
  /\ synced' = FALSE
  /\ io' = "sync"
  /\ UNCHANGED <<mem, file, settled, raft, covered, build, history>>

\* Mutant: nothing is synced before the rename.
FlushSync_Skipped ==
  /\ io = "sync"
  /\ io' = "rename"
  /\ UNCHANGED <<mem, files, raft, covered, build, history>>

\* sync_all.
FlushSync ==
  /\ io = "sync"
  /\ synced' = TRUE
  /\ io' = "rename"
  /\ UNCHANGED <<mem, file, settled, raft, covered, build, history>>

\* Mutant: a rename that fails is taken for one that succeeded.
FlushRename_Unchecked ==
  /\ io = "rename"
  /\ io' = "return"
  /\ UNCHANGED <<mem, files, raft, covered, build, history>>

\* The rename.  Nothing syncs the directory: a loss of power may undo it, at most
\* the last one here.
FlushRename ==
  /\ io = "rename"
  /\ settled' = file
  /\ file' = [state |-> mem, whole |-> synced]
  /\ io' = "return"
  /\ UNCHANGED <<mem, synced, raft, covered, build, history>>

\* The update returns, and openraft goes by it.
FlushReturn ==
  /\ io = "return"
  /\ io' = "idle"
  /\ acked' = mem
  /\ UNCHANGED <<mem, files, raft, covered, build, flushing, reverted, overtaken>>

\* One of the three steps fails: the update reports it, memory keeps the change,
\* and openraft stops.
FlushErr ==
  /\ io \in {"write", "sync", "rename"}
  /\ io' = "idle"
  /\ raft' = "failed"
  /\ build' = None
  /\ UNCHANGED <<mem, files, covered, history>>

----------------------------------------------------------------------------
(* The log *)

Indexes(s) == {i \in 1..MaxIndex : s.log[i] # "none"}

\* get_log_state: the last entry, or what was purged last.
Last(s) == IF Indexes(s) = {} THEN s.purged
           ELSE CHOOSE i \in Indexes(s) : \A j \in Indexes(s) : j <= i

SaveVote ==
  \E v \in 0..MaxVote :
    /\ v > mem.vote
    /\ Update([mem EXCEPT !.vote = v])
    /\ UNCHANGED <<covered, build, overtaken>>

\* openraft commits entries that the cluster agrees on.
SaveCommitted ==
  \E i \in 1..MaxIndex :
    /\ i > mem.committed /\ mem.log[i] = "agreed"
    /\ Update([mem EXCEPT !.committed = i])
    /\ UNCHANGED <<covered, build, overtaken>>

\* append: entries up to "to", of which those up to "right" are the agreed ones.
AppendEntries ==
  \E to \in 1..MaxIndex, right \in Index :
    LET last == Last(mem)
    IN /\ to > last /\ right \in last..to
       /\ last >= mem.sm.applied
       /\ \A i \in Indexes(mem) : right > last => mem.log[i] = "agreed"
       /\ Update([mem EXCEPT !.log = [i \in 1..MaxIndex |->
                    IF i \in (last + 1)..to
                    THEN IF i <= right THEN "agreed" ELSE "stale"
                    ELSE mem.log[i]]])
       /\ UNCHANGED <<covered, build, overtaken>>

Kept(keep) == [i \in 1..MaxIndex |-> IF i \in keep THEN mem.log[i] ELSE "none"]

\* Mutant: the entry after which to truncate goes too.
TruncateAfter_OffByOne ==
  \E last \in Index :
    LET from == last
    IN /\ last + 1 \in 1..MaxIndex /\ mem.log[last + 1] = "stale"
       /\ \A i \in 1..last : mem.log[i] # "stale"
       /\ Update([mem EXCEPT !.log = Kept({i \in 1..MaxIndex : i < from})])
       /\ UNCHANGED <<covered, build, overtaken>>

\* truncate_after: openraft keeps what agrees with the leader.
TruncateAfter ==
  \E last \in Index :
    LET from == last + 1
    IN /\ from \in 1..MaxIndex /\ mem.log[from] = "stale"
       /\ \A i \in 1..last : mem.log[i] # "stale"
       /\ Update([mem EXCEPT !.log = Kept({i \in 1..MaxIndex : i < from})])
       /\ UNCHANGED <<covered, build, overtaken>>

\* purge: what a snapshot covers.
Purge ==
  \E upto \in 1..MaxIndex :
    /\ upto > mem.purged /\ upto <= covered
    /\ Update([mem EXCEPT !.log = Kept({i \in 1..MaxIndex : i > upto}), !.purged = upto])
    /\ UNCHANGED <<covered, build, overtaken>>

----------------------------------------------------------------------------
(* The state machine *)

\* apply: one update for each entry.
Apply ==
  LET i == mem.sm.applied + 1
  IN /\ i <= mem.committed /\ mem.log[i] = "agreed"
     /\ Update([mem EXCEPT !.sm =
                 [applied    |-> i,
                  membership |-> IF Kind[i] = "membership" THEN i ELSE @.membership,
                  live       |-> IF Kind[i] = "live" THEN i ELSE @.live]])
     /\ UNCHANGED <<covered, build, overtaken>>

\* build_snapshot, in a task of its own: it reads under the lock ...
BuildRead ==
  /\ raft = "up" /\ io = "idle" /\ build = None
  /\ mem.sm.applied > covered
  /\ build' = [last |-> mem.sm.applied, data |-> mem.sm]
  /\ UNCHANGED <<mem, io, files, raft, covered, history>>

\* Mutant: the meta is made from what is applied by now.
BuildStore_FreshMeta ==
  /\ build # None
  /\ Update([mem EXCEPT !.snapshot = [last |-> mem.sm.applied, data |-> build.data]])
  /\ covered' = IF build.last > covered THEN build.last ELSE covered
  /\ overtaken' = (overtaken \/ covered > build.last)
  /\ build' = None

\* ... and stores what it has read in an update.  openraft takes note of a
\* snapshot only if it is newer than the one it knows.
BuildStore ==
  /\ build # None
  /\ Update([mem EXCEPT !.snapshot = build])
  /\ covered' = IF build.last > covered THEN build.last ELSE covered
  /\ overtaken' = (overtaken \/ covered > build.last)
  /\ build' = None

\* What every node has applied once it has applied entry i.
Latest(kind, i) ==
  LET set == {j \in 1..i : Kind[j] = kind}
  IN IF set = {} THEN 0 ELSE CHOOSE j \in set : \A k \in set : k <= j
Agreed(i) == [applied |-> i, membership |-> Latest("membership", i), live |-> Latest("live", i)]

\* Mutant: the snapshot is applied and not kept.
InstallSnapshot_NotKept ==
  \E i \in 1..MaxIndex :
    /\ i > mem.sm.applied /\ i > mem.committed
    /\ Update([mem EXCEPT !.sm = Agreed(i)])
    /\ covered' = i
    /\ UNCHANGED <<build, overtaken>>

\* install_snapshot: the leader's snapshot of entry i replaces what was applied.
\* The log is left to a purge and a truncation of their own.
InstallSnapshot ==
  \E i \in 1..MaxIndex :
    /\ i > mem.sm.applied /\ i > mem.committed
    /\ Update([mem EXCEPT !.sm = Agreed(i),
                          !.snapshot = [last |-> i, data |-> Agreed(i)]])
    /\ covered' = i
    /\ UNCHANGED <<build, overtaken>>

----------------------------------------------------------------------------
(* Crashes *)

Down ==
  /\ raft # "down"
  /\ raft' = "down"
  /\ io' = "idle"
  /\ build' = None
  /\ covered' = 0
  /\ mem' = Default

\* The process dies: the files are as it left them.
Crash ==
  /\ Down
  /\ UNCHANGED <<files, acked, flushing, reverted, overtaken>>

\* The power goes: a rename whose directory never reached the disk is undone,
\* and a file whose contents never did is torn.
PowerLoss ==
  /\ Down
  /\ \E f \in {file, settled} :
       /\ file' = f /\ settled' = f
       /\ reverted' = (f # file)
  /\ UNCHANGED <<synced, acked, flushing, overtaken>>

\* The directory reaches the disk.
Settle ==
  /\ settled # file
  /\ settled' = file
  /\ UNCHANGED <<mem, io, synced, file, raft, covered, build, history>>

LastOf(snapshot) == IF snapshot = None THEN 0 ELSE snapshot.last

\* open: what the file holds, or nothing; a torn file is an error.
Open ==
  /\ raft = "down"
  /\ file.whole
  /\ mem' = file.state
  /\ covered' = LastOf(file.state.snapshot)
  /\ raft' = "up"
  /\ acked' = file.state /\ flushing' = file.state
  /\ reverted' = FALSE
  /\ UNCHANGED <<io, files, build, overtaken>>

Next ==
  \/ SaveVote \/ SaveCommitted \/ AppendEntries \/ TruncateAfter \/ Purge
  \/ Apply \/ BuildRead \/ BuildStore \/ InstallSnapshot
  \/ FlushWrite \/ FlushSync \/ FlushRename \/ FlushReturn \/ FlushErr
  \/ Crash \/ PowerLoss \/ Settle \/ Open

Spec == Init /\ [][Next]_vars

----------------------------------------------------------------------------
(* Properties *)

File == [state : Persisted, whole : BOOLEAN]

\* The variables have their types.
TypeOK ==
  /\ mem \in Persisted
  /\ io \in {"idle", "write", "sync", "rename", "return"}
  /\ synced \in BOOLEAN /\ file \in File /\ settled \in File
  /\ raft \in {"up", "failed", "down"}
  /\ covered \in Index
  /\ build \in Snapshot \cup {None}
  /\ acked \in Persisted /\ flushing \in Persisted
  /\ reverted \in BOOLEAN /\ overtaken \in BOOLEAN

\* "A crash leaves either the old file or the new one, never a half-written log":
\* the store opens again after every crash (flush, open).
NeverTorn == file.whole /\ settled.whole

\* What an update has acknowledged, a vote or an entry, is what the next open
\* finds, or else it finds the update that the crash cut short; only a loss of
\* power that undoes a rename takes it back.
AckedSurvives ==
  ~reverted => file.state \in {acked, flushing}

\* The state that raft and placement read is the acknowledged one, unless an
\* update is under way or a storage error has stopped raft.
MemoryIsAcked ==
  raft = "up" /\ io = "idle" => mem = file.state

\* Entries are kept by index: purging takes a prefix and truncation a suffix, and
\* what is left, after any crash, has no hole and starts where the purge ended.
NoHole ==
  \A s \in {mem, file.state} :
    \A i \in 1..MaxIndex : s.log[i] # "none" <=> i > s.purged /\ i <= Last(s)

\* Truncation, purging and crashes take no committed entry away: what is not
\* purged is in the log, as agreed.
CommittedKept ==
  \A s \in {mem, file.state} :
    \A i \in 1..s.committed : i > s.purged => s.log[i] = "agreed"

\* What a node has applied, by applying or by installing, across restarts, is what
\* every node has applied at that log id; so is what its snapshot holds.
AppliedAgreed ==
  \A s \in {mem, file.state} :
    /\ s.sm = Agreed(s.sm.applied)
    /\ s.snapshot # None => s.snapshot.data = Agreed(s.snapshot.last)

\* An entry that was purged is in the snapshot that the store hands out, so a
\* follower that lacks it can be caught up; a build that an install overtakes
\* puts the older snapshot back.
PurgedIsCovered ==
  ~overtaken => \A s \in {mem, file.state} : s.purged <= LastOf(s.snapshot)

\* How AtomicStore sees the store: an update is made by the rename, and a file
\* that is torn holds no value.
Phase ==
  IF raft # "up" THEN raft
  ELSE IF io = "idle" THEN "idle" ELSE IF io = "return" THEN "done" ELSE "busy"
Reads(f) == IF f.whole THEN f.state ELSE None

Atom == INSTANCE AtomicStore WITH
          Value <- Persisted, First <- Default,
          phase <- Phase, wanted <- mem, stored <- Reads(file), before <- Reads(settled)

\* Every operation of raft's storage rewrites the file in three steps, each of
\* which may fail or be cut short; all the same an update is atomic, what it has
\* acknowledged is found by the next open, and an update that fails leaves no
\* trace there (update, flush, open).
ImplementsAtomicStore == Atom!AtomSpec

=============================================================================
