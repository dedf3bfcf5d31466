---------------------------- MODULE HostingProofs ----------------------------
(***************************************************************************)
(* What a tell can rely on, for any number of actors at the path, of tells *)
(* and of partitions, and any capacity of the mailboxes.                   *)
(*                                                                         *)
(* GapInv is about failures: a tell that is under way while the path       *)
(* reaches nothing has seen the gap, and what resolve found is still what  *)
(* the path reaches unless the tell has seen one.  OnceInv is about        *)
(* copies: a command is at one place of one mailbox, and only if its tell  *)
(* has returned and it has not been taken out yet.                         *)
(***************************************************************************)
EXTENDS Hosting, FiniteSetTheorems, TLAPS

(* The inductive invariant *)

GapInv ==
  /\ Nothing => Underway \subseteq gap
  /\ \A s \in Sender : pc[s] \in {"cache", "second"} => s \in gap \/ (row = link[s] /\ Alive(row))
  /\ FailsOnlyInGap

\* The command of s is the n-th in the mailbox of i.
At(s, i, n) == n \in 1..Len(mailbox[i]) /\ mailbox[i][n] = s

Once(s) ==
  /\ got[s] \in {0, 1}
  /\ pc[s] # "ok" => got[s] = 0
  /\ \A i \in Instance, n \in Nat : At(s, i, n) => pc[s] = "ok" /\ got[s] = 0
  /\ \A i, j \in Instance, n, m \in Nat : At(s, i, n) /\ At(s, j, m) => i = j /\ n = m

OnceInv == \A s \in Sender : Once(s)

IInv == TypeOK /\ GapInv /\ OnceInv

----------------------------------------------------------------------------
(* Types *)

\* Every variable keeps its type.
LEMMA TypeNext ==
  ASSUME TypeOK, [Next]_vars
  PROVE  TypeOK'
<1> USE DEF Goto, Move, node, cluster, actors, tells
<1>0. None \notin Instance /\ Capacity \in Nat /\ MaxPartitions \in Nat
  BY HostingAssumption
<1>1. ASSUME Partition \/ Heal PROVE TypeOK'
  <2>1. connected' \in BOOLEAN
    BY <1>1, Zenon DEF Partition, Heal
  <2>2. cuts' = cuts \/ (cuts < MaxPartitions /\ cuts' = cuts + 1)
    BY <1>1, Zenon DEF Partition, Heal
  <2>3. cuts \in 0..MaxPartitions
    BY Zenon DEF TypeOK
  <2>4. cuts' \in 0..MaxPartitions
    BY <1>0, <2>2, <2>3
  <2> QED
    BY <1>1, <2>1, <2>4, Zenon DEF Partition, Heal, TypeOK
<1>2. ASSUME NEW p \in Peer, Expire(p) \/ Hear(p) PROVE TypeOK'
  BY <1>0, <1>2 DEF Expire, Hear, TypeOK
<1>3. ASSUME Watch PROVE TypeOK'
  <2>1. QuorumAcked \in BOOLEAN
    <3>1. (2 * (Cardinality(acked) + 1) > Cardinality(Peer) + 1) \in BOOLEAN
      BY SMT
    <3>2. (acked # {}) \in BOOLEAN
      BY Zenon
    <3> QED
      BY <3>1, <3>2, Zenon DEF QuorumAcked
  <2>2. serving' \in Watched
    BY <1>3, <2>1 DEF Watch, Bump, Watched, TypeOK
  <2>3. watcher' \in (SUBSET Peer) \cup {None}
    BY <1>3 DEF Watch, TypeOK
  <2> QED
    BY <1>3, <2>2, <2>3 DEF Watch, TypeOK
<1>4. ASSUME Committed \/ ProposeErr PROVE TypeOK'
  <2>0. watcher # None /\ watcher' = None /\ (agreed' = watcher \/ agreed' = agreed)
    BY <1>4, Zenon DEF Committed, ProposeErr
  <2>1. agreed' \subseteq Peer /\ watcher' \in (SUBSET Peer) \cup {None}
    BY <2>0 DEF TypeOK
  <2> QED
    BY <1>4, <2>1, Zenon DEF Committed, ProposeErr, TypeOK
<1>5. ASSUME Relay PROVE TypeOK'
  BY <1>0, <1>5 DEF Relay, Bump, Watched, TypeOK
<1>6. ASSUME CheckServing PROVE TypeOK'
  BY <1>0, <1>6 DEF CheckServing, TypeOK
<1>7. ASSUME Create PROVE TypeOK'
  BY <1>0, <1>7, Zenon DEF Create, Alive, TypeOK
<1>8. ASSUME NEW i \in Instance, Begin(i) PROVE TypeOK'
  BY <1>0, <1>8 DEF Begin, Watched, TypeOK
<1>9. ASSUME NEW i \in Instance, StartOk(i) PROVE TypeOK'
  BY <1>0, <1>9 DEF StartOk, TypeOK
<1>10. ASSUME NEW i \in Instance, StartErr(i) PROVE TypeOK'
  BY <1>0, <1>10 DEF StartErr, TypeOK
<1>11. ASSUME NEW i \in Instance, Receive(i) PROVE TypeOK'
  <2>1. /\ mailbox \in [Instance -> Seq(Sender)] /\ Len(mailbox[i]) <= Capacity
        /\ got \in [Sender -> Nat] /\ mailbox[i] # << >>
    BY <1>11, Zenon DEF Receive, TypeOK
  <2>2. Head(mailbox[i]) \in Sender /\ Tail(mailbox[i]) \in Seq(Sender)
    BY <2>1
  <2>3. Len(Tail(mailbox[i])) <= Capacity
    BY <1>0, <2>1
  <2>4. got' \in [Sender -> Nat]
    BY <1>11, <2>1, <2>2 DEF Receive
  <2>5. /\ mailbox' \in [Instance -> Seq(Sender)]
        /\ \A j \in Instance : Len(mailbox'[j]) <= Capacity
    BY <1>11, <2>1, <2>2, <2>3, Zenon DEF Receive, TypeOK
  <2>6. st' \in [Instance -> {"unborn", "spawned", "starting", "idle", "handling",
                              "leaving", "ending", "ended"}]
    BY <1>11, Zenon DEF Receive, TypeOK
  <2> QED
    BY <1>11, <2>4, <2>5, <2>6, Zenon DEF Receive, TypeOK
<1>12. ASSUME NEW i \in Instance, HandledContinue(i) PROVE TypeOK'
  BY <1>0, <1>12 DEF HandledContinue, TypeOK
<1>13. ASSUME NEW i \in Instance, HandledStop(i) PROVE TypeOK'
  BY <1>0, <1>13 DEF HandledStop, TypeOK
<1>14. ASSUME NEW i \in Instance, StoodDown(i) PROVE TypeOK'
  BY <1>0, <1>14 DEF StoodDown, Watched, TypeOK
<1>15. ASSUME NEW i \in Instance, Retire(i) PROVE TypeOK'
  BY <1>0, <1>15 DEF Retire, SeesGap, Underway, TypeOK
<1>16. ASSUME NEW i \in Instance, End(i) PROVE TypeOK'
  BY <1>0, <1>16 DEF End, SeesGap, Underway, TypeOK
<1>17. ASSUME NEW i \in Instance, Panic(i) PROVE TypeOK'
  BY <1>0, <1>17 DEF Panic, SeesGap, Underway, TypeOK
<1>18. ASSUME NEW s \in Sender, Tell(s) PROVE TypeOK'
  BY <1>0, <1>18 DEF Tell, SeesGap, Underway, TypeOK
<1>19. ASSUME NEW s \in Sender, Deliver(s) PROVE TypeOK'
  BY <1>0, <1>19 DEF Deliver, Alive, TypeOK
<1>20. ASSUME NEW s \in Sender, Closed(s) PROVE TypeOK'
  BY <1>0, <1>20, Zenon DEF Closed, TypeOK
<1>21. ASSUME NEW s \in Sender, Resolve(s) PROVE TypeOK'
  BY <1>0, <1>21, Zenon DEF Resolve, Alive, TypeOK
<1>22. ASSUME NEW s \in Sender, Cache(s) PROVE TypeOK'
  BY <1>0, <1>22 DEF Cache, TypeOK
<1>23. CASE UNCHANGED vars
  BY <1>23 DEF vars, TypeOK
<1> QED
  BY <1>1, <1>2, <1>3, <1>4, <1>5, <1>6, <1>7, <1>8, <1>9, <1>10, <1>11, <1>12,
     <1>13, <1>14, <1>15, <1>16, <1>17, <1>18, <1>19, <1>20, <1>21, <1>22, <1>23 DEF Next, Step

----------------------------------------------------------------------------
(* Failures *)

\* A step that the path and the tells do not notice keeps GapInv.
LEMMA GapCalm ==
  ASSUME TypeOK, GapInv, UNCHANGED <<row, pc, link, gap>>,
         \A i \in Instance : Alive(i)' <=> Alive(i)
  PROVE  GapInv'
<1>1. row \in Instance \/ row = None
  BY Zenon DEF TypeOK
<1>2. Alive(row)' <=> Alive(row)
  BY <1>1, Zenon DEF Alive
<1>3. Nothing' => Nothing
  BY <1>2, Zenon DEF Nothing
<1> QED
  BY <1>2, <1>3, Zenon DEF GapInv, Underway, FailsOnlyInGap

\* A step of an actor or of a tell after which the gap is looked at keeps it, if
\* the path is what it was or None, and no link that resolve found is replaced.
LEMMA GapSeen ==
  ASSUME TypeOK, GapInv, SeesGap, row' \in {row, None},
         \A s \in Sender : pc'[s] \in {"cache", "second"} => pc'[s] = pc[s] /\ link'[s] = link[s],
         \A s \in Sender : pc'[s] = "err" => pc[s] = "err"
  PROVE  GapInv'
<1>1. gap \subseteq gap' /\ (Nothing' => Underway' \subseteq gap')
  BY Zenon DEF SeesGap
<1>2. ASSUME NEW s \in Sender, pc'[s] \in {"cache", "second"}, s \notin gap'
      PROVE  row' = link'[s] /\ Alive(row)'
  <2>1. s \in Underway'
    BY <1>2 DEF Underway
  <2>2. row' # None /\ Alive(row)'
    BY <1>1, <1>2, <2>1, Zenon DEF Nothing
  <2>3. row = link[s]
    BY <1>1, <1>2, Zenon DEF GapInv
  <2> QED
    BY <1>2, <2>2, <2>3, Zenon
<1>3. FailsOnlyInGap'
  BY <1>1, Zenon DEF GapInv, FailsOnlyInGap
<1> QED
  BY <1>1, <1>2, <1>3, Zenon DEF GapInv

\* Every step keeps GapInv.
LEMMA GapNext ==
  ASSUME TypeOK, GapInv, [Next]_vars
  PROVE  GapInv'
<1> USE DEF Goto, Move, node, cluster, actors, tells
<1>0. /\ None \notin Instance /\ row \in Instance \cup {None}
      /\ st \in [Instance -> {"unborn", "spawned", "starting", "idle", "handling",
                              "leaving", "ending", "ended"}]
      /\ pc \in [Sender -> {"idle", "first", "resolve", "cache", "second", "ok", "err"}]
      /\ link \in [Sender -> Instance \cup {None}]
  BY HostingAssumption, Zenon DEF TypeOK
<1>1. ASSUME \/ Partition \/ Heal \/ Watch \/ Committed \/ ProposeErr \/ Relay \/ CheckServing
             \/ \E p \in Peer : Expire(p) \/ Hear(p)
             \/ UNCHANGED vars
      PROVE  GapInv'
  <2>1. UNCHANGED <<row, pc, link, gap, st>>
    BY <1>1, Zenon DEF Partition, Heal, Watch, Committed, ProposeErr, Relay, CheckServing,
                       Expire, Hear, vars
  <2>2. \A i \in Instance : Alive(i)' <=> Alive(i)
    BY <2>1, Zenon DEF Alive
  <2> QED
    BY <2>1, <2>2, GapCalm, Zenon
<1>2. ASSUME NEW i \in Instance,
             \/ Begin(i) \/ StartOk(i) \/ StartErr(i) \/ Receive(i) \/ HandledContinue(i)
             \/ HandledStop(i) \/ StoodDown(i)
      PROVE  GapInv'
  <2>1. UNCHANGED <<row, pc, link, gap>>
    BY <1>2, Zenon DEF Begin, StartOk, StartErr, Receive, HandledContinue, HandledStop, StoodDown
  <2>2. /\ st[i] \in {"spawned", "starting", "idle", "handling"}
        /\ \E to \in {"starting", "idle", "leaving", "handling"} : st' = [st EXCEPT ![i] = to]
    BY <1>2 DEF Begin, StartOk, StartErr, Receive, HandledContinue, HandledStop, StoodDown
  <2>3. \A j \in Instance : Alive(j)' <=> Alive(j)
    BY <1>0, <2>2 DEF Alive
  <2> QED
    BY <2>1, <2>3, GapCalm, Zenon
<1>3. ASSUME Create PROVE GapInv'
  <2>1. CASE Alive(row)
    <3>1. UNCHANGED <<row, pc, link, gap, st>>
      BY <1>3, <2>1, Zenon DEF Create
    <3>2. \A i \in Instance : Alive(i)' <=> Alive(i)
      BY <3>1, Zenon DEF Alive
    <3> QED
      BY <3>1, <3>2, GapCalm, Zenon
  <2>2. CASE ~Alive(row)
    <3>1. ~Nothing'
      BY <1>0, <1>3, <2>2 DEF Create, Nothing, Alive
    <3>2. UNCHANGED <<pc, link, gap>>
      BY <1>3, Zenon DEF Create
    <3> QED
      BY <2>2, <3>1, <3>2, Zenon DEF GapInv, FailsOnlyInGap
  <2> QED
    BY <2>1, <2>2
<1>4. ASSUME NEW i \in Instance, Retire(i) \/ End(i) \/ Panic(i)
      PROVE  GapInv'
  <2>1. SeesGap /\ row' \in {row, None} /\ UNCHANGED <<pc, link>>
    BY <1>4, Zenon DEF Retire, End, Panic
  <2> QED
    BY <2>1, GapSeen, Zenon
<1>5. ASSUME NEW s \in Sender, Tell(s) PROVE GapInv'
  <2>1. SeesGap /\ row' \in {row, None}
    BY <1>5, Zenon DEF Tell
  <2>2. /\ \A t \in Sender : pc'[t] \in {"cache", "second"} => pc'[t] = pc[t] /\ link'[t] = link[t]
        /\ \A t \in Sender : pc'[t] = "err" => pc[t] = "err"
    BY <1>0, <1>5 DEF Tell
  <2> QED
    BY <2>1, <2>2, GapSeen, Zenon
<1>6. ASSUME NEW s \in Sender, Deliver(s) \/ Closed(s) \/ Resolve(s) \/ Cache(s)
      PROVE  GapInv'
  <2>1. /\ UNCHANGED <<row, st, gap>>
        /\ pc[s] \in {"first", "second", "resolve", "cache"}
        /\ \A t \in Sender \ {s} : pc'[t] = pc[t] /\ link'[t] = link[t]
    BY <1>0, <1>6 DEF Deliver, Closed, Resolve, Cache
  <2>2. (Alive(row)' <=> Alive(row)) /\ (Nothing' <=> Nothing)
    BY <2>1, Zenon DEF Alive, Nothing
  <2>3. s \in Underway /\ Underway' \subseteq Underway
    BY <2>1 DEF Underway
  <2>4. pc'[s] \in {"cache", "second"} => s \in gap \/ (row = link'[s] /\ Alive(row))
    BY <1>0, <1>6 DEF Deliver, Closed, Resolve, Cache, GapInv
  <2>5. pc'[s] = "err" => s \in gap
    <3>1. ASSUME pc'[s] = "err"
          PROVE  (pc[s] = "second" /\ ~Alive(link[s])) \/ (pc[s] = "resolve" /\ ~Alive(row))
      BY <1>0, <1>6, <3>1 DEF Deliver, Closed, Resolve, Cache
    <3> QED
      BY <2>3, <3>1, Zenon DEF GapInv, Nothing
  <2> QED
    BY <2>1, <2>2, <2>3, <2>4, <2>5, Zenon DEF GapInv, FailsOnlyInGap
<1> QED
  BY <1>1, <1>2, <1>3, <1>4, <1>5, <1>6, Zenon DEF Next, Step

----------------------------------------------------------------------------
(* Copies *)

\* Once holds after a step that keeps got and whether the tell has returned, and
\* puts the command nowhere that it was not: a mailbox may be emptied.
LEMMA OnceCalm ==
  ASSUME NEW s \in Sender, Once(s), got'[s] = got[s],
         pc'[s] = "ok" <=> pc[s] = "ok",
         \A i \in Instance, n \in Nat : At(s, i, n)' => At(s, i, n)
  PROVE  Once(s)'
<1>1. got'[s] \in {0, 1} /\ (pc'[s] # "ok" => got'[s] = 0)
  BY Zenon DEF Once
<1>2. ASSUME NEW i \in Instance, NEW n \in Nat, At(s, i, n)' PROVE pc'[s] = "ok" /\ got'[s] = 0
  BY <1>2, Zenon DEF Once
<1>3. ASSUME NEW i \in Instance, NEW j \in Instance, NEW n \in Nat, NEW m \in Nat,
             At(s, i, n)', At(s, j, m)'
      PROVE  i = j /\ n = m
  <2>1. At(s, i, n) /\ At(s, j, m)
    BY <1>3, Zenon
  <2> QED
    BY <2>1, Zenon DEF Once
<1> QED
  BY <1>1, <1>2, <1>3, Zenon DEF Once

\* Every step keeps OnceInv.
LEMMA OnceNext ==
  ASSUME TypeOK, OnceInv, [Next]_vars
  PROVE  OnceInv'
<1> USE DEF Goto, Move, node, cluster, actors, tells
<1>0. /\ mailbox \in [Instance -> Seq(Sender)]
      /\ pc \in [Sender -> {"idle", "first", "resolve", "cache", "second", "ok", "err"}]
      /\ got \in [Sender -> Nat]
      /\ link \in [Sender -> Instance \cup {None}]
  BY Zenon DEF TypeOK
<1>1. ASSUME \/ Partition \/ Heal \/ Watch \/ Committed \/ ProposeErr \/ Relay \/ CheckServing
             \/ Create
             \/ \E p \in Peer : Expire(p) \/ Hear(p)
             \/ \E i \in Instance : \/ Begin(i) \/ StartOk(i) \/ StartErr(i) \/ HandledContinue(i)
                                     \/ HandledStop(i) \/ StoodDown(i) \/ Retire(i)
             \/ UNCHANGED vars
      PROVE  OnceInv'
  <2>1. UNCHANGED <<mailbox, pc, got>>
    BY <1>1, Zenon DEF Partition, Heal, Watch, Committed, ProposeErr, Relay, CheckServing, Create,
                       Expire, Hear, Begin, StartOk, StartErr, HandledContinue, HandledStop,
                       StoodDown, Retire, vars
  <2>2. \A s \in Sender, i \in Instance, n \in Nat : At(s, i, n)' => At(s, i, n)
    BY <2>1, Zenon DEF At
  <2> QED
    BY <2>1, <2>2, OnceCalm, Zenon DEF OnceInv
<1>2. ASSUME NEW i \in Instance, End(i) \/ Panic(i) PROVE OnceInv'
  <2>1. UNCHANGED <<pc, got>> /\ mailbox' = [mailbox EXCEPT ![i] = << >>]
    BY <1>2, Zenon DEF End, Panic
  <2>2. \A s \in Sender, j \in Instance, n \in Nat : At(s, j, n)' => At(s, j, n)
    BY <1>0, <2>1 DEF At
  <2> QED
    BY <2>1, <2>2, OnceCalm, Zenon DEF OnceInv
<1>3. ASSUME NEW i \in Instance, Receive(i) PROVE OnceInv'
  <2>0. mailbox[i] # << >> /\ Head(mailbox[i]) \in Sender
    BY <1>0, <1>3 DEF Receive
  <2>1. PICK h \in Sender :
          /\ h = Head(mailbox[i]) /\ UNCHANGED pc
          /\ got' = [got EXCEPT ![h] = @ + 1]
          /\ mailbox' = [mailbox EXCEPT ![i] = Tail(@)]
    BY <1>3, <2>0, Zenon DEF Receive
  <2>2. At(h, i, 1)
    BY <1>0, <2>0, <2>1 DEF At
  <2>3. pc[h] = "ok" /\ got[h] = 0
    BY <2>2 DEF OnceInv, Once
  <2>4. ASSUME NEW s \in Sender, NEW j \in Instance, NEW n \in Nat, At(s, j, n)'
        PROVE  IF j = i THEN At(s, i, n + 1) /\ n # 0 ELSE At(s, j, n)
    BY <1>0, <2>0, <2>1, <2>4 DEF At
  <2>5. got'[h] = 1 /\ \A s \in Sender \ {h} : got'[s] = got[s]
    BY <1>0, <2>1, <2>3
  <2>6. Once(h)'
    <3>1. ASSUME NEW j \in Instance, NEW n \in Nat, At(h, j, n)' PROVE FALSE
      <4>1. IF j = i THEN At(h, i, n + 1) /\ n # 0 ELSE At(h, j, n)
        BY <2>4, <3>1, Zenon
      <4>2. \A k \in Instance, m \in Nat : At(h, k, m) => k = i /\ m = 1
        BY <2>2 DEF OnceInv, Once
      <4> QED
        BY <4>1, <4>2
    <3> QED
      BY <2>1, <2>3, <2>5, <3>1, Zenon DEF Once
  <2>7. ASSUME NEW s \in Sender, s # h PROVE Once(s)'
    <3>0. Once(s) /\ got'[s] = got[s]
      BY <2>5, <2>7, Zenon DEF OnceInv
    <3>1. ASSUME NEW j \in Instance, NEW n \in Nat, At(s, j, n)' PROVE pc[s] = "ok" /\ got[s] = 0
      BY <2>4, <3>0, <3>1 DEF Once
    <3>2. ASSUME NEW j \in Instance, NEW k \in Instance, NEW n \in Nat, NEW m \in Nat,
                 At(s, j, n)', At(s, k, m)'
          PROVE  j = k /\ n = m
      BY <2>4, <3>0, <3>2 DEF Once
    <3> QED
      BY <2>1, <3>0, <3>1, <3>2, Zenon DEF Once
  <2> QED
    BY <2>6, <2>7, Zenon DEF OnceInv
<1>4. ASSUME NEW s \in Sender, Deliver(s) PROVE OnceInv'
  <2> DEFINE i == link[s]
             at == Len(mailbox[i]) + 1
  <2>1. /\ i \in Instance /\ pc[s] # "ok" /\ UNCHANGED got
        /\ mailbox' = [mailbox EXCEPT ![i] = Append(@, s)]
        /\ pc' = [pc EXCEPT ![s] = "ok"]
    BY <1>0, <1>4 DEF Deliver, Alive
  <2>2. ASSUME NEW t \in Sender, NEW j \in Instance, NEW n \in Nat, At(t, j, n)'
        PROVE  At(t, j, n) \/ (t = s /\ j = i /\ n = at)
    BY <1>0, <2>1, <2>2 DEF At
  <2> HIDE DEF i, at
  <2>3. got[s] = 0 /\ \A j \in Instance, n \in Nat : ~At(s, j, n)
    BY <2>1, Zenon DEF OnceInv, Once
  <2>4. pc'[s] = "ok" /\ \A t \in Sender \ {s} : pc'[t] = pc[t]
    BY <1>0, <2>1
  <2>5. Once(s)'
    <3>1. \A j \in Instance, n \in Nat : At(s, j, n)' => j = i /\ n = at
      BY <2>2, <2>3, Zenon
    <3> QED
      BY <2>1, <2>3, <2>4, <3>1, Zenon DEF Once
  <2>6. ASSUME NEW t \in Sender, t # s PROVE Once(t)'
    <3>1. Once(t) /\ got'[t] = got[t] /\ (pc'[t] = "ok" <=> pc[t] = "ok")
      BY <2>1, <2>4, <2>6, Zenon DEF OnceInv
    <3>2. \A j \in Instance, n \in Nat : At(t, j, n)' => At(t, j, n)
      BY <2>2, <2>6, Zenon
    <3> QED
      BY <3>1, <3>2, OnceCalm, Zenon
  <2> QED
    BY <2>5, <2>6, Zenon DEF OnceInv
<1>5. ASSUME NEW s \in Sender, Tell(s) \/ Closed(s) \/ Resolve(s) \/ Cache(s) PROVE OnceInv'
  <2>1. UNCHANGED <<mailbox, got>>
    BY <1>5, Zenon DEF Tell, Closed, Resolve, Cache
  <2>2. \A t \in Sender : pc'[t] = "ok" <=> pc[t] = "ok"
    BY <1>0, <1>5 DEF Tell, Closed, Resolve, Cache
  <2>3. \A t \in Sender, i \in Instance, n \in Nat : At(t, i, n)' => At(t, i, n)
    BY <2>1, Zenon DEF At
  <2> QED
    BY <2>1, <2>2, <2>3, OnceCalm, Zenon DEF OnceInv
<1> QED
  BY <1>1, <1>2, <1>3, <1>4, <1>5, Zenon DEF Next, Step

\* What OnceInv says of places, DeliveredOnce says of numbers.
LEMMA OnceCounts ==
  ASSUME TypeOK, OnceInv
  PROVE  DeliveredOnce
<1> SUFFICES ASSUME NEW s \in Sender
             PROVE  Copies(s) <= (IF pc[s] = "ok" THEN 1 ELSE 0)
  BY DEF DeliveredOnce
<1> DEFINE places == {x \in Instance \X (1..Capacity) :
                        x[2] \in DOMAIN mailbox[x[1]] /\ mailbox[x[1]][x[2]] = s}
<1>1. ASSUME NEW x \in places PROVE At(s, x[1], x[2]) /\ x[1] \in Instance /\ x[2] \in Nat
  <2>1. mailbox[x[1]] \in Seq(Sender)
    BY DEF TypeOK
  <2> QED
    BY <2>1, HostingAssumption DEF At
<1>2. ASSUME NEW x \in places, NEW y \in places PROVE x = y
  <2>0. \A i, j \in Instance, k, l \in Nat : At(s, i, k) /\ At(s, j, l) => i = j /\ k = l
    BY Zenon DEF OnceInv, Once
  <2>1. x[1] = y[1] /\ x[2] = y[2]
    BY <1>1, <2>0, SMT
  <2> QED
    BY <2>1
<1>3. ASSUME NEW x \in places PROVE pc[s] = "ok" /\ got[s] = 0
  BY <1>1, Zenon DEF OnceInv, Once
<1>4. Copies(s) = got[s] + Cardinality(places)
  BY Zenon DEF Copies
<1> HIDE DEF places
<1>5. got[s] \in {0, 1} /\ (pc[s] # "ok" => got[s] = 0)
  BY Zenon DEF OnceInv, Once
<1>6. CASE places = {}
  <2>1. Cardinality(places) = 0
    BY <1>6, FS_EmptySet, Zenon
  <2> QED
    BY <1>4, <1>5, <2>1
<1>7. CASE places # {}
  <2>1. PICK x : x \in places
    BY <1>7, Zenon
  <2>2. places = {x}
    BY <1>2, <2>1
  <2>3. Cardinality(places) = 1
    BY <2>2, FS_Singleton, Zenon
  <2> QED
    BY <1>3, <1>4, <2>1, <2>3
<1> QED
  BY <1>6, <1>7

----------------------------------------------------------------------------
(* The theorems *)

\* Nobody has been created or told anything: the invariant holds at the start.
LEMMA InitIInv ==
  ASSUME Init
  PROVE  IInv
<1>0. 0 \in Nat /\ 0 \in 0..MaxPartitions /\ << >> \in Seq(Sender) /\ Len(<< >>) = 0 /\ 0 <= Capacity
  BY HostingAssumption
<1>1. TypeOK
  <2>1. mailbox \in [Instance -> Seq(Sender)] /\ \A i \in Instance : Len(mailbox[i]) <= Capacity
    BY <1>0 DEF Init
  <2> QED
    BY <1>0, <2>1, Zenon DEF Init, TypeOK, Watched
<1>2. GapInv
  BY DEF Init, GapInv, Underway, FailsOnlyInGap
<1>3. OnceInv
  BY DEF Init, OnceInv, Once, At
<1> QED
  BY <1>1, <1>2, <1>3 DEF IInv

\* The inductive invariant of the path holds in every reachable state.
THEOREM Invariance == Spec => []IInv
<1>1. Init => IInv
  BY InitIInv
<1>2. IInv /\ [Next]_vars => IInv'
  BY TypeNext, GapNext, OnceNext DEF IInv
<1> QED
  BY <1>1, <1>2, PTL DEF Spec

\* The variables have their types, and no mailbox holds more than
\* MAILBOX_CAPACITY commands.
THEOREM Types == Spec => []TypeOK
<1>1. IInv => TypeOK
  BY DEF IInv
<1> QED
  BY <1>1, Invariance, PTL

\* ActorRef::tell: for any number of tells and of actors that follow each other
\* at the path, a tell fails only if the path reached nothing during the call.
THEOREM TellsFailOnlyInGaps == Spec => []FailsOnlyInGap
<1>1. IInv => FailsOnlyInGap
  BY DEF IInv, GapInv
<1> QED
  BY <1>1, Invariance, PTL

\* Link::send hands a refused command back and tell sends it once more: still
\* every command is in one mailbox at most, is taken out once at most, and not
\* at all if the tell reported a failure.
THEOREM CommandsAreSingle == Spec => []DeliveredOnce
<1>1. IInv => DeliveredOnce
  BY OnceCounts DEF IInv
<1> QED
  BY <1>1, Invariance, PTL

=============================================================================
