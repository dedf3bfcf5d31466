---------------------------- MODULE RegistryProofs ----------------------------
(***************************************************************************)
(* What the actor tree guarantees for any tree of paths and any number of  *)
(* instances and callers.                                                  *)
(***************************************************************************)
EXTENDS Registry, TLAPS

\* The registry and the running instances agree.
TreeInv ==
  /\ TypeOK
  /\ \A a \in Agent : stage[a] = "halt" => target[a] \in Path
  /\ \A i \in Instance : phase[i] # "unborn" => at[i] \in Path
  /\ RowsLeave
  /\ Reachable

\* What halt does: the row goes, and its instance has been asked to stop.
LEMMA HaltDoes ==
  ASSUME TypeOK, NEW a \in Agent, NEW p \in Path, Halt(a, p)
  PROVE  /\ live' = [live EXCEPT ![p] = Nobody]
         /\ stop' \in [Instance -> BOOLEAN]
         /\ on' \in [Agent -> Instance \cup {Nobody}]
         /\ \A i \in Instance : stop'[i] <=> (stop[i] \/ live[p] = i)
<1>1. CASE live[p] = Nobody
  BY <1>1, CastAssumption DEF Halt, TypeOK
<1>2. CASE live[p] # Nobody
  BY <1>2, Zenon DEF Halt, TypeOK
<1> QED
  BY <1>1, <1>2

\* Every variable keeps its type.
LEMMA TypeNext ==
  TypeOK /\ (\A a \in Agent : stage[a] = "halt" => target[a] \in Path) /\ [Next]_vars
    => TypeOK'
<1> SUFFICES ASSUME TypeOK, \A a \in Agent : stage[a] = "halt" => target[a] \in Path,
                    [Next]_vars
             PROVE  TypeOK'
  OBVIOUS
<1> USE DEF Goto, tree, jobs, Agent, Phase, Stage
<1>0. TypeOK /\ Nobody \notin Instance /\ Root \notin Path
  BY CastAssumption, PathAssumption
<1>1. ASSUME NEW p \in Path, ActorOf(p) PROVE TypeOK'
  BY <1>0, <1>1 DEF ActorOf, GetOrCreate, TypeOK
<1>2. ASSUME NEW k \in Instance, NEW p \in Path, ChildOf(k, p) PROVE TypeOK'
  BY <1>0, <1>2 DEF ChildOf, GetOrCreate, TypeOK
<1>3. ASSUME NEW k \in Instance, NEW p \in Path, HandlerStop(k, p) PROVE TypeOK'
  BY <1>0, <1>3 DEF HandlerStop, StopAt, TypeOK
<1>4. ASSUME NEW k \in Instance, Started(k) PROVE TypeOK'
  BY <1>0, <1>4 DEF Started, TypeOK
<1>5. ASSUME NEW k \in Instance, StartFails(k) PROVE TypeOK'
  BY <1>0, <1>5 DEF StartFails, TypeOK
<1>6. ASSUME NEW k \in Instance, FlowStop(k) PROVE TypeOK'
  BY <1>0, <1>6 DEF FlowStop, TypeOK
<1>7. ASSUME NEW k \in Instance, Interrupted(k) PROVE TypeOK'
  BY <1>0, <1>7 DEF Interrupted, Off, TypeOK
<1>8. ASSUME NEW k \in Instance, Retire(k) PROVE TypeOK'
  BY <1>0, <1>8, Zenon DEF Retire, TypeOK
<1>9. ASSUME NEW k \in Instance, Panic(k) PROVE TypeOK'
  BY <1>0, <1>9 DEF Panic, Off, TypeOK
<1>10. ASSUME NEW k \in Instance, End(k) PROVE TypeOK'
  BY <1>0, <1>10 DEF End, Off, TypeOK
<1>11. ASSUME NEW k \in Instance, HandlerResumes(k) PROVE TypeOK'
  BY <1>0, <1>11 DEF HandlerResumes, Off, TypeOK
<1>12. ASSUME NEW c \in Caller, NEW p \in Path, CallStop(c, p) PROVE TypeOK'
  BY <1>0, <1>12 DEF CallStop, StopAt, TypeOK
<1>13. ASSUME NEW a \in Agent, HaltTarget(a) PROVE TypeOK'
  <2>1. target[a] \in Path
    BY <1>13 DEF HaltTarget
  <2>2. /\ live' \in [Path -> Instance \cup {Nobody}] /\ stop' \in [Instance -> BOOLEAN]
        /\ on' \in [Agent -> Instance \cup {Nobody}]
    <3>1. Halt(a, target[a])
      BY <1>13 DEF HaltTarget
    <3>2. /\ live' = [live EXCEPT ![target[a]] = Nobody] /\ stop' \in [Instance -> BOOLEAN]
          /\ on' \in [Agent -> Instance \cup {Nobody}]
      BY <1>0, <2>1, <3>1, HaltDoes, Zenon
    <3> QED
      BY <1>0, <2>1, <3>2 DEF TypeOK
  <2> QED
    BY <1>0, <1>13, <2>2 DEF HaltTarget, TypeOK
<1>14. ASSUME NEW a \in Agent, Collect(a) PROVE TypeOK'
  BY <1>0, <1>14 DEF Collect, TypeOK
<1>15. ASSUME NEW a \in Agent, HaltNext(a) PROVE TypeOK'
  <2>1. PICK p \in doomed[a] : Halt(a, p) /\ doomed' = [doomed EXCEPT ![a] = @ \ {p}]
    BY <1>15, Zenon DEF HaltNext
  <2>2. p \in Path
    BY <1>0, <1>15 DEF TypeOK
  <2>3. /\ live' \in [Path -> Instance \cup {Nobody}] /\ stop' \in [Instance -> BOOLEAN]
        /\ on' \in [Agent -> Instance \cup {Nobody}]
    <3>1. /\ live' = [live EXCEPT ![p] = Nobody] /\ stop' \in [Instance -> BOOLEAN]
          /\ on' \in [Agent -> Instance \cup {Nobody}]
      BY <1>0, <2>1, <2>2, HaltDoes, Zenon
    <3> QED
      BY <1>0, <2>2, <3>1 DEF TypeOK
  <2> QED
    BY <1>0, <1>15, <2>1, <2>3 DEF HaltNext, TypeOK
<1>16. ASSUME NEW c \in Caller, StopReturns(c) PROVE TypeOK'
  BY <1>0, <1>16 DEF StopReturns, TypeOK
<1>17. CASE UNCHANGED vars
  BY <1>17 DEF vars, TypeOK
<1> QED
  BY <1>1, <1>2, <1>3, <1>4, <1>5, <1>6, <1>7, <1>8,
     <1>9, <1>10, <1>11, <1>12, <1>13, <1>14, <1>15, <1>16, <1>17 DEF Next

\* Every step keeps the registry and the running instances in agreement.
LEMMA TreeNext == TreeInv /\ [Next]_vars => TreeInv'
<1> SUFFICES ASSUME TreeInv, [Next]_vars PROVE TreeInv'
  OBVIOUS
<1> USE DEF Goto, tree, jobs, Over, Active
<1>0. TypeOK' /\ TreeInv /\ Nobody \notin Instance /\ Root \notin Path
  BY TypeNext, CastAssumption, PathAssumption DEF TreeInv
<1>1. ASSUME NEW p \in Path, ActorOf(p) PROVE TreeInv'
  BY <1>0, <1>1 DEF ActorOf, GetOrCreate, TreeInv, TypeOK, RowsLeave, Reachable
<1>2. ASSUME NEW k \in Instance, NEW p \in Path, ChildOf(k, p) PROVE TreeInv'
  BY <1>0, <1>2 DEF ChildOf, GetOrCreate, TreeInv, TypeOK, RowsLeave, Reachable
<1>3. ASSUME NEW k \in Instance, NEW p \in Path, HandlerStop(k, p) PROVE TreeInv'
  BY <1>0, <1>3 DEF HandlerStop, StopAt, TreeInv, TypeOK, RowsLeave, Reachable
<1>4. ASSUME NEW k \in Instance, Started(k) PROVE TreeInv'
  BY <1>0, <1>4 DEF Started, TreeInv, TypeOK, RowsLeave, Reachable
<1>5. ASSUME NEW k \in Instance, StartFails(k) PROVE TreeInv'
  BY <1>0, <1>5 DEF StartFails, TreeInv, TypeOK, RowsLeave, Reachable
<1>6. ASSUME NEW k \in Instance, FlowStop(k) PROVE TreeInv'
  BY <1>0, <1>6 DEF FlowStop, TreeInv, TypeOK, RowsLeave, Reachable
<1>7. ASSUME NEW k \in Instance, Interrupted(k) PROVE TreeInv'
  BY <1>0, <1>7 DEF Interrupted, Off, TreeInv, TypeOK, RowsLeave, Reachable
<1>8. ASSUME NEW k \in Instance, Retire(k) PROVE TreeInv'
  BY <1>0, <1>8 DEF Retire, TreeInv, TypeOK, RowsLeave, Reachable
<1>9. ASSUME NEW k \in Instance, Panic(k) PROVE TreeInv'
  BY <1>0, <1>9 DEF Panic, Off, TreeInv, TypeOK, RowsLeave, Reachable
<1>10. ASSUME NEW k \in Instance, End(k) PROVE TreeInv'
  BY <1>0, <1>10 DEF End, Off, TreeInv, TypeOK, RowsLeave, Reachable
<1>11. ASSUME NEW k \in Instance, HandlerResumes(k) PROVE TreeInv'
  BY <1>0, <1>11 DEF HandlerResumes, Off, TreeInv, TypeOK, RowsLeave, Reachable
<1>12. ASSUME NEW c \in Caller, NEW p \in Path, CallStop(c, p) PROVE TreeInv'
  BY <1>0, <1>12 DEF CallStop, StopAt, TreeInv, TypeOK, RowsLeave, Reachable
<1>13. ASSUME NEW a \in Agent, HaltTarget(a) PROVE TreeInv'
  <2>1. target[a] \in Path
    BY <1>0, <1>13 DEF HaltTarget, TreeInv
  <2>2. /\ live' = [live EXCEPT ![target[a]] = Nobody]
        /\ \A i \in Instance : stop'[i] <=> (stop[i] \/ live[target[a]] = i)
    <3>1. TypeOK /\ Halt(a, target[a])
      BY <1>0, <1>13 DEF HaltTarget, TreeInv
    <3> QED
      BY <2>1, <3>1, HaltDoes
  <2> QED
    BY <1>0, <1>13, <2>1, <2>2 DEF HaltTarget, TreeInv, TypeOK, RowsLeave, Reachable
<1>14. ASSUME NEW a \in Agent, Collect(a) PROVE TreeInv'
  BY <1>0, <1>14 DEF Collect, TreeInv, TypeOK, RowsLeave, Reachable
<1>15. ASSUME NEW a \in Agent, HaltNext(a) PROVE TreeInv'
  <2>1. PICK p \in doomed[a] : Halt(a, p)
    BY <1>15 DEF HaltNext
  <2>2. p \in Path
    BY <1>0, <1>15 DEF TreeInv, TypeOK
  <2>3. /\ live' = [live EXCEPT ![p] = Nobody]
        /\ \A i \in Instance : stop'[i] <=> (stop[i] \/ live[p] = i)
    BY <1>0, <2>1, <2>2, HaltDoes DEF TreeInv
  <2> QED
    BY <1>0, <1>15, <2>2, <2>3 DEF HaltNext, TreeInv, TypeOK, RowsLeave, Reachable
<1>16. ASSUME NEW c \in Caller, StopReturns(c) PROVE TreeInv'
  BY <1>0, <1>16 DEF StopReturns, TreeInv, TypeOK, RowsLeave, Reachable
<1>17. CASE UNCHANGED vars
  BY <1>17 DEF vars, TreeInv, TypeOK, RowsLeave, Reachable
<1> QED
  BY <1>1, <1>2, <1>3, <1>4, <1>5, <1>6, <1>7, <1>8,
     <1>9, <1>10, <1>11, <1>12, <1>13, <1>14, <1>15, <1>16, <1>17 DEF Next

\* The registry and the running instances always agree.
THEOREM TreeHolds == Spec => []TreeInv
<1>1. Init => TreeInv
  BY CastAssumption, PathAssumption
     DEF Init, TreeInv, TypeOK, RowsLeave, Reachable, Active, Agent, Phase, Stage
<1> QED
  BY <1>1, TreeNext, PTL DEF Spec

\* Every variable of the registry keeps its type.
THEOREM TypeCorrect == Spec => []TypeOK
<1>1. TreeInv => TypeOK
  BY DEF TreeInv
<1> QED
  BY <1>1, TreeHolds, PTL

\* An actor that runs and was not asked to stop is the one its path resolves
\* to (get_or_create, retire, halt).
THEOREM AlwaysReachable == Spec => []Reachable
<1>1. TreeInv => Reachable
  BY DEF TreeInv
<1> QED
  BY <1>1, TreeHolds, PTL

\* No registry row outlives the actor behind it, panics aside (retire).
THEOREM NoRowLeaks == Spec => []RowsLeave
<1>1. TreeInv => RowsLeave
  BY DEF TreeInv
<1> QED
  BY <1>1, TreeHolds, PTL

----------------------------------------------------------------------------
(* Who a stop reaches *)

\* A scan in progress has every child of its instance behind it or in front.
SweepInv ==
  /\ \A i, j \in Instance : phase[j] # "unborn" /\ by[j] = i =>
       phase[i] # "unborn" /\ StartsWith(at[j], at[i]) /\ at[j] # at[i]
  /\ \A i \in Instance : phase[i] = "sweeping" =>
       target[i] = at[i] /\ stage[i] \in {"collect", "loop"}
  /\ \A i, j \in Instance :
       phase[i] = "sweeping" /\ stage[i] = "loop" /\ by[j] = i =>
         Leaving(j) \/ at[j] \in doomed[i]
  /\ NoOrphans

\* A stop in progress has everyone it found behind it or in front.
CallInv ==
  \A c \in Caller : \A j \in before[c] :
    /\ phase[j] # "unborn"
    /\ StartsWith(at[j], target[c])
    /\ stage[c] = "collect" /\ at[j] = target[c] => Leaving(j)
    /\ stage[c] = "loop" => Leaving(j) \/ at[j] \in doomed[c]
    /\ stage[c] = "done" => Leaving(j)

\* ActorPath::child makes a path that lies strictly below its parent.
LEMMA ChildIsBelow ==
  ASSUME NEW p \in Path, NEW q \in Path \cup {Root}, IsChild(p, q)
  PROVE  StartsWith(p, q) /\ p # q
<1>0. << >> \in Seq(Segment)
  OBVIOUS
<1>1. p \in Seq(Segment) /\ q \in Seq(Segment)
  <2>1. CASE q = Root
    BY <1>0, <2>1, PathAssumption DEF Root
  <2>2. CASE q \in Path
    BY <2>2, PathAssumption
  <2> QED
    BY <2>1, <2>2
<1>2. Len(p) \in Nat /\ Len(q) \in Nat
  BY <1>1
<1> QED
  BY <1>2 DEF IsChild

\* Every step keeps each scan ahead of the children it has to reach.
LEMMA SweepNext == TreeInv /\ SweepInv /\ [Next]_vars => SweepInv'
<1> SUFFICES ASSUME TreeInv, SweepInv, [Next]_vars PROVE SweepInv'
  OBVIOUS
<1> USE DEF Goto, tree, jobs, Active, Leaving, Agent
<1>0. TypeOK /\ TreeInv /\ SweepInv /\ Nobody \notin Instance /\ Root \notin Path
      /\ Instance \cap Caller = {}
  BY CastAssumption, PathAssumption DEF TreeInv
<1>1. ASSUME NEW p \in Path, ActorOf(p) PROVE SweepInv'
  BY <1>0, <1>1 DEF ActorOf, GetOrCreate, SweepInv, TypeOK, NoOrphans
<1>2. ASSUME NEW k \in Instance, NEW p \in Path, ChildOf(k, p) PROVE SweepInv'
  <2>1. at[k] \in Path \cup {Root} /\ IsChild(p, at[k])
    BY <1>0, <1>2 DEF ChildOf, TypeOK
  <2>2. StartsWith(p, at[k]) /\ p # at[k]
    BY <2>1, ChildIsBelow
  <2> QED
    BY <1>0, <1>2, <2>2 DEF ChildOf, GetOrCreate, SweepInv, TypeOK, NoOrphans
<1>3. ASSUME NEW k \in Instance, NEW p \in Path, HandlerStop(k, p) PROVE SweepInv'
  BY <1>0, <1>3 DEF HandlerStop, StopAt, SweepInv, TypeOK, NoOrphans
<1>4. ASSUME NEW k \in Instance, Started(k) PROVE SweepInv'
  BY <1>0, <1>4 DEF Started, SweepInv, TypeOK, NoOrphans
<1>5. ASSUME NEW k \in Instance, StartFails(k) PROVE SweepInv'
  BY <1>0, <1>5 DEF StartFails, SweepInv, TypeOK, NoOrphans
<1>6. ASSUME NEW k \in Instance, FlowStop(k) PROVE SweepInv'
  BY <1>0, <1>6 DEF FlowStop, SweepInv, TypeOK, NoOrphans
<1>7. ASSUME NEW k \in Instance, Interrupted(k) PROVE SweepInv'
  BY <1>0, <1>7 DEF Interrupted, Off, SweepInv, TypeOK, NoOrphans
<1>8. ASSUME NEW k \in Instance, Retire(k) PROVE SweepInv'
  BY <1>0, <1>8 DEF Retire, SweepInv, TypeOK, NoOrphans
<1>9. ASSUME NEW k \in Instance, Panic(k) PROVE SweepInv'
  BY <1>0, <1>9 DEF Panic, Off, SweepInv, TypeOK, NoOrphans
<1>10. ASSUME NEW k \in Instance, End(k) PROVE SweepInv'
  BY <1>0, <1>10 DEF End, Off, Swept, SweepInv, TypeOK, NoOrphans
<1>11. ASSUME NEW k \in Instance, HandlerResumes(k) PROVE SweepInv'
  BY <1>0, <1>11 DEF HandlerResumes, Off, SweepInv, TypeOK, NoOrphans
<1>12. ASSUME NEW c \in Caller, NEW p \in Path, CallStop(c, p) PROVE SweepInv'
  BY <1>0, <1>12 DEF CallStop, StopAt, SweepInv, TypeOK, NoOrphans
<1>13. ASSUME NEW a \in Agent, HaltTarget(a) PROVE SweepInv'
  <2>1. \A i \in Instance : stop'[i] <=> (stop[i] \/ live[target[a]] = i)
    <3>1. target[a] \in Path /\ Halt(a, target[a])
      BY <1>0, <1>13 DEF HaltTarget, TreeInv
    <3> QED
      BY <1>0, <3>1, HaltDoes
  <2> QED
    BY <1>0, <1>13, <2>1 DEF HaltTarget, SweepInv, TypeOK, NoOrphans
<1>14. ASSUME NEW a \in Agent, Collect(a) PROVE SweepInv'
  <2>1. /\ UNCHANGED <<live, at, by, phase, stop, target>> /\ stage[a] = "collect"
        /\ stage' = [stage EXCEPT ![a] = "loop"]
        /\ doomed' = [doomed EXCEPT ![a] =
                        {p \in Path : /\ live[p] # Nobody
                                      /\ StartsWith(p, target[a]) /\ p # target[a]}]
    BY <1>14 DEF Collect
  <2>2. ASSUME NEW i \in Instance, NEW j \in Instance,
               phase[i] = "sweeping", stage'[i] = "loop", by[j] = i, ~Leaving(j)
        PROVE  at[j] \in doomed'[i]
    <3>1. CASE i = a
      <4>1. /\ StartsWith(at[j], at[i]) /\ at[j] # at[i] /\ target[i] = at[i]
            /\ at[j] \in Path
        BY <1>0, <2>2 DEF SweepInv, TreeInv
      <4>2. live[at[j]] # Nobody
        BY <1>0, <2>2 DEF TreeInv, Reachable
      <4> QED
        BY <1>0, <2>1, <3>1, <4>1, <4>2 DEF TypeOK
    <3>2. CASE i # a
      BY <1>0, <2>1, <2>2, <3>2 DEF SweepInv, TypeOK
    <3> QED
      BY <3>1, <3>2
  <2>3. \A i \in Instance : phase[i] = "sweeping" => stage'[i] \in {"collect", "loop"}
    BY <1>0, <2>1 DEF SweepInv, TypeOK
  <2> QED
    BY <1>0, <2>1, <2>2, <2>3 DEF SweepInv, NoOrphans
<1>15. ASSUME NEW a \in Agent, HaltNext(a) PROVE SweepInv'
  <2>1. PICK p \in doomed[a] : Halt(a, p) /\ doomed' = [doomed EXCEPT ![a] = @ \ {p}]
    BY <1>15, Zenon DEF HaltNext
  <2>2. p \in Path
    BY <1>0, <1>15 DEF TypeOK
  <2>3. \A i \in Instance : stop'[i] <=> (stop[i] \/ live[p] = i)
    BY <1>0, <2>1, <2>2, HaltDoes
  <2>4. /\ UNCHANGED <<at, by, phase, stage, target>> /\ stage[a] = "loop"
        /\ doomed' = [doomed EXCEPT ![a] = @ \ {p}]
    BY <1>15, <2>1, Zenon DEF HaltNext
  <2>5. \A j \in Instance : Leaving(j) => Leaving(j)'
    BY <2>3, <2>4
  <2>6. ASSUME NEW i \in Instance, NEW j \in Instance,
               phase[i] = "sweeping", stage[i] = "loop", by[j] = i
        PROVE  Leaving(j)' \/ at[j] \in doomed'[i]
    <3>1. CASE Leaving(j)
      BY <2>5, <3>1
    <3>2. CASE ~Leaving(j) /\ at[j] = p
      BY <1>0, <2>3, <3>2 DEF TreeInv, Reachable
    <3>3. CASE at[j] \in doomed[i] /\ at[j] # p
      BY <1>0, <2>4, <3>3 DEF TypeOK
    <3> QED
      BY <1>0, <2>6, <3>1, <3>2, <3>3 DEF SweepInv
  <2> QED
    BY <1>0, <2>4, <2>5, <2>6 DEF SweepInv, NoOrphans
<1>16. ASSUME NEW c \in Caller, StopReturns(c) PROVE SweepInv'
  BY <1>0, <1>16 DEF StopReturns, SweepInv, TypeOK, NoOrphans
<1>17. CASE UNCHANGED vars
  BY <1>17 DEF vars, SweepInv, TypeOK, NoOrphans
<1> QED
  BY <1>1, <1>2, <1>3, <1>4, <1>5, <1>6, <1>7, <1>8,
     <1>9, <1>10, <1>11, <1>12, <1>13, <1>14, <1>15, <1>16, <1>17 DEF Next

\* Every step keeps each stop ahead of the instances it has to reach.
LEMMA CallNext == TreeInv /\ CallInv /\ [Next]_vars => CallInv'
<1> SUFFICES ASSUME TreeInv, CallInv, [Next]_vars PROVE CallInv'
  OBVIOUS
<1> USE DEF Goto, tree, jobs, Active, Leaving, Agent
<1>0. TypeOK /\ TreeInv /\ CallInv /\ Nobody \notin Instance /\ Root \notin Path
      /\ Instance \cap Caller = {}
  BY CastAssumption, PathAssumption DEF TreeInv
<1>1. ASSUME NEW p \in Path, ActorOf(p) PROVE CallInv'
  BY <1>0, <1>1 DEF ActorOf, GetOrCreate, CallInv, TypeOK
<1>2. ASSUME NEW k \in Instance, NEW p \in Path, ChildOf(k, p) PROVE CallInv'
  BY <1>0, <1>2 DEF ChildOf, GetOrCreate, CallInv, TypeOK
<1>3. ASSUME NEW k \in Instance, NEW p \in Path, HandlerStop(k, p) PROVE CallInv'
  BY <1>0, <1>3 DEF HandlerStop, StopAt, CallInv, TypeOK
<1>4. ASSUME NEW k \in Instance, Started(k) PROVE CallInv'
  BY <1>0, <1>4 DEF Started, CallInv, TypeOK
<1>5. ASSUME NEW k \in Instance, StartFails(k) PROVE CallInv'
  BY <1>0, <1>5 DEF StartFails, CallInv, TypeOK
<1>6. ASSUME NEW k \in Instance, FlowStop(k) PROVE CallInv'
  BY <1>0, <1>6 DEF FlowStop, CallInv, TypeOK
<1>7. ASSUME NEW k \in Instance, Interrupted(k) PROVE CallInv'
  BY <1>0, <1>7 DEF Interrupted, Off, CallInv, TypeOK
<1>8. ASSUME NEW k \in Instance, Retire(k) PROVE CallInv'
  BY <1>0, <1>8 DEF Retire, CallInv, TypeOK
<1>9. ASSUME NEW k \in Instance, Panic(k) PROVE CallInv'
  BY <1>0, <1>9 DEF Panic, Off, CallInv, TypeOK
<1>10. ASSUME NEW k \in Instance, End(k) PROVE CallInv'
  BY <1>0, <1>10 DEF End, Off, CallInv, TypeOK
<1>11. ASSUME NEW k \in Instance, HandlerResumes(k) PROVE CallInv'
  BY <1>0, <1>11 DEF HandlerResumes, Off, CallInv, TypeOK
<1>12. ASSUME NEW c \in Caller, NEW p \in Path, CallStop(c, p) PROVE CallInv'
  BY <1>0, <1>12 DEF CallStop, StopAt, CallInv, TypeOK
<1>13. ASSUME NEW a \in Agent, HaltTarget(a) PROVE CallInv'
  <2>1. \A i \in Instance : stop'[i] <=> (stop[i] \/ live[target[a]] = i)
    <3>1. target[a] \in Path /\ Halt(a, target[a])
      BY <1>0, <1>13 DEF HaltTarget, TreeInv
    <3> QED
      BY <1>0, <3>1, HaltDoes
  <2>2. /\ UNCHANGED <<at, by, phase, target, doomed, before>> /\ stage[a] = "halt"
        /\ stage' = [stage EXCEPT ![a] = "collect"]
    BY <1>13 DEF HaltTarget
  <2>3. \A j \in Instance : Leaving(j) => Leaving(j)'
    BY <2>1, <2>2
  <2>4. ASSUME NEW c \in Caller, NEW j \in before[c], stage'[c] = "collect",
               at[j] = target[c]
        PROVE  Leaving(j)'
    <3>1. CASE c = a
      BY <1>0, <2>1, <2>2, <2>4, <3>1 DEF TreeInv, Reachable, TypeOK
    <3>2. CASE c # a
      BY <1>0, <2>2, <2>3, <2>4, <3>2 DEF CallInv, TypeOK
    <3> QED
      BY <3>1, <3>2
  <2>5. \A c \in Caller : stage'[c] \in {"loop", "done"} => stage'[c] = stage[c]
    BY <1>0, <2>2 DEF TypeOK
  <2> QED
    BY <1>0, <2>2, <2>3, <2>4, <2>5 DEF CallInv, TypeOK
<1>14. ASSUME NEW a \in Agent, Collect(a) PROVE CallInv'
  <2>1. /\ UNCHANGED <<live, at, by, phase, stop, target, before>> /\ stage[a] = "collect"
        /\ stage' = [stage EXCEPT ![a] = "loop"]
        /\ doomed' = [doomed EXCEPT ![a] =
                        {p \in Path : /\ live[p] # Nobody
                                      /\ StartsWith(p, target[a]) /\ p # target[a]}]
    BY <1>14 DEF Collect
  <2>2. ASSUME NEW c \in Caller, NEW j \in before[c], stage'[c] = "loop"
        PROVE  Leaving(j) \/ at[j] \in doomed'[c]
    <3>1. j \in Instance /\ StartsWith(at[j], target[c]) /\ phase[j] # "unborn"
      BY <1>0 DEF TypeOK, CallInv
    <3>2. CASE c = a /\ ~Leaving(j)
      <4>1. at[j] # target[c] /\ at[j] \in Path
        BY <1>0, <2>1, <3>1, <3>2 DEF CallInv, TreeInv
      <4>2. live[at[j]] # Nobody
        BY <1>0, <3>1, <3>2 DEF TreeInv, Reachable
      <4> QED
        BY <1>0, <2>1, <3>1, <3>2, <4>1, <4>2 DEF TypeOK
    <3>3. CASE c # a
      BY <1>0, <2>1, <2>2, <3>3 DEF CallInv, TypeOK
    <3> QED
      BY <3>2, <3>3
  <2>3. \A c \in Caller : stage'[c] \in {"collect", "done"} => stage'[c] = stage[c]
    BY <1>0, <2>1 DEF TypeOK
  <2>4. \A j \in Instance : Leaving(j)' <=> Leaving(j)
    BY <2>1
  <2>5. ASSUME NEW c \in Caller, NEW j \in before[c]
        PROVE  /\ j \in Instance /\ phase'[j] # "unborn" /\ StartsWith(at'[j], target'[c])
               /\ stage'[c] = "collect" /\ at'[j] = target'[c] => Leaving(j)'
               /\ stage'[c] = "done" => Leaving(j)'
    <3>1. j \in Instance
      BY <1>0 DEF TypeOK
    <3>2. phase'[j] # "unborn" /\ StartsWith(at'[j], target'[c])
      BY <1>0, <2>1 DEF CallInv
    <3> QED
      BY <1>0, <2>1, <2>3, <2>4, <3>1, <3>2 DEF CallInv
  <2>6. before' = before
    BY <2>1
  <2>7. ASSUME NEW c \in Caller, NEW j \in before[c], stage'[c] = "loop"
        PROVE  Leaving(j)' \/ at'[j] \in doomed'[c]
    BY <2>1, <2>2, <2>4, <2>5, <2>7
  <2> QED
    BY <2>5, <2>6, <2>7 DEF CallInv
<1>15. ASSUME NEW a \in Agent, HaltNext(a) PROVE CallInv'
  <2>1. PICK p \in doomed[a] : Halt(a, p) /\ doomed' = [doomed EXCEPT ![a] = @ \ {p}]
    BY <1>15, Zenon DEF HaltNext
  <2>2. p \in Path
    BY <1>0, <1>15 DEF TypeOK
  <2>3. \A i \in Instance : stop'[i] <=> (stop[i] \/ live[p] = i)
    BY <1>0, <2>1, <2>2, HaltDoes
  <2>4. /\ UNCHANGED <<at, by, phase, stage, target, before>> /\ stage[a] = "loop"
        /\ doomed' = [doomed EXCEPT ![a] = @ \ {p}]
    BY <1>15, <2>1, Zenon DEF HaltNext
  <2>5. \A j \in Instance : Leaving(j) => Leaving(j)'
    BY <2>3, <2>4
  <2>6. ASSUME NEW c \in Caller, NEW j \in before[c], stage[c] = "loop"
        PROVE  Leaving(j)' \/ at[j] \in doomed'[c]
    <3>1. j \in Instance
      BY <1>0 DEF TypeOK
    <3>2. CASE Leaving(j)
      BY <2>5, <3>1, <3>2
    <3>3. CASE ~Leaving(j) /\ at[j] = p
      BY <1>0, <2>3, <3>1, <3>3 DEF TreeInv, Reachable
    <3>4. CASE at[j] \in doomed[c] /\ at[j] # p
      BY <1>0, <2>4, <3>4 DEF TypeOK
    <3> QED
      BY <1>0, <2>6, <3>2, <3>3, <3>4 DEF CallInv
  <2> QED
    BY <1>0, <2>4, <2>5, <2>6 DEF CallInv, TypeOK
<1>16. ASSUME NEW c \in Caller, StopReturns(c) PROVE CallInv'
  BY <1>0, <1>16, SMTT(30) DEF StopReturns, Swept, CallInv, TypeOK
<1>17. CASE UNCHANGED vars
  BY <1>17, Zenon DEF vars, CallInv, TypeOK
<1> QED
  BY <1>1, <1>2, <1>3, <1>4, <1>5, <1>6, <1>7, <1>8,
     <1>9, <1>10, <1>11, <1>12, <1>13, <1>14, <1>15, <1>16, <1>17 DEF Next

\* An actor takes its children with it: once its task has ended, every child it
\* created is over or on its way out (retire, stop_descendants).
THEOREM ChildrenFollow == Spec => []NoOrphans
<1>1. Init => SweepInv
  BY CastAssumption DEF Init, SweepInv, NoOrphans, Leaving, Active, Agent
<1>2. SweepInv => NoOrphans
  BY DEF SweepInv
<1> QED
  BY <1>1, <1>2, SweepNext, TreeHolds, PTL DEF Spec

\* A stop that returns has reached everything that was at or under its path
\* when it was called, whatever was created, stopped or replaced meanwhile
\* (stop_at, stop_descendants, halt).
THEOREM StopReaches == Spec => []StopReachesAll
<1>1. Init => CallInv
  BY DEF Init, CallInv
<1>2. CallInv => StopReachesAll
  BY DEF CallInv, StopReachesAll
<1> QED
  BY <1>1, <1>2, CallNext, TreeHolds, PTL DEF Spec

===============================================================================
