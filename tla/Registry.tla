------------------------------ MODULE Registry ------------------------------
(***************************************************************************)
(* The actor tree of one node: the flat registry of live paths             *)
(* (system.rs), the task of each instance (run_actor in runtime.rs), and   *)
(* the stop of a path with everything under it.                            *)
(*                                                                         *)
(* A stop is not atomic: halt takes a row out of the registry, raises that *)
(* instance's stop signal and waits for its task to end; the children are  *)
(* collected by one scan and halted one by one.  The scan is run by        *)
(* whoever stops a path: a task outside (Caller), a handler of an actor,   *)
(* or the instance itself on its way out.  All of them interleave with     *)
(* each other and with the creation of actors at the same paths.           *)
(***************************************************************************)
EXTENDS Naturals, Sequences

CONSTANTS
  Segment,     \* the names actors are given
  Path,        \* the addresses in use: non-empty sequences of segments
  TopLevel,    \* where actors are created from outside any actor
  Instance,    \* the actor values ever created; its size bounds the spawns
  Caller,      \* tasks outside the tree that stop a path
  Nobody       \* no instance

Root == << >>

ASSUME PathAssumption ==
  Path \subseteq Seq(Segment) /\ Root \notin Path /\ TopLevel \subseteq Path
ASSUME CastAssumption == Nobody \notin Instance /\ Instance \cap Caller = {}

Agent == Instance \cup Caller

VARIABLES
  live,        \* SystemInner::live: the instance registered at each path
  at,          \* the path of each instance
  by,          \* the instance whose context created it, if one did
  phase,       \* where its task is in run_actor
  stop,        \* whether its own stop signal has been raised
  stage,       \* of the stop an agent is running: where it is in stop_at
  target,      \* ... the path it stops
  doomed,      \* ... what is left of its scan
  on,          \* ... the instance whose end it awaits
  stopped,     \* ... whether there was one at the path itself
  before       \* history: who was at or under the path when a caller called

vars == <<live, at, by, phase, stop, stage, target, doomed, on, stopped, before>>
tree == <<live, at, by, phase, stop>>
jobs == <<stage, target, doomed, on, stopped>>

Phase == {"unborn", "starting", "serving", "retiring", "sweeping", "ended",
          "panicked"}
Stage == {"off", "halt", "collect", "loop", "done"}

Init ==
  /\ live = [p \in Path |-> Nobody]
  /\ at = [i \in Instance |-> Root]
  /\ by = [i \in Instance |-> Nobody]
  /\ phase = [i \in Instance |-> "unborn"]
  /\ stop = [i \in Instance |-> FALSE]
  /\ stage = [a \in Agent |-> "off"]
  /\ target = [a \in Agent |-> Root]
  /\ doomed = [a \in Agent |-> {}]
  /\ on = [a \in Agent |-> Nobody]
  /\ stopped = [a \in Agent |-> FALSE]
  /\ before = [c \in Caller |-> {}]

----------------------------------------------------------------------------
(* Paths and lifecycles *)

StartsWith(path, prefix) ==
  /\ Len(prefix) =< Len(path)
  /\ \A k \in 1..Len(prefix) : path[k] = prefix[k]

IsChild(path, parent) ==
  /\ Len(path) = Len(parent) + 1
  /\ StartsWith(path, parent)

Over(i) == phase[i] \in {"ended", "panicked"}

\* Its task runs its own code: on_start, or a handler, or it waits for one.
Active(i) == phase[i] \in {"starting", "serving"}

\* It will not handle another command once it polls its signals again.
Leaving(i) == stop[i] \/ ~Active(i)

Goto(i, p) == phase' = [phase EXCEPT ![i] = p]

----------------------------------------------------------------------------
(* Creating *)

\* get_or_create on a path that holds nothing, or an actor whose mailbox is
\* closed.  The row is replaced under the same lock.  On a path that holds a
\* live actor the call returns a reference to it and changes nothing.
GetOrCreate(path, parent) ==
  /\ live[path] # Nobody => Over(live[path])
  /\ \E i \in Instance :
       /\ phase[i] = "unborn"
       /\ at' = [at EXCEPT ![i] = path]
       /\ by' = [by EXCEPT ![i] = parent]
       /\ live' = [live EXCEPT ![path] = i]
       /\ Goto(i, "starting")
  /\ UNCHANGED <<stop, jobs, before>>

\* ActorSystem::actor_of, or the recipe of a shard type.
ActorOf(path) == path \in TopLevel /\ GetOrCreate(path, Nobody)

\* ActorContext::actor_of, from a handler or from on_start.
ChildOf(i, path) ==
  /\ Active(i) /\ stage[i] = "off"
  /\ IsChild(path, at[i])
  /\ GetOrCreate(path, i)

----------------------------------------------------------------------------
(* The task of an instance.  Waiting for a command and handling one are one *)
(* phase: both are raced against the stop signal.                          *)

\* on_start, which nothing interrupts, returns ...
Started(i) ==
  /\ phase[i] = "starting"
  /\ Goto(i, "serving")
  /\ UNCHANGED <<live, at, by, stop, jobs, before>>

\* ... or fails.
StartFails(i) ==
  /\ phase[i] = "starting"
  /\ Goto(i, "retiring")
  /\ UNCHANGED <<live, at, by, stop, jobs, before>>

\* A handler returns Flow::Stop.
FlowStop(i) ==
  /\ phase[i] = "serving" /\ stage[i] = "off"
  /\ Goto(i, "retiring")
  /\ UNCHANGED <<live, at, by, stop, jobs, before>>

\* The agent's stop is no longer running: it finished, or its future was dropped.
Off(a) ==
  /\ stage' = [stage EXCEPT ![a] = "off"]
  /\ target' = [target EXCEPT ![a] = Root]
  /\ doomed' = [doomed EXCEPT ![a] = {}]
  /\ on' = [on EXCEPT ![a] = Nobody]
  /\ stopped' = [stopped EXCEPT ![a] = FALSE]

\* Mutant: a handler that awaits is not raced against the signal.
Interrupted_BetweenCommands(i) ==
  /\ phase[i] = "serving" /\ stop[i] /\ stage[i] = "off"
  /\ Goto(i, "retiring")
  /\ Off(i)
  /\ UNCHANGED <<live, at, by, stop, before>>

\* asked_to_stop wins a select: the handler is dropped, and with it a stop it
\* was in the middle of.
Interrupted(i) ==
  /\ phase[i] = "serving" /\ stop[i]
  /\ Goto(i, "retiring")
  /\ Off(i)
  /\ UNCHANGED <<live, at, by, stop, before>>

\* What the three mutants of Retire share with it.
StartSweep(i) ==
  /\ phase[i] = "retiring"
  /\ Goto(i, "sweeping")
  /\ stage' = [stage EXCEPT ![i] = "collect"]
  /\ target' = [target EXCEPT ![i] = at[i]]
  /\ UNCHANGED <<at, by, stop, doomed, on, stopped, before>>

\* Mutant: whatever is at the path is dropped.
Retire_AnyLink(i) ==
  StartSweep(i) /\ live' = [live EXCEPT ![at[i]] = Nobody]

\* Mutant: the row stays until somebody asks for the name again.
Retire_KeepsRow(i) == StartSweep(i) /\ UNCHANGED live

\* Mutant: an instance whose row is gone already returns without a scan.
Retire_ReturnsEarly(i) ==
  \/ /\ StartSweep(i)
     /\ live[at[i]] = i
     /\ live' = [live EXCEPT ![at[i]] = Nobody]
  \/ /\ phase[i] = "retiring" /\ live[at[i]] # i
     /\ Goto(i, "ended")
     /\ UNCHANGED <<live, at, by, stop, jobs, before>>

\* The end of run_actor: retire drops the row if it is still this instance's,
\* and the scan of the descendants begins.
Retire(i) ==
  /\ phase[i] = "retiring"
  /\ live' = IF live[at[i]] = i THEN [live EXCEPT ![at[i]] = Nobody] ELSE live
  /\ Goto(i, "sweeping")
  /\ stage' = [stage EXCEPT ![i] = "collect"]
  /\ target' = [target EXCEPT ![i] = at[i]]
  /\ UNCHANGED <<at, by, stop, doomed, on, stopped, before>>

\* A panic unwinds the task: no retire and no scan.
Panic(i) ==
  /\ Active(i)
  /\ Goto(i, "panicked")
  /\ Off(i)
  /\ UNCHANGED <<live, at, by, stop, before>>

----------------------------------------------------------------------------
(* Stopping a path *)

\* Mutant: a task that ends without a clean close is waited for.
Free_CleanClose(a) == on[a] # Nobody => phase[on[a]] = "ended"

\* The instance it was waiting for, if any, has ended.
Free(a) == on[a] # Nobody => Over(on[a])

\* halt: the row goes first, then the signal, then the wait.
Halt(a, path) ==
  LET i == live[path]
  IN IF i = Nobody
       THEN on' = [on EXCEPT ![a] = Nobody] /\ UNCHANGED <<live, stop>>
       ELSE /\ live' = [live EXCEPT ![path] = Nobody]
            /\ stop' = [stop EXCEPT ![i] = TRUE]
            /\ on' = [on EXCEPT ![a] = i]

StopAt(a, path) ==
  /\ stage[a] = "off"
  /\ stage' = [stage EXCEPT ![a] = "halt"]
  /\ target' = [target EXCEPT ![a] = path]

\* ActorSystem::stop or ActorRef::stop, from a task outside the tree.
CallStop(c, path) ==
  /\ StopAt(c, path)
  /\ before' = [before EXCEPT ![c] =
                  {i \in Instance : StartsWith(at[i], path) /\ phase[i] # "unborn"}]
  /\ UNCHANGED <<tree, doomed, on, stopped>>

\* ActorRef::stop, from a handler: of any path, its own and its parent's too.
HandlerStop(i, path) ==
  /\ phase[i] = "serving"
  /\ StopAt(i, path)
  /\ UNCHANGED <<tree, doomed, on, stopped, before>>

\* Mutant: a path that holds no actor is taken to have nothing under it.
HaltTarget_ReturnsEarly(a) ==
  /\ stage[a] = "halt"
  /\ Halt(a, target[a])
  /\ stopped' = [stopped EXCEPT ![a] = live[target[a]] # Nobody]
  /\ stage' = [stage EXCEPT ![a] = IF live[target[a]] = Nobody THEN "loop" ELSE "collect"]
  /\ UNCHANGED <<at, by, phase, target, doomed, before>>

HaltTarget(a) ==
  /\ stage[a] = "halt"
  /\ Halt(a, target[a])
  /\ stopped' = [stopped EXCEPT ![a] = live[target[a]] # Nobody]
  /\ stage' = [stage EXCEPT ![a] = "collect"]
  /\ UNCHANGED <<at, by, phase, target, doomed, before>>

\* stop_descendants: one scan of the registry under its lock ...
Collect(a) ==
  /\ stage[a] = "collect" /\ Free(a)
  /\ doomed' = [doomed EXCEPT ![a] =
                  {p \in Path : /\ live[p] # Nobody
                                /\ StartsWith(p, target[a]) /\ p # target[a]}]
  /\ stage' = [stage EXCEPT ![a] = "loop"]
  /\ on' = [on EXCEPT ![a] = Nobody]
  /\ UNCHANGED <<tree, target, stopped, before>>

\* ... and one halt after another, in the order of a hash map.
HaltNext(a) ==
  /\ stage[a] = "loop" /\ Free(a)
  /\ \E p \in doomed[a] :
       /\ Halt(a, p)
       /\ doomed' = [doomed EXCEPT ![a] = @ \ {p}]
  /\ UNCHANGED <<at, by, phase, stage, target, stopped, before>>

Swept(a) == stage[a] = "loop" /\ Free(a) /\ doomed[a] = {}

\* The last descendant has ended: so has this instance.
End(i) ==
  /\ phase[i] = "sweeping" /\ Swept(i)
  /\ Goto(i, "ended")
  /\ Off(i)
  /\ UNCHANGED <<live, at, by, stop, before>>

\* The stop that a handler awaited returns.
HandlerResumes(i) ==
  /\ phase[i] = "serving" /\ Swept(i)
  /\ Off(i)
  /\ UNCHANGED <<tree, before>>

\* stop returns to the task outside.
StopReturns(c) ==
  /\ Swept(c)
  /\ stage' = [stage EXCEPT ![c] = "done"]
  /\ UNCHANGED <<tree, target, doomed, on, stopped, before>>

Next ==
  \/ \E p \in Path : ActorOf(p)
  \/ \E i \in Instance, p \in Path : ChildOf(i, p) \/ HandlerStop(i, p)
  \/ \E i \in Instance :
       \/ Started(i) \/ StartFails(i) \/ FlowStop(i) \/ Interrupted(i)
       \/ Retire(i) \/ Panic(i) \/ End(i) \/ HandlerResumes(i)
  \/ \E c \in Caller, p \in Path : CallStop(c, p)
  \/ \E a \in Agent : HaltTarget(a) \/ Collect(a) \/ HaltNext(a)
  \/ \E c \in Caller : StopReturns(c)

Spec == Init /\ [][Next]_vars

\* A task that can run does; on_start returns; a select polls every branch.  No
\* handler is assumed to return.
Fairness ==
  /\ \A i \in Instance :
       /\ WF_vars(Started(i) \/ StartFails(i))
       /\ WF_vars(Interrupted(i))
       /\ WF_vars(Retire(i))
       /\ WF_vars(End(i))
  /\ \A a \in Agent : WF_vars(HaltTarget(a) \/ Collect(a) \/ HaltNext(a))
  /\ \A c \in Caller : WF_vars(StopReturns(c))

FairSpec == Spec /\ Fairness

----------------------------------------------------------------------------
(* Properties *)

\* The variables have their types: a path has one row, and a row is an instance
\* (Entry, SystemInner::live).
TypeOK ==
  /\ live \in [Path -> Instance \cup {Nobody}]
  /\ at \in [Instance -> Path \cup {Root}]
  /\ by \in [Instance -> Instance \cup {Nobody}]
  /\ phase \in [Instance -> Phase]
  /\ stop \in [Instance -> BOOLEAN]
  /\ stage \in [Agent -> Stage]
  /\ target \in [Agent -> Path \cup {Root}]
  /\ doomed \in [Agent -> SUBSET Path]
  /\ on \in [Agent -> Instance \cup {Nobody}]
  /\ stopped \in [Agent -> BOOLEAN]
  /\ before \in [Caller -> SUBSET Instance]

\* An actor that runs and was not asked to stop is the one its path resolves
\* to: a slow shutdown never evicts the instance that replaced it (retire), and
\* no instance is left running where nothing can reach or stop it.
Reachable ==
  \A i \in Instance : Active(i) /\ ~stop[i] => live[at[i]] = i

\* hosted() falls as things stop: no row outlives the actor behind it, unless
\* that actor panicked.
RowsLeave ==
  \A p \in Path : live[p] # Nobody =>
    /\ at[live[p]] = p
    /\ phase[live[p]] \in {"starting", "serving", "retiring", "panicked"}

\* An actor takes its children with it: once its task has ended, every child it
\* created is over or on its way out.
NoOrphans ==
  \A i, j \in Instance : phase[i] = "ended" /\ by[j] = i => Leaving(j)

\* When a stop returns, everything that was at or under the path when it was
\* called is over or on its way out, whatever was created, stopped or replaced
\* meanwhile.
StopReachesAll ==
  \A c \in Caller : stage[c] = "done" => \A i \in before[c] : Leaving(i)

\* Whoever is asked to stop ends: no two stops wait for each other, even when
\* handlers stop their own parents or themselves.
AskedEnds == \A i \in Instance : stop[i] ~> Over(i)

\* Every stop that is called returns.
StopTerminates == \A c \in Caller : stage[c] = "halt" ~> stage[c] = "done"

\* ActorSystem::stop: "Returns once the subtree is quiet".  When it returns
\* true, nothing that was at or under the path when it was called runs any
\* more (panics left aside).
StopReturnsQuiet ==
  \A c \in Caller :
    /\ stage[c] = "done" /\ stopped[c]
    /\ \A i \in Instance : phase[i] # "panicked"
    => \A i \in before[c] : ~Active(i)

\* get_or_create: a race "has no window to spawn a second actor in".  No two
\* instances run code at one path at the same time.
OneActivePerPath ==
  \A i, j \in Instance : Active(i) /\ Active(j) /\ at[i] = at[j] => i = j

\* ActorRef::stop: called on its own reference from inside a handler it "would
\* wait for a task that is waiting for the handler to return".  The wait is for
\* ever, short of a panic.
SelfStopWaits ==
  [][\A i \in Instance :
       phase[i] = "serving" /\ on[i] = i => on'[i] = i \/ phase'[i] = "panicked"]_vars

=============================================================================
