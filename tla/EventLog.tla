------------------------------ MODULE EventLog ------------------------------
(***************************************************************************)
(* What an event-sourced actor promises, whatever instances of it run and  *)
(* however they end: there is one history; an instance comes up holding    *)
(* all of it; it adds to the history only from a view that is the whole    *)
(* history; and nobody outside is ever told of a state that is not a view  *)
(* some instance held.                                                     *)
(***************************************************************************)
EXTENDS Naturals, Sequences

CONSTANTS
  Event,
  Instance,
  NoView      \* the view of an instance that is not up

VARIABLES
  log,        \* the history
  view,       \* the part of it that each instance holds
  told        \* the states that were reported outside as durable

elvars == <<log, view, told>>

ELInit ==
  /\ log = << >>
  /\ view = [i \in Instance |-> NoView]
  /\ told = {}

\* An instance comes up exactly where the history ends.
ComeUp(i) ==
  /\ view[i] = NoView
  /\ view' = [view EXCEPT ![i] = log]
  /\ UNCHANGED <<log, told>>

\* An instance whose view is current extends the history.
Extend(i) ==
  /\ view[i] = log
  /\ log' \in Seq(Event)
  /\ Len(log) =< Len(log')
  /\ log = SubSeq(log', 1, Len(log))
  /\ view' = [view EXCEPT ![i] = log']
  /\ UNCHANGED told

GoDown(i) == view' = [view EXCEPT ![i] = NoView]

\* An instance reports its view, possibly as its last act.
Tell(i) ==
  /\ view[i] # NoView
  /\ told' = told \cup {view[i]}
  /\ GoDown(i) \/ UNCHANGED view
  /\ UNCHANGED log

End(i) == GoDown(i) /\ UNCHANGED <<log, told>>

ELNext == \E i \in Instance : ComeUp(i) \/ Extend(i) \/ Tell(i) \/ End(i)

ELSpec == ELInit /\ [][ELNext]_elvars

=============================================================================
