------------------------------- MODULE Replies -------------------------------
(***************************************************************************)
(* Asking across nodes.  An ask makes a channel and a ReplyTo.  When the   *)
(* handle is encoded, its end of the channel moves into the waiting table  *)
(* of the node, under a correlation id; the handle that is decoded at the  *)
(* other side answers, is dropped, or is passed on, and what it says       *)
(* travels back to the table.                                              *)
(*                                                                         *)
(* Between an encoded handle and the reply there is one thing that may     *)
(* still answer the caller.  It is a command under way, a handle held by   *)
(* an actor, or a reply under way: they are the elements of "owed".        *)
(***************************************************************************)
EXTENDS Integers, FiniteSets

CONSTANTS
  Node,
  Client,     \* the nodes that asks are made on
  Host,       \* the nodes that commands are sent to
  Unsteady,   \* the nodes that may lose their quorum
  Ask,
  Capacity,   \* WAITING_CAPACITY
  MaxHops     \* bound: how often a handle is passed on

Local == -1   \* the correlation of a handle that is still a channel

ASSUME RepliesAssumption ==
  /\ Client \subseteq Node /\ Host \subseteq Node /\ Unsteady \subseteq Node
  /\ Capacity \in Nat \ {0} /\ MaxHops \in Nat
  /\ {"open", "closed"} \cap Ask = {}

VARIABLES
  caller,        \* how far each ActorRef::ask has come
  home,          \* the node it was called on
  chan,          \* its channel: open, closed, or the ask whose answer is in it
  slot,          \* ReplyTo::deregister, Local while it is empty
  correlations,  \* ClusterNode::correlations
  waiting,       \* ClusterNode::waiting
  owed,          \* commands, handles and replies
  serving,       \* ClusterNode::serving
  fault          \* history: what has gone wrong so far, at worst

vars == <<caller, home, chan, slot, correlations, waiting, owed, serving, fault>>
ask == <<caller, home>>
node == <<serving, fault>>

Row == [corr : Nat, ask : Ask]

\* Only a handle on the caller's own node may be a channel.
Owed ==
  {m \in [kind : {"command", "handle", "answer", "abandon"}, at : Node, origin : Node,
          corr : Nat \cup {Local}, ask : Ask, hops : 0..MaxHops] :
     m.corr = Local => m.kind = "handle" /\ m.at = m.origin}

Init ==
  /\ caller = [a \in Ask |-> "idle"]
  /\ home \in [Ask -> Client]
  /\ chan = [a \in Ask |-> "open"]
  /\ slot = [a \in Ask |-> Local]
  /\ correlations = [n \in Node |-> 0]
  /\ waiting = [n \in Node |-> {}]
  /\ owed = {}
  /\ serving = [n \in Node |-> TRUE]
  /\ fault = "none"

----------------------------------------------------------------------------
(* The waiting table *)

\* Dropping a sender closes the channel, unless it has been used.
Closed(asks) ==
  [a \in Ask |-> IF a \in asks /\ chan[a] = "open" THEN "closed" ELSE chan[a]]

AsksOf(rows) == {r.ask : r \in rows}

\* register: pop_first while the table is over its capacity.
Evicted(rows) ==
  IF Cardinality(rows) > Capacity
  THEN {r \in rows : \A s \in rows : r.corr <= s.corr} ELSE {}

\* Mutant: two callers may get the same correlation.
Register_Peek(n, a) ==
  LET rows == waiting[n] \cup {[corr |-> correlations[n], ask |-> a]}
  IN /\ waiting' = [waiting EXCEPT ![n] = rows \ Evicted(rows)]
     /\ chan' = Closed(AsksOf(Evicted(rows)))
     /\ slot' = [slot EXCEPT ![a] = correlations[n]]
     /\ UNCHANGED correlations

\* Encoding a handle that is still a channel.
Register(n, a) ==
  LET rows == waiting[n] \cup {[corr |-> correlations[n], ask |-> a]}
  IN /\ waiting' = [waiting EXCEPT ![n] = rows \ Evicted(rows)]
     /\ chan' = Closed(AsksOf(Evicted(rows)))
     /\ correlations' = [correlations EXCEPT ![n] = @ + 1]
     /\ slot' = [slot EXCEPT ![a] = correlations[n]]

\* Mutant: an ask that ends leaves its row.
Forget_Keeps(a) ==
  /\ slot' = [slot EXCEPT ![a] = Local]
  /\ UNCHANGED <<waiting, chan>>

\* Cancelled: whatever ends an ask takes its row with it.
Forget(a) ==
  LET rows == {r \in waiting[home[a]] : r.corr = slot[a]}
  IN /\ waiting' = [waiting EXCEPT ![home[a]] = @ \ rows]
     /\ chan' = Closed(AsksOf(rows))
     /\ slot' = [slot EXCEPT ![a] = Local]

\* Mutant: an answer is delivered and its row stays.
DeliverReply_Keep(n, r) ==
  LET rows == {w \in waiting[n] : w.corr = r.corr}
  IN /\ chan' = [a \in Ask |-> IF a \in AsksOf(rows) /\ chan[a] = "open" /\ r.kind = "answer"
                               THEN r.ask ELSE chan[a]]
     /\ UNCHANGED waiting

\* deliver_reply.  An answer with nobody waiting is dropped.
DeliverReply(n, r) ==
  LET rows == {w \in waiting[n] : w.corr = r.corr}
  IN /\ waiting' = [waiting EXCEPT ![n] = @ \ rows]
     /\ chan' = IF r.kind = "answer"
                THEN [a \in Ask |-> IF a \in AsksOf(rows) /\ chan[a] = "open"
                                    THEN r.ask ELSE chan[a]]
                ELSE Closed(AsksOf(rows))

\* answer, abandon: h ends with a reply of some kind.  A caller in this process
\* is reached at once, through its channel or through the table.
RouteReply(h, kind) ==
  LET r == [h EXCEPT !.kind = kind, !.at = h.origin]
  IN IF h.corr = Local
     THEN /\ chan' = IF kind = "answer" THEN [chan EXCEPT ![h.ask] = h.ask] ELSE Closed({h.ask})
          /\ owed' = owed \ {h}
          /\ UNCHANGED waiting
     ELSE IF h.origin = h.at
     THEN /\ DeliverReply(h.at, r)
          /\ owed' = owed \ {h}
     ELSE /\ owed' = (owed \ {h}) \cup {r}
          /\ UNCHANGED <<waiting, chan>>

----------------------------------------------------------------------------
(* The caller *)

\* The actor is on this node: its handle stays a channel.
AskHere(a) ==
  /\ caller[a] = "idle"
  /\ caller' = [caller EXCEPT ![a] = "waiting"]
  /\ owed' = owed \cup {[kind |-> "handle", at |-> home[a], origin |-> home[a],
                         corr |-> Local, ask |-> a, hops |-> 0]}
  /\ UNCHANGED <<home, chan, slot, correlations, waiting, node>>

AskAway(a) ==
  /\ caller[a] = "idle"
  /\ caller' = [caller EXCEPT ![a] = "sending"]
  /\ Register(home[a], a)
  /\ UNCHANGED <<home, owed, node>>

SendOk(a, to) ==
  /\ caller[a] = "sending"
  /\ caller' = [caller EXCEPT ![a] = "waiting"]
  /\ owed' = owed \cup {[kind |-> "command", at |-> to, origin |-> home[a],
                         corr |-> slot[a], ask |-> a, hops |-> 0]}
  /\ UNCHANGED <<home, chan, slot, correlations, waiting, node>>

\* The ask ends: the send failed, the channel has something to say, or its
\* future is dropped, by a deadline or otherwise.
End(a, as) ==
  /\ caller' = [caller EXCEPT ![a] = as]
  /\ Forget(a)
  /\ UNCHANGED <<home, correlations, owed, node>>

SendErr(a) == caller[a] = "sending" /\ End(a, "failed")

\* Mutant: a sender that is dropped does not wake the caller.
Receive_Answer(a) ==
  /\ caller[a] = "waiting" /\ chan[a] \in Ask
  /\ End(a, "answered")

Receive(a) ==
  /\ caller[a] = "waiting" /\ chan[a] # "open"
  /\ End(a, IF chan[a] = "closed" THEN "failed" ELSE "answered")

Cancel(a) == caller[a] \in {"sending", "waiting"} /\ End(a, "gone")

----------------------------------------------------------------------------
(* The other side *)

\* Something that could answer is gone, and its caller will not hear of it.
Lost == fault' = IF fault = "restart" THEN fault ELSE "loss"

\* dispatch decodes the handle, and the actor's mailbox takes the command.
Take(m) ==
  /\ m.kind = "command" /\ serving[m.at]
  /\ owed' = (owed \ {m}) \cup {[m EXCEPT !.kind = "handle"]}
  /\ UNCHANGED <<ask, chan, slot, correlations, waiting, node>>

\* No actor can be built or its mailbox is closed: the decoded handle is dropped.
Reject(m) ==
  /\ m.kind = "command" /\ serving[m.at]
  /\ RouteReply(m, "abandon")
  /\ UNCHANGED <<ask, slot, correlations, node>>

\* require_serving fails, and the command is dropped as the bytes it came in.
Refuse(m) ==
  /\ m.kind = "command" /\ ~serving[m.at]
  /\ owed' = owed \ {m}
  /\ UNCHANGED <<ask, chan, slot, correlations, waiting, serving>>
  /\ Lost

Answer(h) ==
  /\ h.kind = "handle"
  /\ RouteReply(h, "answer")
  /\ UNCHANGED <<ask, slot, correlations, node>>

\* Drop: the actor forgets about it, fails or stops.
DropHandle(h) ==
  /\ h.kind = "handle"
  /\ RouteReply(h, "abandon")
  /\ UNCHANGED <<ask, slot, correlations, node>>

\* Serialize, in a command that an actor sends to another node.  A channel is
\* registered; an address is copied, and the handle is disarmed.
Encode(h) ==
  /\ h.kind = "handle" /\ h.hops < MaxHops
  /\ IF h.corr = Local THEN Register(h.at, h.ask)
                       ELSE UNCHANGED <<waiting, chan, correlations, slot>>

Wire(h) == IF h.corr = Local THEN correlations[h.at] ELSE h.corr

\* Mutant: the handle that was passed on stays armed.
Forward_Armed(h, to) ==
  /\ Encode(h)
  /\ owed' = owed \cup {[h EXCEPT !.kind = "command", !.at = to,
                                  !.corr = Wire(h), !.hops = @ + 1]}
  /\ UNCHANGED <<ask, node>>

Forward(h, to) ==
  /\ Encode(h)
  /\ owed' = (owed \ {h}) \cup {[h EXCEPT !.kind = "command", !.at = to,
                                          !.corr = Wire(h), !.hops = @ + 1]}
  /\ UNCHANGED <<ask, node>>

\* The send of the encoded command fails, and the actor is told.
ForwardErr(h) ==
  /\ Encode(h)
  /\ owed' = owed \ {h}
  /\ UNCHANGED <<ask, serving>>
  /\ Lost

\* A reply reaches its node, with or without a quorum.
Arrive(r) ==
  /\ r.kind \in {"answer", "abandon"}
  /\ DeliverReply(r.at, r)
  /\ owed' = owed \ {r}
  /\ UNCHANGED <<ask, slot, correlations, node>>

\* A connection breaks, or a reply cannot be sent.
Lose(m) ==
  /\ m.kind # "handle"
  /\ owed' = owed \ {m}
  /\ UNCHANGED <<ask, chan, slot, correlations, waiting, serving>>
  /\ Lost

----------------------------------------------------------------------------
(* The node *)

\* watch_cluster sees the quorum go, and abandon_waiting fails every caller.
StandDown(n) ==
  /\ serving[n]
  /\ serving' = [serving EXCEPT ![n] = FALSE]
  /\ waiting' = [waiting EXCEPT ![n] = {}]
  /\ chan' = Closed(AsksOf(waiting[n]))
  /\ UNCHANGED <<ask, slot, correlations, owed, fault>>

Resume(n) ==
  /\ ~serving[n]
  /\ serving' = [serving EXCEPT ![n] = TRUE]
  /\ UNCHANGED <<ask, chan, slot, correlations, waiting, owed, fault>>

\* The process dies with its callers and its handles, and starts anew.
Restart(n) ==
  LET mine == {a \in Ask : home[a] = n /\ caller[a] \in {"sending", "waiting"}}
  IN /\ caller' = [a \in Ask |-> IF a \in mine THEN "gone" ELSE caller[a]]
     /\ slot' = [a \in Ask |-> IF a \in mine THEN Local ELSE slot[a]]
     /\ chan' = Closed(mine)
     /\ correlations' = [correlations EXCEPT ![n] = 0]
     /\ waiting' = [waiting EXCEPT ![n] = {}]
     /\ owed' = {m \in owed : m.kind = "handle" => m.at # n}
     /\ fault' = "restart"
     /\ UNCHANGED <<home, serving>>

Next ==
  \/ \E a \in Ask : AskHere(a) \/ AskAway(a) \/ SendErr(a) \/ Receive(a) \/ Cancel(a)
  \/ \E a \in Ask, to \in Host : SendOk(a, to)
  \/ \E m \in owed : Take(m) \/ Reject(m) \/ Refuse(m) \/ Arrive(m) \/ Lose(m)
  \/ \E h \in owed : Answer(h) \/ DropHandle(h) \/ ForwardErr(h)
  \/ \E h \in owed, to \in Host : Forward(h, to)
  \/ \E n \in Unsteady : StandDown(n) \/ Resume(n)
  \/ \E n \in Node : Restart(n)

Spec == Init /\ [][Next]_vars

----------------------------------------------------------------------------
(* Fairness: a send returns, a caller that is told wakes up, a message that is *)
(* not lost arrives, and an actor does something with each handle it holds.    *)

Carrying(a) == {m \in owed : m.ask = a}

Fairness ==
  \A a \in Ask :
    /\ WF_vars(SendErr(a) \/ \E to \in Host : SendOk(a, to))
    /\ WF_vars(Receive(a))
    /\ WF_vars(\E m \in Carrying(a) : Take(m) \/ Reject(m) \/ Refuse(m) \/ Arrive(m))
    /\ WF_vars(\E h \in Carrying(a) : Answer(h) \/ DropHandle(h))

FairSpec == Spec /\ Fairness

----------------------------------------------------------------------------
(* Properties *)

\* The variables have their types: a handle that is still a channel has not left
\* the node of its caller (ReplyTo, Inner).
TypeOK ==
  /\ caller \in [Ask -> {"idle", "sending", "waiting", "answered", "failed", "gone"}]
  /\ home \in [Ask -> Client]
  /\ chan \in [Ask -> {"open", "closed"} \cup Ask]
  /\ slot \in [Ask -> Nat \cup {Local}]
  /\ correlations \in [Node -> Nat]
  /\ waiting \in [Node -> SUBSET Row]
  /\ owed \in SUBSET Owed
  /\ serving \in [Node -> BOOLEAN] /\ fault \in {"none", "loss", "restart"}

\* "Answering, being forwarded on, and being dropped are the three ways a handle
\* ends, and exactly one of them may happen" (reply.rs): however many nodes a
\* handle passes through, one thing at most may still answer its caller.
OneAnswerer ==
  \A m1, m2 \in owed : m1.ask = m2.ask => m1 = m2

\* An ask returns the answer to its own question, until a node restarts: it then
\* counts correlations from 0 again while replies to its earlier asks are on the
\* way, and deliver_reply looks at nothing else.
AnswersMatch ==
  fault # "restart" => \A a \in Ask : chan[a] \in {"open", "closed", a}

\* Nobody waits on nothing: as long as no message is lost (a broken connection, a
\* refusal by a node without a quorum, a crash), a caller that has not
\* been told anything is owed an answer, and what owes it can still find it.
OwedAnswer ==
  fault = "none" => \A a \in Ask : caller[a] = "waiting" /\ chan[a] = "open" =>
    \E m \in Carrying(a) :
      \/ m.corr = Local
      \/ [corr |-> m.corr, ask |-> a] \in waiting[m.origin]

\* "Overflowing evicts the oldest" (WAITING_CAPACITY): a caller that has just
\* come to a full table is in it, whoever had to go.
NewcomerStays ==
  [][\A n \in Node : correlations'[n] > correlations[n] =>
       \E r \in waiting'[n] : r.corr = correlations[n]]_vars

\* "The cases where nobody can answer already fail on their own" (ask_within):
\* as long as nothing is lost, an ask ends.
AskEnds ==
  \A a \in Ask : caller[a] \in {"sending", "waiting"}
                   ~> caller[a] \in {"answered", "failed", "gone"} \/ fault # "none"

\* Rows are not left behind: as long as nothing is lost, a row is waited for by an
\* ask that will take it away (Cancelled), or something that carries its correlation
\* will (deliver_reply).  A handle may be encoded after its ask was cancelled, and
\* then the row has no caller.
RowsEnd ==
  fault = "none" => \A n \in Node : \A r \in waiting[n] :
    \/ caller[r.ask] \in {"sending", "waiting"} /\ slot[r.ask] = r.corr
    \/ \E m \in Carrying(r.ask) : m.corr = r.corr /\ m.origin = n

\* "every request that ends, answered, refused, dropped, cancelled, takes its
\* entry with it" (ClusterNode::waiting).
RowsHaveCallers ==
  \A n \in Node : \A r \in waiting[n] : caller[r.ask] \in {"sending", "waiting"}

=============================================================================
