------------------------------ MODULE Delivery ------------------------------
(***************************************************************************)
(* Commands between nodes: ClusterNode::send retries an envelope under one *)
(* message id, ActorSystem::dispatch drops the ids it has already seen,    *)
(* and Dedup remembers only a window of them.                              *)
(*                                                                         *)
(* Placement is any choice of owner at each attempt (Shards models it).    *)
(* Every command is sent by one tell at most.  A node takes one message at *)
(* a time out of its inbox, so that a dispatch is one step.                *)
(***************************************************************************)
EXTENDS Integers, Sequences, Functions

CONSTANTS
  Node,
  Sender,      \* the nodes that send commands
  Command,
  Window,      \* DEDUP_WINDOW
  Attempts,    \* SEND_ATTEMPTS
  MaxRestarts, \* bounds the processes that follow each other on a node
  Ambiguous    \* the nodes to which Transport::send may fail and arrive all the same

ASSUME DeliveryAssumption ==
  /\ Node # {} /\ Sender \subseteq Node
  /\ Window \in Nat \ {0} /\ Attempts \in Nat \ {0} /\ MaxRestarts \in Nat
  /\ Ambiguous \subseteq Node

VARIABLES
  counter,     \* ClusterNode::counter
  call,        \* each command's ClusterNode::send: who sends, under which id
  net,         \* envelopes that a transport has accepted
  seen,        \* Dedup::order; Dedup::seen holds the same ids
  history,     \* history: what each process has let through, oldest first
  queued,      \* history: the commands among them that came to their actor
  era          \* history: how often each node has restarted

passed == <<history, queued>>
vars == <<counter, call, net, seen, passed, era>>

\* A u128: the node in the high half, its counter in the low half.
MessageId == [node : Node, n : Nat]

\* "era" says which process of its node sends; no code reads it.
Call == [state : {"new", "sending", "sent", "failed", "gone"},
         id : MessageId, left : 0..Attempts, era : Nat]

\* "try" tells apart the copies of one envelope; no code reads it.
Envelope == [to : Node, id : MessageId, cmd : Command, try : 1..Attempts]

Init ==
  /\ counter = [n \in Node |-> 0]
  /\ call = [c \in Command |-> [state |-> "new", left |-> Attempts, era |-> 0,
                                id |-> [node |-> CHOOSE n \in Node : TRUE, n |-> 0]]]
  /\ net = {}
  /\ seen = [n \in Node |-> << >>]
  /\ history = [n \in Node |-> << >>]
  /\ queued = [n \in Node |-> {}]
  /\ era = [n \in Node |-> 0]

----------------------------------------------------------------------------
(* The sender *)

NextMessageId(n) == [node |-> n, n |-> counter[n]]

\* A send before its first attempt.
Started(n) ==
  [state |-> "sending", id |-> NextMessageId(n), left |-> Attempts, era |-> era[n]]

\* Mutant: the counter is read and not advanced.
Tell_Peek(n, c) ==
  /\ call[c].state = "new"
  /\ call' = [call EXCEPT ![c] = Started(n)]
  /\ UNCHANGED <<counter, net, seen, passed, era>>

\* deliver_to_shard: the id is minted once, before the first attempt.
Tell(n, c) ==
  /\ call[c].state = "new"
  /\ call' = [call EXCEPT ![c] = Started(n)]
  /\ counter' = [counter EXCEPT ![n] = @ + 1]
  /\ UNCHANGED <<net, seen, passed, era>>

\* No live member can host the shard.
NoOwner(c) ==
  /\ call[c].state = "sending"
  /\ call' = [call EXCEPT ![c].state = "failed"]
  /\ UNCHANGED <<counter, net, seen, passed, era>>

EnvelopeOf(c, to) ==
  [to |-> to, id |-> call[c].id, cmd |-> c, try |-> call[c].left]

\* Mutant: the loop does not return when an attempt succeeds.
AttemptOk_Again(c, to) ==
  /\ call[c].state = "sending"
  /\ net' = net \cup {EnvelopeOf(c, to)}
  /\ call' = [call EXCEPT ![c].state = IF call[c].left = 1 THEN "failed" ELSE "sending",
                          ![c].left = @ - 1]
  /\ UNCHANGED <<counter, seen, passed, era>>

AttemptOk(c, to) ==
  /\ call[c].state = "sending"
  /\ net' = net \cup {EnvelopeOf(c, to)}
  /\ call' = [call EXCEPT ![c].state = "sent"]
  /\ UNCHANGED <<counter, seen, passed, era>>

\* The transport reports an error; the loop backs off, or gives up.
AttemptErr(c, to, arrives) ==
  /\ call[c].state = "sending"
  /\ arrives => to \in Ambiguous
  /\ net' = net \cup IF arrives THEN {EnvelopeOf(c, to)} ELSE {}
  /\ call' = [call EXCEPT ![c].state = IF call[c].left = 1 THEN "failed" ELSE "sending",
                          ![c].left = @ - 1]
  /\ UNCHANGED <<counter, seen, passed, era>>

----------------------------------------------------------------------------
(* The receiver *)

\* A connection that breaks, an inbox that goes away with its process, or a node
\* that has no quorum and refuses: dispatch then returns before the window.
Lose(e) ==
  /\ net' = net \ {e}
  /\ UNCHANGED <<counter, call, seen, passed, era>>

\* Mutant: the window is trimmed before the new id is counted.
AcceptId_Early(order, id) ==
  LET pushed == Append(order, id)
  IN  IF Len(pushed) >= Window THEN Tail(pushed) ELSE pushed

\* Dedup::accept_id for an id that is new.
AcceptId(order, id) ==
  LET pushed == Append(order, id)
  IN  IF Len(pushed) > Window THEN Tail(pushed) ELSE pushed

\* A command that is let through is decoded, its actor found or built, and the
\* command queued.  Any of these may fail, and the id stays recorded all the same.
Dispatch(e, ok) ==
  /\ e.id \notin Range(seen[e.to])
  /\ seen' = [seen EXCEPT ![e.to] = AcceptId(@, e.id)]
  /\ history' = [history EXCEPT ![e.to] = Append(@, [id |-> e.id, cmd |-> e.cmd])]
  /\ queued' = [queued EXCEPT ![e.to] = IF ok THEN @ \cup {e.cmd} ELSE @]
  /\ net' = net \ {e}
  /\ UNCHANGED <<counter, call, era>>

\* A repeat "is a success".
DropRepeat(e) ==
  /\ e.id \in Range(seen[e.to])
  /\ net' = net \ {e}
  /\ UNCHANGED <<counter, call, seen, passed, era>>

\* The process dies: its counter, its window and the sends in it are gone.
Restart(n) ==
  /\ era[n] < MaxRestarts
  /\ era' = [era EXCEPT ![n] = @ + 1]
  /\ counter' = [counter EXCEPT ![n] = 0]
  /\ seen' = [seen EXCEPT ![n] = << >>]
  /\ history' = [history EXCEPT ![n] = << >>]
  /\ queued' = [queued EXCEPT ![n] = {}]
  /\ call' = [c \in Command |->
                IF call[c].state = "sending" /\ call[c].id.node = n
                THEN [call[c] EXCEPT !.state = "gone"] ELSE call[c]]
  /\ UNCHANGED net

Next ==
  \/ \E n \in Sender, c \in Command : Tell(n, c)
  \/ \E c \in Command : NoOwner(c)
  \/ \E c \in Command, to \in Node : AttemptOk(c, to)
  \/ \E c \in Command, to \in Node, arrives \in BOOLEAN : AttemptErr(c, to, arrives)
  \/ \E e \in net : Lose(e) \/ DropRepeat(e)
  \/ \E e \in net, ok \in BOOLEAN : Dispatch(e, ok)
  \/ \E n \in Node : Restart(n)

Spec == Init /\ [][Next]_vars

----------------------------------------------------------------------------
(* Properties *)

Passed == [id : MessageId, cmd : Command]

\* The variables of senders (send) and receivers (Dedup) have their types.
TypeOK ==
  /\ counter \in [Node -> Nat]
  /\ call \in [Command -> Call]
  /\ net \in SUBSET Envelope
  /\ seen \in [Node -> Seq(MessageId)]
  /\ history \in [Node -> Seq(Passed)]
  /\ queued \in [Node -> SUBSET Command]
  /\ era \in [Node -> Nat]

\* A process lets an id through a second time only after DEDUP_WINDOW others:
\* the window is exactly as long as it says, at every length of its queue.
WindowHolds ==
  \A n \in Node : \A i, j \in 1..Len(history[n]) :
    i < j /\ history[n][i].id = history[n][j].id => j - i > Window

\* What dispatch drops as a repeat has the id of something that this process has
\* let through.  Either it is the same command, and then the first copy came from
\* an attempt that the transport reported as failed; or it is another command, and
\* then the sender has restarted between the two, and has counted from zero again
\* (next_message_id).  Nothing else is ever lost to the window.
DropsOnlyRepeats ==
  [][\A e \in net : DropRepeat(e) =>
       \E i \in 1..Len(history[e.to]) :
         LET first == history[e.to][i]
         IN /\ first.id = e.id
            /\ IF first.cmd = e.cmd THEN e.to \in Ambiguous
               ELSE call[first.cmd].era # call[e.cmd].era]_vars

\* "the answer to both is that the command has already been applied" (dispatch),
\* since an id is "unique across the cluster" (next_message_id).  It fails in both
\* cases of DropsOnlyRepeats: the copy that was let through may have found no actor,
\* and a sender that has restarted uses its old ids for new commands.
AlreadyApplied == [][\A e \in net : DropRepeat(e) => e.cmd \in queued[e.to]]_vars

\* "an undeliverable command is dropped and its caller told" (ClusterNode::send):
\* the caller of a command that did reach a node is never told that it failed,
\* whatever attempts to other nodes came before, unless that node is one to which
\* the transport fails for what it delivers.
FailureIsTrue ==
  \A c \in Command : call[c].state = "failed" =>
    /\ \A e \in net : e.cmd = c => e.to \in Ambiguous
    /\ \A n \in Node \ Ambiguous :
         \A i \in 1..Len(history[n]) : history[n][i].cmd # c

=============================================================================
