---------------------------- MODULE TcpTransport ----------------------------
(***************************************************************************)
(* Calls over TCP: rpc and send of one node (transport_tcp.rs), the        *)
(* connections they dial and share, the task that reads replies, and on    *)
(* the other side the serve loop, serve_consensus and the answering tasks  *)
(* (cluster/network.rs).                                                   *)
(*                                                                         *)
(* A connection is cached per peer and shared by every call.  It may break *)
(* at any time and each side notices when it next touches it: a write into *)
(* a broken connection may still succeed.  A caller may be dropped at any  *)
(* await, by a timeout, a write in progress included.                      *)
(***************************************************************************)
EXTENDS Naturals, Sequences, FiniteSets

CONSTANTS
  Peer,        \* TcpConfig::peers
  Call,        \* the calls that are made, one task each
  Rpc,         \* those that expect an answer; the others are sends
  Kind,        \* what an rpc asks of raft: append, vote or snapshot
  Conn,        \* connections; their number bounds the dials
  None,
  Capacity,    \* INBOX_CAPACITY
  MayCancel    \* the calls that may be dropped

ASSUME TcpAssumption ==
  /\ Rpc \subseteq Call /\ MayCancel \subseteq Call
  /\ None \notin Conn /\ None \notin Call
  /\ Kind \in [Rpc -> {"append", "vote", "snapshot"}]
  /\ Capacity \in Nat \ {0}

VARIABLES
  pc, to,      \* how far each call has come, and the peer it calls
  on,          \* the Arc<Peer> it holds
  id, chan,    \* its request id, and its oneshot channel
  late,        \* history: it was registered after read_replies had ended
  lock,        \* who holds TcpTransport::outbound across a dial
  cache,       \* TcpTransport::outbound
  up,          \* the connections that still carry bytes
  hurt,        \* history: those that the network broke or half a frame went to
  next,        \* Peer::next_request
  pending,     \* Peer::pending
  reading,     \* read_replies of the connection is running
  serving,     \* serve of the connection is running, at the other end
  wire,        \* frames to the other end
  back,        \* responses from it
  inbox,       \* TcpTransport::rpc_inbox at the other end
  tasks        \* requests that serve_consensus is answering

call == <<pc, to, on, id, chan, late>>
peer == <<next, pending, reading>>
far == <<serving, wire, inbox, tasks>>
vars == <<call, lock, cache, up, hurt, peer, far, back>>

\* network.rs, Request and Reply: a reply is to one request and has its shape,
\* or is a Failed.
Reply(k) == {[to |-> k, shape |-> s] : s \in {Kind[k], "failed"}}
Open == [to |-> None, shape |-> "open"]
Closed == [to |-> None, shape |-> "closed"]

Frame == [id : Nat, call : Call]
Garbage == [id |-> 0, call |-> None]
Request == [conn : Conn, id : Nat, call : Rpc]
Response == [id : Nat, payload : {Closed} \cup UNION {Reply(k) : k \in Rpc}]

Init ==
  /\ pc = [k \in Call |-> "idle"]
  /\ to \in [Call -> Peer]
  /\ on = [k \in Call |-> None]
  /\ id = [k \in Call |-> 0]
  /\ chan = [k \in Call |-> Open]
  /\ late = {}
  /\ lock = None
  /\ cache = [p \in Peer |-> None]
  /\ up = {} /\ hurt = {}
  /\ next = [c \in Conn |-> 0]
  /\ pending = [c \in Conn |-> {}]
  /\ reading = {} /\ serving = {}
  /\ wire = [c \in Conn |-> << >>]
  /\ back = [c \in Conn |-> {}]
  /\ inbox = << >>
  /\ tasks = {}

----------------------------------------------------------------------------
(* Getting a connection *)

Goto(k, p) == pc' = [pc EXCEPT ![k] = p]

\* Whoever holds the Arc<Peer>: the cache and the calls that are using it.
Using(k) == pc[k] \in {"ready", "write", "wait", "drop"}
Held(c) == (\E p \in Peer : cache[p] = c) \/ (\E k \in Call : on[k] = c /\ Using(k))
Fresh == {c \in Conn : \A k \in Call : on[k] # c} \ (up \cup reading \cup serving)

\* peer: a connection that is cached is used as it is, a corpse too ...
Cached(k) ==
  /\ pc[k] = "idle" /\ lock = None /\ cache[to[k]] # None
  /\ Goto(k, "ready")
  /\ on' = [on EXCEPT ![k] = cache[to[k]]]
  /\ UNCHANGED <<to, id, chan, late, lock, cache, up, hurt, peer, far, back>>

\* ... and otherwise the lock on the cache is held while the call dials.
Dial(k) ==
  /\ pc[k] = "idle" /\ lock = None /\ cache[to[k]] = None
  /\ Goto(k, "dial")
  /\ lock' = k
  /\ UNCHANGED <<to, on, id, chan, late, cache, up, hurt, peer, far, back>>

\* The handshake was accepted: both ends start to read.
DialOk(k) ==
  /\ pc[k] = "dial"
  /\ \E c \in Fresh :
       /\ on' = [on EXCEPT ![k] = c]
       /\ cache' = [cache EXCEPT ![to[k]] = c]
       /\ up' = up \cup {c}
       /\ reading' = reading \cup {c}
       /\ serving' = serving \cup {c}
  /\ Goto(k, "ready")
  /\ lock' = None
  /\ UNCHANGED <<to, id, chan, late, hurt, next, pending, wire, inbox, tasks, back>>

\* Nobody listens, or the other end hangs up on the handshake.
DialErr(k) ==
  /\ pc[k] = "dial"
  /\ Goto(k, "err")
  /\ lock' = None
  /\ UNCHANGED <<to, on, id, chan, late, cache, up, hurt, peer, far, back>>

----------------------------------------------------------------------------
(* Calling *)

\* rpc: the request gets an id, and its channel goes into the table.
Register(k) ==
  LET c == on[k]
  IN /\ pc[k] = "ready" /\ k \in Rpc
     /\ id' = [id EXCEPT ![k] = next[c]]
     /\ next' = [next EXCEPT ![c] = @ + 1]
     /\ pending' = [pending EXCEPT ![c] = @ \cup {[id |-> next[c], call |-> k]}]
     /\ late' = IF c \in reading THEN late ELSE late \cup {k}
     /\ Goto(k, "write")
     /\ UNCHANGED <<to, on, chan, lock, cache, up, hurt, reading, far, back>>

Writes(k) == pc[k] = (IF k \in Rpc THEN "write" ELSE "ready")

\* Peer::write.  The kernel takes the bytes; on a broken connection they are
\* lost.  A send is over; an rpc waits.
WriteOk(k) ==
  /\ Writes(k)
  /\ wire' = IF on[k] \in up
             THEN [wire EXCEPT ![on[k]] = Append(@, [id |-> id[k], call |-> k])]
             ELSE wire
  /\ Goto(k, IF k \in Rpc THEN "wait" ELSE "ok")
  /\ UNCHANGED <<to, on, id, chan, late, lock, cache, up, hurt, peer, serving, inbox, tasks, back>>

\* The kernel has noticed: the entry goes, then the cached connection.
WriteErr(k) ==
  /\ Writes(k) /\ on[k] \notin up
  /\ pending' = [pending EXCEPT ![on[k]] = {w \in @ : w.id # id[k] \/ k \notin Rpc}]
  /\ Goto(k, "drop")
  /\ UNCHANGED <<to, on, id, chan, late, lock, cache, up, hurt, next, reading, far, back>>

\* Mutant: a failed write leaves the connection in the cache.
DropPeer_Keeps(k) ==
  /\ pc[k] = "drop" /\ lock = None
  /\ Goto(k, "err")
  /\ UNCHANGED <<to, on, id, chan, late, lock, cache, up, hurt, peer, far, back>>

\* drop_peer: whatever connection is cached for the peer by now.
DropPeer(k) ==
  /\ pc[k] = "drop" /\ lock = None
  /\ cache' = [cache EXCEPT ![to[k]] = None]
  /\ Goto(k, "err")
  /\ UNCHANGED <<to, on, id, chan, late, lock, up, hurt, peer, far, back>>

\* PeerLink::call and its callers: an answer of the right shape is the result,
\* and everything else says that the peer is unreachable.
Return(k) ==
  /\ pc[k] = "wait" /\ chan[k] # Open
  /\ Goto(k, IF chan[k].shape = Kind[k] THEN "ok" ELSE "err")
  /\ UNCHANGED <<to, on, id, chan, late, lock, cache, up, hurt, peer, far, back>>

\* The caller's future is dropped at one of its awaits.  A dial gives its lock
\* back, and a request that waits leaves its entry.
Cancel(k) ==
  /\ k \in MayCancel
  /\ pc[k] \in {"idle", "dial", "wait", "drop"} \/ Writes(k)
  /\ Goto(k, "gone")
  /\ lock' = IF lock = k THEN None ELSE lock
  /\ UNCHANGED <<to, on, id, chan, late, cache, up, hurt, peer, far, back>>

\* write_frame writes twice: what is dropped between the two leaves half a frame.
CancelWrite(k) ==
  /\ k \in MayCancel /\ Writes(k)
  /\ on[k] \in up
  /\ Goto(k, "gone")
  /\ wire' = [wire EXCEPT ![on[k]] = Append(@, Garbage)]
  /\ hurt' = hurt \cup {on[k]}
  /\ UNCHANGED <<to, on, id, chan, late, lock, cache, up, peer, serving, inbox, tasks, back>>

----------------------------------------------------------------------------
(* The answers *)

WaitersAt(c, i) == {w.call : w \in {x \in pending[c] : x.id = i}}

\* A sender that is dropped closes its channel.
Tell(calls, value) ==
  chan' = [k \in Call |-> IF k \in calls /\ chan[k] = Open THEN value ELSE chan[k]]

\* Mutant: a response that carries no payload is skipped.
ReadReply_SkipsRefusal(c) ==
  \E r \in back[c] :
    /\ c \in reading
    /\ back' = [back EXCEPT ![c] = @ \ {r}]
    /\ IF r.payload = Closed
       THEN UNCHANGED <<pending, chan>>
       ELSE /\ pending' = [pending EXCEPT ![c] = {w \in @ : w.id # r.id}]
            /\ Tell(WaitersAt(c, r.id), r.payload)
    /\ UNCHANGED <<pc, to, on, id, late, lock, cache, up, hurt, next, reading, far>>

\* Mutant: a response goes to some waiter of the connection, whatever its id.
ReadReply_AnyWaiter(c) ==
  \E r \in back[c], w \in pending[c] :
    /\ c \in reading
    /\ back' = [back EXCEPT ![c] = @ \ {r}]
    /\ pending' = [pending EXCEPT ![c] = @ \ {w}]
    /\ Tell({w.call}, r.payload)
    /\ UNCHANGED <<pc, to, on, id, late, lock, cache, up, hurt, next, reading, far>>

\* read_replies: the entry goes; no payload means that none will come.
ReadReply(c) ==
  \E r \in back[c] :
    /\ c \in reading
    /\ back' = [back EXCEPT ![c] = @ \ {r}]
    /\ pending' = [pending EXCEPT ![c] = {w \in @ : w.id # r.id}]
    /\ Tell(WaitersAt(c, r.id), r.payload)
    /\ UNCHANGED <<pc, to, on, id, late, lock, cache, up, hurt, next, reading, far>>

\* Mutant: the task ends and leaves the waiters as they are.
ReaderEnds_NoClear(c) ==
  /\ c \in reading /\ c \notin up /\ back[c] = {}
  /\ reading' = reading \ {c}
  /\ UNCHANGED <<call, lock, cache, up, hurt, next, pending, far, back>>

\* The end of the stream: every waiter is dropped.
ReaderEnds(c) ==
  /\ c \in reading /\ c \notin up /\ back[c] = {}
  /\ reading' = reading \ {c}
  /\ pending' = [pending EXCEPT ![c] = {}]
  /\ Tell({w.call : w \in pending[c]}, Closed)
  /\ UNCHANGED <<pc, to, on, id, late, lock, cache, up, hurt, next, far, back>>

----------------------------------------------------------------------------
(* The other end *)

\* serve: a request goes to the inbox, which may be full; a message goes to an
\* inbox of its own.
Serve(c) ==
  /\ c \in serving /\ wire[c] # << >> /\ Head(wire[c]) # Garbage
  /\ LET frame == Head(wire[c])
     IN IF frame.call \in Rpc
        THEN /\ Len(inbox) < Capacity
             /\ inbox' = Append(inbox, [conn |-> c, id |-> frame.id, call |-> frame.call])
        ELSE UNCHANGED inbox
  /\ wire' = [wire EXCEPT ![c] = Tail(@)]
  /\ UNCHANGED <<call, lock, cache, up, hurt, peer, serving, tasks, back>>

\* Mutant: the connection closes when it leaves the cache, whoever uses it.
ServeEnds_Uncached(c) ==
  /\ c \in serving
  /\ c \in up => \A p \in Peer : cache[p] # c
  /\ wire[c] # << >> => Head(wire[c]) = Garbage
  /\ serving' = serving \ {c}
  /\ wire' = [wire EXCEPT ![c] = << >>]
  /\ UNCHANGED <<call, lock, cache, up, hurt, peer, inbox, tasks, back>>

\* The stream ends when the connection has failed, or when nobody holds its
\* write half any more.
ServeEnds(c) ==
  /\ c \in serving
  /\ c \in up => ~Held(c)
  /\ wire[c] # << >> => Head(wire[c]) = Garbage
  /\ serving' = serving \ {c}
  /\ wire' = [wire EXCEPT ![c] = << >>]
  /\ UNCHANGED <<call, lock, cache, up, hurt, peer, inbox, tasks, back>>

\* Half a frame and enough of the next ones make a frame that does not decode.
ServeGarbled(c) ==
  /\ c \in serving
  /\ Len(wire[c]) > 1 /\ Head(wire[c]) = Garbage
  /\ serving' = serving \ {c}
  /\ wire' = [wire EXCEPT ![c] = << >>]
  /\ UNCHANGED <<call, lock, cache, up, hurt, peer, inbox, tasks, back>>

\* serve_consensus spawns a task for each request.
Take ==
  /\ inbox # << >>
  /\ tasks' = tasks \cup {Head(inbox)}
  /\ inbox' = Tail(inbox)
  /\ UNCHANGED <<call, lock, cache, up, hurt, peer, serving, wire, back>>

Respond(t, payload) ==
  /\ tasks' = tasks \ {t}
  /\ back' = IF t.conn \in up
             THEN [back EXCEPT ![t.conn] = @ \cup {[id |-> t.id, payload |-> payload]}]
             ELSE back
  /\ UNCHANGED <<call, lock, cache, up, hurt, peer, serving, wire, inbox>>

\* The task answers: what raft says, or that it failed ...
Answer(t) == \E reply \in Reply(t.call) : Respond(t, reply)

\* ... or it drops the responder, and the response carries no payload.
Decline(t) == Respond(t, Closed)

\* Both halves at the other end are gone: the socket closes.
Close(c) ==
  /\ c \in up /\ c \notin serving
  /\ \A t \in tasks : t.conn # c
  /\ \A n \in 1..Len(inbox) : inbox[n].conn # c
  /\ up' = up \ {c}
  /\ UNCHANGED <<call, lock, cache, hurt, peer, far, back>>

\* The network fails: what nobody has read yet is lost.
Break(c) ==
  /\ c \in up
  /\ up' = up \ {c}
  /\ hurt' = hurt \cup {c}
  /\ wire' = [wire EXCEPT ![c] = << >>]
  /\ back' = [back EXCEPT ![c] = {}]
  /\ UNCHANGED <<call, lock, cache, peer, serving, inbox, tasks>>

Next ==
  \/ \E k \in Call :
       \/ Cached(k) \/ Dial(k) \/ DialOk(k) \/ DialErr(k) \/ Register(k)
       \/ WriteOk(k) \/ WriteErr(k) \/ DropPeer(k) \/ Return(k)
       \/ Cancel(k) \/ CancelWrite(k)
  \/ \E c \in Conn :
       \/ ReadReply(c) \/ ReaderEnds(c) \/ Serve(c) \/ ServeEnds(c)
       \/ ServeGarbled(c) \/ Close(c) \/ Break(c)
  \/ Take
  \/ \E t \in tasks : Answer(t) \/ Decline(t)

Spec == Init /\ [][Next]_vars

\* What the runtimes at both ends do sooner or later: a call that can go on does,
\* a dial ends, the tasks that read take the next frame or notice the end, and
\* raft answers or gives up.  Nothing is assumed of failures and cancellations,
\* nor of when half a frame is completed.
Fairness ==
  /\ \A k \in Call :
       WF_vars(\/ Cached(k) \/ Dial(k) \/ DialOk(k) \/ DialErr(k) \/ Register(k)
               \/ WriteOk(k) \/ WriteErr(k) \/ DropPeer(k) \/ Return(k))
  /\ \A c \in Conn :
       /\ WF_vars(ReadReply(c) \/ ReaderEnds(c))
       /\ WF_vars(Serve(c) \/ ServeEnds(c))
       /\ WF_vars(Close(c))
  /\ WF_vars(Take)
  /\ WF_vars(\E t \in tasks : Answer(t) \/ Decline(t))

FairSpec == Spec /\ Fairness

----------------------------------------------------------------------------
(* Properties *)

\* The variables have their types.
TypeOK ==
  /\ pc \in [Call -> {"idle", "dial", "ready", "write", "wait", "drop", "ok", "err", "gone"}]
  /\ to \in [Call -> Peer]
  /\ on \in [Call -> Conn \cup {None}]
  /\ id \in [Call -> Nat]
  /\ chan \in [Call -> {Open, Closed} \cup UNION {Reply(k) : k \in Rpc}]
  /\ late \subseteq Rpc
  /\ lock \in Call \cup {None}
  /\ cache \in [Peer -> Conn \cup {None}]
  /\ up \subseteq Conn /\ hurt \subseteq Conn
  /\ next \in [Conn -> Nat]
  /\ pending \in [Conn -> SUBSET Frame]
  /\ reading \subseteq Conn /\ serving \subseteq Conn
  /\ wire \in [Conn -> Seq(Frame \cup {Garbage})]
  /\ back \in [Conn -> SUBSET Response]
  /\ inbox \in Seq(Request)
  /\ tasks \subseteq Request

\* Request ids start again at zero on every connection, requests are answered in
\* any order, and entries outlive their callers; still, what a call gets is the
\* answer to its own request (read_replies, rpc).
OwnAnswer == \A k \in Rpc : chan[k] \in {Open, Closed} \cup Reply(k)

\* read_replies clears the table once.  A call that waits for an answer has an
\* entry that the task will still find or clear, unless the task had ended
\* before the call was registered.
WaiterHeard ==
  \A k \in Rpc \ late :
    pc[k] = "wait" /\ chan[k] = Open =>
      /\ on[k] \in reading
      /\ [id |-> id[k], call |-> k] \in pending[on[k]]

\* drop_peer forgets whatever connection is cached by then, maybe a newer and
\* sound one.  A call that waits on a connection which nothing has broken keeps
\* it open all the same.
EvictionHarmless ==
  \A k \in Rpc :
    pc[k] = "wait" /\ on[k] \notin hurt => on[k] \in up \cap reading \cap serving

\* "A failed write drops the cached connection so the next send redials rather
\* than reusing a corpse": once the call has reported it, nobody gets it again.
CorpseGone ==
  \A k \in Call : pc[k] = "err" /\ on[k] # None /\ chan[k] = Open =>
    \A p \in Peer : cache[p] # on[k]

\* What can keep a call waiting for ever: its entry was made too late for
\* read_replies to clear it, or its request lies behind half a frame.
Parked(k) ==
  pc[k] = "wait" /\ (k \in late \/ \E n \in DOMAIN wire[on[k]] : wire[on[k]][n] = Garbage)

\* Every call ends, with an answer or with a failure, unless it is parked: no
\* peer that dies, declines or is slow to answer another request holds it up.
CallEnds ==
  \A k \in Call \ MayCancel :
    <>[](pc[k] \in {"ok", "err"} \/ Parked(k))

\* How far a request has come, for AtMostOnce.
Unwritten(k) == pc[k] \in {"idle", "dial", "ready", "write"}
Holds(frames, k) == \E n \in 1..Len(frames) : frames[n].call = k
OnWire(k) == \E c \in Conn : Holds(wire[c], k)
Taken(k) == \E t \in tasks : t.call = k

Progress(k) ==
  IF Taken(k) THEN "served"
  ELSE IF OnWire(k) \/ Holds(inbox, k) THEN "sent"
  ELSE IF Unwritten(k) THEN "unsent" ELSE "over"

\* The responses under way to a call that has its id.
Under(k) ==
  IF on[k] # None /\ pc[k] # "ready"
  THEN {r.payload : r \in {x \in back[on[k]] : x.id = id[k]}} ELSE {}

Outcome(k) == IF pc[k] \in {"ok", "err", "gone"} THEN pc[k] ELSE "open"

AMO == INSTANCE AtMostOnce WITH
         Caller <- Rpc,
         Says <- [k \in Rpc |-> Reply(k)],
         Good <- [k \in Rpc |-> {[to |-> k, shape |-> Kind[k]]}],
         Refused <- Closed,
         Nothing <- Open,
         request <- [k \in Rpc |-> Progress(k)],
         replies <- [k \in Rpc |-> Under(k)],
         got <- [k \in Rpc |-> chan[k]],
         result <- [k \in Rpc |-> Outcome(k)]

\* Connections break, are shared, dropped and dialled again, ids start again at
\* zero, and entries outlive their callers; all the same a request is taken up at
\* most once, and what a call returns is an answer to its own request (rpc,
\* read_replies, serve, serve_consensus).
ImplementsAtMostOnce == AMO!AmoSpec

=============================================================================
