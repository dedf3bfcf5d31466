------------------------- MODULE TcpTransportProofs -------------------------
(***************************************************************************)
(* What holds of calls over TCP for any number of peers, calls and         *)
(* connections, and any mailbox capacity: an answer reaches the call that  *)
(* asked, a call that waits can still be told, dropping a cached           *)
(* connection disturbs nobody who uses it, a broken connection is not      *)
(* handed out again once it was reported, and all of it together is what   *)
(* AtMostOnce promises.                                                    *)
(*                                                                         *)
(* The invariant ties everything that travels to a registered call.  An id *)
(* on a connection belongs to one call, and entries, frames, requests and  *)
(* responses all carry the id of theirs.  For the refinement a request is  *)
(* also in one place at a time.                                            *)
(***************************************************************************)
EXTENDS TcpTransport, TLAPS

(* The inductive invariant *)

\* The rpc has taken its id on the connection it holds.
Registered(k) == k \in Rpc /\ on[k] # None /\ pc[k] # "ready"
Owns(k, c, i) == Registered(k) /\ on[k] = c /\ id[k] = i

\* A connection is held from when it was got until the call is over.
PcOn ==
  \A k \in Call :
    /\ pc[k] \in {"idle", "dial"} => on[k] = None
    /\ Using(k) => on[k] # None
    /\ pc[k] = "wait" => k \in Rpc

\* Peer::next_request: ids are handed out once per connection.
IdsDistinct ==
  /\ \A k \in Rpc : Registered(k) => id[k] < next[on[k]]
  /\ \A k, l \in Rpc : Registered(k) /\ Owns(l, on[k], id[k]) => k = l

\* Whatever is on its way carries the connection and the id of its call.
EntriesOwned == \A c \in Conn : \A w \in pending[c] : Owns(w.call, c, w.id)
FramesOwned ==
  \A c \in Conn : \A n \in 1..Len(wire[c]) :
    wire[c][n].call \in Rpc => Owns(wire[c][n].call, c, wire[c][n].id)
RequestsOwned ==
  /\ \A n \in 1..Len(inbox) : Owns(inbox[n].call, inbox[n].conn, inbox[n].id)
  /\ \A t \in tasks : Owns(t.call, t.conn, t.id)
ResponsesOwned ==
  \A c \in Conn : \A r \in back[c] :
    \E k \in Rpc : Owns(k, c, r.id) /\ r.payload \in {Closed} \cup Reply(k)

\* Also while the request is written, its entry can be found or cleared.
EntryThere ==
  \A k \in Rpc \ late :
    pc[k] \in {"write", "wait"} /\ chan[k] = Open =>
      /\ on[k] \in reading
      /\ [id |-> id[k], call |-> k] \in pending[on[k]]

\* A connection that somebody holds and nothing has broken is whole.
HeldWhole ==
  /\ \A c \in Conn \ hurt : Held(c) => c \in up \cap reading \cap serving
  /\ \A c \in Conn : \A n \in 1..Len(wire[c]) : wire[c][n] = Garbage => c \in hurt

\* A connection is cached for one peer, the one that its users call.
CacheSound ==
  /\ \A p \in Peer : cache[p] # None => \E k \in Call : on[k] = cache[p]
  /\ \A p, q \in Peer : cache[p] = cache[q] /\ cache[p] # None => p = q
  /\ \A p \in Peer, k \in Call : cache[p] = on[k] /\ on[k] # None => p = to[k]

IInv ==
  /\ TypeOK /\ PcOn /\ IdsDistinct /\ EntriesOwned /\ FramesOwned /\ RequestsOwned
  /\ ResponsesOwned /\ OwnAnswer /\ EntryThere /\ HeldWhole /\ CacheSound /\ CorpseGone

----------------------------------------------------------------------------
(* Types *)

\* Every variable keeps its type.
LEMMA TypeNext ==
  TypeOK /\ PcOn /\ [Next]_vars => TypeOK'
<1> SUFFICES ASSUME TypeOK, PcOn, [Next]_vars PROVE TypeOK'
  OBVIOUS
<1> USE DEF Goto, call, peer, far
<1>0. TypeOK /\ PcOn
  OBVIOUS
<1>1. ASSUME NEW k \in Call, Cached(k) PROVE TypeOK'
  BY <1>0, <1>1 DEF Cached, TypeOK
<1>2. ASSUME NEW k \in Call, Dial(k) PROVE TypeOK'
  BY <1>0, <1>2 DEF Dial, TypeOK
<1>3. ASSUME NEW k \in Call, DialOk(k) PROVE TypeOK'
  BY <1>0, <1>3 DEF DialOk, Fresh, TypeOK
<1>4. ASSUME NEW k \in Call, DialErr(k) PROVE TypeOK'
  BY <1>0, <1>4 DEF DialErr, TypeOK
<1>5. ASSUME NEW k \in Call, Register(k) PROVE TypeOK'
  <2>1. on[k] \in Conn /\ next[on[k]] \in Nat
    BY <1>0, <1>5 DEF Register, TypeOK, PcOn, Using
  <2>2. [id |-> next[on[k]], call |-> k] \in Frame
    BY <2>1 DEF Frame
  <2> QED
    BY <1>0, <1>5, <2>1, <2>2 DEF Register, TypeOK
<1>6. ASSUME NEW k \in Call, WriteOk(k) PROVE TypeOK'
  <2>1. [id |-> id[k], call |-> k] \in Frame
    BY <1>0 DEF Frame, TypeOK
  <2>2. wire' \in [Conn -> Seq(Frame \cup {Garbage})]
    BY <1>0, <1>6, <2>1 DEF WriteOk, TypeOK
  <2> QED
    BY <1>0, <1>6, <2>2 DEF WriteOk, TypeOK
<1>7. ASSUME NEW k \in Call, WriteErr(k) PROVE TypeOK'
  BY <1>0, <1>7, Zenon DEF WriteErr, TypeOK
<1>8. ASSUME NEW k \in Call, DropPeer(k) PROVE TypeOK'
  BY <1>0, <1>8 DEF DropPeer, TypeOK
<1>9. ASSUME NEW k \in Call, Return(k) PROVE TypeOK'
  BY <1>0, <1>9 DEF Return, TypeOK
<1>10. ASSUME NEW k \in Call, Cancel(k) PROVE TypeOK'
  BY <1>0, <1>10 DEF Cancel, TypeOK
<1>11. ASSUME NEW k \in Call, CancelWrite(k) PROVE TypeOK'
  BY <1>0, <1>11 DEF CancelWrite, TypeOK
<1>12. ASSUME NEW c \in Conn, ReadReply(c) PROVE TypeOK'
  <2>1. PICK r \in back[c] : /\ back' = [back EXCEPT ![c] = @ \ {r}]
                            /\ pending' = [pending EXCEPT ![c] = {w \in @ : w.id # r.id}]
                            /\ Tell(WaitersAt(c, r.id), r.payload)
    BY <1>12, Zenon DEF ReadReply
  <2>2. r \in Response
    BY <1>0 DEF TypeOK
  <2>3. r.payload \in {Closed} \cup UNION {Reply(k) : k \in Rpc}
    BY <2>2 DEF Response
  <2>4. chan' \in [Call -> {Open, Closed} \cup UNION {Reply(k) : k \in Rpc}]
    BY <1>0, <2>1, <2>3 DEF Tell, TypeOK
  <2>5. back' \in [Conn -> SUBSET Response] /\ pending' \in [Conn -> SUBSET Frame]
    BY <1>0, <2>1 DEF TypeOK
  <2> QED
    BY <1>0, <1>12, <2>4, <2>5 DEF ReadReply, TypeOK
<1>13. ASSUME NEW c \in Conn, ReaderEnds(c) PROVE TypeOK'
  BY <1>0, <1>13 DEF ReaderEnds, Tell, TypeOK
<1>14. ASSUME NEW c \in Conn, Serve(c) PROVE TypeOK'
  <2> DEFINE frame == Head(wire[c])
  <2>1. frame \in Frame
    BY <1>0, <1>14 DEF Serve, TypeOK
  <2>2. frame.call \in Rpc => [conn |-> c, id |-> frame.id, call |-> frame.call] \in Request
    BY <2>1 DEF Frame, Request
  <2>3. inbox' \in Seq(Request)
    <3> DEFINE request == [conn |-> c, id |-> frame.id, call |-> frame.call]
    <3>1. (frame.call \in Rpc /\ inbox' = Append(inbox, request)) \/ inbox' = inbox
      BY <1>14 DEF Serve
    <3>2. frame.call \in Rpc => request \in Request
      BY <2>2
    <3>3. inbox \in Seq(Request)
      BY <1>0 DEF TypeOK
    <3> HIDE DEF request, frame
    <3> QED
      BY <3>1, <3>2, <3>3
  <2>4. wire' \in [Conn -> Seq(Frame \cup {Garbage})]
    BY <1>0, <1>14 DEF Serve, TypeOK
  <2> QED
    BY <1>0, <1>14, <2>3, <2>4 DEF Serve, TypeOK
<1>15. ASSUME NEW c \in Conn, ServeEnds(c) PROVE TypeOK'
  BY <1>0, <1>15 DEF ServeEnds, TypeOK
<1>16. ASSUME NEW c \in Conn, ServeGarbled(c) PROVE TypeOK'
  BY <1>0, <1>16 DEF ServeGarbled, TypeOK
<1>17. ASSUME NEW c \in Conn, Close(c) PROVE TypeOK'
  BY <1>0, <1>17 DEF Close, TypeOK
<1>18. ASSUME NEW c \in Conn, Break(c) PROVE TypeOK'
  BY <1>0, <1>18 DEF Break, TypeOK
<1>19. ASSUME Take PROVE TypeOK'
  BY <1>0, <1>19 DEF Take, TypeOK
<1>20. ASSUME NEW t \in tasks, Answer(t) PROVE TypeOK'
  <2>1. PICK reply \in Reply(t.call) : Respond(t, reply)
    BY <1>20 DEF Answer
  <2>2. t.call \in Rpc /\ t.id \in Nat
    BY <1>0 DEF TypeOK, Request
  <2>3. [id |-> t.id, payload |-> reply] \in Response
    BY <2>2 DEF Response
  <2> QED
    BY <1>0, <2>1, <2>3 DEF Respond, TypeOK
<1>21. ASSUME NEW t \in tasks, Decline(t) PROVE TypeOK'
  <2>1. [id |-> t.id, payload |-> Closed] \in Response
    BY <1>0 DEF TypeOK, Request, Response
  <2> QED
    BY <1>0, <1>21, <2>1 DEF Decline, Respond, TypeOK
<1>22. CASE UNCHANGED vars
  BY <1>0, <1>22 DEF vars, TypeOK
<1> QED
  BY <1>1, <1>2, <1>3, <1>4, <1>5, <1>6, <1>7, <1>8, <1>9, <1>10, <1>11, <1>12,
     <1>13, <1>14, <1>15, <1>16, <1>17, <1>18, <1>19, <1>20, <1>21, <1>22 DEF Next

\* The part of it that most steps need.
CallTypes ==
  /\ pc \in [Call -> {"idle", "dial", "ready", "write", "wait", "drop", "ok", "err", "gone"}]
  /\ to \in [Call -> Peer]
  /\ on \in [Call -> Conn \cup {None}]
  /\ id \in [Call -> Nat]
  /\ cache \in [Peer -> Conn \cup {None}]
  /\ next \in [Conn -> Nat]
TableTypes ==
  pending \in [Conn -> SUBSET Frame] /\ back \in [Conn -> SUBSET Response]

\* Both follow from the types.
LEMMA TypesSplit ==
  ASSUME TypeOK
  PROVE  CallTypes /\ TableTypes
  BY Zenon DEF TypeOK, CallTypes, TableTypes

----------------------------------------------------------------------------
(* What a step leaves alone *)

\* An id belongs to its call for ever: a call keeps its connection and its id.
LEMMA OwnsStays ==
  ASSUME TypeOK, PcOn, [Next]_vars, NEW k \in Rpc, NEW c, NEW i, Owns(k, c, i)
  PROVE  Owns(k, c, i)'
<1> USE DEF Goto, call, peer, far
<1>0. /\ TypeOK /\ k \in Call /\ on[k] = c /\ id[k] = i /\ on[k] # None
      /\ pc[k] \notin {"idle", "dial", "ready"}
  BY TcpAssumption DEF Owns, Registered, PcOn
<1>1. SUFFICES on'[k] = on[k] /\ id'[k] = id[k] /\ pc'[k] # "ready"
  BY <1>0 DEF Owns, Registered
<1>2. ASSUME NEW l \in Call,
             Cached(l) \/ Dial(l) \/ DialOk(l) \/ DialErr(l) \/ Register(l)
      PROVE  on'[k] = on[k] /\ id'[k] = id[k] /\ pc'[k] # "ready"
  <2>1. l # k
    BY <1>0, <1>2 DEF Cached, Dial, DialOk, DialErr, Register
  <2> QED
    BY <1>0, <1>2, <2>1 DEF Cached, Dial, DialOk, DialErr, Register, TypeOK
<1>3. ASSUME NEW l \in Call,
             WriteOk(l) \/ WriteErr(l) \/ DropPeer(l) \/ Return(l) \/ Cancel(l) \/ CancelWrite(l)
      PROVE  on'[k] = on[k] /\ id'[k] = id[k] /\ pc'[k] # "ready"
  BY <1>0, <1>3 DEF WriteOk, WriteErr, DropPeer, Return, Cancel, CancelWrite, TypeOK
<1>4. ASSUME NEW d \in Conn,
             \/ ReadReply(d) \/ ReaderEnds(d) \/ Serve(d) \/ ServeEnds(d)
             \/ ServeGarbled(d) \/ Close(d) \/ Break(d)
      PROVE  on'[k] = on[k] /\ id'[k] = id[k] /\ pc'[k] # "ready"
  BY <1>0, <1>4 DEF ReadReply, ReaderEnds, Serve, ServeEnds, ServeGarbled, Close, Break
<1>5. ASSUME Take \/ \E t \in tasks : Answer(t) \/ Decline(t)
      PROVE  on'[k] = on[k] /\ id'[k] = id[k] /\ pc'[k] # "ready"
  BY <1>0, <1>5 DEF Take, Answer, Decline, Respond
<1>6. CASE UNCHANGED vars
  BY <1>0, <1>6 DEF vars
<1> QED
  BY <1>2, <1>3, <1>4, <1>5, <1>6 DEF Next

\* Which steps change a variable: how far a call is, and its connection ...
LEMMA CallTouched ==
  ASSUME [Next]_vars, <<pc, on>>' # <<pc, on>>
  PROVE  \E k \in Call :
           \/ Cached(k) \/ Dial(k) \/ DialOk(k) \/ DialErr(k) \/ Register(k)
           \/ WriteOk(k) \/ WriteErr(k) \/ DropPeer(k) \/ Return(k)
           \/ Cancel(k) \/ CancelWrite(k)
  BY Zenon DEF Next, vars, call, peer, far, ReadReply, ReaderEnds, Serve, ServeEnds,
         ServeGarbled, Close, Break, Take, Answer, Decline, Respond

\* ... the ids ...
LEMMA IdTouched ==
  ASSUME [Next]_vars, <<id, next, late>>' # <<id, next, late>>
  PROVE  \E k \in Call : Register(k)
  BY Zenon DEF Next, vars, call, peer, far, Cached, Dial, DialOk, DialErr, WriteOk,
         WriteErr, DropPeer, Return, Cancel, CancelWrite, ReadReply, ReaderEnds,
         Serve, ServeEnds, ServeGarbled, Close, Break, Take, Answer, Decline,
         Respond

\* ... the tables ...
LEMMA PendingTouched ==
  ASSUME [Next]_vars, pending' # pending
  PROVE  \/ \E k \in Call : Register(k) \/ WriteErr(k)
         \/ \E c \in Conn : ReadReply(c) \/ ReaderEnds(c)
  BY Zenon DEF Next, vars, call, peer, far, Cached, Dial, DialOk, DialErr, WriteOk,
         DropPeer, Return, Cancel, CancelWrite, Serve, ServeEnds, ServeGarbled,
         Close, Break, Take, Answer, Decline, Respond

\* ... the channels ...
LEMMA ChanTouched ==
  ASSUME [Next]_vars, chan' # chan
  PROVE  \E c \in Conn : ReadReply(c) \/ ReaderEnds(c)
  BY Zenon DEF Next, vars, call, peer, far, Cached, Dial, DialOk, DialErr, Register,
         WriteOk, WriteErr, DropPeer, Return, Cancel, CancelWrite, Serve,
         ServeEnds, ServeGarbled, Close, Break, Take, Answer, Decline, Respond

\* ... the tasks that read ...
LEMMA ReadingTouched ==
  ASSUME [Next]_vars, ~(reading \subseteq reading')
  PROVE  \E c \in Conn : ReaderEnds(c)
  BY Zenon DEF Next, vars, call, peer, far, Cached, Dial, DialOk, DialErr, Register,
         WriteOk, WriteErr, DropPeer, Return, Cancel, CancelWrite, ReadReply,
         Serve, ServeEnds, ServeGarbled, Close, Break, Take, Answer, Decline,
         Respond

\* ... what travels ...
LEMMA WireTouched ==
  ASSUME [Next]_vars, wire' # wire
  PROVE  \/ \E k \in Call : WriteOk(k) \/ CancelWrite(k)
         \/ \E c \in Conn : Serve(c) \/ wire' = [wire EXCEPT ![c] = << >>]
  BY Zenon DEF Next, vars, call, peer, far, Cached, Dial, DialOk, DialErr, Register,
         WriteErr, DropPeer, Return, Cancel, ReadReply, ReaderEnds, ServeEnds,
         ServeGarbled, Close, Break, Take, Answer, Decline, Respond

\* ... the inbox ...
LEMMA InboxTouched ==
  ASSUME [Next]_vars, inbox' # inbox
  PROVE  Take \/ \E c \in Conn : Serve(c)
  BY Zenon DEF Next, vars, call, peer, far, Cached, Dial, DialOk, DialErr, Register,
         WriteOk, WriteErr, DropPeer, Return, Cancel, CancelWrite, ReadReply,
         ReaderEnds, ServeEnds, ServeGarbled, Close, Break, Answer, Decline,
         Respond

\* ... what is being answered ...
LEMMA TasksTouched ==
  ASSUME [Next]_vars, tasks' # tasks
  PROVE  Take \/ \E t \in tasks : Answer(t) \/ Decline(t)
  BY Zenon DEF Next, vars, call, peer, far, Cached, Dial, DialOk, DialErr, Register,
         WriteOk, WriteErr, DropPeer, Return, Cancel, CancelWrite, ReadReply,
         ReaderEnds, Serve, ServeEnds, ServeGarbled, Close, Break

\* ... the responses ...
LEMMA BackTouched ==
  ASSUME [Next]_vars, back' # back
  PROVE  \/ \E t \in tasks : Answer(t) \/ Decline(t)
         \/ \E c \in Conn : ReadReply(c) \/ Break(c)
  BY Zenon DEF Next, vars, call, peer, far, Cached, Dial, DialOk, DialErr, Register,
         WriteOk, WriteErr, DropPeer, Return, Cancel, CancelWrite, ReaderEnds,
         Serve, ServeEnds, ServeGarbled, Close, Take

\* ... and the cache.
LEMMA CacheTouched ==
  ASSUME [Next]_vars, cache' # cache
  PROVE  \E k \in Call : DialOk(k) \/ DropPeer(k)
  BY Zenon DEF Next, vars, call, peer, far, Cached, Dial, DialErr, Register, WriteOk,
         WriteErr, Return, Cancel, CancelWrite, ReadReply, ReaderEnds, Serve,
         ServeEnds, ServeGarbled, Close, Break, Take, Answer, Decline, Respond

\* Nobody changes the peer of a call, and what was broken stays broken.
LEMMA NeverTouched ==
  ASSUME [Next]_vars
  PROVE  to' = to /\ hurt \subseteq hurt'
  BY Zenon DEF Next, vars, call, peer, far, Cached, Dial, DialOk, DialErr, Register,
         WriteOk, WriteErr, DropPeer, Return, Cancel, CancelWrite, ReadReply,
         ReaderEnds, Serve, ServeEnds, ServeGarbled, Close, Break, Take, Answer,
         Decline, Respond

----------------------------------------------------------------------------
(* Whose id it is *)

\* A call holds a connection exactly while it may use it.
LEMMA PcOnNext ==
  ASSUME TypeOK, PcOn, [Next]_vars
  PROVE  PcOn'
<1> USE DEF Goto, Using
<1>0. CallTypes /\ None \notin Conn
  BY TypesSplit, TcpAssumption
<1>1. CASE UNCHANGED <<pc, on>>
  BY <1>0, <1>1 DEF PcOn
<1>2. ASSUME NEW k \in Call, Cached(k) \/ Dial(k) \/ DialErr(k) PROVE PcOn'
  BY <1>0, <1>2 DEF Cached, Dial, DialErr, PcOn, CallTypes
<1>3. ASSUME NEW k \in Call, DialOk(k) PROVE PcOn'
  <2>1. PICK c \in Conn : on' = [on EXCEPT ![k] = c]
    BY <1>3, Zenon DEF DialOk, Fresh
  <2> QED
    BY <1>0, <1>3, <2>1 DEF DialOk, PcOn, CallTypes
<1>4. ASSUME NEW k \in Call, Register(k) \/ DropPeer(k) \/ Return(k) PROVE PcOn'
  BY <1>0, <1>4 DEF Register, DropPeer, Return, PcOn, CallTypes
<1>5. ASSUME NEW k \in Call, WriteOk(k) \/ WriteErr(k) PROVE PcOn'
  BY <1>0, <1>5 DEF WriteOk, WriteErr, Writes, PcOn, CallTypes
<1>6. ASSUME NEW k \in Call, Cancel(k) \/ CancelWrite(k) PROVE PcOn'
  BY <1>0, <1>6 DEF Cancel, CancelWrite, PcOn, CallTypes
<1> QED
  BY <1>1, <1>2, <1>3, <1>4, <1>5, <1>6, CallTouched

\* Only rpc itself registers a call.
LEMMA RegisterRegisters ==
  ASSUME TypeOK, PcOn, [Next]_vars, NEW k \in Rpc, ~Registered(k), Registered(k)'
  PROVE  Register(k)
<1> USE DEF Goto
<1>0. CallTypes /\ k \in Call /\ (on[k] = None \/ pc[k] = "ready")
      /\ on'[k] # None /\ pc'[k] # "ready"
  BY TypesSplit, TcpAssumption DEF Registered
<1>1. CASE UNCHANGED <<pc, on>>
  BY <1>0, <1>1
<1>2. ASSUME NEW l \in Call, Cached(l) \/ Dial(l) \/ DialOk(l) \/ DialErr(l)
      PROVE  FALSE
  BY <1>0, <1>2 DEF Cached, Dial, DialOk, DialErr, CallTypes
<1>3. ASSUME NEW l \in Call, WriteOk(l) \/ WriteErr(l) \/ CancelWrite(l)
      PROVE  FALSE
  BY <1>0, <1>3 DEF WriteOk, WriteErr, CancelWrite, Writes, CallTypes
<1>4. ASSUME NEW l \in Call, DropPeer(l) \/ Return(l) \/ Cancel(l)
      PROVE  FALSE
  BY <1>0, <1>4 DEF DropPeer, Return, Cancel, Writes, CallTypes
<1>5. ASSUME NEW l \in Call, Register(l), l # k
      PROVE  FALSE
  BY <1>0, <1>5 DEF Register, CallTypes
<1> QED
  BY <1>1, <1>2, <1>3, <1>4, <1>5, CallTouched

\* Peer::next_request hands an id out once.
LEMMA IdsNext ==
  ASSUME TypeOK, PcOn, IdsDistinct, [Next]_vars
  PROVE  IdsDistinct'
<1> USE DEF Goto
<1>0. CallTypes /\ Rpc \subseteq Call
  BY TypesSplit, TcpAssumption
<1>1. ASSUME NEW k \in Rpc, Registered(k)
      PROVE  Registered(k)' /\ on'[k] = on[k] /\ id'[k] = id[k]
  BY <1>0, <1>1, OwnsStays DEF Owns
<1>2. CASE \E l \in Call : Register(l)
  <2>1. PICK l \in Call : Register(l)
    BY <1>2
  <2> DEFINE c == on[l]
  <2>2. /\ l \in Rpc /\ c \in Conn /\ next[c] \in Nat
        /\ id' = [id EXCEPT ![l] = next[c]] /\ next' = [next EXCEPT ![c] = @ + 1]
        /\ on' = on /\ pc[l] = "ready"
    BY <1>0, <2>1 DEF Register, PcOn, Using, CallTypes
  <2>3. ASSUME NEW k \in Rpc, Registered(k)', k # l PROVE Registered(k)
    <3>1. Register(k) => pc'[l] = pc[l]
      BY <1>0, <2>3 DEF Register, CallTypes
    <3>2. pc'[l] = "write"
      BY <1>0, <2>1 DEF Register, CallTypes
    <3> QED
      BY <1>0, <2>2, <2>3, <3>1, <3>2, RegisterRegisters
  <2>4. id'[l] = next[c] /\ next'[c] = next[c] + 1 /\ \A d \in Conn : next'[d] >= next[d]
    BY <1>0, <2>2 DEF CallTypes
  <2>5. ASSUME NEW k \in Rpc, Registered(k)', k # l
        PROVE  /\ on[k] \in Conn /\ id[k] < next[on[k]]
               /\ id'[k] = id[k] /\ on'[k] = on[k] /\ id[k] \in Nat /\ next[on[k]] \in Nat
    <3>1. Registered(k)
      BY <2>3, <2>5
    <3> QED
      BY <1>0, <1>1, <3>1 DEF IdsDistinct, Registered, CallTypes
  <2>6. ASSUME NEW k \in Rpc, Registered(k)' PROVE id'[k] < next'[on'[k]]
    <3>1. CASE k = l
      BY <2>2, <2>4, <3>1
    <3>2. CASE k # l
      <4>1. next'[on[k]] >= next[on[k]] /\ next'[on[k]] \in Nat
        BY <1>0, <2>2, <2>4, <2>5, <2>6, <3>2 DEF CallTypes
      <4> QED
        BY <2>5, <2>6, <3>2, <4>1
    <3> QED
      BY <3>1, <3>2
  <2>7. ASSUME NEW k \in Rpc, NEW h \in Rpc, Registered(k)', Registered(h)',
               on'[h] = on'[k], id'[h] = id'[k], k # h
        PROVE  FALSE
    <3>1. CASE k = l
      BY <2>2, <2>4, <2>5, <2>7, <3>1
    <3>2. CASE h = l
      BY <2>2, <2>4, <2>5, <2>7, <3>2
    <3>3. CASE k # l /\ h # l
      BY <1>0, <2>3, <2>5, <2>7, <3>3 DEF IdsDistinct, Owns
    <3> QED
      BY <3>1, <3>2, <3>3
  <2> QED
    BY <2>6, <2>7 DEF IdsDistinct, Owns
<1>3. CASE ~\E l \in Call : Register(l)
  <2>1. id' = id /\ next' = next
    BY <1>3, IdTouched
  <2>2. ASSUME NEW k \in Rpc, Registered(k)' PROVE Registered(k) /\ on'[k] = on[k]
    BY <1>0, <1>1, <1>3, <2>2, RegisterRegisters
  <2> QED
    BY <1>0, <2>1, <2>2 DEF IdsDistinct, Owns
<1> QED
  BY <1>2, <1>3

----------------------------------------------------------------------------
(* What travels *)

\* An entry of the table was there before, or a call has just registered it.
LEMMA EntriesNext ==
  ASSUME TypeOK, PcOn, EntriesOwned, [Next]_vars
  PROVE  EntriesOwned'
<1>0. CallTypes /\ TableTypes /\ Rpc \subseteq Call
  BY TypesSplit, TcpAssumption
<1>1. SUFFICES ASSUME NEW c \in Conn, NEW w \in pending'[c] PROVE Owns(w.call, c, w.id)'
  BY DEF EntriesOwned
<1>2. CASE w \in pending[c]
  <2>1. Owns(w.call, c, w.id) /\ w.call \in Rpc
    BY <1>0, <1>2 DEF EntriesOwned, Owns, Registered
  <2> QED
    BY <1>0, <2>1, OwnsStays
<1>3. CASE w \notin pending[c]
  <2>1. ASSUME NEW k \in Call, WriteErr(k) PROVE FALSE
    BY <1>0, <1>1, <1>3, <2>1 DEF WriteErr, CallTypes, TableTypes
  <2>2. ASSUME NEW d \in Conn, ReadReply(d) \/ ReaderEnds(d) PROVE FALSE
    <3>1. \/ pending' = [pending EXCEPT ![d] = {}]
          \/ \E r \in back[d] : pending' = [pending EXCEPT ![d] = {x \in @ : x.id # r.id}]
      BY <2>2 DEF ReadReply, ReaderEnds
    <3>2. pending'[c] \subseteq pending[c]
      BY <1>0, <3>1 DEF CallTypes, TableTypes
    <3> QED
      BY <1>1, <1>3, <3>2
  <2>3. PICK k \in Call : Register(k)
    BY <1>1, <1>3, <2>1, <2>2, PendingTouched
  <2>4. on[k] = c /\ w = [id |-> next[c], call |-> k] /\ id'[k] = next[c]
    BY <1>0, <1>1, <1>3, <2>3 DEF Register, CallTypes
  <2> QED
    BY <1>0, <2>3, <2>4, TcpAssumption DEF Register, Goto, Owns, Registered, CallTypes
<1> QED
  BY <1>2, <1>3

\* What a sequence holds after Append.
LEMMA AppendSource ==
  ASSUME NEW S, NEW s \in Seq(S), NEW e \in S, NEW n \in 1..Len(Append(s, e))
  PROVE  Append(s, e)[n] = e \/ (n \in 1..Len(s) /\ Append(s, e)[n] = s[n])
  OBVIOUS

\* A frame was on the wire before, or it has just been written, whole or by half.
LEMMA FrameSource ==
  ASSUME TypeOK, PcOn, [Next]_vars, NEW c \in Conn, NEW n \in 1..Len(wire'[c])
  PROVE  \/ \E j \in 1..Len(wire[c]) : wire'[c][n] = wire[c][j]
         \/ \E k \in Call : /\ WriteOk(k) /\ on[k] = c
                            /\ wire'[c][n] = [id |-> id[k], call |-> k]
         \/ \E k \in Call : CancelWrite(k) /\ on[k] = c /\ wire'[c][n] = Garbage
<1>0. CallTypes /\ wire \in [Conn -> Seq(Frame \cup {Garbage})]
  BY TypesSplit DEF TypeOK
<1>1. CASE wire'[c] = wire[c]
  BY <1>1
<1>2. ASSUME NEW k \in Call, WriteOk(k), wire'[c] # wire[c]
      PROVE  \/ \E j \in 1..Len(wire[c]) : wire'[c][n] = wire[c][j]
             \/ on[k] = c /\ wire'[c][n] = [id |-> id[k], call |-> k]
  <2> DEFINE f == [id |-> id[k], call |-> k]
  <2>1. f \in Frame \cup {Garbage}
    BY <1>0 DEF Frame, CallTypes
  <2>2. on[k] = c /\ wire'[c] = Append(wire[c], f)
    BY <1>0, <1>2 DEF WriteOk
  <2> HIDE DEF f
  <2>3. \/ \E j \in 1..Len(wire[c]) : wire'[c][n] = wire[c][j]
        \/ wire'[c][n] = f
    BY <1>0, <2>1, <2>2
  <2> QED
    BY <2>2, <2>3 DEF f
<1>3. ASSUME NEW k \in Call, CancelWrite(k), wire'[c] # wire[c]
      PROVE  \/ \E j \in 1..Len(wire[c]) : wire'[c][n] = wire[c][j]
             \/ on[k] = c /\ wire'[c][n] = Garbage
  <2>1. on[k] = c /\ wire'[c] = Append(wire[c], Garbage)
    BY <1>0, <1>3 DEF CancelWrite
  <2> QED
    BY <1>0, <2>1
<1>4. ASSUME NEW d \in Conn, Serve(d), wire'[c] # wire[c]
      PROVE  \E j \in 1..Len(wire[c]) : wire'[c][n] = wire[c][j]
  <2>1. wire[c] # << >> /\ wire'[c] = Tail(wire[c])
    BY <1>0, <1>4 DEF Serve
  <2>2. n + 1 \in 1..Len(wire[c]) /\ wire'[c][n] = wire[c][n + 1]
    BY <1>0, <2>1
  <2> QED
    BY <2>2
<1>5. ASSUME NEW d \in Conn, wire' = [wire EXCEPT ![d] = << >>], wire'[c] # wire[c]
      PROVE  FALSE
  BY <1>0, <1>5
<1> QED
  BY <1>1, <1>2, <1>3, <1>4, <1>5, WireTouched

\* A request on the wire is that of a registered call.
LEMMA FramesNext ==
  ASSUME TypeOK, PcOn, FramesOwned, [Next]_vars
  PROVE  FramesOwned'
<1>1. SUFFICES ASSUME NEW c \in Conn, NEW n \in 1..Len(wire'[c]), NEW f,
                      f = wire'[c][n], f.call \in Rpc
               PROVE  Owns(f.call, c, f.id)'
  BY DEF FramesOwned
<1>2. ASSUME NEW j \in 1..Len(wire[c]), f = wire[c][j]
      PROVE  Owns(f.call, c, f.id)'
  BY <1>1, <1>2, OwnsStays DEF FramesOwned
<1>3. ASSUME NEW k \in Call, WriteOk(k), on[k] = c, f = [id |-> id[k], call |-> k]
      PROVE  Owns(f.call, c, f.id)'
  <2>1. k \in Rpc /\ Owns(k, c, id[k])
    BY <1>1, <1>3 DEF WriteOk, Writes, PcOn, Using, Owns, Registered
  <2> QED
    BY <1>3, <2>1, OwnsStays
<1>4. f # Garbage
  BY <1>1, TcpAssumption DEF Garbage
<1> QED
  BY <1>1, <1>2, <1>3, <1>4, FrameSource, Zenon

\* So is a request in the inbox, or one that is being answered.
LEMMA RequestsNext ==
  ASSUME TypeOK, PcOn, FramesOwned, RequestsOwned, [Next]_vars
  PROVE  RequestsOwned'
<1>0. inbox \in Seq(Request) /\ wire \in [Conn -> Seq(Frame \cup {Garbage})]
  BY DEF TypeOK
<1>1. ASSUME NEW k, NEW c, NEW i, Owns(k, c, i) PROVE Owns(k, c, i)'
  BY <1>0, <1>1, OwnsStays DEF Owns, Registered
<1>2. ASSUME NEW n \in 1..Len(inbox'), NEW q, q = inbox'[n]
      PROVE  Owns(q.call, q.conn, q.id)'
  <2>1. CASE inbox' = inbox
    BY <1>0, <1>1, <1>2, <2>1 DEF RequestsOwned
  <2>2. CASE Take
    <3>1. n + 1 \in 1..Len(inbox) /\ q = inbox[n + 1]
      BY <1>0, <1>2, <2>2 DEF Take
    <3> QED
      BY <1>0, <1>1, <3>1 DEF RequestsOwned
  <2>3. ASSUME NEW c \in Conn, Serve(c), inbox' # inbox
        PROVE  Owns(q.call, q.conn, q.id)'
    <3> DEFINE frame == Head(wire[c])
               request == [conn |-> c, id |-> frame.id, call |-> frame.call]
    <3>1. frame.call \in Rpc /\ inbox' = Append(inbox, request) /\ wire[c] # << >>
      BY <2>3 DEF Serve
    <3>2. frame \in Frame
      BY <1>0, <2>3 DEF Serve, TypeOK
    <3>3. request \in Request
      BY <3>1, <3>2 DEF Frame, Request
    <3>4. frame = wire[c][1] /\ 1 \in 1..Len(wire[c])
      BY <1>0, <3>1 DEF TypeOK
    <3>5. Owns(frame.call, c, frame.id)
      BY <1>0, <3>1, <3>4, Zenon DEF FramesOwned
    <3>6. Owns(request.call, request.conn, request.id)
      BY <3>5, Zenon
    <3>7. q = request \/ (n \in 1..Len(inbox) /\ q = inbox[n])
      <4>1. inbox' = Append(inbox, request)
        BY <3>1, Zenon
      <4> HIDE DEF request
      <4>2. inbox \in Seq(Request) /\ request \in Request
        BY <1>0, <3>3, Zenon
      <4>3. n \in 1..Len(inbox') /\ q = inbox'[n]
        BY <1>2, Zenon
      <4>4. Len(inbox') = Len(inbox) + 1 /\ Len(inbox) \in Nat
        BY <4>1, <4>2
      <4>5. \A i \in 1..Len(inbox) : inbox'[i] = inbox[i]
        BY <4>1, <4>2
      <4>6. inbox'[Len(inbox) + 1] = request
        BY <4>1, <4>2
      <4>7. n \in 1..Len(inbox) \/ n = Len(inbox) + 1
        BY <4>3, <4>4
      <4> QED
        BY <4>3, <4>5, <4>6, <4>7, Zenon
    <3> QED
      BY <1>0, <1>1, <3>6, <3>7 DEF RequestsOwned
  <2> QED
    BY <2>1, <2>2, <2>3, InboxTouched
<1>3. ASSUME NEW t \in tasks' PROVE Owns(t.call, t.conn, t.id)'
  <2>1. t \in tasks \/ (inbox # << >> /\ t = inbox[1])
    <3>1. Take => tasks' = tasks \cup {Head(inbox)} /\ inbox # << >>
      BY DEF Take
    <3>2. ASSUME NEW u \in tasks, Answer(u) \/ Decline(u) PROVE tasks' \subseteq tasks
      BY <3>2 DEF Answer, Decline, Respond
    <3>3. inbox # << >> => Head(inbox) = inbox[1]
      BY <1>0
    <3> QED
      BY <1>3, <3>1, <3>2, <3>3, TasksTouched
  <2>2. Owns(t.call, t.conn, t.id)
    BY <1>0, <2>1 DEF RequestsOwned
  <2> QED
    BY <1>1, <2>2
<1> QED
  BY <1>2, <1>3 DEF RequestsOwned

\* A response carries the id of the call that it answers.
LEMMA ResponsesNext ==
  ASSUME TypeOK, PcOn, RequestsOwned, ResponsesOwned, [Next]_vars
  PROVE  ResponsesOwned'
<1>0. TableTypes
  BY TypesSplit, ZenonT(30)
<1>1. SUFFICES ASSUME NEW c \in Conn, NEW r \in back'[c]
               PROVE  \E k \in Rpc : Owns(k, c, r.id)' /\ r.payload \in {Closed} \cup Reply(k)
  BY DEF ResponsesOwned, Reply
<1>2. CASE r \in back[c]
  <2>1. PICK k \in Rpc : Owns(k, c, r.id) /\ r.payload \in {Closed} \cup Reply(k)
    BY <1>0, <1>1, <1>2 DEF ResponsesOwned
  <2> QED
    BY <1>0, <2>1, OwnsStays
<1>3. CASE r \notin back[c]
  <2>1. ASSUME NEW d \in Conn, ReadReply(d) \/ Break(d) PROVE FALSE
    <3>1. back' = [back EXCEPT ![d] = {}] \/ \E x : back' = [back EXCEPT ![d] = @ \ {x}]
      BY <2>1, Zenon DEF ReadReply, Break
    <3>2. back'[c] \subseteq back[c]
      BY <1>0, <3>1 DEF TableTypes
    <3> QED
      BY <1>1, <1>3, <3>2
  <2>2. PICK t \in tasks : \E reply \in Reply(t.call) \cup {Closed} : Respond(t, reply)
    BY <1>1, <1>3, <2>1, BackTouched DEF Answer, Decline
  <2>6. PICK reply \in Reply(t.call) \cup {Closed} : Respond(t, reply)
    BY <2>2
  <2>3. t.conn = c /\ r = [id |-> t.id, payload |-> reply]
    BY <1>0, <1>1, <1>3, <2>6 DEF Respond, TableTypes
  <2>4. r.payload \in {Closed} \cup Reply(t.call)
    BY <2>3, <2>6
  <2>5. t.call \in Rpc /\ Owns(t.call, c, r.id)
    BY <1>0, <2>3 DEF RequestsOwned, Owns, Registered
  <2> QED
    BY <1>0, <2>3, <2>4, <2>5, OwnsStays
<1> QED
  BY <1>2, <1>3

----------------------------------------------------------------------------
(* The answers *)

\* A channel that is told something does not look as if it were still open.
LEMMA NeverOpen ==
  Closed # Open /\ \A k \in Rpc : Open \notin Reply(k) /\ Closed \notin Reply(k)
  BY TcpAssumption DEF Open, Closed, Reply

\* What a step tells: the calls of some entries of one connection.
LEMMA Told ==
  ASSUME TypeOK, EntriesOwned, [Next]_vars, NEW k \in Call, chan'[k] # chan[k]
  PROVE  \E c \in Conn :
           \/ ReaderEnds(c) /\ chan'[k] = Closed
           \/ /\ ReadReply(c)
              /\ \E r \in back[c] : Owns(k, c, r.id) /\ chan'[k] = r.payload
<1>0. TableTypes
  BY TypesSplit
<1>1. ASSUME NEW c \in Conn, ReaderEnds(c) PROVE chan'[k] = Closed
  BY <1>0, <1>1 DEF ReaderEnds, Tell, TableTypes
<1>2. ASSUME NEW c \in Conn, ReadReply(c)
      PROVE  \E r \in back[c] : Owns(k, c, r.id) /\ chan'[k] = r.payload
  <2>1. PICK r \in back[c] : Tell(WaitersAt(c, r.id), r.payload)
    BY <1>2 DEF ReadReply
  <2>2. k \in WaitersAt(c, r.id) /\ chan'[k] = r.payload
    BY <1>0, <2>1 DEF Tell
  <2>3. PICK w \in pending[c] : w.id = r.id /\ w.call = k
    BY <2>2 DEF WaitersAt
  <2> QED
    BY <1>0, <2>2, <2>3 DEF EntriesOwned
<1> QED
  BY <1>1, <1>2, ChanTouched

\* A response goes to the one call whose id it carries.
LEMMA OwnAnswerNext ==
  ASSUME TypeOK, IdsDistinct, EntriesOwned, ResponsesOwned, OwnAnswer, [Next]_vars
  PROVE  OwnAnswer'
<1>1. SUFFICES ASSUME NEW k \in Rpc, chan'[k] # chan[k]
               PROVE  chan'[k] \in {Open, Closed} \cup Reply(k)
  BY DEF OwnAnswer, Reply
<1>2. ASSUME NEW c \in Conn, NEW r \in back[c], Owns(k, c, r.id), chan'[k] = r.payload,
             r.payload # Closed
      PROVE  chan'[k] \in Reply(k)
  <2>1. PICK l \in Rpc : Owns(l, c, r.id) /\ r.payload \in {Closed} \cup Reply(l)
    BY <1>2 DEF ResponsesOwned
  <2>2. l = k
    BY <1>2, <2>1 DEF IdsDistinct, Owns
  <2> QED
    BY <1>2, <2>1, <2>2
<1> QED
  BY <1>1, <1>2, Told, TcpAssumption, Zenon

\* A channel stays open only if its entry was left alone.
LEMMA OpenStays ==
  ASSUME TypeOK, ResponsesOwned, EntriesOwned, [Next]_vars, NEW k \in Call, chan'[k] = Open
  PROVE  /\ chan[k] = Open
         /\ \A c \in Conn : ReaderEnds(c) => \A w \in pending[c] : w.call # k
         /\ \A c \in Conn : ReadReply(c) => \A w \in pending[c] : w.call = k => w \in pending'[c]
<1>0. TableTypes
  BY TypesSplit
<1>1. ASSUME NEW c \in Conn, NEW r \in back[c] PROVE r.payload # Open
  BY <1>0, NeverOpen DEF ResponsesOwned
<1>2. chan[k] = Open
  BY <1>0, <1>1, Told, NeverOpen
<1>3. ASSUME NEW c \in Conn, ReaderEnds(c), NEW w \in pending[c], w.call = k PROVE FALSE
  BY <1>0, <1>2, <1>3, NeverOpen DEF ReaderEnds, Tell
<1>4. ASSUME NEW c \in Conn, ReadReply(c), NEW w \in pending[c], w.call = k
      PROVE  w \in pending'[c]
  <2>1. PICK r \in back[c] : /\ pending' = [pending EXCEPT ![c] = {x \in @ : x.id # r.id}]
                            /\ Tell(WaitersAt(c, r.id), r.payload)
    BY <1>4, Zenon DEF ReadReply
  <2>2. k \notin WaitersAt(c, r.id)
    BY <1>0, <1>1, <1>2, <2>1 DEF Tell
  <2>3. w.id # r.id
    BY <1>4, <2>2 DEF WaitersAt
  <2> QED
    BY <1>0, <2>1, <2>3, Zenon DEF TableTypes
<1> QED
  BY <1>2, <1>3, <1>4

\* The entry of a call that has not been told is left alone until then.
LEMMA EntryNext ==
  ASSUME TypeOK, PcOn, IdsDistinct, EntriesOwned, ResponsesOwned, EntryThere, [Next]_vars
  PROVE  EntryThere'
<1> USE DEF Goto
<1>0. CallTypes /\ TableTypes /\ Rpc \subseteq Call
  BY TypesSplit, TcpAssumption
<1>1. SUFFICES ASSUME NEW k \in Rpc, k \notin late', pc'[k] \in {"write", "wait"}, chan'[k] = Open
               PROVE  on'[k] \in reading' /\ [id |-> id'[k], call |-> k] \in pending'[on'[k]]
  BY DEF EntryThere
<1>2. CASE Register(k)
  BY <1>0, <1>1, <1>2 DEF Register, CallTypes, TableTypes, PcOn, Using
<1>3. CASE ~Register(k)
  <2>1. pc[k] \in {"write", "wait"} /\ on'[k] = on[k] /\ id'[k] = id[k] /\ k \notin late
    <3>1. Registered(k)'
      BY <1>0, <1>1, PcOnNext DEF Registered, PcOn, Using
    <3>2. Registered(k)
      BY <1>0, <1>3, <3>1, RegisterRegisters
    <3>3. on'[k] = on[k] /\ id'[k] = id[k]
      BY <1>0, <3>2, OwnsStays DEF Owns
    <3>4. pc[k] \in {"write", "wait"}
      <4>1. CASE UNCHANGED <<pc, on>>
        BY <1>1, <4>1, Zenon
      <4>2. ASSUME NEW l \in Call, Cached(l) \/ Dial(l) \/ DialOk(l) \/ DialErr(l) \/ Register(l)
            PROVE  pc[k] \in {"write", "wait"}
        BY <1>0, <1>1, <1>3, <4>2, Zenon DEF Cached, Dial, DialOk, DialErr, Register, CallTypes
      <4>3. ASSUME NEW l \in Call, WriteOk(l) \/ WriteErr(l) \/ CancelWrite(l)
            PROVE  pc[k] \in {"write", "wait"}
        BY <1>0, <1>1, <4>3, Zenon DEF WriteOk, WriteErr, CancelWrite, Writes, CallTypes
      <4>4. ASSUME NEW l \in Call, DropPeer(l) \/ Return(l) \/ Cancel(l)
            PROVE  pc[k] \in {"write", "wait"}
        BY <1>0, <1>1, <4>4, Zenon DEF DropPeer, Return, Cancel, CallTypes
      <4> QED
        BY <4>1, <4>2, <4>3, <4>4, CallTouched
    <3>5. k \notin late
      BY <1>1, IdTouched DEF Register
    <3> QED
      BY <3>3, <3>4, <3>5
  <2> DEFINE c == on[k]
             w == [id |-> id[k], call |-> k]
  <2>2. c \in reading /\ c \in Conn /\ w \in pending[c] /\ w.call = k /\ w.id = id[k]
    <3>1. chan[k] = Open
      BY <1>0, <1>1, OpenStays
    <3>2. c \in reading /\ w \in pending[c]
      BY <2>1, <3>1 DEF EntryThere
    <3>3. c \in Conn
      BY <1>0, <2>1 DEF CallTypes, PcOn, Using
    <3> QED
      BY <3>2, <3>3
  <2> HIDE DEF w
  <2>3. w \in pending'[c]
    <3>1. ASSUME NEW l \in Call, Register(l) PROVE w \in pending'[c]
      BY <1>0, <2>2, <3>1 DEF Register, CallTypes, TableTypes
    <3>2. ASSUME NEW l \in Call, WriteErr(l) PROVE w \in pending'[c]
      <4>1. CASE l = k
        BY <1>0, <1>1, <3>2, <4>1 DEF WriteErr, CallTypes, TableTypes
      <4>2. CASE l # k /\ l \in Rpc /\ on[l] = c
        <5>1. Registered(l) /\ Registered(k)
          BY <1>0, <2>1, <3>2, <4>2 DEF WriteErr, Writes, Registered, PcOn, Using
        <5>2. id[l] # id[k]
          BY <1>0, <4>2, <5>1 DEF IdsDistinct, Owns
        <5> QED
          BY <1>0, <2>2, <3>2, <4>2, <5>2 DEF WriteErr, CallTypes, TableTypes
      <4>3. CASE l \notin Rpc \/ on[l] # c
        BY <1>0, <2>2, <3>2, <4>3 DEF WriteErr, CallTypes, TableTypes
      <4> QED
        BY <4>1, <4>2, <4>3
    <3>3. ASSUME NEW d \in Conn, ReadReply(d) \/ ReaderEnds(d) PROVE w \in pending'[c]
      <4>1. CASE d # c
        <5>1. pending'[c] = pending[c]
          BY <1>0, <2>2, <3>3, <4>1, Zenon DEF ReadReply, ReaderEnds, CallTypes, TableTypes
        <5> QED
          BY <2>2, <5>1, Zenon
      <4>2. CASE d = c
        BY <1>0, <1>1, <2>2, <3>3, <4>2, OpenStays, Zenon
      <4> QED
        BY <4>1, <4>2
    <3> QED
      BY <2>2, <3>1, <3>2, <3>3, PendingTouched
  <2>4. c \in reading'
    <3>1. ASSUME NEW d \in Conn, ReaderEnds(d) PROVE d # c
      BY <1>0, <1>1, <2>2, <3>1, OpenStays, ZenonT(30)
    <3>2. reading \subseteq reading' \/ \E d \in Conn : ReaderEnds(d)
      BY ReadingTouched
    <3> QED
      BY <2>2, <3>1, <3>2, Zenon DEF ReaderEnds
  <2> QED
    BY <2>1, <2>3, <2>4, Zenon DEF w
<1> QED
  BY <1>2, <1>3

----------------------------------------------------------------------------
(* Connections *)

\* Who holds a connection after a step held it before, or has just dialled it.
LEMMA HeldBefore ==
  ASSUME TypeOK, [Next]_vars, NEW c \in Conn, Held(c)'
  PROVE  Held(c) \/ c \in up' \cap reading' \cap serving'
<1> USE DEF Goto
<1>0. CallTypes
  BY TypesSplit
<1>1. ASSUME NEW p \in Peer, cache'[p] = c
      PROVE  Held(c) \/ c \in up' \cap reading' \cap serving'
  <2>1. CASE cache'[p] = cache[p]
    BY <1>1, <2>1 DEF Held
  <2>2. ASSUME NEW k \in Call, DropPeer(k), cache'[p] # cache[p] PROVE FALSE
    BY <1>0, <1>1, <2>2, TcpAssumption DEF DropPeer, CallTypes
  <2>3. ASSUME NEW k \in Call, DialOk(k), cache'[p] # cache[p]
        PROVE  c \in up' \cap reading' \cap serving'
    BY <1>0, <1>1, <2>3 DEF DialOk, CallTypes
  <2> QED
    BY <2>1, <2>2, <2>3, CacheTouched, SMTT(30)
<1>2. ASSUME NEW k \in Call, on'[k] = c, Using(k)'
      PROVE  Held(c) \/ c \in up' \cap reading' \cap serving'
  <2>1. CASE UNCHANGED <<pc, on>>
    BY <1>2, <2>1 DEF Held, Using
  <2>2. ASSUME NEW l \in Call, Cached(l)
        PROVE  Held(c)
    <3>1. CASE l = k
      BY <1>0, <1>2, <2>2, <3>1 DEF Cached, Held, CallTypes
    <3>2. CASE l # k
      BY <1>0, <1>2, <2>2, <3>2 DEF Cached, Held, Using, CallTypes
    <3> QED
      BY <3>1, <3>2
  <2>3. ASSUME NEW l \in Call, DialOk(l)
        PROVE  Held(c) \/ c \in up' \cap reading' \cap serving'
    <3>1. CASE l = k
      BY <1>0, <1>2, <2>3, <3>1 DEF DialOk, CallTypes
    <3>2. CASE l # k
      BY <1>0, <1>2, <2>3, <3>2 DEF DialOk, Held, Using, CallTypes
    <3> QED
      BY <3>1, <3>2
  <2>4. ASSUME NEW l \in Call,
               \/ Dial(l) \/ DialErr(l) \/ Register(l) \/ WriteOk(l) \/ WriteErr(l)
               \/ DropPeer(l) \/ Return(l) \/ Cancel(l) \/ CancelWrite(l)
        PROVE  Held(c)
    <3>1. on[k] = c /\ pc'[k] \in {"ready", "write", "wait", "drop"}
      BY <1>2, <2>4, Zenon DEF Dial, DialErr, Register, WriteOk, WriteErr, DropPeer, Return, Cancel,
                        CancelWrite, Using
    <3>2. pc[k] \in {"ready", "write", "wait", "drop"}
      BY <1>0, <2>4, <3>1, Zenon DEF Dial, DialErr, Register, WriteOk, WriteErr, Writes, DropPeer,
                              Return, Cancel, CancelWrite, CallTypes
    <3> QED
      BY <3>1, <3>2, Zenon DEF Held, Using
  <2> QED
    BY <2>1, <2>2, <2>3, <2>4, CallTouched
<1> QED
  BY <1>0, <1>1, <1>2 DEF Held

\* Neither end of a connection stops while it is held and nothing has broken it.
LEMMA HeldNext ==
  ASSUME TypeOK, PcOn, HeldWhole, [Next]_vars
  PROVE  HeldWhole'
<1>0. hurt \subseteq hurt' /\ wire \in [Conn -> Seq(Frame \cup {Garbage})]
  BY NeverTouched DEF TypeOK
<1>1. ASSUME NEW c \in Conn, NEW n \in 1..Len(wire'[c]), wire'[c][n] = Garbage
      PROVE  c \in hurt'
  <2>1. ASSUME NEW k \in Call PROVE [id |-> id[k], call |-> k] # Garbage
    BY TcpAssumption DEF Garbage
  <2>2. ASSUME NEW k \in Call, CancelWrite(k), on[k] = c PROVE c \in hurt'
    BY <2>2, Zenon DEF CancelWrite
  <2>3. \/ \E j \in 1..Len(wire[c]) : wire[c][j] = Garbage
        \/ \E k \in Call : CancelWrite(k) /\ on[k] = c
    BY <1>0, <1>1, <2>1, FrameSource, ZenonT(30)
  <2> QED
    BY <1>0, <2>2, <2>3 DEF HeldWhole
<1>2. ASSUME NEW c \in Conn, c \notin hurt', Held(c)'
      PROVE  c \in up' \cap reading' \cap serving'
  <2>1. CASE ~Held(c)
    BY <1>0, <1>2, <2>1, HeldBefore
  <2>2. CASE Held(c)
    <3>0. c \in up /\ c \in reading /\ c \in serving /\ c \notin hurt
      BY <1>0, <1>2, <2>2 DEF HeldWhole
    <3>1. ASSUME NEW d \in Conn, ReaderEnds(d) \/ Close(d) \/ Break(d)
          PROVE  c \in up' \cap reading' \cap serving'
      BY <1>2, <3>0, <3>1 DEF ReaderEnds, Close, Break, far, peer
    <3>2. ASSUME NEW d \in Conn, ServeEnds(d) \/ ServeGarbled(d)
          PROVE  c \in up' \cap reading' \cap serving'
      <4>1. d # c
        <5>1. CASE ServeEnds(d)
          BY <2>2, <3>0, <5>1 DEF ServeEnds
        <5>2. CASE ServeGarbled(d)
          <6>1. 1 \in 1..Len(wire[d]) /\ wire[d][1] = Garbage
            BY <1>0, <5>2 DEF ServeGarbled
          <6> QED
            BY <1>0, <3>0, <6>1 DEF HeldWhole
        <5> QED
          BY <3>2, <5>1, <5>2
      <4> QED
        BY <3>0, <3>2, <4>1 DEF ServeEnds, ServeGarbled, peer
    <3>3. ASSUME NEW k \in Call,
                 \/ Cached(k) \/ Dial(k) \/ DialOk(k) \/ DialErr(k) \/ Register(k)
                 \/ WriteOk(k) \/ WriteErr(k) \/ DropPeer(k) \/ Return(k)
                 \/ Cancel(k) \/ CancelWrite(k)
          PROVE  c \in up' \cap reading' \cap serving'
      BY <3>0, <3>3, Zenon DEF Cached, Dial, DialOk, DialErr, Register, WriteOk, WriteErr, DropPeer,
                        Return, Cancel, CancelWrite, far, peer
    <3>4. CASE \/ \E d \in Conn : ReadReply(d) \/ Serve(d)
               \/ Take \/ \E t \in tasks : Answer(t) \/ Decline(t)
      BY <3>0, <3>4, Zenon DEF ReadReply, Serve, Take, Answer, Decline, Respond, far, peer
    <3>5. CASE UNCHANGED vars
      BY <3>0, <3>5 DEF vars, far, peer
    <3> QED
      BY <3>1, <3>2, <3>3, <3>4, <3>5 DEF Next
  <2> QED
    BY <2>1, <2>2
<1> QED
  BY <1>1, <1>2, Zenon DEF HeldWhole

\* Each connection is cached where it was dialled, and nowhere else.
LEMMA CacheNext ==
  ASSUME TypeOK, PcOn, CacheSound, [Next]_vars
  PROVE  CacheSound'
<1> USE DEF Goto
<1>0. CallTypes /\ to' = to /\ None \notin Conn
  BY TypesSplit, NeverTouched, TcpAssumption
<1>1. ASSUME NEW k \in Call, Cached(k) PROVE CacheSound'
  <2>1. /\ cache' = cache /\ to[k] \in Peer /\ cache[to[k]] # None /\ on[k] = None
        /\ on' = [on EXCEPT ![k] = cache[to[k]]]
    BY <1>0, <1>1 DEF Cached, CallTypes, PcOn
  <2>2. on'[k] = cache[to[k]] /\ \A l \in Call : l # k => on'[l] = on[l]
    BY <1>0, <2>1 DEF CallTypes
  <2> QED
    BY <1>0, <2>1, <2>2 DEF CacheSound
<1>2. ASSUME NEW k \in Call, DialOk(k) PROVE CacheSound'
  <2>1. PICK c \in Fresh : /\ on' = [on EXCEPT ![k] = c]
                           /\ cache' = [cache EXCEPT ![to[k]] = c]
    BY <1>2, Zenon DEF DialOk
  <2>2. c \in Conn /\ on[k] = None /\ to[k] \in Peer /\ \A l \in Call : on[l] # c
    BY <1>0, <1>2, <2>1 DEF DialOk, Fresh, CallTypes, PcOn
  <2>3. \A p \in Peer : cache[p] # c
    BY <1>0, <2>2 DEF CacheSound
  <2>4. /\ on'[k] = c /\ \A l \in Call : l # k => on'[l] = on[l]
        /\ cache'[to[k]] = c /\ \A p \in Peer : p # to[k] => cache'[p] = cache[p]
    BY <1>0, <2>1, <2>2 DEF CallTypes
  <2>5. ASSUME NEW p \in Peer, cache'[p] # None PROVE \E l \in Call : on'[l] = cache'[p]
    BY <1>0, <2>2, <2>4, <2>5 DEF CacheSound
  <2>6. ASSUME NEW p \in Peer, NEW q \in Peer, cache'[p] = cache'[q], cache'[p] # None
        PROVE  p = q
    BY <1>0, <2>2, <2>3, <2>4, <2>6 DEF CacheSound
  <2>7. ASSUME NEW p \in Peer, NEW l \in Call, cache'[p] = on'[l], on'[l] # None
        PROVE  p = to[l]
    BY <1>0, <2>2, <2>3, <2>4, <2>7 DEF CacheSound
  <2> QED
    BY <1>0, <2>5, <2>6, <2>7 DEF CacheSound
<1>3. ASSUME NEW k \in Call, DropPeer(k) PROVE CacheSound'
  <2>1. on' = on /\ \A p \in Peer : cache'[p] = cache[p] \/ cache'[p] = None
    BY <1>0, <1>3 DEF DropPeer, CallTypes
  <2>2. ASSUME NEW p \in Peer, cache'[p] # None PROVE cache'[p] = cache[p]
    BY <2>1, <2>2, Zenon
  <2>3. \A p \in Peer : cache'[p] # None => \E l \in Call : on'[l] = cache'[p]
    BY <1>0, <2>1, <2>2, Zenon DEF CacheSound
  <2>4. ASSUME NEW p \in Peer, NEW q \in Peer, cache'[p] = cache'[q], cache'[p] # None
        PROVE  p = q
    <3>1. cache'[q] # None
      BY <2>4, Zenon
    <3>2. cache[p] = cache[q] /\ cache[p] # None
      BY <2>2, <2>4, <3>1, Zenon
    <3> QED
      BY <1>0, <3>2, Zenon DEF CacheSound
  <2>5. ASSUME NEW p \in Peer, NEW l \in Call, cache'[p] = on'[l], on'[l] # None
        PROVE  p = to'[l]
    <3>1. cache'[p] # None
      BY <2>5, Zenon
    <3>2. cache[p] = on[l] /\ on[l] # None
      BY <2>1, <2>2, <2>5, <3>1, Zenon
    <3>3. p = to[l]
      BY <3>2, Zenon DEF CacheSound
    <3> QED
      BY <1>0, <3>3
  <2> QED
    BY <2>3, <2>4, <2>5, Zenon DEF CacheSound
<1>4. CASE UNCHANGED <<on, cache>>
  BY <1>0, <1>4, Zenon DEF CacheSound
<1>5. ASSUME NEW k \in Call, \/ Dial(k) \/ DialErr(k) \/ Register(k) \/ WriteOk(k) \/ WriteErr(k)
                            \/ Return(k) \/ Cancel(k) \/ CancelWrite(k)
      PROVE  UNCHANGED <<on, cache>>
  BY <1>5, Zenon DEF Dial, DialErr, Register, WriteOk, WriteErr, Return, Cancel, CancelWrite
<1> QED
  BY <1>1, <1>2, <1>3, <1>4, <1>5, CallTouched, CacheTouched

\* Once a failed write was reported, its connection is not cached again.
LEMMA CorpseNext ==
  ASSUME TypeOK, PcOn, CacheSound, CorpseGone, EntriesOwned, ResponsesOwned, [Next]_vars
  PROVE  CorpseGone'
<1> USE DEF Goto
<1>0. CallTypes /\ to' = to /\ None \notin Conn
  BY TypesSplit, NeverTouched, TcpAssumption, Zenon
<1>1. SUFFICES ASSUME NEW k \in Call, pc'[k] = "err", on'[k] # None, chan'[k] = Open,
                      NEW p \in Peer, cache'[p] = on'[k]
               PROVE  FALSE
  BY Zenon DEF CorpseGone
<1>2. chan[k] = Open
  BY <1>0, <1>1, OpenStays, Zenon
<1>3. ASSUME pc[k] = "err", on'[k] = on[k] PROVE FALSE
  <2>1. cache[p] # on[k]
    BY <1>0, <1>1, <1>2, <1>3 DEF CorpseGone
  <2>2. ASSUME NEW l \in Call, DialOk(l) PROVE cache'[p] # on[k]
    BY <1>0, <2>1, <2>2 DEF DialOk, Fresh, CallTypes
  <2>3. ASSUME NEW l \in Call, DropPeer(l) PROVE cache'[p] # on[k]
    BY <1>0, <1>1, <1>3, <2>1, <2>3, Zenon DEF DropPeer, CallTypes
  <2> QED
    BY <1>1, <1>3, <2>1, <2>2, <2>3, CacheTouched, ZenonT(30)
<1>4. CASE UNCHANGED <<pc, on>>
  BY <1>1, <1>3, <1>4
<1>5. ASSUME NEW l \in Call, l # k,
             \/ Cached(l) \/ Dial(l) \/ DialOk(l) \/ DialErr(l) \/ Register(l)
             \/ WriteOk(l) \/ WriteErr(l) \/ DropPeer(l) \/ Return(l)
             \/ Cancel(l) \/ CancelWrite(l)
      PROVE  FALSE
  <2>1. pc'[k] = pc[k] /\ on'[k] = on[k]
    BY <1>0, <1>5, Zenon DEF Cached, Dial, DialOk, DialErr, Register, WriteOk, WriteErr, DropPeer,
                      Return, Cancel, CancelWrite, CallTypes
  <2> QED
    BY <1>1, <1>3, <2>1, Zenon
<1>6. CASE DropPeer(k)
  <2>1. on' = on /\ cache' = [cache EXCEPT ![to[k]] = None]
    BY <1>6 DEF DropPeer
  <2>2. p = to[k] => cache'[p] = None
    BY <1>0, <2>1 DEF CallTypes
  <2>3. p # to[k] => cache'[p] = cache[p]
    BY <1>0, <2>1, Zenon DEF CallTypes
  <2> QED
    BY <1>0, <1>1, <2>1, <2>2, <2>3, Zenon DEF CacheSound
<1>7. CASE DialErr(k) \/ Return(k)
  BY <1>0, <1>1, <1>2, <1>7, Zenon DEF DialErr, Return, PcOn
<1>8. CASE \/ Cached(k) \/ Dial(k) \/ DialOk(k) \/ Register(k) \/ WriteOk(k) \/ WriteErr(k)
           \/ Cancel(k) \/ CancelWrite(k)
  BY <1>0, <1>1, <1>8, Zenon DEF Cached, Dial, DialOk, Register, WriteOk, WriteErr, Cancel,
                          CancelWrite, CallTypes
<1> QED
  BY <1>4, <1>5, <1>6, <1>7, <1>8, CallTouched

----------------------------------------------------------------------------
(* A request is in one place *)

\* No rpc occurs twice among the frames.
Distinct(frames) ==
  \A m, n \in 1..Len(frames) :
    frames[m].call = frames[n].call /\ frames[m].call \in Rpc => m = n

\* The request of an rpc is written once, and from then on it is in one place:
\* on its connection, in the inbox, with an answering task, or nowhere.
Once ==
  /\ \A k \in Rpc :
       /\ OnWire(k) \/ Holds(inbox, k) \/ Taken(k) => ~Unwritten(k)
       /\ Taken(k) => ~Holds(inbox, k)
       /\ Holds(inbox, k) \/ Taken(k) => ~OnWire(k)
  /\ Distinct(inbox)
  /\ \A c \in Conn : Distinct(wire[c])

\* What a queue holds after a frame was put at its end ...
LEMMA HoldsAppend ==
  ASSUME NEW S, NEW s \in Seq(S), NEW e \in S
  PROVE  /\ \A k : Holds(Append(s, e), k) <=> Holds(s, k) \/ e.call = k
         /\ Distinct(s) /\ (e.call \in Rpc => ~Holds(s, e.call)) => Distinct(Append(s, e))
<1> DEFINE t == Append(s, e)
<1>1. /\ Len(s) \in Nat /\ Len(t) = Len(s) + 1 /\ t[Len(s) + 1] = e
      /\ \A n \in 1..Len(s) : t[n] = s[n]
  OBVIOUS
<1> HIDE DEF t
<1>2. \A n : n \in 1..Len(t) <=> n \in 1..Len(s) \/ n = Len(s) + 1
  BY <1>1
<1>3. Len(s) + 1 \notin 1..Len(s)
  BY <1>1
<1>4. \A k : Holds(t, k) <=> Holds(s, k) \/ e.call = k
  BY <1>1, <1>2, Zenon DEF Holds
<1>5. Distinct(s) /\ (e.call \in Rpc => ~Holds(s, e.call)) => Distinct(t)
  BY <1>1, <1>2, <1>3, Zenon DEF Holds, Distinct
<1> QED
  BY <1>4, <1>5 DEF t

\* ... and after the first one was taken from it.
LEMMA HoldsTail ==
  ASSUME NEW S, NEW s \in Seq(S), s # << >>
  PROVE  /\ \A k : Holds(s, k) <=> Holds(Tail(s), k) \/ Head(s).call = k
         /\ Distinct(s) => /\ Distinct(Tail(s))
                           /\ Head(s).call \in Rpc => ~Holds(Tail(s), Head(s).call)
<1> DEFINE t == Tail(s)
<1>1. /\ Len(s) \in Nat \ {0} /\ Len(t) = Len(s) - 1 /\ Head(s) = s[1]
      /\ \A n \in 1..Len(t) : t[n] = s[n + 1]
  OBVIOUS
<1> DEFINE h == Head(s)
<1> HIDE DEF t, h
<1>0. h = s[1] /\ 1 \in 1..Len(s)
  BY <1>1 DEF h
<1>2. \A n \in 1..Len(t) : n + 1 \in 1..Len(s) /\ n + 1 # 1
  BY <1>1
<1>3. \A n \in 1..Len(s) : n = 1 \/ \E m \in 1..Len(t) : n = m + 1
  <2> SUFFICES ASSUME NEW n \in 1..Len(s), n # 1 PROVE \E m \in 1..Len(t) : n = m + 1
    OBVIOUS
  <2>1. n - 1 \in 1..Len(t) /\ n = (n - 1) + 1
    BY <1>1
  <2> QED
    BY <2>1
<1>4. \A m, n \in 1..Len(t) : m + 1 = n + 1 => m = n
  BY <1>1
<1>5. ASSUME NEW k PROVE Holds(s, k) <=> Holds(t, k) \/ h.call = k
  <2>1. ASSUME NEW n \in 1..Len(s), s[n].call = k PROVE Holds(t, k) \/ h.call = k
    <3>1. CASE n = 1
      BY <1>0, <2>1, <3>1, Zenon
    <3>2. ASSUME NEW m \in 1..Len(t), n = m + 1 PROVE Holds(t, k)
      BY <1>1, <2>1, <3>2, Zenon DEF Holds
    <3> QED
      BY <1>3, <3>1, <3>2, Zenon
  <2>2. ASSUME NEW m \in 1..Len(t), t[m].call = k PROVE Holds(s, k)
    BY <1>1, <1>2, <2>2, Zenon DEF Holds
  <2>3. h.call = k => Holds(s, k)
    BY <1>0, Zenon DEF Holds
  <2> QED
    BY <2>1, <2>2, <2>3, Zenon DEF Holds
<1>6. Distinct(s) => Distinct(t)
  <2> SUFFICES ASSUME Distinct(s), NEW m \in 1..Len(t), NEW n \in 1..Len(t),
                      t[m].call = t[n].call, t[m].call \in Rpc
               PROVE  m = n
    BY Zenon DEF Distinct
  <2>1. s[m + 1].call = s[n + 1].call /\ s[m + 1].call \in Rpc
    BY <1>1, Zenon
  <2>2. m + 1 = n + 1
    BY <1>2, <2>1, Zenon DEF Distinct
  <2> QED
    BY <1>4, <2>2, Zenon
<1>7. Distinct(s) /\ h.call \in Rpc => ~Holds(t, h.call)
  BY <1>0, <1>1, <1>2, Zenon DEF Distinct, Holds
<1> QED
  BY <1>5, <1>6, <1>7 DEF t, h

\* Nothing is held by an empty queue.
LEMMA HoldsEmpty ==
  Distinct(<< >>) /\ \A k : ~Holds(<< >>, k)
<1>1. 1..Len(<< >>) = {}
  OBVIOUS
<1> QED
  BY <1>1, Zenon DEF Distinct, Holds

\* A frame goes out on a connection.
LEMMA WireAppended ==
  ASSUME TypeOK, NEW c \in Conn, NEW e \in Frame \cup {Garbage},
         wire' = [wire EXCEPT ![c] = Append(@, e)]
  PROVE  /\ \A k : OnWire(k)' <=> OnWire(k) \/ e.call = k
         /\ (\A d \in Conn : Distinct(wire[d])) /\ (e.call \in Rpc => ~OnWire(e.call))
              => \A d \in Conn : Distinct(wire'[d])
<1>1. wire \in [Conn -> Seq(Frame \cup {Garbage})]
  BY Zenon DEF TypeOK
<1>2. \A d \in Conn : wire'[d] = IF d = c THEN Append(wire[c], e) ELSE wire[d]
  BY <1>1, Zenon
<1>3. wire[c] \in Seq(Frame \cup {Garbage})
  BY <1>1, Zenon
<1>4. /\ \A k : Holds(wire'[c], k) <=> Holds(wire[c], k) \/ e.call = k
      /\ Distinct(wire[c]) /\ (e.call \in Rpc => ~Holds(wire[c], e.call)) => Distinct(wire'[c])
  <2>1. /\ \A k : Holds(Append(wire[c], e), k) <=> Holds(wire[c], k) \/ e.call = k
        /\ Distinct(wire[c]) /\ (e.call \in Rpc => ~Holds(wire[c], e.call))
             => Distinct(Append(wire[c], e))
    BY <1>3, HoldsAppend, Zenon
  <2>2. wire'[c] = Append(wire[c], e)
    BY <1>2, Zenon
  <2> QED
    BY <2>1, <2>2, Zenon
<1>5. \A d \in Conn : d # c => wire'[d] = wire[d]
  BY <1>2, Zenon
<1>6. ASSUME NEW k PROVE OnWire(k)' <=> OnWire(k) \/ e.call = k
  <2>1. OnWire(k)' <=> \E d \in Conn : Holds(wire'[d], k)
    BY DEF OnWire, Holds
  <2> QED
    BY <1>4, <1>5, <2>1, Zenon DEF OnWire
<1>7. (e.call \in Rpc => ~OnWire(e.call)) => (e.call \in Rpc => ~Holds(wire[c], e.call))
  BY Zenon DEF OnWire
<1> QED
  BY <1>4, <1>5, <1>6, <1>7, Zenon

\* What is on a connection is lost.
LEMMA WireCleared ==
  ASSUME TypeOK, NEW c \in Conn, wire' = [wire EXCEPT ![c] = << >>]
  PROVE  /\ \A k : OnWire(k)' => OnWire(k)
         /\ (\A d \in Conn : Distinct(wire[d])) => \A d \in Conn : Distinct(wire'[d])
<1>1. wire \in [Conn -> Seq(Frame \cup {Garbage})]
  BY Zenon DEF TypeOK
<1>2. wire'[c] = << >> /\ \A d \in Conn : d # c => wire'[d] = wire[d]
  BY <1>1, Zenon
<1>3. ASSUME NEW k PROVE OnWire(k)' => OnWire(k)
  <2>1. OnWire(k)' <=> \E d \in Conn : Holds(wire'[d], k)
    BY DEF OnWire, Holds
  <2> QED
    BY <1>2, <2>1, HoldsEmpty, Zenon DEF OnWire
<1> QED
  BY <1>2, <1>3, HoldsEmpty, Zenon

\* serve takes the first frame of a connection; a request has no second one.
LEMMA WireRead ==
  ASSUME TypeOK, FramesOwned, NEW c \in Conn, wire[c] # << >>,
         \A d \in Conn : Distinct(wire[d]),
         wire' = [wire EXCEPT ![c] = Tail(@)]
  PROVE  /\ \A k \in Rpc : OnWire(k)' <=> OnWire(k) /\ k # Head(wire[c]).call
         /\ OnWire(Head(wire[c]).call)
         /\ \A d \in Conn : Distinct(wire'[d])
<1>1. wire \in [Conn -> Seq(Frame \cup {Garbage})]
  BY Zenon DEF TypeOK
<1>2. wire'[c] = Tail(wire[c]) /\ \A d \in Conn : d # c => wire'[d] = wire[d]
  BY <1>1, Zenon
<1>3. wire[c] \in Seq(Frame \cup {Garbage})
  BY <1>1, Zenon
<1> DEFINE f == Head(wire[c])
<1>4. /\ \A k : Holds(wire[c], k) <=> Holds(wire'[c], k) \/ f.call = k
      /\ Distinct(wire'[c])
      /\ f.call \in Rpc => ~Holds(wire'[c], f.call)
  <2>1. /\ \A k : Holds(wire[c], k) <=> Holds(Tail(wire[c]), k) \/ f.call = k
        /\ Distinct(wire[c]) => /\ Distinct(Tail(wire[c]))
                                /\ f.call \in Rpc => ~Holds(Tail(wire[c]), f.call)
    BY <1>3, HoldsTail, Zenon
  <2> QED
    BY <1>2, <2>1, Zenon
<1> HIDE DEF f
<1>5. ASSUME NEW k \in Rpc, NEW d \in Conn, Holds(wire[d], k) PROVE on[k] = d
  <2>1. PICK n \in 1..Len(wire[d]) : wire[d][n].call = k
    BY <1>5, Zenon DEF Holds
  <2> QED
    BY <2>1, Zenon DEF FramesOwned, Owns
<1>6. ASSUME NEW k \in Rpc PROVE OnWire(k)' <=> OnWire(k) /\ k # f.call
  <2>1. OnWire(k)' <=> \E d \in Conn : Holds(wire'[d], k)
    BY DEF OnWire, Holds
  <2> QED
    BY <1>2, <1>4, <1>5, <2>1, ZenonT(30) DEF OnWire
<1>7. OnWire(f.call)
  BY <1>4, Zenon DEF OnWire
<1> QED
  BY <1>2, <1>4, <1>6, <1>7, Zenon DEF f

\* A frame or half of one is written: the connection holds the request as well,
\* if it still carries bytes.
LEMMA WriteMoves ==
  ASSUME TypeOK, PcOn, Once, NEW l \in Call, WriteOk(l) \/ CancelWrite(l)
  PROVE  /\ inbox' = inbox /\ tasks' = tasks
         /\ \A d \in Conn : Distinct(wire'[d])
         /\ \A k \in Rpc : OnWire(k)' <=> OnWire(k) \/ (k = l /\ WriteOk(l) /\ on[l] \in up)
<1>0. Rpc \subseteq Call /\ None \notin Call /\ up \subseteq Conn /\ id[l] \in Nat
  BY TcpAssumption, Zenon DEF TypeOK
<1>1. inbox' = inbox /\ tasks' = tasks
  BY Zenon DEF WriteOk, CancelWrite
<1>2. CASE wire' = wire /\ ~(WriteOk(l) /\ on[l] \in up)
  <2>1. \A k : OnWire(k)' <=> OnWire(k)
    BY <1>2 DEF OnWire, Holds
  <2> QED
    BY <1>1, <1>2, <2>1, Zenon DEF Once
<1>3. CASE WriteOk(l) /\ on[l] \in up
  <2> DEFINE e == [id |-> id[l], call |-> l]
  <2>1. e \in Frame \cup {Garbage} /\ e.call = l /\ on[l] \in Conn
    BY <1>0, <1>3 DEF Frame
  <2>2. wire' = [wire EXCEPT ![on[l]] = Append(@, e)]
    BY <1>3, Zenon DEF WriteOk
  <2> HIDE DEF e
  <2>3. l \in Rpc => ~OnWire(l)
    BY <1>3, Zenon DEF Once, WriteOk, Writes, Unwritten
  <2>4. /\ \A k : OnWire(k)' <=> OnWire(k) \/ e.call = k
        /\ \A d \in Conn : Distinct(wire'[d])
    BY <2>1, <2>2, <2>3, WireAppended, Zenon DEF Once
  <2> QED
    BY <1>0, <1>1, <1>3, <2>1, <2>4, Zenon
<1>4. CASE CancelWrite(l) /\ ~(WriteOk(l) /\ on[l] \in up)
  <2>1. Garbage \in Frame \cup {Garbage} /\ Garbage.call \notin Rpc /\ on[l] \in Conn
    BY <1>0, <1>4, Zenon DEF Garbage, CancelWrite
  <2>2. wire' = [wire EXCEPT ![on[l]] = Append(@, Garbage)]
    BY <1>4, Zenon DEF CancelWrite
  <2>3. /\ \A k : OnWire(k)' <=> OnWire(k) \/ Garbage.call = k
        /\ \A d \in Conn : Distinct(wire'[d])
    BY <2>1, <2>2, WireAppended, Zenon DEF Once
  <2> QED
    BY <1>0, <1>1, <1>4, <2>1, <2>3, Zenon
<1> QED
  BY <1>2, <1>3, <1>4, Zenon DEF WriteOk

\* serve: a request goes from the connection to the inbox.
LEMMA ServeMoves ==
  ASSUME TypeOK, FramesOwned, Once, NEW c \in Conn, Serve(c)
  PROVE  /\ tasks' = tasks /\ Distinct(inbox')
         /\ \A d \in Conn : Distinct(wire'[d])
         /\ OnWire(Head(wire[c]).call)
         /\ \A k \in Rpc : /\ OnWire(k)' <=> OnWire(k) /\ k # Head(wire[c]).call
                           /\ Holds(inbox', k) <=> Holds(inbox, k) \/ k = Head(wire[c]).call
<1> DEFINE f == Head(wire[c])
           q == [conn |-> c, id |-> f.id, call |-> f.call]
<1>1. /\ tasks' = tasks /\ wire[c] # << >> /\ f # Garbage
      /\ wire' = [wire EXCEPT ![c] = Tail(@)]
      /\ f.call \in Rpc => inbox' = Append(inbox, q)
      /\ f.call \notin Rpc => inbox' = inbox
  BY Zenon DEF Serve
<1>2. /\ \A k \in Rpc : OnWire(k)' <=> OnWire(k) /\ k # f.call
      /\ OnWire(f.call) /\ \A d \in Conn : Distinct(wire'[d])
  BY <1>1, WireRead, Zenon DEF Once
<1>3. inbox \in Seq(Request) /\ wire[c] \in Seq(Frame \cup {Garbage})
  BY Zenon DEF TypeOK
<1>4. f \in Frame
  BY <1>1, <1>3
<1>5. q.call = f.call /\ (f.call \in Rpc => q \in Request)
  BY <1>4 DEF Frame, Request
<1> HIDE DEF q, f
<1>6. CASE f.call \in Rpc
  <2>1. ~Holds(inbox, f.call)
    BY <1>2, <1>6, Zenon DEF Once
  <2>2. /\ \A k : Holds(Append(inbox, q), k) <=> Holds(inbox, k) \/ q.call = k
        /\ Distinct(Append(inbox, q))
    BY <1>3, <1>5, <1>6, <2>1, HoldsAppend, Zenon DEF Once
  <2>3. inbox' = Append(inbox, q)
    BY <1>1, <1>6, Zenon
  <2>4. Distinct(inbox') /\ \A k : Holds(inbox', k) <=> Holds(inbox, k) \/ k = f.call
    BY <1>5, <2>2, <2>3, Zenon
  <2> QED
    BY <1>1, <1>2, <2>4, Zenon DEF f
<1>7. CASE f.call \notin Rpc
  <2>1. inbox' = inbox /\ Distinct(inbox)
    BY <1>1, <1>7, Zenon DEF Once
  <2>2. Distinct(inbox') /\ \A k \in Rpc : Holds(inbox', k) <=> Holds(inbox, k) \/ k = f.call
    BY <1>7, <2>1, Zenon
  <2> QED
    BY <1>1, <1>2, <2>2, Zenon DEF f
<1> QED
  BY <1>6, <1>7, Zenon

\* serve_consensus: a request goes from the inbox to a task of its own.
LEMMA TakeMoves ==
  ASSUME TypeOK, Once, Take
  PROVE  /\ wire' = wire /\ Distinct(inbox')
         /\ Head(inbox).call \in Rpc /\ Holds(inbox, Head(inbox).call)
         /\ \A k \in Rpc : /\ Holds(inbox', k) <=> Holds(inbox, k) /\ k # Head(inbox).call
                           /\ Taken(k)' <=> Taken(k) \/ k = Head(inbox).call
<1> DEFINE h == Head(inbox)
<1>1. /\ inbox # << >> /\ tasks' = tasks \cup {h} /\ inbox' = Tail(inbox) /\ wire' = wire
      /\ inbox \in Seq(Request)
  BY Zenon DEF Take, TypeOK
<1>2. h \in Request /\ h.call \in Rpc
  <2>1. h \in Request
    BY <1>1
  <2> QED
    BY <2>1 DEF Request
<1>3. /\ \A k : Holds(inbox, k) <=> Holds(Tail(inbox), k) \/ h.call = k
      /\ Distinct(Tail(inbox)) /\ (h.call \in Rpc => ~Holds(Tail(inbox), h.call))
  BY <1>1, HoldsTail, Zenon DEF Once
<1> HIDE DEF h
<1>4. /\ \A k : Holds(inbox, k) <=> Holds(inbox', k) \/ h.call = k
      /\ Distinct(inbox') /\ (h.call \in Rpc => ~Holds(inbox', h.call))
  BY <1>1, <1>3, Zenon
<1>5. ASSUME NEW k PROVE Taken(k)' <=> Taken(k) \/ k = h.call
  BY <1>1, Zenon DEF Taken
<1> QED
  BY <1>1, <1>2, <1>4, <1>5, Zenon DEF h

\* A request that a task answered is nowhere any more: no other task has it.
LEMMA RespondMoves ==
  ASSUME TypeOK, RequestsOwned, NEW t \in tasks, NEW payload, Respond(t, payload)
  PROVE  /\ wire' = wire /\ inbox' = inbox /\ t.call \in Rpc /\ Taken(t.call)
         /\ \A k \in Rpc : Taken(k)' <=> Taken(k) /\ k # t.call
<1>1. wire' = wire /\ inbox' = inbox /\ tasks' = tasks \ {t} /\ tasks \subseteq Request
  BY Zenon DEF Respond, far, TypeOK
<1>2. ASSUME NEW u \in tasks, u.call = t.call PROVE u = t
  <2>1. Owns(u.call, u.conn, u.id) /\ Owns(t.call, t.conn, t.id)
    BY Zenon DEF RequestsOwned
  <2>2. u.conn = t.conn /\ u.id = t.id
    BY <1>2, <2>1, Zenon DEF Owns
  <2>3. u \in Request /\ t \in Request
    BY <1>1, Zenon
  <2> QED
    BY <1>2, <2>2, <2>3 DEF Request
<1>3. ASSUME NEW k PROVE Taken(k)' <=> Taken(k) /\ k # t.call
  BY <1>1, <1>2, Zenon DEF Taken
<1>4. t.call \in Rpc
  <2>1. t \in Request
    BY <1>1, Zenon
  <2> QED
    BY <2>1 DEF Request
<1> QED
  BY <1>1, <1>3, <1>4, Zenon DEF Taken

\* What is written stays written.
LEMMA WrittenStays ==
  ASSUME TypeOK, [Next]_vars, NEW k \in Rpc, ~Unwritten(k)
  PROVE  ~Unwritten(k)'
<1> USE DEF Goto, Unwritten
<1>0. CallTypes /\ k \in Call
  BY TypesSplit, TcpAssumption
<1>1. CASE UNCHANGED <<pc, on>>
  BY <1>1
<1>2. ASSUME NEW l \in Call,
             Cached(l) \/ Dial(l) \/ DialOk(l) \/ Register(l)
      PROVE  ~Unwritten(k)'
  <2>1. pc[l] \in {"idle", "dial", "ready"} /\ \E x : pc' = [pc EXCEPT ![l] = x]
    BY <1>2, Zenon DEF Cached, Dial, DialOk, Register
  <2>2. pc'[k] = pc[k]
    BY <1>0, <2>1 DEF CallTypes
  <2> QED
    BY <2>2
<1>3. ASSUME NEW l \in Call,
             \/ DialErr(l) \/ WriteOk(l) \/ WriteErr(l) \/ DropPeer(l) \/ Return(l)
             \/ Cancel(l) \/ CancelWrite(l)
      PROVE  ~Unwritten(k)'
  <2>1. \E x \in {"wait", "ok", "err", "drop", "gone"} : pc' = [pc EXCEPT ![l] = x]
    BY <1>3, Zenon DEF DialErr, WriteOk, WriteErr, DropPeer, Return, Cancel, CancelWrite
  <2> QED
    BY <1>0, <2>1 DEF CallTypes
<1> QED
  BY <1>1, <1>2, <1>3, CallTouched

\* No step puts a request in a second place or brings it back to an earlier one.
LEMMA OnceNext ==
  ASSUME TypeOK, PcOn, FramesOwned, RequestsOwned, Once, [Next]_vars
  PROVE  Once'
<1> DEFINE Places ==
      \A k \in Rpc :
        /\ OnWire(k)' \/ Holds(inbox', k) \/ Taken(k)' => ~Unwritten(k)'
        /\ Taken(k)' => ~Holds(inbox', k)
        /\ Holds(inbox', k) \/ Taken(k)' => ~OnWire(k)'
<1>1. SUFFICES Places /\ Distinct(inbox') /\ \A c \in Conn : Distinct(wire'[c])
  BY Zenon DEF Once, Distinct, Holds
<1>2. \A k \in Rpc : ~Unwritten(k) => ~Unwritten(k)'
  BY WrittenStays
<1>3. ASSUME inbox' = inbox, tasks' = tasks, \A k \in Rpc : OnWire(k)' => OnWire(k),
             \A c \in Conn : Distinct(wire'[c])
      PROVE  Places /\ Distinct(inbox') /\ \A c \in Conn : Distinct(wire'[c])
  <2>1. \A k : Taken(k)' <=> Taken(k)
    BY <1>3 DEF Taken
  <2> QED
    BY <1>2, <1>3, <2>1, Zenon DEF Once
<1>4. CASE UNCHANGED <<wire, inbox, tasks>>
  <2>1. \A k \in Rpc : OnWire(k)' => OnWire(k)
    BY <1>4 DEF OnWire, Holds
  <2> QED
    BY <1>3, <1>4, <2>1, Zenon DEF Once
<1>5. ASSUME NEW l \in Call, WriteOk(l) \/ CancelWrite(l)
      PROVE  Places /\ Distinct(inbox') /\ \A c \in Conn : Distinct(wire'[c])
  <2>1. /\ inbox' = inbox /\ tasks' = tasks
        /\ \A d \in Conn : Distinct(wire'[d])
        /\ \A k \in Rpc : OnWire(k)' <=> OnWire(k) \/ (k = l /\ WriteOk(l) /\ on[l] \in up)
    BY <1>5, WriteMoves, Zenon
  <2>2. \A k : Taken(k)' <=> Taken(k)
    BY <2>1 DEF Taken
  <2>3. l \in Rpc /\ WriteOk(l) => Unwritten(l) /\ ~Unwritten(l)'
    <3>1. CallTypes
      BY TypesSplit
    <3> QED
      BY <3>1 DEF WriteOk, Writes, Goto, Unwritten, CallTypes
  <2> QED
    BY <1>2, <2>1, <2>2, <2>3, Zenon DEF Once
<1>6. ASSUME NEW c \in Conn, Serve(c)
      PROVE  Places /\ Distinct(inbox') /\ \A d \in Conn : Distinct(wire'[d])
  <2> DEFINE x == Head(wire[c]).call
  <2>1. /\ tasks' = tasks /\ Distinct(inbox')
        /\ \A d \in Conn : Distinct(wire'[d])
        /\ OnWire(x)
        /\ \A k \in Rpc : /\ OnWire(k)' <=> OnWire(k) /\ k # x
                          /\ Holds(inbox', k) <=> Holds(inbox, k) \/ k = x
    BY <1>6, ServeMoves, Zenon
  <2>2. \A k : Taken(k)' <=> Taken(k)
    BY <2>1 DEF Taken
  <2> HIDE DEF x
  <2> QED
    BY <1>2, <2>1, <2>2, Zenon DEF Once
<1>7. ASSUME NEW c \in Conn, ServeEnds(c) \/ ServeGarbled(c) \/ Break(c)
      PROVE  Places /\ Distinct(inbox') /\ \A d \in Conn : Distinct(wire'[d])
  <2>1. inbox' = inbox /\ tasks' = tasks /\ wire' = [wire EXCEPT ![c] = << >>]
    BY <1>7, Zenon DEF ServeEnds, ServeGarbled, Break
  <2> QED
    BY <1>3, <2>1, WireCleared, Zenon DEF Once
<1>8. CASE Take
  <2> DEFINE x == Head(inbox).call
  <2>1. /\ wire' = wire /\ Distinct(inbox') /\ x \in Rpc /\ Holds(inbox, x)
        /\ \A k \in Rpc : /\ Holds(inbox', k) <=> Holds(inbox, k) /\ k # x
                          /\ Taken(k)' <=> Taken(k) \/ k = x
    BY <1>8, TakeMoves, Zenon
  <2>2. \A k \in Rpc : OnWire(k)' <=> OnWire(k)
    BY <2>1 DEF OnWire, Holds
  <2> HIDE DEF x
  <2> QED
    BY <1>2, <2>1, <2>2, Zenon DEF Once
<1>9. ASSUME NEW t \in tasks, NEW payload, Respond(t, payload)
      PROVE  Places /\ Distinct(inbox') /\ \A d \in Conn : Distinct(wire'[d])
  <2>1. /\ wire' = wire /\ inbox' = inbox
        /\ \A k \in Rpc : Taken(k)' <=> Taken(k) /\ k # t.call
    BY <1>9, RespondMoves, Zenon
  <2>2. \A k \in Rpc : OnWire(k)' <=> OnWire(k)
    BY <2>1 DEF OnWire, Holds
  <2> QED
    BY <1>2, <2>1, <2>2, Zenon DEF Once
<1>10. ASSUME <<wire, inbox, tasks>>' # <<wire, inbox, tasks>>
       PROVE  \/ Take \/ \E l \in Call : WriteOk(l) \/ CancelWrite(l)
              \/ \E c \in Conn : Serve(c) \/ ServeEnds(c) \/ ServeGarbled(c) \/ Break(c)
              \/ \E t \in tasks : \E payload : Respond(t, payload)
  BY <1>10, ZenonT(30) DEF Next, vars, call, peer, far, Cached, Dial, DialOk, DialErr, Register,
         WriteErr, DropPeer, Return, Cancel, ReadReply, ReaderEnds, Close, Answer, Decline
<1> HIDE DEF Places
<1> QED
  BY <1>4, <1>5, <1>6, <1>7, <1>8, <1>9, <1>10, Zenon

----------------------------------------------------------------------------
(* The refinement *)

\* What a step leaves alone of how AtMostOnce sees a call.
KeepsRequest(k) == Progress(k)' = Progress(k)
KeepsReplies(k) == Under(k)' = Under(k)
KeepsHeard(k) == chan'[k] = chan[k]
KeepsOutcome(k) == Outcome(k)' = Outcome(k)

\* A step that leaves everything alone is no step of AtMostOnce ...
LEMMA AsNothing ==
  ASSUME \A k \in Rpc : KeepsRequest(k) /\ KeepsReplies(k) /\ KeepsHeard(k) /\ KeepsOutcome(k)
  PROVE  UNCHANGED AMO!amoVars
  BY DEF AMO!amoVars, KeepsRequest, KeepsReplies, KeepsHeard, KeepsOutcome

\* ... and the others are its steps when they change what those change.
LEMMA AsSend ==
  ASSUME NEW k \in Rpc, Outcome(k) = "open", Progress(k) = "unsent", Progress(k)' = "sent",
         \A l \in Rpc \ {k} : KeepsRequest(l),
         \A l \in Rpc : KeepsReplies(l) /\ KeepsHeard(l) /\ KeepsOutcome(l)
  PROVE  AMO!Send(k)
  BY Zenon DEF AMO!Send, KeepsRequest, KeepsReplies, KeepsHeard, KeepsOutcome

\* serve_consensus takes a request up.
LEMMA AsWork ==
  ASSUME NEW k \in Rpc, Progress(k) = "sent", Progress(k)' = "served",
         \A l \in Rpc \ {k} : KeepsRequest(l),
         \A l \in Rpc : KeepsReplies(l) /\ KeepsHeard(l) /\ KeepsOutcome(l)
  PROVE  AMO!Work(k)
  BY Zenon DEF AMO!Work, KeepsRequest, KeepsReplies, KeepsHeard, KeepsOutcome

\* A task answers, and the answer may be lost.
LEMMA AsAnswer ==
  ASSUME NEW k \in Rpc, Progress(k) = "served", Progress(k)' = "over",
         NEW r \in Reply(k) \cup {Closed}, Under(k)' \in {Under(k), Under(k) \cup {r}},
         \A l \in Rpc \ {k} : KeepsRequest(l) /\ KeepsReplies(l),
         \A l \in Rpc : KeepsHeard(l) /\ KeepsOutcome(l)
  PROVE  AMO!Answer(k)
  BY Zenon DEF AMO!Answer, KeepsRequest, KeepsReplies, KeepsHeard, KeepsOutcome

\* A connection fails.
LEMMA AsLose ==
  ASSUME \A k \in Rpc : /\ Progress(k)' = Progress(k) \/ (Progress(k) = "sent" /\ Progress(k)' = "over")
                        /\ Under(k)' \in {Under(k), {}}
                        /\ KeepsHeard(k) /\ KeepsOutcome(k)
  PROVE  AMO!Lose
<1> DEFINE Sunk == {k \in Rpc : ~KeepsRequest(k)}
           Lost == {k \in Rpc : ~KeepsReplies(k)}
<1>1. \A k \in Rpc : Progress(k)' = IF k \in Sunk /\ Progress(k) = "sent" THEN "over" ELSE Progress(k)
  BY DEF KeepsRequest
<1>2. \A k \in Rpc : Under(k)' = IF k \in Lost THEN {} ELSE Under(k)
  BY DEF KeepsReplies
<1>3. Sunk \in SUBSET Rpc /\ Lost \in SUBSET Rpc
  OBVIOUS
<1> HIDE DEF Sunk, Lost
<1> QED
  BY <1>1, <1>2, <1>3, Zenon DEF AMO!Lose, KeepsHeard, KeepsOutcome

\* read_replies gives an answer to its call.
LEMMA AsHear ==
  ASSUME NEW k \in Rpc, NEW r \in Under(k), Under(k)' = Under(k) \ {r},
         chan \in [Call -> {Open, Closed} \cup UNION {Reply(l) : l \in Rpc}],
         chan'[k] = chan[k] \/ (chan[k] = Open /\ chan'[k] = r),
         \A l \in Rpc \ {k} : KeepsReplies(l) /\ KeepsHeard(l),
         \A l \in Rpc : KeepsRequest(l) /\ KeepsOutcome(l)
  PROVE  AMO!Hear(k)
  BY ZenonT(30) DEF AMO!Hear, KeepsRequest, KeepsReplies, KeepsHeard, KeepsOutcome

\* read_replies ends.
LEMMA AsHangUp ==
  ASSUME \A k \in Rpc : /\ chan'[k] = chan[k] \/ (chan[k] = Open /\ chan'[k] = Closed)
                        /\ KeepsRequest(k) /\ KeepsReplies(k) /\ KeepsOutcome(k)
  PROVE  AMO!HangUp
<1> DEFINE Warned == {k \in Rpc : ~KeepsHeard(k)}
<1>1. \A k \in Rpc : chan'[k] = IF k \in Warned /\ chan[k] = Open THEN Closed ELSE chan[k]
  BY Zenon DEF KeepsHeard
<1>2. Warned \in SUBSET Rpc
  OBVIOUS
<1> HIDE DEF Warned
<1> QED
  BY <1>1, <1>2, ZenonT(30) DEF AMO!HangUp, KeepsRequest, KeepsReplies, KeepsOutcome

\* rpc returns an answer of the right shape.
LEMMA AsReturn ==
  ASSUME NEW k \in Rpc, Outcome(k) = "open", Outcome(k)' = "ok",
         chan[k] = [to |-> k, shape |-> Kind[k]],
         \A l \in Rpc \ {k} : KeepsOutcome(l),
         \A l \in Rpc : KeepsRequest(l) /\ KeepsReplies(l) /\ KeepsHeard(l)
  PROVE  AMO!Return(k)
  BY Zenon DEF AMO!Return, KeepsRequest, KeepsReplies, KeepsHeard, KeepsOutcome

\* A call fails or is dropped.
LEMMA AsGiveUp ==
  ASSUME NEW k \in Rpc, Outcome(k) = "open", Outcome(k)' \in {"open", "err", "gone"},
         Progress(k)' = (IF Progress(k) = "unsent" THEN "over" ELSE Progress(k)),
         \A l \in Rpc \ {k} : KeepsRequest(l) /\ KeepsOutcome(l),
         \A l \in Rpc : KeepsReplies(l) /\ KeepsHeard(l)
  PROVE  AMO!GiveUp(k)
  BY Zenon DEF AMO!GiveUp, KeepsRequest, KeepsReplies, KeepsHeard, KeepsOutcome

\* When nothing of what a view is made of changes, the view does not.
LEMMA RequestKept ==
  ASSUME inbox' = inbox, tasks' = tasks, NEW k \in Rpc,
         OnWire(k)' <=> OnWire(k), Unwritten(k)' <=> Unwritten(k)
  PROVE  KeepsRequest(k)
<1>1. (Taken(k)' <=> Taken(k)) /\ (Holds(inbox', k) <=> Holds(inbox, k))
  BY DEF Taken
<1> QED
  BY <1>1 DEF KeepsRequest, Progress, Holds

\* The same for what is under way to a call ...
LEMMA RepliesKept ==
  ASSUME back' = back, NEW k \in Rpc, on'[k] = on[k], id'[k] = id[k],
         pc'[k] = "ready" <=> pc[k] = "ready"
  PROVE  KeepsReplies(k)
  BY DEF KeepsReplies, Under

\* ... and for both when a step is not the call's own.
LEMMA CallIdle ==
  ASSUME UNCHANGED <<pc, on, id>>, NEW k \in Rpc
  PROVE  /\ Unwritten(k)' <=> Unwritten(k)
         /\ KeepsOutcome(k)
         /\ back' = back => KeepsReplies(k)
         /\ chan' = chan => KeepsHeard(k)
  BY RepliesKept DEF Unwritten, KeepsOutcome, Outcome, KeepsHeard

\* A step of one call, on its side.
Steps(l) ==
  \/ Cached(l) \/ Dial(l) \/ DialOk(l) \/ DialErr(l) \/ Register(l)
  \/ WriteOk(l) \/ WriteErr(l) \/ DropPeer(l) \/ Return(l)
  \/ Cancel(l) \/ CancelWrite(l)

\* It changes nothing at the other end but the connection, and nobody hears of it.
LEMMA StepsAlone ==
  ASSUME NEW l \in Call, Steps(l)
  PROVE  /\ chan' = chan /\ back' = back /\ inbox' = inbox /\ tasks' = tasks
         /\ wire' = wire \/ WriteOk(l) \/ CancelWrite(l)
  BY Zenon DEF Steps, peer, far, Cached, Dial, DialOk, DialErr, Register, WriteOk, WriteErr,
         DropPeer, Return, Cancel, CancelWrite

\* The other calls stay where they are.
LEMMA OthersKept ==
  ASSUME TypeOK, PcOn, Once, NEW l \in Call, Steps(l), NEW k \in Rpc, k # l
  PROVE  KeepsRequest(k) /\ KeepsReplies(k) /\ KeepsHeard(k) /\ KeepsOutcome(k)
<1>0. CallTypes /\ k \in Call
  BY TypesSplit, TcpAssumption
<1>1. /\ \E x : pc' = [pc EXCEPT ![l] = x]
      /\ on' = on \/ \E x : on' = [on EXCEPT ![l] = x]
      /\ id' = id \/ \E x : id' = [id EXCEPT ![l] = x]
  BY Zenon DEF Steps, Goto, call, Cached, Dial, DialOk, DialErr, Register, WriteOk, WriteErr,
         DropPeer, Return, Cancel, CancelWrite
<1>2. pc'[k] = pc[k] /\ on'[k] = on[k] /\ id'[k] = id[k]
  BY <1>0, <1>1, Zenon DEF CallTypes
<1>3. chan' = chan /\ back' = back /\ inbox' = inbox /\ tasks' = tasks
  BY StepsAlone, Zenon
<1>4. OnWire(k)' <=> OnWire(k)
  <2>1. CASE wire' = wire
    BY <2>1 DEF OnWire, Holds
  <2>2. CASE WriteOk(l) \/ CancelWrite(l)
    BY <2>2, WriteMoves, Zenon
  <2> QED
    BY <2>1, <2>2, StepsAlone, Zenon
<1>5. Unwritten(k)' <=> Unwritten(k)
  BY <1>2 DEF Unwritten
<1>6. KeepsRequest(k)
  BY <1>3, <1>4, <1>5, RequestKept, Zenon
<1>7. KeepsReplies(k)
  BY <1>2, <1>3, RepliesKept, ZenonT(30)
<1>8. KeepsHeard(k) /\ KeepsOutcome(k)
  BY <1>2, <1>3, Zenon DEF KeepsHeard, KeepsOutcome, Outcome
<1> QED
  BY <1>6, <1>7, <1>8

\* What has not been written has not been sent.
LEMMA StillUnsent ==
  ASSUME Once, NEW k \in Rpc
  PROVE  /\ Unwritten(k) => Progress(k) = "unsent" /\ Outcome(k) = "open"
         /\ Unwritten(k) => ~OnWire(k) /\ ~Holds(inbox, k) /\ ~Taken(k)
         /\ ~Unwritten(k) => Progress(k) # "unsent"
  BY DEF Once, Unwritten, Progress, Outcome

\* A call that has no id yet has no answers under way, nor has a new id any.
LEMMA NoneUnder ==
  ASSUME TypeOK, PcOn, IdsDistinct, ResponsesOwned, NEW k \in Rpc
  PROVE  /\ pc[k] \in {"idle", "dial", "ready"} => Under(k) = {}
         /\ Register(k) => Under(k)' = {}
<1>0. CallTypes /\ TableTypes /\ k \in Call
  BY TypesSplit, TcpAssumption
<1>1. pc[k] \in {"idle", "dial", "ready"} => Under(k) = {}
  BY <1>0 DEF Under, PcOn
<1>2. ASSUME Register(k) PROVE Under(k)' = {}
  <2> DEFINE c == on[k]
  <2>1. /\ c \in Conn /\ next[c] \in Nat /\ on' = on /\ back' = back
        /\ id'[k] = next[c]
    BY <1>0, <1>2 DEF Register, PcOn, Using, CallTypes
  <2>2. ASSUME NEW r \in back[c], r.id = next[c] PROVE FALSE
    <3>1. PICK l \in Rpc : Owns(l, c, r.id)
      BY <2>1, <2>2, ZenonT(30) DEF ResponsesOwned
    <3>2. id[l] < next[c] /\ id[l] = next[c]
      BY <2>2, <3>1 DEF IdsDistinct, Owns
    <3> QED
      BY <2>1, <3>2
  <2> QED
    BY <2>1, <2>2 DEF Under
<1> QED
  BY <1>1, <1>2

\* What a call does on its side is a step of AtMostOnce, or none.
LEMMA CallRefines ==
  ASSUME IInv, Once, NEW l \in Call, Steps(l)
  PROVE  [AMO!AmoNext]_(AMO!amoVars)
<1> USE DEF Goto
<1>0. /\ CallTypes /\ Rpc \subseteq Call /\ TypeOK /\ PcOn /\ IdsDistinct /\ ResponsesOwned
      /\ OwnAnswer
  BY TypesSplit, TcpAssumption DEF IInv
<1>1. \A k \in Rpc : k # l =>
        KeepsRequest(k) /\ KeepsReplies(k) /\ KeepsHeard(k) /\ KeepsOutcome(k)
  BY <1>0, OthersKept, Zenon
<1>2. chan' = chan /\ back' = back /\ inbox' = inbox /\ tasks' = tasks
  BY StepsAlone, Zenon
<1>3. CASE l \notin Rpc
  <2>1. UNCHANGED AMO!amoVars
    BY <1>1, <1>3, AsNothing, Zenon
  <2> QED
    BY <2>1
<1> SUFFICES ASSUME l \in Rpc PROVE [AMO!AmoNext]_(AMO!amoVars)
  BY <1>3
<1>4. KeepsHeard(l)
  BY <1>2 DEF KeepsHeard
<1>5. ASSUME Unwritten(l), Unwritten(l)', wire' = wire, KeepsReplies(l)
      PROVE  UNCHANGED AMO!amoVars
  <2>1. KeepsOutcome(l)
    BY <1>5 DEF KeepsOutcome, Outcome, Unwritten
  <2>2. OnWire(l)' <=> OnWire(l)
    BY <1>5 DEF OnWire, Holds
  <2>3. KeepsRequest(l)
    BY <1>2, <1>5, <2>2, RequestKept, Zenon
  <2> QED
    BY <1>1, <1>4, <1>5, <2>1, <2>3, AsNothing, Zenon
<1>6. ASSUME Outcome(l) = "open", Outcome(l)' \in {"open", "err", "gone"}, ~Unwritten(l)',
             OnWire(l)' <=> OnWire(l), KeepsReplies(l)
      PROVE  AMO!GiveUp(l)
  <2>1. (Taken(l)' <=> Taken(l)) /\ (Holds(inbox, l)' <=> Holds(inbox, l))
    BY <1>2 DEF Taken, Holds
  <2>2. CASE Unwritten(l)
    <3>1. Progress(l) = "unsent" /\ ~OnWire(l)' /\ ~Holds(inbox, l)' /\ ~Taken(l)'
      BY <1>6, <2>1, <2>2, StillUnsent, Zenon
    <3>2. Progress(l)' = "over"
      BY <1>6, <3>1 DEF Progress
    <3> QED
      BY <1>1, <1>4, <1>6, <3>1, <3>2, AsGiveUp
  <2>3. CASE ~Unwritten(l)
    <3>1. Progress(l) # "unsent"
      BY <2>3, StillUnsent, Zenon
    <3>2. Progress(l)' = Progress(l)
      BY <1>6, <2>1, <2>3 DEF Progress
    <3> QED
      BY <1>1, <1>4, <1>6, <3>1, <3>2, AsGiveUp
  <2> QED
    BY <2>2, <2>3
<1>7. CASE Cached(l) \/ Dial(l) \/ DialOk(l)
  <2>1. /\ pc[l] \in {"idle", "dial"} /\ pc'[l] \in {"dial", "ready"} /\ wire' = wire
        /\ pc'[l] = "dial" => on' = on /\ on[l] = None
    BY <1>0, <1>7 DEF Cached, Dial, DialOk, far, CallTypes, PcOn
  <2>2. Under(l) = {}
    BY <1>0, <2>1, NoneUnder, Zenon
  <2>3. Under(l)' = {}
    BY <2>1 DEF Under
  <2> QED
    BY <1>5, <2>1, <2>2, <2>3, SMTT(30) DEF Unwritten, KeepsReplies
<1>8. CASE Register(l)
  <2>1. pc[l] = "ready" /\ pc'[l] = "write" /\ wire' = wire
    BY <1>0, <1>8 DEF Register, far, CallTypes
  <2>2. Under(l) = {} /\ Under(l)' = {}
    BY <1>0, <1>8, <2>1, NoneUnder
  <2> QED
    BY <1>5, <2>1, <2>2, ZenonT(30) DEF Unwritten, KeepsReplies
<1>9. ASSUME \/ DialErr(l) \/ WriteErr(l) \/ DropPeer(l) \/ Cancel(l) \/ CancelWrite(l)
      PROVE  AMO!GiveUp(l)
  <2>1. /\ pc[l] \notin {"ready", "ok", "err", "gone"} /\ pc'[l] \in {"drop", "err", "gone"}
        /\ on' = on /\ id' = id
    BY <1>0, <1>9, Zenon DEF DialErr, WriteErr, DropPeer, Cancel, CancelWrite, Writes, CallTypes
  <2>2. KeepsReplies(l)
    BY <1>2, <2>1, RepliesKept, Zenon
  <2>3. OnWire(l)' <=> OnWire(l)
    <3>1. CASE wire' = wire
      BY <3>1 DEF OnWire, Holds
    <3>2. CASE CancelWrite(l)
      <4>1. ~WriteOk(l)
        BY <1>0, <3>2 DEF WriteOk, CancelWrite, CallTypes
      <4> QED
        BY <1>0, <3>2, <4>1, WriteMoves, ZenonT(30)
    <3> QED
      BY <1>9, <3>1, <3>2, Zenon DEF DialErr, WriteErr, DropPeer, Cancel, far
  <2> QED
    BY <1>6, <2>1, <2>2, <2>3, ZenonT(30) DEF Outcome, Unwritten
<1>10. ASSUME WriteOk(l) PROVE AMO!Send(l) \/ AMO!GiveUp(l)
  <2>1. pc[l] = "write" /\ pc'[l] = "wait" /\ on' = on /\ id' = id
    BY <1>0, <1>10 DEF WriteOk, Writes, CallTypes
  <2>2. KeepsReplies(l)
    BY <1>2, <2>1, RepliesKept, SMTT(30)
  <2>3. /\ Unwritten(l) /\ ~Unwritten(l)' /\ Outcome(l) = "open" /\ Outcome(l)' = "open"
        /\ KeepsOutcome(l)
    BY <2>1 DEF Unwritten, Outcome, KeepsOutcome
  <2>4. OnWire(l)' <=> OnWire(l) \/ on[l] \in up
    BY <1>0, <1>10, WriteMoves, Zenon
  <2>5. CASE on[l] \in up
    <3>1. Progress(l) = "unsent" /\ ~Taken(l)
      BY <2>3, StillUnsent, Zenon
    <3>2. ~Taken(l)'
      BY <1>2, <3>1 DEF Taken
    <3>3. Progress(l)' = "sent"
      BY <2>4, <2>5, <3>2 DEF Progress
    <3> QED
      BY <1>1, <1>4, <2>2, <2>3, <3>1, <3>3, AsSend
  <2>6. CASE on[l] \notin up
    BY <1>6, <2>2, <2>3, <2>4, <2>6, SMTT(30)
  <2> QED
    BY <2>5, <2>6
<1>11. ASSUME Return(l) PROVE AMO!Return(l) \/ AMO!GiveUp(l)
  <2>1. /\ pc[l] = "wait" /\ pc'[l] = (IF chan[l].shape = Kind[l] THEN "ok" ELSE "err")
        /\ on' = on /\ id' = id /\ wire' = wire /\ chan[l] # Open
    BY <1>0, <1>11, Zenon DEF Return, far, CallTypes
  <2>2. KeepsReplies(l)
    BY <1>2, <2>1, RepliesKept
  <2>3. OnWire(l)' <=> OnWire(l)
    BY <2>1 DEF OnWire, Holds
  <2>4. ~Unwritten(l) /\ ~Unwritten(l)' /\ Outcome(l) = "open" /\ Outcome(l)' = pc'[l]
    BY <2>1 DEF Unwritten, Outcome
  <2>5. CASE chan[l].shape = Kind[l]
    <3>1. chan[l] \in {Closed} \cup Reply(l)
      BY <1>0, <2>1 DEF OwnAnswer
    <3>2. Kind[l] # "closed"
      BY TcpAssumption
    <3>3. chan[l] = [to |-> l, shape |-> Kind[l]]
      <4>1. chan[l] # Closed
        BY <2>5, <3>2 DEF Closed
      <4>2. PICK s \in {Kind[l], "failed"} : chan[l] = [to |-> l, shape |-> s]
        BY <3>1, <4>1, Zenon DEF Reply
      <4> QED
        BY <2>5, <4>2
    <3>4. KeepsRequest(l)
      BY <1>2, <2>3, <2>4, RequestKept, Zenon
    <3> QED
      BY <1>1, <1>4, <2>1, <2>2, <2>4, <2>5, <3>3, <3>4, AsReturn, ZenonT(30)
  <2>6. CASE chan[l].shape # Kind[l]
    BY <1>6, <2>1, <2>2, <2>3, <2>4, <2>6, Zenon
  <2> QED
    BY <2>5, <2>6
<1> QED
  BY <1>7, <1>8, <1>9, <1>10, <1>11, <1>5, Zenon DEF Steps, AMO!AmoNext

\* read_replies: an answer reaches the call whose id it carries, or nobody ...
LEMMA ReadRefines ==
  ASSUME IInv, NEW c \in Conn, ReadReply(c)
  PROVE  \E k \in Rpc : AMO!Hear(k)
<1>0. /\ CallTypes /\ TableTypes /\ Rpc \subseteq Call /\ TypeOK /\ IdsDistinct /\ EntriesOwned
      /\ ResponsesOwned
  BY TypesSplit, TcpAssumption DEF IInv
<1>1. PICK r \in back[c] : /\ back' = [back EXCEPT ![c] = @ \ {r}]
                          /\ Tell(WaitersAt(c, r.id), r.payload)
                          /\ UNCHANGED <<pc, on, id, wire, inbox, tasks>>
  BY Zenon DEF ReadReply, far
<1>2. PICK k \in Rpc : Owns(k, c, r.id)
  BY <1>0 DEF ResponsesOwned
<1>3. \A l \in Rpc : KeepsRequest(l) /\ KeepsOutcome(l)
  <2>1. \A l : OnWire(l)' <=> OnWire(l)
    BY <1>1, Zenon DEF OnWire, Holds
  <2> QED
    BY <1>1, <2>1, RequestKept, CallIdle, Zenon
<1>4. WaitersAt(c, r.id) \cap Rpc \subseteq {k}
  <2>1. ASSUME NEW w \in pending[c], w.id = r.id PROVE w.call = k
    <3>1. Owns(w.call, c, r.id) /\ w.call \in Rpc
      BY <1>0, <2>1, ZenonT(30) DEF EntriesOwned, Owns, Registered
    <3> QED
      BY <1>0, <1>2, <3>1, Zenon DEF IdsDistinct, Owns
  <2> QED
    BY <2>1 DEF WaitersAt
<1>5. /\ \A l \in Rpc \ {k} : KeepsHeard(l)
      /\ chan'[k] = chan[k] \/ (chan[k] = Open /\ chan'[k] = r.payload)
  BY <1>0, <1>1, <1>4 DEF Tell, KeepsHeard
<1>6. \A x \in Response : x.id = r.id /\ x.payload = r.payload => x = r
  BY <1>0 DEF Response, TableTypes
<1>7. ASSUME NEW l \in Rpc \ {k} PROVE KeepsReplies(l)
  <2>1. CASE on[l] # c \/ ~Registered(l)
    BY <1>0, <1>1, <2>1, Zenon DEF KeepsReplies, Under, Registered, CallTypes, TableTypes
  <2>2. CASE Registered(l) /\ on[l] = c
    <3>1. id[l] # r.id
      BY <1>0, <1>2, <2>2, Zenon DEF IdsDistinct, Owns
    <3>2. \A x : x \in back'[c] /\ x.id = id[l] <=> x \in back[c] /\ x.id = id[l]
      <4>1. back'[c] = back[c] \ {r}
        BY <1>0, <1>1, Zenon DEF TableTypes
      <4>2. ASSUME NEW x, x \in back[c], x.id = id[l] PROVE x # r
        BY <3>1, <4>2, Zenon
      <4> QED
        BY <4>1, <4>2
    <3> QED
      BY <1>1, <2>2, <3>2, Zenon DEF KeepsReplies, Under, Registered
  <2> QED
    BY <2>1, <2>2
<1>8. r.payload \in Under(k) /\ Under(k)' = Under(k) \ {r.payload}
  <2>1. /\ on[k] = c /\ id[k] = r.id /\ pc[k] # "ready" /\ on[k] # None
        /\ on'[k] = c /\ id'[k] = r.id /\ pc'[k] # "ready" /\ on'[k] # None
    BY <1>1, <1>2, Zenon DEF Owns, Registered
  <2>2. Under(k) = {x.payload : x \in {y \in back[c] : y.id = r.id}}
    BY <2>1, ZenonT(30) DEF Under
  <2>3. Under(k)' = {x.payload : x \in {y \in back'[c] : y.id = r.id}}
    BY <2>1, Zenon DEF Under
  <2>4. back'[c] = back[c] \ {r} /\ back[c] \subseteq Response
    BY <1>0, <1>1 DEF TableTypes
  <2>5. \A p : p \in Under(k) <=> \E x \in back[c] : x.id = r.id /\ x.payload = p
    BY <2>2, Zenon
  <2>6. \A p : p \in Under(k)' <=> \E x \in back[c] : x # r /\ x.id = r.id /\ x.payload = p
    BY <2>3, <2>4, Zenon
  <2>7. \A p : p \in Under(k)' <=> p \in Under(k) /\ p # r.payload
    BY <1>6, <2>4, <2>5, <2>6, Zenon
  <2> QED
    BY <2>5, <2>7
<1>9. chan \in [Call -> {Open, Closed} \cup UNION {Reply(l) : l \in Rpc}]
  BY <1>0 DEF TypeOK
<1> QED
  BY <1>3, <1>5, <1>7, <1>8, <1>9, AsHear, Zenon

\* ... and when it ends, the calls that wait hear that nothing will come.
LEMMA EndRefines ==
  ASSUME IInv, NEW c \in Conn, ReaderEnds(c)
  PROVE  AMO!HangUp
<1>0. Rpc \subseteq Call
  BY TcpAssumption
<1>1. UNCHANGED <<pc, on, id, wire, inbox, tasks, back>> /\ \E K : Tell(K, Closed)
  BY Zenon DEF ReaderEnds, far
<1>2. \A k : OnWire(k)' <=> OnWire(k)
  BY <1>1, Zenon DEF OnWire, Holds
<1>3. \A k \in Rpc : chan'[k] = chan[k] \/ (chan[k] = Open /\ chan'[k] = Closed)
  BY <1>0, <1>1 DEF Tell
<1>4. \A k \in Rpc : KeepsRequest(k) /\ KeepsReplies(k) /\ KeepsOutcome(k)
  BY <1>1, <1>2, RequestKept, CallIdle, Zenon
<1> QED
  BY <1>3, <1>4, AsHangUp, Zenon

\* serve only moves a request on.
LEMMA ServeRefines ==
  ASSUME IInv, Once, NEW c \in Conn, Serve(c) \/ Close(c)
  PROVE  UNCHANGED AMO!amoVars
<1>1. UNCHANGED <<pc, on, id, chan, back, tasks>>
  BY Zenon DEF Serve, Close, call, far
<1>2. ASSUME NEW k \in Rpc
      PROVE  /\ OnWire(k)' \/ Holds(inbox, k)' <=> OnWire(k) \/ Holds(inbox, k)
             /\ Taken(k)' <=> Taken(k)
  <2>1. CASE Close(c)
    BY <2>1, Zenon DEF Close, far, OnWire, Holds, Taken
  <2>2. CASE Serve(c)
    <3> DEFINE x == Head(wire[c]).call
    <3>1. /\ OnWire(x) /\ (OnWire(k)' <=> OnWire(k) /\ k # x)
          /\ Holds(inbox', k) <=> Holds(inbox, k) \/ k = x
      BY <2>2, ServeMoves, Zenon DEF IInv
    <3>2. Holds(inbox, k)' <=> Holds(inbox', k)
      BY DEF Holds
    <3> HIDE DEF x
    <3> QED
      BY <1>1, <3>1, <3>2 DEF Taken
  <2> QED
    BY <2>1, <2>2
<1>3. \A k \in Rpc : /\ Unwritten(k)' <=> Unwritten(k)
                     /\ KeepsReplies(k) /\ KeepsHeard(k) /\ KeepsOutcome(k)
  BY <1>1, CallIdle, Zenon
<1>4. \A k \in Rpc : KeepsRequest(k)
  BY <1>2, <1>3 DEF KeepsRequest, Progress
<1> QED
  BY <1>3, <1>4, AsNothing, Zenon

\* The end of a connection loses what was on it, in both directions.
LEMMA LossRefines ==
  ASSUME IInv, Once, NEW c \in Conn, ServeEnds(c) \/ ServeGarbled(c) \/ Break(c)
  PROVE  AMO!Lose
<1>0. TableTypes /\ TypeOK /\ CallTypes
  BY TypesSplit DEF IInv
<1>1. /\ UNCHANGED <<pc, on, id, chan, tasks, inbox>> /\ wire' = [wire EXCEPT ![c] = << >>]
      /\ back' = back \/ back' = [back EXCEPT ![c] = {}]
  BY Zenon DEF ServeEnds, ServeGarbled, Break, call
<1>2. \A k \in Rpc : OnWire(k)' => OnWire(k)
  BY <1>0, <1>1, WireCleared, Zenon
<1>3. \A k \in Rpc : /\ Unwritten(k)' <=> Unwritten(k)
                     /\ KeepsHeard(k) /\ KeepsOutcome(k)
  BY <1>1, CallIdle, Zenon
<1>4. ASSUME NEW k \in Rpc
      PROVE  Progress(k)' = Progress(k) \/ (Progress(k) = "sent" /\ Progress(k)' = "over")
  <2>1. (Taken(k)' <=> Taken(k)) /\ (Holds(inbox, k)' <=> Holds(inbox, k))
    BY <1>1, Zenon DEF Taken, Holds
  <2>2. OnWire(k) => ~Unwritten(k)
    BY Zenon DEF Once
  <2> QED
    BY <1>2, <1>3, <2>1, <2>2 DEF Progress
<1>5. ASSUME NEW k \in Rpc PROVE Under(k)' \in {Under(k), {}}
  <2>1. CASE back' = back
    BY <1>1, <2>1, CallIdle DEF KeepsReplies
  <2>2. CASE back' = [back EXCEPT ![c] = {}] /\ on[k] = c /\ c # None
    BY <1>0, <1>1, <2>2, Zenon DEF Under, TableTypes
  <2>3. CASE back' = [back EXCEPT ![c] = {}] /\ (on[k] # c \/ c = None)
    BY <1>0, <1>1, <2>3, TcpAssumption, Zenon DEF Under, TableTypes, CallTypes
  <2> QED
    BY <1>1, <2>1, <2>2, <2>3
<1> QED
  BY <1>3, <1>4, <1>5, AsLose

\* serve_consensus takes a request up, from the inbox ...
LEMMA TakeRefines ==
  ASSUME IInv, Once, Take
  PROVE  \E k \in Rpc : AMO!Work(k)
<1>1. UNCHANGED <<pc, on, id, chan, back>> /\ TypeOK
  BY Zenon DEF Take, call, IInv
<1>2. PICK x \in Rpc :
        /\ wire' = wire /\ Holds(inbox, x)
        /\ \A k \in Rpc : /\ Holds(inbox', k) <=> Holds(inbox, k) /\ k # x
                          /\ Taken(k)' <=> Taken(k) \/ k = x
  BY <1>1, TakeMoves, Zenon
<1>3. \A k \in Rpc : /\ Unwritten(k)' <=> Unwritten(k)
                     /\ KeepsReplies(k) /\ KeepsHeard(k) /\ KeepsOutcome(k)
  BY <1>1, CallIdle, Zenon
<1>4. \A k \in Rpc : (OnWire(k)' <=> OnWire(k)) /\ (Holds(inbox, k)' <=> Holds(inbox', k))
  BY <1>2 DEF OnWire, Holds
<1>5. \A k \in Rpc \ {x} : KeepsRequest(k)
  BY <1>2, <1>3, <1>4 DEF KeepsRequest, Progress
<1>6. Progress(x) = "sent" /\ Progress(x)' = "served"
  <2>1. ~Taken(x) /\ Taken(x)'
    BY <1>2, Zenon DEF Once
  <2> QED
    BY <1>2, <2>1 DEF Progress
<1> QED
  BY <1>2, <1>3, <1>5, <1>6, AsWork

\* ... and each task answers the request that it has.
LEMMA RespondRefines ==
  ASSUME IInv, Once, NEW t \in tasks, NEW payload \in Reply(t.call) \cup {Closed},
         Respond(t, payload)
  PROVE  \E k \in Rpc : AMO!Answer(k)
<1>0. /\ TypeOK /\ CallTypes /\ TableTypes /\ RequestsOwned /\ IdsDistinct
  BY TypesSplit DEF IInv
<1> DEFINE x == t.call
           a == [id |-> t.id, payload |-> payload]
<1>1. /\ wire' = wire /\ inbox' = inbox /\ x \in Rpc /\ Taken(x)
      /\ \A k \in Rpc : Taken(k)' <=> Taken(k) /\ k # x
  BY <1>0, RespondMoves, Zenon
<1>2. /\ UNCHANGED <<pc, on, id, chan>>
      /\ back' = back \/ back' = [back EXCEPT ![t.conn] = @ \cup {a}]
  BY Zenon DEF Respond, call
<1>3. Owns(x, t.conn, t.id) /\ t.conn \in Conn
  <2>1. Owns(x, t.conn, t.id)
    BY <1>0, Zenon DEF RequestsOwned
  <2>2. t \in Request
    BY <1>0 DEF TypeOK
  <2> QED
    BY <2>1, <2>2 DEF Request
<1>4. \A k \in Rpc : /\ Unwritten(k)' <=> Unwritten(k)
                     /\ KeepsHeard(k) /\ KeepsOutcome(k)
  BY <1>2, CallIdle, Zenon
<1>5. \A k \in Rpc : (OnWire(k)' <=> OnWire(k)) /\ (Holds(inbox, k)' <=> Holds(inbox, k))
  BY <1>1, Zenon DEF OnWire, Holds
<1>6. \A k \in Rpc \ {x} : KeepsRequest(k)
  BY <1>1, <1>4, <1>5 DEF KeepsRequest, Progress
<1>7. Progress(x) = "served" /\ Progress(x)' = "over"
  <2>1. ~Taken(x)' /\ ~OnWire(x)' /\ ~Holds(inbox, x)' /\ ~Unwritten(x)'
    BY <1>1, <1>4, <1>5, Zenon DEF Once
  <2> QED
    BY <1>1, <2>1 DEF Progress
<1>8. ASSUME NEW k \in Rpc \ {x} PROVE KeepsReplies(k)
  <2>1. CASE back' = back
    BY <1>2, <2>1, CallIdle
  <2>2. CASE back' # back /\ (on[k] # t.conn \/ ~Registered(k))
    <3>1. CASE ~Registered(k)
      BY <1>2, <3>1, Zenon DEF KeepsReplies, Under, Registered
    <3>2. CASE Registered(k)
      <4>1. on[k] \in Conn
        BY <1>0, <3>2, TcpAssumption, Zenon DEF Registered, CallTypes
      <4>2. back'[on[k]] = back[on[k]]
        BY <1>0, <1>2, <2>2, <3>2, <4>1, Zenon DEF TableTypes
      <4> QED
        BY <1>2, <3>2, <4>2, Zenon DEF KeepsReplies, Under
    <3> QED
      BY <3>1, <3>2
  <2>3. CASE back' # back /\ Registered(k) /\ on[k] = t.conn
    <3>1. id[k] # t.id
      BY <1>0, <1>1, <1>3, <2>3, Zenon DEF IdsDistinct, Owns
    <3>2. \A y : y \in back'[t.conn] /\ y.id = id[k] <=> y \in back[t.conn] /\ y.id = id[k]
      <4>1. back'[t.conn] = back[t.conn] \cup {a} /\ a.id = t.id
        BY <1>0, <1>2, <1>3, <2>3, Zenon DEF TableTypes
      <4> HIDE DEF a
      <4> QED
        BY <3>1, <4>1, Zenon
    <3> QED
      BY <1>2, <2>3, <3>2, Zenon DEF KeepsReplies, Under, Registered
  <2> QED
    BY <2>1, <2>2, <2>3, Zenon
<1>9. Under(x)' \in {Under(x), Under(x) \cup {payload}}
  <2>1. CASE back' = back
    BY <1>1, <1>2, <2>1, CallIdle DEF KeepsReplies
  <2>2. CASE back' # back
    <3> DEFINE c == t.conn
    <3>1. /\ on[x] = c /\ id[x] = t.id /\ pc[x] # "ready" /\ on[x] # None
          /\ on'[x] = c /\ id'[x] = t.id /\ pc'[x] # "ready" /\ on'[x] # None
      BY <1>2, <1>3, Zenon DEF Owns, Registered
    <3>2. back'[c] = back[c] \cup {a} /\ a.id = t.id /\ a.payload = payload
      BY <1>0, <1>2, <1>3, <2>2 DEF TableTypes
    <3>3. /\ Under(x) = {y.payload : y \in {z \in back[c] : z.id = t.id}}
          /\ Under(x)' = {y.payload : y \in {z \in back'[c] : z.id = t.id}}
      BY <3>1, Zenon DEF Under
    <3> HIDE DEF a
    <3>4. \A p : p \in Under(x)' <=> p \in Under(x) \/ p = payload
      BY <3>2, <3>3, Zenon
    <3> QED
      BY <3>4
  <2> QED
    BY <2>1, <2>2
<1> QED
  BY <1>1, <1>4, <1>6, <1>7, <1>8, <1>9, AsAnswer

\* A request is in one place, from the first state on.
LEMMA InitOnce == Init => Once
<1> SUFFICES ASSUME Init PROVE Once
  OBVIOUS
<1>1. /\ \A c \in Conn : wire[c] = << >>
      /\ inbox = << >> /\ tasks = {}
  BY DEF Init
<1>2. \A k : ~OnWire(k) /\ ~Holds(inbox, k) /\ ~Taken(k)
  BY <1>1, HoldsEmpty, Zenon DEF OnWire, Taken
<1> QED
  BY <1>1, <1>2, HoldsEmpty, Zenon DEF Once

\* The first state is one of AtMostOnce.
LEMMA InitRefines == Init => AMO!AmoInit
<1> SUFFICES ASSUME Init PROVE AMO!AmoInit
  OBVIOUS
<1>1. /\ \A c \in Conn : wire[c] = << >>
      /\ inbox = << >> /\ tasks = {} /\ Rpc \subseteq Call
      /\ \A k \in Call : pc[k] = "idle" /\ on[k] = None /\ chan[k] = Open
  BY TcpAssumption DEF Init
<1>2. \A k : ~OnWire(k) /\ ~Holds(inbox, k) /\ ~Taken(k)
  BY <1>1, HoldsEmpty, ZenonT(30) DEF OnWire, Taken
<1>3. \A k \in Rpc : Progress(k) = "unsent" /\ Under(k) = {} /\ Outcome(k) = "open"
  BY <1>1, <1>2 DEF Progress, Unwritten, Under, Outcome
<1> QED
  BY <1>1, <1>3, Zenon DEF AMO!AmoInit

----------------------------------------------------------------------------
(* The theorems *)

\* The invariant holds at first.
LEMMA InitIInv == Init => IInv
<1> SUFFICES ASSUME Init PROVE IInv
  OBVIOUS
<1>0. Init /\ Open \in {Open, Closed}
  OBVIOUS
<1>1. TypeOK
  <2>1. /\ pc \in [Call -> {"idle", "dial", "ready", "write", "wait", "drop", "ok", "err", "gone"}]
        /\ on \in [Call -> Conn \cup {None}] /\ cache \in [Peer -> Conn \cup {None}]
        /\ chan \in [Call -> {Open, Closed} \cup UNION {Reply(k) : k \in Rpc}]
    BY <1>0, Zenon DEF Init
  <2>2. id \in [Call -> Nat] /\ next \in [Conn -> Nat]
    BY <1>0 DEF Init
  <2>3. /\ wire \in [Conn -> Seq(Frame \cup {Garbage})] /\ inbox \in Seq(Request)
        /\ pending \in [Conn -> SUBSET Frame] /\ back \in [Conn -> SUBSET Response]
    BY <1>0 DEF Init
  <2> QED
    BY <1>0, <2>1, <2>2, <2>3, Zenon DEF Init, TypeOK
<1>2. PcOn /\ IdsDistinct /\ EntriesOwned
  BY <1>0, TcpAssumption, ZenonT(30) DEF Init, PcOn, Using, IdsDistinct, EntriesOwned, Registered
<1>3. FramesOwned /\ RequestsOwned /\ ResponsesOwned
  <2>1. /\ \A c \in Conn : wire[c] = << >> /\ back[c] = {}
        /\ inbox = << >> /\ tasks = {} /\ 1..Len(<< >>) = {}
    BY <1>0 DEF Init
  <2> QED
    BY <2>1, Zenon DEF FramesOwned, RequestsOwned, ResponsesOwned
<1>4. OwnAnswer /\ EntryThere
  BY <1>0, TcpAssumption, ZenonT(30) DEF Init, OwnAnswer, EntryThere
<1>5. HeldWhole
  BY <1>0, TcpAssumption DEF Init, HeldWhole, Held, Using
<1>6. CacheSound /\ CorpseGone
  BY <1>0, Zenon DEF Init, CacheSound, CorpseGone
<1> QED
  BY <1>1, <1>2, <1>3, <1>4, <1>5, <1>6 DEF IInv

\* The inductive invariant: whatever travels on a connection belongs to the call
\* whose id it carries, and the cache holds what its peer's callers may use.
THEOREM Invariance == Spec => []IInv
<1>1. IInv /\ [Next]_vars => IInv'
  <2> SUFFICES ASSUME IInv, [Next]_vars PROVE IInv'
    OBVIOUS
  <2>0. /\ TypeOK /\ PcOn /\ IdsDistinct /\ EntriesOwned /\ FramesOwned /\ RequestsOwned
        /\ ResponsesOwned /\ OwnAnswer /\ EntryThere /\ HeldWhole /\ CacheSound /\ CorpseGone
    BY DEF IInv
  <2>1. TypeOK' /\ PcOn' /\ IdsDistinct' /\ EntriesOwned'
    BY <2>0, TypeNext, PcOnNext, IdsNext, EntriesNext
  <2>2. FramesOwned' /\ RequestsOwned' /\ ResponsesOwned'
    BY <2>0, FramesNext, RequestsNext, ResponsesNext
  <2>3. OwnAnswer' /\ EntryThere'
    BY <2>0, OwnAnswerNext, EntryNext
  <2>4. HeldWhole' /\ CacheSound' /\ CorpseGone'
    BY <2>0, HeldNext, CacheNext, CorpseNext
  <2> QED
    BY <2>1, <2>2, <2>3, <2>4 DEF IInv
<1> QED
  BY <1>1, InitIInv, PTL DEF Spec

\* Every variable keeps its type.
THEOREM Types == Spec => []TypeOK
<1>1. IInv => TypeOK
  BY DEF IInv
<1> QED
  BY <1>1, Invariance, PTL

\* read_replies: whatever is reordered, cancelled or dropped on the way, a call
\* never gets the answer to another one's request.
THEOREM AnswersAreOwn == Spec => []OwnAnswer
<1>1. IInv => OwnAnswer
  BY DEF IInv
<1> QED
  BY <1>1, Invariance, PTL

\* read_replies clears the table when it ends: who waits can still be told,
\* unless it registered after that.
THEOREM WaitersAreHeard == Spec => []WaiterHeard
<1>1. IInv => WaiterHeard
  BY Zenon DEF IInv, EntryThere, WaiterHeard
<1> QED
  BY <1>1, Invariance, PTL

\* drop_peer: forgetting a connection that others use closes it for none of them.
THEOREM EvictionsAreHarmless == Spec => []EvictionHarmless
<1>1. IInv => EvictionHarmless
  <2> SUFFICES ASSUME IInv, NEW k \in Rpc, pc[k] = "wait", on[k] \notin hurt
               PROVE  on[k] \in up \cap reading \cap serving
    BY Zenon DEF EvictionHarmless
  <2>1. k \in Call /\ on[k] \in Conn /\ Using(k)
    BY TcpAssumption, Zenon DEF IInv, PcOn, Using, TypeOK
  <2>2. Held(on[k])
    BY <2>1, Zenon DEF Held
  <2> QED
    BY <2>1, <2>2, Zenon DEF IInv, HeldWhole
<1> QED
  BY <1>1, Invariance, PTL

\* drop_peer: once a failed write was reported, no call gets that connection again.
THEOREM CorpsesAreGone == Spec => []CorpseGone
<1>1. IInv => CorpseGone
  BY DEF IInv
<1> QED
  BY <1>1, Invariance, PTL

\* Connections that break, are shared, dropped and dialled again deliver each
\* request to the other side at most once, and each answer to the call it answers
\* (rpc, read_replies, serve, serve_consensus).
THEOREM CallsAreAtMostOnce == Spec => ImplementsAtMostOnce
<1>1. IInv /\ Once /\ [Next]_vars => Once'
  <2> SUFFICES ASSUME IInv, Once, [Next]_vars PROVE Once'
    OBVIOUS
  <2> QED
    BY OnceNext DEF IInv
<1>2. Spec => []Once
  BY <1>1, InitOnce, Invariance, PTL DEF Spec
<1>3. IInv /\ Once /\ [Next]_vars => [AMO!AmoNext]_(AMO!amoVars)
  <2> SUFFICES ASSUME IInv, Once, [Next]_vars PROVE [AMO!AmoNext]_(AMO!amoVars)
    OBVIOUS
  <2>1. ASSUME NEW l \in Call, Steps(l) PROVE [AMO!AmoNext]_(AMO!amoVars)
    BY <2>1, CallRefines
  <2>2. ASSUME NEW c \in Conn, ReadReply(c) \/ ReaderEnds(c) PROVE AMO!AmoNext
    BY <2>2, ReadRefines, EndRefines, Zenon DEF AMO!AmoNext
  <2>3. ASSUME NEW c \in Conn, Serve(c) \/ Close(c) PROVE UNCHANGED AMO!amoVars
    BY <2>3, ServeRefines
  <2>4. ASSUME NEW c \in Conn, ServeEnds(c) \/ ServeGarbled(c) \/ Break(c) PROVE AMO!AmoNext
    BY <2>4, LossRefines, Zenon DEF AMO!AmoNext
  <2>5. ASSUME Take PROVE AMO!AmoNext
    BY <2>5, TakeRefines, Zenon DEF AMO!AmoNext
  <2>6. ASSUME NEW t \in tasks, Answer(t) \/ Decline(t) PROVE AMO!AmoNext
    <3>1. PICK payload \in Reply(t.call) \cup {Closed} : Respond(t, payload)
      BY <2>6, Zenon DEF Answer, Decline
    <3> QED
      BY <3>1, RespondRefines, Zenon DEF AMO!AmoNext
  <2>7. CASE UNCHANGED vars
    <3>1. UNCHANGED <<pc, on, id, chan, back, wire, inbox, tasks>>
      BY <2>7 DEF vars, call, far
    <3>2. \A k : OnWire(k)' <=> OnWire(k)
      BY <3>1 DEF OnWire, Holds
    <3>3. \A k \in Rpc : KeepsRequest(k) /\ KeepsReplies(k) /\ KeepsHeard(k) /\ KeepsOutcome(k)
      BY <3>1, <3>2, RequestKept, CallIdle, Zenon
    <3> QED
      BY <3>3, AsNothing
  <2> QED
    BY <2>1, <2>2, <2>3, <2>4, <2>5, <2>6, <2>7, Zenon DEF Next, Steps
<1> QED
  BY <1>2, <1>3, InitRefines, Invariance, PTL DEF Spec, ImplementsAtMostOnce, AMO!AmoSpec

=============================================================================
