--------------------------- MODULE DeliveryProofs ---------------------------
(***************************************************************************)
(* Proofs about Delivery, for any nodes, commands, window and attempts.    *)
(***************************************************************************)
EXTENDS Delivery, SequenceTheorems, TLAPS

USE DEF passed

----------------------------------------------------------------------------
(* Types *)

\* A window that accepts an id is still a sequence of ids.
LEMMA AcceptTyped ==
  ASSUME NEW s \in Seq(MessageId), NEW id \in MessageId
  PROVE  AcceptId(s, id) \in Seq(MessageId)
<1> DEFINE t == Append(s, id)
<1>1. t \in Seq(MessageId) /\ t # << >>
  BY AppendProperties
<1>2. Tail(t) \in Seq(MessageId)
  BY <1>1, HeadTailProperties
<1>3. QED
  BY <1>1, <1>2 DEF AcceptId

\* The envelope of a call under way is an envelope.
LEMMA EnvelopeTyped ==
  ASSUME TypeOK, NEW c \in Command, NEW to \in Node, call[c].left # 0
  PROVE  EnvelopeOf(c, to) \in Envelope
BY DeliveryAssumption DEF EnvelopeOf, Envelope, TypeOK, Call

\* A call that is under way has an attempt left.
LeftInv == \A c \in Command : call[c].state \in {"new", "sending"} => call[c].left # 0

\* No step of sender or receiver breaks a type.
LEMMA TypeNext == TypeOK /\ LeftInv /\ [Next]_vars => TypeOK' /\ LeftInv'
<1> SUFFICES ASSUME TypeOK, LeftInv, [Next]_vars
             PROVE  TypeOK' /\ LeftInv'
  OBVIOUS
<1>1. ASSUME NEW n \in Sender, NEW c \in Command, Tell(n, c)
      PROVE  TypeOK' /\ LeftInv'
  <2>1. NextMessageId(n) \in MessageId
    BY DeliveryAssumption DEF NextMessageId, MessageId, TypeOK
  <2>2. counter' \in [Node -> Nat]
    BY <1>1, DeliveryAssumption DEF Tell, TypeOK
  <2>3. Started(n) \in Call /\ Started(n).state = "sending" /\ Started(n).left # 0
    BY <2>1, DeliveryAssumption DEF Started, Call, TypeOK
  <2>4. QED
    BY <1>1, <2>2, <2>3, DeliveryAssumption DEF Tell, TypeOK, LeftInv
<1>2. ASSUME NEW c \in Command, NoOwner(c)
      PROVE  TypeOK' /\ LeftInv'
  BY <1>2, Zenon DEF NoOwner, TypeOK, LeftInv, Call
<1>3. ASSUME NEW c \in Command, NEW to \in Node, AttemptOk(c, to)
      PROVE  TypeOK' /\ LeftInv'
  <2>1. EnvelopeOf(c, to) \in Envelope
    BY <1>3, EnvelopeTyped DEF AttemptOk, LeftInv
  <2>2. QED
    BY <1>3, <2>1, Zenon DEF AttemptOk, TypeOK, LeftInv, Call
<1>4. ASSUME NEW c \in Command, NEW to \in Node, NEW arrives \in BOOLEAN,
             AttemptErr(c, to, arrives)
      PROVE  TypeOK' /\ LeftInv'
  <2>1. EnvelopeOf(c, to) \in Envelope
    BY <1>4, EnvelopeTyped DEF AttemptErr, LeftInv
  <2>2. net' \in SUBSET Envelope
    BY <1>4, <2>1 DEF AttemptErr, TypeOK
  <2>3. call[c] \in Call /\ call[c].left \in 1..Attempts
    BY <1>4, DeliveryAssumption DEF AttemptErr, TypeOK, LeftInv, Call
  <2> DEFINE d == [call[c] EXCEPT !.state = IF call[c].left = 1 THEN "failed" ELSE "sending",
                                  !.left = call[c].left - 1]
  <2>a. d \in Call /\ (d.state = "sending" => d.left # 0) /\ d.state # "new"
    <3>1. call[c].left - 1 \in 0..Attempts /\ (call[c].left # 1 => call[c].left - 1 # 0)
      BY <2>3, DeliveryAssumption
    <3>2. /\ d.state \in {"sending", "failed"} /\ d.left = call[c].left - 1
          /\ d.state = "sending" => call[c].left # 1
      BY <2>3 DEF Call
    <3>3. d \in Call
      BY <2>3, <3>1, Zenon DEF Call
    <3>4. QED
      BY <3>1, <3>2, <3>3, Zenon
  <2>b. call' = [call EXCEPT ![c] = d]
    BY <1>4, Zenon DEF AttemptErr, TypeOK
  <2>4. call' \in [Command -> Call] /\ LeftInv'
    BY <2>a, <2>b DEF TypeOK, LeftInv
  <2>5. QED
    BY <1>4, <2>2, <2>4 DEF AttemptErr, TypeOK
<1>5. ASSUME NEW e \in net, Lose(e) \/ DropRepeat(e)
      PROVE  TypeOK' /\ LeftInv'
  BY <1>5 DEF Lose, DropRepeat, TypeOK, LeftInv
<1>6. ASSUME NEW e \in net, NEW ok \in BOOLEAN, Dispatch(e, ok)
      PROVE  TypeOK' /\ LeftInv'
  <2>1. e \in Envelope
    BY DEF TypeOK
  <2>2. e.to \in Node /\ e.id \in MessageId /\ e.cmd \in Command
    BY <2>1 DEF Envelope
  <2>3. AcceptId(seen[e.to], e.id) \in Seq(MessageId)
    BY <2>2, AcceptTyped DEF TypeOK
  <2>4. [id |-> e.id, cmd |-> e.cmd] \in Passed
    BY <2>2 DEF Passed
  <2>5. QED
    BY <1>6, <2>2, <2>3, <2>4 DEF Dispatch, TypeOK, LeftInv
<1>7. ASSUME NEW n \in Node, Restart(n)
      PROVE  TypeOK' /\ LeftInv'
  <2>1. \A c \in Command : [call[c] EXCEPT !.state = "gone"] \in Call
    BY Zenon DEF TypeOK, Call
  <2>2. call' \in [Command -> Call] /\ LeftInv'
    BY <1>7, <2>1 DEF Restart, TypeOK, LeftInv
  <2>3. << >> \in Seq(MessageId) /\ << >> \in Seq(Passed)
    OBVIOUS
  <2>4. counter' \in [Node -> Nat] /\ era' \in [Node -> Nat]
    BY <1>7 DEF Restart, TypeOK
  <2>5. QED
    BY <1>7, <2>2, <2>3, <2>4, Zenon DEF Restart, TypeOK
<1>8. CASE UNCHANGED vars
  BY <1>8 DEF vars, TypeOK, LeftInv
<1>9. QED
  BY <1>1, <1>2, <1>3, <1>4, <1>5, <1>6, <1>7, <1>8 DEF Next

----------------------------------------------------------------------------
(* The window *)

\* What a process remembers is the end of what it has let through: all of it
\* until the window is full, and the last Window ids from then on.
Remembers(s, h) ==
  /\ Len(s) <= Window /\ Len(s) <= Len(h)
  /\ Len(s) < Window => Len(s) = Len(h)
  /\ \A i \in 1..Len(s) : s[i] = h[Len(h) - Len(s) + i].id

\* Equal ids are more than a window apart.
Apart(h) == \A i, j \in 1..Len(h) : i < j /\ h[i].id = h[j].id => j - i > Window

\* The inductive invariant behind WindowHolds.
WindowInv == \A n \in Node : Remembers(seen[n], history[n]) /\ Apart(history[n])

\* accept_id keeps the window at the end of the history, whether it evicts or not,
\* and an id that is not in the window is more than a window away.
LEMMA AcceptRemembers ==
  ASSUME NEW s \in Seq(MessageId), NEW h \in Seq(Passed), NEW p \in Passed,
         Remembers(s, h), Apart(h), p.id \notin Range(s)
  PROVE  Remembers(AcceptId(s, p.id), Append(h, p)) /\ Apart(Append(h, p))
<1> DEFINE g == Append(h, p)
           t == Append(s, p.id)
<1>0. p.id \in MessageId
  BY DEF Passed
<1>1. /\ g \in Seq(Passed) /\ Len(g) = Len(h) + 1 /\ g[Len(h) + 1] = p
      /\ \A i \in 1..Len(h) : g[i] = h[i]
  OBVIOUS
<1>2. /\ t \in Seq(MessageId) /\ Len(t) = Len(s) + 1 /\ t[Len(s) + 1] = p.id
      /\ \A i \in 1..Len(s) : t[i] = s[i]
  BY <1>0
<1>3. Len(s) \in Nat /\ Len(h) \in Nat /\ Window \in Nat \ {0}
  BY DeliveryAssumption
<1>4. \A i \in 1..Len(t) : t[i] = g[Len(g) - Len(t) + i].id
  <2> SUFFICES ASSUME NEW i \in 1..Len(t)
               PROVE  t[i] = g[Len(g) - Len(t) + i].id
    BY Zenon
  <2>1. CASE i = Len(s) + 1
    BY <2>1, <1>1, <1>2, <1>3
  <2>2. CASE i \in 1..Len(s)
    <3>1. Len(h) - Len(s) + i \in 1..Len(h) /\ Len(g) - Len(t) + i = Len(h) - Len(s) + i
      BY <2>2, <1>1, <1>2, <1>3 DEF Remembers
    <3>2. QED
      BY <2>2, <3>1, <1>1, <1>2 DEF Remembers
  <2>3. i = Len(s) + 1 \/ i \in 1..Len(s)
    BY <1>2, <1>3
  <2>4. QED
    BY <2>1, <2>2, <2>3, Zenon
<1>5. Remembers(AcceptId(s, p.id), g)
  <2>1. CASE Len(t) > Window
    <3>1. AcceptId(s, p.id) = Tail(t)
      BY <2>1 DEF AcceptId
    <3>2. /\ Len(Tail(t)) = Len(s)
          /\ \A i \in 1..Len(s) : Tail(t)[i] = t[i + 1]
      BY <1>2, <1>3
    <3>3. Len(s) = Window
      BY <2>1, <1>2, <1>3 DEF Remembers
    <3>4. \A i \in 1..Len(s) : Tail(t)[i] = g[Len(g) - Len(s) + i].id
      <4> SUFFICES ASSUME NEW i \in 1..Len(s)
                   PROVE  Tail(t)[i] = g[Len(g) - Len(s) + i].id
        BY Zenon
      <4>1. i + 1 \in 1..Len(t) /\ Len(g) - Len(t) + (i + 1) = Len(g) - Len(s) + i
        BY <1>1, <1>2, <1>3
      <4>2. QED
        BY <4>1, <3>2, <1>4, Zenon
    <3>5. Len(s) <= Len(g)
      BY <1>1, <1>3 DEF Remembers
    <3>6. Remembers(Tail(t), g)
      <4> DEFINE u == Tail(t)
      <4>1. /\ Len(u) = Len(s)
            /\ \A i \in 1..Len(s) : u[i] = g[Len(g) - Len(s) + i].id
        BY <3>2, <3>4, Zenon
      <4> HIDE DEF t, g, u
      <4>2. Remembers(u, g)
        BY <4>1, <3>3, <3>5, <1>3 DEF Remembers
      <4>3. QED
        BY <4>2 DEF u
    <3>7. QED
      BY <3>1, <3>6
  <2>2. CASE ~(Len(t) > Window)
    <3>1. AcceptId(s, p.id) = t
      BY <2>2 DEF AcceptId
    <3>2. Len(t) <= Window /\ Len(t) <= Len(g) /\ (Len(t) < Window => Len(t) = Len(g))
      BY <2>2, <1>1, <1>2, <1>3 DEF Remembers
    <3>3. QED
      BY <3>1, <3>2, <1>4, Zenon DEF Remembers
  <2>3. QED
    BY <2>1, <2>2
<1>6. Apart(g)
  <2> SUFFICES ASSUME NEW i \in 1..Len(g), NEW j \in 1..Len(g), i < j, g[i].id = g[j].id
               PROVE  j - i > Window
    BY DEF Apart
  <2>1. CASE j \in 1..Len(h)
    <3>1. i \in 1..Len(h)
      BY <2>1, <1>1, <1>3
    <3>2. QED
      BY <2>1, <3>1, <1>1 DEF Apart
  <2>2. CASE j = Len(h) + 1
    <3>1. i \in 1..Len(h) /\ h[i].id = p.id
      BY <2>2, <1>1, <1>3
    <3>2. SUFFICES ASSUME Len(h) + 1 - i <= Window
                   PROVE  FALSE
      BY <2>2, <3>1, <1>3
    <3> DEFINE k == i - (Len(h) - Len(s))
    <3>3. k \in 1..Len(s) /\ Len(h) - Len(s) + k = i
      BY <3>1, <3>2, <1>3 DEF Remembers
    <3>4. s[k] = p.id
      BY <3>1, <3>3 DEF Remembers
    <3>5. QED
      BY <3>3, <3>4 DEF Range
  <2>3. QED
    BY <2>1, <2>2, <1>1, <1>3
<1>7. QED
  BY <1>5, <1>6

\* The invariant of the window is kept by every step.
LEMMA WindowNext == TypeOK /\ WindowInv /\ [Next]_vars => WindowInv'
<1> SUFFICES ASSUME TypeOK, WindowInv, [Next]_vars
             PROVE  WindowInv'
  OBVIOUS
<1>1. CASE UNCHANGED <<seen, history>>
  BY <1>1 DEF WindowInv
<1>2. ASSUME NEW e \in net, NEW ok \in BOOLEAN, Dispatch(e, ok)
      PROVE  WindowInv'
  <2> DEFINE p == [id |-> e.id, cmd |-> e.cmd]
  <2>1. e \in Envelope
    BY DEF TypeOK
  <2>2. e.to \in Node /\ p \in Passed /\ p.id = e.id
    BY <2>1 DEF Envelope, Passed
  <2>3. /\ seen[e.to] \in Seq(MessageId) /\ history[e.to] \in Seq(Passed)
        /\ Remembers(seen[e.to], history[e.to]) /\ Apart(history[e.to])
    BY <2>2 DEF TypeOK, WindowInv
  <2>4. p.id \notin Range(seen[e.to])
    BY <1>2, <2>2 DEF Dispatch
  <2> HIDE DEF p
  <2>5. /\ Remembers(AcceptId(seen[e.to], p.id), Append(history[e.to], p))
        /\ Apart(Append(history[e.to], p))
    BY <2>2, <2>3, <2>4, AcceptRemembers
  <2>6. \A n \in Node :
          /\ seen'[n] = IF n = e.to THEN AcceptId(seen[e.to], p.id) ELSE seen[n]
          /\ history'[n] = IF n = e.to THEN Append(history[e.to], p) ELSE history[n]
    BY <1>2, <2>2 DEF Dispatch, TypeOK, p
  <2>7. QED
    BY <2>5, <2>6 DEF WindowInv
<1>3. ASSUME NEW n \in Node, Restart(n)
      PROVE  WindowInv'
  <2>1. \A m \in Node :
          /\ seen'[m] = IF m = n THEN << >> ELSE seen[m]
          /\ history'[m] = IF m = n THEN << >> ELSE history[m]
    BY <1>3 DEF Restart, TypeOK
  <2>2. Remembers(<< >>, << >>) /\ Apart(<< >>)
    BY DeliveryAssumption DEF Remembers, Apart
  <2>3. QED
    BY <2>1, <2>2 DEF WindowInv
<1>4. QED
  BY <1>1, <1>2, <1>3, Zenon
  DEF Next, vars, Tell, NoOwner, AttemptOk, AttemptErr, Lose, DropRepeat

\* The initial state is typed, with nothing let through and nothing remembered.
LEMMA InitTyped == Init => TypeOK /\ LeftInv /\ WindowInv
<1> SUFFICES ASSUME Init PROVE TypeOK /\ LeftInv /\ WindowInv
  OBVIOUS
<1>1. (CHOOSE n \in Node : TRUE) \in Node
  BY DeliveryAssumption
<1>2. TypeOK /\ LeftInv
  BY <1>1, DeliveryAssumption DEF Init, TypeOK, LeftInv, Call, MessageId
<1>3. WindowInv
  BY DeliveryAssumption DEF Init, WindowInv, Remembers, Apart
<1>4. QED
  BY <1>2, <1>3

\* Every variable of the senders and the receivers keeps its type.
THEOREM TypeCorrect == Spec => []TypeOK
<1>1. Init => TypeOK /\ LeftInv
  BY InitTyped
<1>2. TypeOK /\ LeftInv /\ [Next]_vars => (TypeOK /\ LeftInv)'
  BY TypeNext
<1>3. QED
  BY <1>1, <1>2, PTL DEF Spec

\* For any window, Dedup lets an id through twice only if more than a window of
\* others came between: restarts, retries and reordering do not matter.
THEOREM WindowIsKept == Spec => []WindowHolds
<1>1. Init => TypeOK /\ LeftInv /\ WindowInv
  BY InitTyped
<1>2. TypeOK /\ LeftInv /\ WindowInv /\ [Next]_vars => (TypeOK /\ LeftInv /\ WindowInv)'
  BY TypeNext, WindowNext
<1>3. WindowInv => WindowHolds
  BY SMTT(30) DEF WindowInv, WindowHolds, Apart
<1>4. QED
  BY <1>1, <1>2, <1>3, PTL DEF Spec

----------------------------------------------------------------------------
(* What the caller is told *)

\* What a process has let through after a dispatch: what it had, and the command.
LEMMA DispatchHistory ==
  ASSUME TypeOK, NEW e \in net, NEW ok \in BOOLEAN, Dispatch(e, ok),
         NEW n \in Node, NEW i \in 1..Len(history'[n])
  PROVE  \/ i \in 1..Len(history[n]) /\ history'[n][i] = history[n][i]
         \/ n = e.to /\ history'[n][i] = [id |-> e.id, cmd |-> e.cmd]
<1> DEFINE p == [id |-> e.id, cmd |-> e.cmd]
<1>0. p \in Passed /\ history[n] \in Seq(Passed)
  BY Zenon DEF TypeOK, Passed, Envelope
<1>1. CASE n # e.to
  BY <1>1 DEF Dispatch, TypeOK
<1>2. CASE n = e.to
  <2>1. history'[n] = Append(history[n], p)
    BY <1>2 DEF Dispatch, TypeOK
  <2>2. Len(history'[n]) = Len(history[n]) + 1 /\ Len(history[n]) \in Nat
    BY <2>1, <1>0, AppendProperties
  <2>3. CASE i \in 1..Len(history[n])
    BY <2>1, <2>3, <1>0, AppendProperties
  <2>4. CASE i = Len(history[n]) + 1
    BY <1>2, <2>1, <2>4, <1>0, AppendProperties
  <2>5. QED
    BY <2>2, <2>3, <2>4
<1>3. QED
  BY <1>1, <1>2

\* Only a call whose attempt succeeded has left anything behind, save where errors
\* are not to be believed.
FailInv ==
  \A c \in Command : call[c].state # "sent" =>
    /\ \A e \in net : e.cmd = c => e.to \in Ambiguous
    /\ \A n \in Node \ Ambiguous : \A i \in 1..Len(history[n]) : history[n][i].cmd # c

\* Failed attempts leave nothing behind where the transport is honest.
LEMMA FailNext == TypeOK /\ FailInv /\ [Next]_vars => FailInv'
<1> SUFFICES ASSUME TypeOK, FailInv, [Next]_vars, NEW c \in Command, call'[c].state # "sent"
             PROVE  /\ \A e \in net' : e.cmd = c => e.to \in Ambiguous
                    /\ \A n \in Node \ Ambiguous : \A i \in 1..Len(history'[n]) : history'[n][i].cmd # c
  BY DEF FailInv
<1>1. CASE call[c].state # "sent" /\ net' \subseteq net /\ history' = history
  BY <1>1 DEF FailInv
<1>2. ASSUME NEW n \in Sender, NEW d \in Command, Tell(n, d)
      PROVE  call[c].state # "sent" /\ net' \subseteq net /\ history' = history
  BY <1>2 DEF Tell, TypeOK, Call
<1>3. ASSUME NEW d \in Command, NoOwner(d)
      PROVE  call[c].state # "sent" /\ net' \subseteq net /\ history' = history
  BY <1>3 DEF NoOwner, TypeOK, Call
<1>4. ASSUME NEW d \in Command, NEW to \in Node, AttemptOk(d, to)
      PROVE  /\ \A e \in net' : e.cmd = c => e.to \in Ambiguous
             /\ \A n \in Node \ Ambiguous : \A i \in 1..Len(history'[n]) : history'[n][i].cmd # c
  <2>1. c # d /\ call[c].state # "sent" /\ history' = history
    BY <1>4 DEF AttemptOk, TypeOK, Call
  <2>2. EnvelopeOf(d, to).cmd = d
    BY DEF EnvelopeOf
  <2>3. \A e \in net' : e \in net \/ e.cmd = d
    BY <1>4, <2>2 DEF AttemptOk
  <2>4. QED
    BY <2>1, <2>3 DEF FailInv
<1>5. ASSUME NEW d \in Command, NEW to \in Node, NEW arrives \in BOOLEAN,
             AttemptErr(d, to, arrives)
      PROVE  /\ \A e \in net' : e.cmd = c => e.to \in Ambiguous
             /\ \A n \in Node \ Ambiguous : \A i \in 1..Len(history'[n]) : history'[n][i].cmd # c
  <2>1. call[c].state # "sent" /\ history' = history
    BY <1>5 DEF AttemptErr, TypeOK, Call
  <2>2. EnvelopeOf(d, to).to = to
    BY DEF EnvelopeOf
  <2>3. \A e \in net' : e \in net \/ e.to \in Ambiguous
    BY <1>5, <2>2 DEF AttemptErr
  <2>4. QED
    BY <2>1, <2>3 DEF FailInv
<1>6. ASSUME NEW e \in net, Lose(e) \/ DropRepeat(e)
      PROVE  call[c].state # "sent" /\ net' \subseteq net /\ history' = history
  BY <1>6 DEF Lose, DropRepeat
<1>7. ASSUME NEW e \in net, NEW ok \in BOOLEAN, Dispatch(e, ok)
      PROVE  /\ \A f \in net' : f.cmd = c => f.to \in Ambiguous
             /\ \A n \in Node \ Ambiguous : \A i \in 1..Len(history'[n]) : history'[n][i].cmd # c
  <2>1. /\ call[c].state # "sent" /\ net' \subseteq net /\ e.to \in Node
    BY <1>7 DEF Dispatch, TypeOK, Envelope
  <2>2. (e.cmd = c => e.to \in Ambiguous) /\ \A f \in net' : f.cmd = c => f.to \in Ambiguous
    BY <2>1 DEF FailInv
  <2>3. ASSUME NEW n \in Node \ Ambiguous, NEW i \in 1..Len(history'[n])
        PROVE  history'[n][i].cmd # c
    <3>1. CASE i \in 1..Len(history[n]) /\ history'[n][i] = history[n][i]
      BY <2>1, <2>3, <3>1 DEF FailInv
    <3>2. CASE n = e.to /\ history'[n][i] = [id |-> e.id, cmd |-> e.cmd]
      BY <2>2, <2>3, <3>2
    <3>3. QED
      BY <1>7, <2>3, <3>1, <3>2, DispatchHistory
  <2>4. QED
    BY <2>2, <2>3
<1>8. ASSUME NEW n \in Node, Restart(n)
      PROVE  /\ \A e \in net' : e.cmd = c => e.to \in Ambiguous
             /\ \A m \in Node \ Ambiguous : \A i \in 1..Len(history'[m]) : history'[m][i].cmd # c
  <2>1. call[c].state # "sent" /\ net' = net
    BY <1>8 DEF Restart, TypeOK, Call
  <2>2. \A m \in Node : history'[m] = IF m = n THEN << >> ELSE history[m]
    BY <1>8 DEF Restart, TypeOK
  <2>3. QED
    BY <2>1, <2>2 DEF FailInv
<1>9. CASE UNCHANGED vars
  BY <1>9 DEF vars, FailInv
<1>10. QED
  BY <1>1, <1>2, <1>3, <1>4, <1>5, <1>6, <1>7, <1>8, <1>9 DEF Next

\* A caller is told of a failure only if no node ever got the command, save nodes
\* to which the transport's errors are ambiguous: there are none for either
\* transport that ships.
THEOREM FailuresAreTrue == Spec => []FailureIsTrue
<1>1. Init => TypeOK /\ LeftInv /\ FailInv
  <2> SUFFICES ASSUME Init PROVE FailInv
    BY InitTyped
  <2>1. QED
    BY DEF Init, FailInv
<1>2. TypeOK /\ LeftInv /\ FailInv /\ [Next]_vars => (TypeOK /\ LeftInv /\ FailInv)'
  BY TypeNext, FailNext
<1>3. FailInv => FailureIsTrue
  BY DEF FailInv, FailureIsTrue
<1>4. QED
  BY <1>1, <1>2, <1>3, PTL DEF Spec

----------------------------------------------------------------------------
(* Ids *)

\* Among the commands of one process an id names one: the ids of the calls are
\* below the counter if the process that minted them is still there, no two calls
\* of a process share one, and whatever carries an id carries the command of that
\* call.
Told(c) == call[c].state # "new"
IdInv ==
  /\ \A c \in Command : Told(c) =>
       LET n == call[c].id.node
       IN call[c].era < era[n] \/ (call[c].era = era[n] /\ call[c].id.n < counter[n])
  /\ \A c, d \in Command :
       Told(c) /\ Told(d) /\ call[c].id = call[d].id /\ call[c].era = call[d].era => c = d
  /\ \A e \in net : Told(e.cmd) /\ e.id = call[e.cmd].id
  /\ \A n \in Node : \A i \in 1..Len(history[n]) :
       LET p == history[n][i] IN Told(p.cmd) /\ p.id = call[p.cmd].id

\* A step that starts no call, mints no id and lets nothing new carry one.
Steady ==
  /\ \A n \in Node : era'[n] = era[n] + 1 \/ (counter'[n] = counter[n] /\ era'[n] = era[n])
  /\ \A c \in Command : call'[c].id = call[c].id /\ call'[c].era = call[c].era
  /\ \A c \in Command : (call'[c].state = "new") = (call[c].state = "new")
  /\ \A e \in net' : e \in net \/ (e.cmd \in Command /\ e.id = call[e.cmd].id
                                    /\ call[e.cmd].state # "new")
  /\ \A n \in Node : \A i \in 1..Len(history'[n]) :
       \/ i \in 1..Len(history[n]) /\ history'[n][i] = history[n][i]
       \/ \E e \in net : history'[n][i].id = e.id /\ history'[n][i].cmd = e.cmd

\* Such a step keeps the ids in order, whatever else it does.
LEMMA IdsKept == ASSUME TypeOK, IdInv, Steady PROVE IdInv'
<1>1. \A e \in net : e.cmd \in Command
  BY DEF TypeOK, Envelope
<1>2. \A n \in Node : \A i \in 1..Len(history[n]) : history[n][i].cmd \in Command
  <2> SUFFICES ASSUME NEW n \in Node, NEW i \in 1..Len(history[n])
               PROVE  history[n][i].cmd \in Command
    OBVIOUS
  <2>1. history[n] \in Seq(Passed)
    BY DEF TypeOK
  <2>2. history[n][i] \in Passed
    BY <2>1
  <2>3. QED
    BY <2>2 DEF Passed
<1>3. ASSUME NEW c \in Command, Told(c)'
      PROVE  (LET n == call[c].id.node
              IN call[c].era < era[n] \/ (call[c].era = era[n] /\ call[c].id.n < counter[n]))'
  <2>1. /\ Told(c) /\ call'[c].id = call[c].id /\ call'[c].era = call[c].era
    BY <1>3 DEF Steady, Told
  <2>2. PICK n \in Node : n = call[c].id.node
    BY DEF TypeOK, Call, MessageId
  <2>3. /\ call[c].era \in Nat /\ era[n] \in Nat
        /\ call[c].era < era[n] \/ (call[c].era = era[n] /\ call[c].id.n < counter[n])
    BY <2>1, <2>2, Zenon DEF IdInv, TypeOK, Call
  <2>4. \/ counter'[n] = counter[n] /\ era'[n] = era[n]
        \/ era'[n] = era[n] + 1
    BY DEF Steady
  <2>5. call[c].era < era'[n] \/ (call[c].era = era'[n] /\ call[c].id.n < counter'[n])
    BY <2>3, <2>4
  <2> QED
    BY <2>1, <2>2, <2>5
<1>4. (\A c, d \in Command :
         Told(c) /\ Told(d) /\ call[c].id = call[d].id /\ call[c].era = call[d].era => c = d)'
  BY DEF IdInv, Steady, Told
<1>5. (\A e \in net : Told(e.cmd) /\ e.id = call[e.cmd].id)'
  BY <1>1 DEF IdInv, Steady, Told
<1>6. (\A n \in Node : \A i \in 1..Len(history[n]) :
         LET p == history[n][i] IN Told(p.cmd) /\ p.id = call[p.cmd].id)'
  <2> SUFFICES ASSUME NEW n \in Node, NEW i \in 1..Len(history'[n])
               PROVE  /\ call'[history'[n][i].cmd].state # "new"
                      /\ history'[n][i].id = call'[history'[n][i].cmd].id
    BY DEF Told
  <2>1. CASE i \in 1..Len(history[n]) /\ history'[n][i] = history[n][i]
    BY <2>1, <1>2 DEF IdInv, Steady, Told
  <2>2. CASE \E e \in net : history'[n][i].id = e.id /\ history'[n][i].cmd = e.cmd
    BY <2>2, <1>1 DEF IdInv, Steady, Told
  <2>3. QED
    BY <2>1, <2>2 DEF Steady
<1>7. QED
  BY <1>3, <1>4, <1>5, <1>6 DEF IdInv

\* The ids stay in order under every step.
LEMMA IdNext == TypeOK /\ IdInv /\ [Next]_vars => IdInv'
<1> SUFFICES ASSUME TypeOK, IdInv, [Next]_vars
             PROVE  IdInv'
  OBVIOUS
<1>1. ASSUME NEW n \in Sender, NEW c \in Command, Tell(n, c)
      PROVE  IdInv'
  <2>1. n \in Node /\ counter[n] \in Nat /\ era[n] \in Nat
    BY DeliveryAssumption DEF TypeOK
  <2>2. /\ call'[c].state = "sending" /\ call'[c].id = [node |-> n, n |-> counter[n]]
        /\ call'[c].era = era[n]
        /\ \A d \in Command : d # c => call'[d] = call[d]
        /\ \A m \in Node : counter'[m] = IF m = n THEN counter[n] + 1 ELSE counter[m]
        /\ era' = era /\ net' = net /\ history' = history
    BY <1>1 DEF Tell, Started, NextMessageId, TypeOK
  <2>3. \A d \in Command : call[d].id \in MessageId /\ (call[d].state # "new" => d # c)
    BY <1>1 DEF Tell, TypeOK, Call
  <2>4. ASSUME NEW d \in Command, Told(d)'
        PROVE  (LET m == call[d].id.node
                IN call[d].era < era[m] \/ (call[d].era = era[m] /\ call[d].id.n < counter[m]))'
    <3>1. CASE d = c
      BY <3>1, <2>1, <2>2
    <3>2. CASE d # c
      <4>1. Told(d) /\ call'[d] = call[d]
        BY <3>2, <2>2, <2>4 DEF Told
      <4>2. PICK m \in Node : m = call[d].id.node
        BY <2>3 DEF MessageId
      <4>3. /\ call[d].id.n \in Nat /\ counter[m] \in Nat
            /\ call[d].era < era[m] \/ (call[d].era = era[m] /\ call[d].id.n < counter[m])
        BY <4>1, <4>2, <2>3 DEF IdInv, TypeOK, MessageId
      <4>4. call[d].era < era'[m] \/ (call[d].era = era'[m] /\ call[d].id.n < counter'[m])
        BY <4>3, <2>1, <2>2
      <4>5. QED
        BY <4>1, <4>2, <4>4
    <3>3. QED
      BY <3>1, <3>2
  <2>5. ASSUME NEW d \in Command, Told(d), call[d].era = era[n]
        PROVE  call[d].id # [node |-> n, n |-> counter[n]]
    <3> SUFFICES ASSUME call[d].id = [node |-> n, n |-> counter[n]]
                 PROVE  FALSE
      OBVIOUS
    <3>1. era[n] < era[n] \/ counter[n] < counter[n]
      BY <2>5 DEF IdInv
    <3>2. QED
      BY <3>1, <2>1
  <2>6. (\A d, f \in Command :
           Told(d) /\ Told(f) /\ call[d].id = call[f].id /\ call[d].era = call[f].era => d = f)'
    BY <2>2, <2>5 DEF IdInv, Told
  <2>7. (\A e \in net : Told(e.cmd) /\ e.id = call[e.cmd].id)'
    <3>1. \A e \in net : e.cmd \in Command
      BY DEF TypeOK, Envelope
    <3>2. QED
      BY <3>1, <2>2, <2>3 DEF IdInv, Told
  <2>8. (\A m \in Node : \A i \in 1..Len(history[m]) :
           LET p == history[m][i] IN Told(p.cmd) /\ p.id = call[p.cmd].id)'
    <3> SUFFICES ASSUME NEW m \in Node, NEW i \in 1..Len(history[m])
                 PROVE  /\ call'[history[m][i].cmd].state # "new"
                        /\ history[m][i].id = call'[history[m][i].cmd].id
      BY <2>2 DEF Told
    <3>1. history[m] \in Seq(Passed)
      BY DEF TypeOK
    <3>2. history[m][i] \in Passed
      BY <3>1
    <3>3. history[m][i].cmd \in Command
      BY <3>2 DEF Passed
    <3>4. QED
      BY <3>3, <2>2, <2>3 DEF IdInv, Told
  <2>9. QED
    BY <2>4, <2>6, <2>7, <2>8 DEF IdInv
<1>2. ASSUME NEW c \in Command, NoOwner(c)
      PROVE  IdInv'
  <2>1. /\ \A d \in Command : call'[d].id = call[d].id /\ call'[d].era = call[d].era
        /\ \A d \in Command : (call'[d].state = "new") = (call[d].state = "new")
        /\ counter' = counter /\ era' = era /\ net' = net /\ history' = history
    BY <1>2 DEF NoOwner, TypeOK, Call
  <2>2. Steady
    BY <2>1 DEF Steady
  <2>3. QED
    BY <2>2, IdsKept
<1>3. ASSUME NEW c \in Command, NEW to \in Node, NEW arrives \in BOOLEAN,
             AttemptOk(c, to) \/ AttemptErr(c, to, arrives)
      PROVE  IdInv'
  <2>1. /\ \A d \in Command : call'[d].id = call[d].id /\ call'[d].era = call[d].era
        /\ \A d \in Command : (call'[d].state = "new") = (call[d].state = "new")
        /\ counter' = counter /\ era' = era /\ history' = history
        /\ call[c].state # "new"
    <3>1. CASE AttemptOk(c, to)
      BY <3>1 DEF AttemptOk, TypeOK, Call
    <3>2. CASE AttemptErr(c, to, arrives)
      BY <3>2 DEF AttemptErr, TypeOK, Call
    <3>3. QED
      BY <1>3, <3>1, <3>2
  <2>2. \A e \in net' : e \in net \/ e = EnvelopeOf(c, to)
    BY <1>3 DEF AttemptOk, AttemptErr
  <2>3. EnvelopeOf(c, to).cmd = c /\ EnvelopeOf(c, to).id = call[c].id
    BY DEF EnvelopeOf
  <2>4. \A e \in net' : e \in net \/ (e.cmd \in Command /\ e.id = call[e.cmd].id
                                      /\ call[e.cmd].state # "new")
    <3>1. ASSUME NEW e \in net', e = EnvelopeOf(c, to)
          PROVE  e.cmd \in Command /\ e.id = call[e.cmd].id /\ call[e.cmd].state # "new"
      BY <3>1, <2>1, <2>3
    <3>2. QED
      BY <3>1, <2>2
  <2>5. Steady
    BY <2>1, <2>4 DEF Steady
  <2>6. QED
    BY <2>5, IdsKept
<1>4. ASSUME NEW e \in net, Lose(e) \/ DropRepeat(e)
      PROVE  IdInv'
  <2>1. Steady
    BY <1>4 DEF Lose, DropRepeat, Steady
  <2>2. QED
    BY <2>1, IdsKept
<1>5. ASSUME NEW e \in net, NEW ok \in BOOLEAN, Dispatch(e, ok)
      PROVE  IdInv'
  <2>1. e.to \in Node /\ counter' = counter /\ era' = era /\ call' = call /\ net' \subseteq net
    BY <1>5 DEF Dispatch, TypeOK, Envelope
  <2>2. \A n \in Node : \A i \in 1..Len(history'[n]) :
          \/ i \in 1..Len(history[n]) /\ history'[n][i] = history[n][i]
          \/ \E f \in net : history'[n][i].id = f.id /\ history'[n][i].cmd = f.cmd
    <3> SUFFICES ASSUME NEW n \in Node, NEW i \in 1..Len(history'[n])
                 PROVE  \/ i \in 1..Len(history[n]) /\ history'[n][i] = history[n][i]
                        \/ \E f \in net : history'[n][i].id = f.id /\ history'[n][i].cmd = f.cmd
      OBVIOUS
    <3>1. \/ i \in 1..Len(history[n]) /\ history'[n][i] = history[n][i]
          \/ history'[n][i] = [id |-> e.id, cmd |-> e.cmd]
      BY <1>5, DispatchHistory
    <3>2. CASE history'[n][i] = [id |-> e.id, cmd |-> e.cmd]
      <4>1. history'[n][i].id = e.id /\ history'[n][i].cmd = e.cmd
        BY <3>2
      <4>2. QED
        BY <4>1, Zenon
    <3>3. QED
      BY <3>1, <3>2
  <2>3. Steady
    BY <2>1, <2>2 DEF Steady
  <2>4. QED
    BY <2>3, IdsKept
<1>6. ASSUME NEW n \in Node, Restart(n)
      PROVE  IdInv'
  <2>2. \A m \in Node : era'[m] = era[m] + 1 \/ (counter'[m] = counter[m] /\ era'[m] = era[m])
    BY <1>6 DEF Restart, TypeOK
  <2>3. /\ \A c \in Command : call'[c].id = call[c].id /\ call'[c].era = call[c].era
        /\ \A c \in Command : (call'[c].state = "new") = (call[c].state = "new")
    BY <1>6 DEF Restart, TypeOK, Call
  <2>4. \A m \in Node : history'[m] = IF m = n THEN << >> ELSE history[m]
    BY <1>6 DEF Restart, TypeOK
  <2>5. \A m \in Node : \A i \in 1..Len(history'[m]) :
          i \in 1..Len(history[m]) /\ history'[m][i] = history[m][i]
    BY <2>4
  <2>6. net' = net
    BY <1>6 DEF Restart
  <2>7. Steady
    BY <2>2, <2>3, <2>5, <2>6 DEF Steady
  <2>8. QED
    BY <2>7, IdsKept
<1>7. CASE UNCHANGED vars
  <2>1. Steady
    BY <1>7 DEF vars, Steady
  <2>2. QED
    BY <2>1, IdsKept
<1>8. QED
  BY <1>1, <1>2, <1>3, <1>4, <1>5, <1>6, <1>7, Zenon DEF Next

\* Where errors are to be believed, one copy of a command is on its way or has been
\* let through, never two.
SingleInv ==
  \A e \in net : e.to \notin Ambiguous =>
    /\ \A f \in net : f.cmd = e.cmd /\ f.to \notin Ambiguous => f = e
    /\ \A n \in Node \ Ambiguous : \A i \in 1..Len(history[n]) : history[n][i].cmd # e.cmd

\* There is one copy after every step: an attempt that succeeds finds none, since
\* those before it have failed, and a dispatch takes away the one it lets through.
LEMMA SingleNext == TypeOK /\ FailInv /\ SingleInv /\ [Next]_vars => SingleInv'
<1> SUFFICES ASSUME TypeOK, FailInv, SingleInv, [Next]_vars
             PROVE  SingleInv'
  OBVIOUS
<1>1. ASSUME net' \subseteq net,
             \A n \in Node : history'[n] = history[n] \/ history'[n] = << >>
      PROVE  SingleInv'
  <2>1. ASSUME NEW n \in Node, NEW i \in 1..Len(history'[n])
        PROVE  i \in 1..Len(history[n]) /\ history'[n][i] = history[n][i]
    BY <1>1, <2>1
  <2> SUFFICES ASSUME NEW e \in net', e.to \notin Ambiguous
               PROVE  /\ \A f \in net' : f.cmd = e.cmd /\ f.to \notin Ambiguous => f = e
                      /\ \A n \in Node \ Ambiguous :
                           \A i \in 1..Len(history'[n]) : history'[n][i].cmd # e.cmd
    BY Zenon DEF SingleInv
  <2>2. \A f \in net' : f.cmd = e.cmd /\ f.to \notin Ambiguous => f = e
    BY <1>1, Zenon DEF SingleInv
  <2>3. ASSUME NEW n \in Node \ Ambiguous, NEW i \in 1..Len(history'[n])
        PROVE  history'[n][i].cmd # e.cmd
    <3>1. i \in 1..Len(history[n]) /\ history'[n][i] = history[n][i]
      BY <2>1, <2>3
    <3>2. QED
      BY <1>1, <2>3, <3>1, Zenon DEF SingleInv
  <2>4. QED
    BY <2>2, <2>3
<1>2. ASSUME NEW c \in Command, NEW to \in Node, AttemptOk(c, to)
      PROVE  SingleInv'
  <2> DEFINE new == EnvelopeOf(c, to)
  <2>1. /\ new.cmd = c /\ net' = net \cup {new} /\ history' = history
    BY <1>2 DEF AttemptOk, EnvelopeOf
  <2>2. /\ \A e \in net : e.cmd = c => e.to \in Ambiguous
        /\ \A n \in Node \ Ambiguous : \A i \in 1..Len(history[n]) : history[n][i].cmd # c
    BY <1>2 DEF AttemptOk, FailInv
  <2> HIDE DEF new
  <2>3. QED
    BY <2>1, <2>2, ZenonT(30) DEF SingleInv
<1>3. ASSUME NEW c \in Command, NEW to \in Node, NEW arrives \in BOOLEAN,
             AttemptErr(c, to, arrives)
      PROVE  SingleInv'
  <2>1. EnvelopeOf(c, to).to = to
    BY DEF EnvelopeOf
  <2>2. /\ \A e \in net' : e \in net \/ e.to \in Ambiguous
        /\ history' = history
    BY <1>3, <2>1 DEF AttemptErr
  <2>3. QED
    BY <2>2, Zenon DEF SingleInv
<1>4. ASSUME NEW e \in net, NEW ok \in BOOLEAN, Dispatch(e, ok)
      PROVE  SingleInv'
  <2>1. net' = net \ {e}
    BY <1>4 DEF Dispatch
  <2> SUFFICES ASSUME NEW f \in net', f.to \notin Ambiguous
               PROVE  /\ \A g \in net' : g.cmd = f.cmd /\ g.to \notin Ambiguous => g = f
                      /\ \A n \in Node \ Ambiguous :
                           \A i \in 1..Len(history'[n]) : history'[n][i].cmd # f.cmd
    BY Zenon DEF SingleInv
  <2>2. /\ f \in net /\ f # e
        /\ \A g \in net' : g.cmd = f.cmd /\ g.to \notin Ambiguous => g = f
        /\ e.cmd = f.cmd => e.to \in Ambiguous
    BY <2>1, Zenon DEF SingleInv
  <2>3. ASSUME NEW n \in Node \ Ambiguous, NEW i \in 1..Len(history'[n])
        PROVE  history'[n][i].cmd # f.cmd
    <3>1. CASE i \in 1..Len(history[n]) /\ history'[n][i] = history[n][i]
      BY <2>2, <2>3, <3>1, Zenon DEF SingleInv
    <3>2. CASE n = e.to /\ history'[n][i] = [id |-> e.id, cmd |-> e.cmd]
      BY <2>2, <2>3, <3>2
    <3>3. QED
      BY <1>4, <2>3, <3>1, <3>2, DispatchHistory
  <2>4. QED
    BY <2>2, <2>3
<1>5. ASSUME NEW n \in Node, Restart(n)
      PROVE  SingleInv'
  <2>1. net' = net /\ \A m \in Node : history'[m] = history[m] \/ history'[m] = << >>
    BY <1>5 DEF Restart, TypeOK
  <2>2. QED
    BY <1>1, <2>1
<1>6. ASSUME net' \subseteq net, history' = history
      PROVE  SingleInv'
  BY <1>1, <1>6
<1>7. CASE UNCHANGED vars
  BY <1>6, <1>7 DEF vars
<1>8. ASSUME NEW e \in net, Lose(e) \/ DropRepeat(e)
      PROVE  SingleInv'
  BY <1>6, <1>8 DEF Lose, DropRepeat
<1>9. ASSUME NEW n \in Sender, NEW c \in Command, Tell(n, c)
      PROVE  SingleInv'
  BY <1>6, <1>9 DEF Tell
<1>10. ASSUME NEW c \in Command, NoOwner(c)
       PROVE  SingleInv'
  BY <1>6, <1>10 DEF NoOwner
<1>11. QED
  BY <1>2, <1>3, <1>4, <1>5, <1>7, <1>8, <1>9, <1>10, Zenon DEF Next

\* Whatever restarts, senders too: dispatch drops a command only if its id was let
\* through before, with the same command where the transport may fail for what it
\* delivers, or with a command of another process of the same node.
THEOREM RepeatsAreRepeats == Spec => DropsOnlyRepeats
<1> DEFINE Inv == /\ TypeOK /\ LeftInv /\ WindowInv
                  /\ IdInv /\ FailInv /\ SingleInv
           Drops == \A e \in net : DropRepeat(e) =>
                      \E i \in 1..Len(history[e.to]) :
                        LET first == history[e.to][i]
                        IN /\ first.id = e.id
                           /\ IF first.cmd = e.cmd THEN e.to \in Ambiguous
                              ELSE call[first.cmd].era # call[e.cmd].era
<1>1. Init => Inv
  <2> SUFFICES ASSUME Init PROVE IdInv /\ FailInv /\ SingleInv
    BY InitTyped
  <2>1. QED
    BY DEF Init, IdInv, FailInv, SingleInv, Told
<1>2. Inv /\ [Next]_vars => Inv'
  BY TypeNext, WindowNext, IdNext, FailNext, SingleNext
<1>3. Inv => Drops
  <2> SUFFICES ASSUME Inv, NEW e \in net, e.id \in Range(seen[e.to])
               PROVE  \E i \in 1..Len(history[e.to]) :
                        LET first == history[e.to][i]
                        IN /\ first.id = e.id
                           /\ IF first.cmd = e.cmd THEN e.to \in Ambiguous
                              ELSE call[first.cmd].era # call[e.cmd].era
    BY DEF DropRepeat
  <2> DEFINE s == seen[e.to]
             h == history[e.to]
  <2>1. e.to \in Node /\ e.cmd \in Command
    BY DEF TypeOK, Envelope
  <2>2. s \in Seq(MessageId) /\ h \in Seq(Passed) /\ Remembers(s, h)
    BY <2>1 DEF TypeOK, WindowInv
  <2>3. PICK k \in 1..Len(s) : s[k] = e.id
    BY <2>2 DEF Range
  <2> DEFINE i == Len(h) - Len(s) + k
  <2>a. Len(s) \in Nat /\ Len(h) \in Nat /\ Len(s) <= Len(h)
    BY <2>2 DEF Remembers
  <2>4. i \in 1..Len(h) /\ h[i].id = e.id
    <3>1. i \in 1..Len(h)
      <4> HIDE DEF s, h
      <4>1. QED
        BY <2>a, <2>3
    <3>2. s[k] = h[Len(h) - Len(s) + k].id
      BY <2>2, <2>3, Zenon DEF Remembers
    <3>3. QED
      BY <2>3, <3>1, <3>2, Zenon
  <2> HIDE DEF i
  <2>5. h[i] \in Passed
    BY <2>2, <2>4
  <2>6. h[i].cmd \in Command
    BY <2>5 DEF Passed
  <2>7. CASE h[i].cmd = e.cmd
    <3>1. e.to \in Ambiguous
      BY <2>1, <2>4, <2>7 DEF SingleInv
    <3>2. QED
      BY <3>1, <2>4, <2>7
  <2>8. CASE h[i].cmd # e.cmd
    <3>1. call[h[i].cmd].era # call[e.cmd].era
      BY <2>1, <2>4, <2>6, <2>8 DEF IdInv
    <3>2. QED
      BY <3>1, <2>4, <2>8
  <2>9. QED
    BY <2>7, <2>8
<1>4. Inv => [Drops]_vars
  BY <1>3
<1>5. QED
  BY <1>1, <1>2, <1>4, PTL DEF Spec, DropsOnlyRepeats

=============================================================================
