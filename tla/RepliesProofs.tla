---------------------------- MODULE RepliesProofs ----------------------------
(***************************************************************************)
(* What the asks of a cluster can rely on, for any number of nodes and of  *)
(* asks, any capacity of the waiting table and any number of hops.         *)
(*                                                                         *)
(* BaseInv keeps handles and rows apart.  The operations of the table are  *)
(* taken first, then the actions on a message, which are of two forms,     *)
(* and then all actions.  On top of it MatchInv says that a correlation    *)
(* names one ask, OweInv that a row leaves the waiting table only with its *)
(* caller told, and RowInv that it does leave.                             *)
(***************************************************************************)
EXTENDS Replies, FiniteSetTheorems, TLAPS

Fate == {"open", "closed"} \cup Ask
Stage == {"idle", "sending", "waiting", "answered", "failed", "gone"}

\* A message and its fields.
LEMMA OwedFields ==
  ASSUME NEW m \in Owed
  PROVE  /\ m.kind \in {"command", "handle", "answer", "abandon"}
         /\ m.at \in Node /\ m.origin \in Node /\ m.ask \in Ask
         /\ m.corr \in Nat \cup {Local} /\ m.hops \in 0..MaxHops
         /\ (m.corr = Local => m.kind = "handle" /\ m.at = m.origin)
BY DEF Owed

\* A record of these fields is one.
LEMMA OwedMade ==
  ASSUME NEW k \in {"command", "handle", "answer", "abandon"}, NEW at \in Node,
         NEW o \in Node, NEW c \in Nat \cup {Local}, NEW a \in Ask, NEW i \in 0..MaxHops,
         c = Local => k = "handle" /\ at = o
  PROVE  [kind |-> k, at |-> at, origin |-> o, corr |-> c, ask |-> a, hops |-> i] \in Owed
BY DEF Owed

\* A message that has changed its kind, its place, and perhaps its correlation.
Message ==
  [kind : {"command", "handle", "answer", "abandon"}, at : Node, origin : Node,
   corr : Nat \cup {Local}, ask : Ask, hops : 0..MaxHops]

Sent(m, k, at) == [m EXCEPT !.kind = k, !.at = at]

\* ... which it may still be sent with ...
LEMMA OwedSent ==
  ASSUME NEW m \in Owed, NEW k \in {"command", "handle", "answer", "abandon"},
         NEW at \in Node, m.corr = Local => k = "handle" /\ at = m.origin,
         NEW q, q = Sent(m, k, at)
  PROVE  /\ q \in Owed /\ q.kind = k /\ q.at = at /\ q.origin = m.origin
         /\ q.corr = m.corr /\ q.ask = m.ask /\ q.hops = m.hops
<1>1. m \in Message
  BY DEF Owed, Message
<1>2. q \in Message
  BY <1>1, Zenon DEF Message, Sent
<1>3. /\ q.kind = k /\ q.at = at /\ q.origin = m.origin
      /\ q.corr = m.corr /\ q.ask = m.ask /\ q.hops = m.hops
  BY <1>1 DEF Message, Sent
<1>4. q \in Owed
  BY <1>2, <1>3 DEF Owed, Message
<1> QED
  BY <1>3, <1>4

Forwarded(m, at, c) ==
  [m EXCEPT !.kind = "command", !.at = at, !.corr = c, !.hops = @ + 1]

\* ... or passed on in another command.
LEMMA OwedForwarded ==
  ASSUME NEW m \in Owed, NEW at \in Node, NEW c \in Nat, m.hops < MaxHops,
         NEW q, q = Forwarded(m, at, c)
  PROVE  /\ q \in Owed /\ q.kind = "command" /\ q.at = at /\ q.origin = m.origin
         /\ q.corr = c /\ q.ask = m.ask
<1> DEFINE q1 == [m EXCEPT !.kind = "command"]
           q2 == [q1 EXCEPT !.at = at]
           q3 == [q2 EXCEPT !.corr = c]
           q4 == [q3 EXCEPT !.hops = @ + 1]
<1>0. q = q4
  BY DEF Forwarded
<1>1. m \in Message /\ c # Local
  BY DEF Owed, Message, Local
<1>2. q1 \in Message /\ q1.kind = "command" /\ q1.origin = m.origin /\ q1.ask = m.ask
      /\ q1.hops = m.hops
  BY <1>1 DEF Message
<1> HIDE DEF q1
<1>3. q2 \in Message /\ q2.kind = "command" /\ q2.origin = m.origin /\ q2.ask = m.ask
      /\ q2.hops = m.hops /\ q2.at = at
  BY <1>2 DEF Message
<1> HIDE DEF q2
<1>4. q3 \in Message /\ q3.kind = "command" /\ q3.origin = m.origin /\ q3.ask = m.ask
      /\ q3.hops = m.hops /\ q3.at = at /\ q3.corr = c
  BY <1>3 DEF Message
<1> HIDE DEF q3
<1>5. q3.hops + 1 \in 0..MaxHops
  BY <1>4, RepliesAssumption DEF Message
<1>6. q4 \in Message /\ q4.kind = "command" /\ q4.origin = m.origin /\ q4.ask = m.ask
      /\ q4.at = at /\ q4.corr = c
  BY <1>4, <1>5 DEF Message
<1> HIDE DEF q4
<1>7. q \in Owed
  BY <1>0, <1>1, <1>6 DEF Owed, Message
<1> QED
  BY <1>0, <1>6, <1>7

----------------------------------------------------------------------------
(* The waiting table *)

\* What every step does with the table: a row leaves it only with its caller
\* told, and a caller that has been told stays so.
Closing ==
  /\ waiting' \in [Node -> SUBSET Row]
  /\ chan' \in [Ask -> Fate]
  /\ \A n \in Node : \A w \in waiting[n] : w \in waiting'[n] \/ chan'[w.ask] # "open"
  /\ \A a \in Ask : chan'[a] = "open" => chan[a] = "open"

Shrinks == \A n \in Node : waiting'[n] \subseteq waiting[n]

Honest == \A a \in Ask : chan'[a] \in {chan[a], "closed", a}

\* Closing the channels of some asks leaves answers where they are.
LEMMA ClosedIs ==
  ASSUME TypeOK, NEW asks
  PROVE  /\ Closed(asks) \in [Ask -> Fate]
         /\ \A a \in asks \cap Ask : Closed(asks)[a] # "open"
         /\ \A a \in Ask : Closed(asks)[a] \in {chan[a], "closed"}
<1>1. chan \in [Ask -> Fate]
  BY DEF TypeOK, Fate
<1> QED
  BY <1>1 DEF Closed, Fate

\* Rows that go from one table, with their callers told.
LEMMA RowsGo ==
  ASSUME TypeOK, NEW n \in Node, NEW rows \in SUBSET Row,
         waiting' = [waiting EXCEPT ![n] = @ \ rows], chan' = Closed(AsksOf(rows))
  PROVE  Closing /\ Shrinks /\ Honest
<1>1. waiting \in [Node -> SUBSET Row] /\ waiting' \in [Node -> SUBSET Row]
  BY DEF TypeOK
<1>2. \A w \in rows : w.ask \in AsksOf(rows) /\ w.ask \in Ask
  BY DEF AsksOf, Row
<1>3. \A w \in rows : chan'[w.ask] # "open"
  BY <1>2, ClosedIs
<1>4. \A a \in Ask : chan'[a] \in {chan[a], "closed"}
  BY ClosedIs
<1>5. chan' \in [Ask -> Fate]
  BY ClosedIs
<1> QED
  BY <1>1, <1>3, <1>4, <1>5 DEF Closing, Shrinks, Honest

\* Cancelled.
LEMMA ForgetGoes ==
  ASSUME TypeOK, NEW a \in Ask, Forget(a)
  PROVE  /\ Closing /\ Shrinks /\ Honest
         /\ \A w \in waiting[home[a]] : w.corr = slot[a] => w \notin waiting'[home[a]]
<1> DEFINE rows == {r \in waiting[home[a]] : r.corr = slot[a]}
<1>1. home[a] \in Node
  BY RepliesAssumption DEF TypeOK
<1>2. rows \in SUBSET Row
  BY <1>1 DEF TypeOK
<1>3. waiting' = [waiting EXCEPT ![home[a]] = @ \ rows] /\ chan' = Closed(AsksOf(rows))
  BY DEF Forget
<1>4. \A w \in waiting[home[a]] : w.corr = slot[a] => w \notin waiting'[home[a]]
  BY <1>1, <1>3 DEF TypeOK
<1> HIDE DEF rows
<1> QED
  BY <1>1, <1>2, <1>3, <1>4, RowsGo, Zenon

\* deliver_reply tells whoever is in the rows it takes; they get an answer of
\* their own if the rows are theirs.
LEMMA DeliverGoes ==
  ASSUME TypeOK, NEW n \in Node, NEW r, r.ask \in Ask, DeliverReply(n, r)
  PROVE  /\ Closing /\ Shrinks
         /\ \A w \in waiting[n] :
              w.corr = r.corr => chan'[w.ask] # "open" /\ w \notin waiting'[n]
         /\ (\A w \in waiting[n] : w.corr = r.corr => w.ask = r.ask) => Honest
<1> DEFINE rows == {w \in waiting[n] : w.corr = r.corr}
<1>1. /\ waiting' = [waiting EXCEPT ![n] = @ \ rows]
      /\ chan' = IF r.kind = "answer"
                 THEN [a \in Ask |-> IF a \in AsksOf(rows) /\ chan[a] = "open"
                                     THEN r.ask ELSE chan[a]]
                 ELSE Closed(AsksOf(rows))
  BY DEF DeliverReply
<1>2. rows \in SUBSET Row /\ waiting \in [Node -> SUBSET Row] /\ chan \in [Ask -> Fate]
  BY DEF TypeOK, Fate
<1>3. \A w \in rows : w.ask \in AsksOf(rows) /\ w.ask \in Ask
  BY <1>2 DEF AsksOf, Row
<1>4. \A w \in waiting[n] : w.corr = r.corr => w \in rows /\ w \notin waiting'[n]
  BY <1>1, <1>2
<1>5. (\A w \in waiting[n] : w.corr = r.corr => w.ask = r.ask) => AsksOf(rows) \subseteq {r.ask}
  BY DEF AsksOf
<1> HIDE DEF rows
<1>6. CASE r.kind # "answer"
  <2>1. chan' = Closed(AsksOf(rows))
    BY <1>1, <1>6
  <2>2. Closing /\ Shrinks /\ Honest
    BY <1>1, <1>2, <2>1, RowsGo, Zenon
  <2>3. \A w \in rows : chan'[w.ask] # "open"
    BY <1>3, <2>1, ClosedIs
  <2> QED
    BY <1>4, <2>2, <2>3
<1>7. CASE r.kind = "answer"
  <2>1. chan' = [a \in Ask |-> IF a \in AsksOf(rows) /\ chan[a] = "open"
                               THEN r.ask ELSE chan[a]]
    BY <1>1, <1>7
  <2>2. r.ask # "open" /\ r.ask \in Fate
    BY RepliesAssumption DEF Fate
  <2>3. \A w \in rows : chan'[w.ask] # "open"
    BY <1>2, <1>3, <2>1, <2>2
  <2>4. chan' \in [Ask -> Fate] /\ \A a \in Ask : chan'[a] = "open" => chan[a] = "open"
    BY <1>2, <2>1, <2>2
  <2>5. Closing /\ Shrinks
    BY <1>1, <1>2, <2>3, <2>4 DEF Closing, Shrinks
  <2>6. AsksOf(rows) \subseteq {r.ask} => Honest
    BY <2>1 DEF Honest
  <2> QED
    BY <1>4, <1>5, <2>3, <2>5, <2>6
<1> QED
  BY <1>6, <1>7

\* register: a new row, unless its caller is told at once, under a correlation
\* that nothing else has.
Registers(n, a) ==
  LET new == [corr |-> correlations[n], ask |-> a]
  IN /\ Closing /\ Honest
     /\ new \in waiting'[n] \/ chan'[a] # "open"
     /\ waiting'[n] \subseteq waiting[n] \cup {new}
     /\ \A k \in Node \ {n} : waiting'[k] = waiting[k]
     /\ correlations' \in [Node -> Nat]
     /\ correlations[n] \in Nat /\ correlations'[n] = correlations[n] + 1
     /\ \A k \in Node \ {n} : correlations'[k] = correlations[k]
     /\ slot' \in [Ask -> Nat \cup {Local}] /\ slot'[a] = correlations[n]
     /\ \A b \in Ask \ {a} : slot'[b] = slot[b]

\* That is what it does.
LEMMA RegisterAdds ==
  ASSUME TypeOK, NEW n \in Node, NEW a \in Ask, Register(n, a)
  PROVE  Registers(n, a)
<1> DEFINE new == [corr |-> correlations[n], ask |-> a]
           rows == waiting[n] \cup {new}
           out == Evicted(rows)
<1>1. /\ waiting' = [waiting EXCEPT ![n] = rows \ out] /\ chan' = Closed(AsksOf(out))
      /\ correlations' = [correlations EXCEPT ![n] = @ + 1]
      /\ slot' = [slot EXCEPT ![a] = correlations[n]]
  BY DEF Register
<1>2. /\ correlations \in [Node -> Nat] /\ slot \in [Ask -> Nat \cup {Local}]
      /\ waiting \in [Node -> SUBSET Row] /\ correlations[n] \in Nat
  BY DEF TypeOK
<1>3. new \in Row /\ new.ask = a
  BY <1>2 DEF Row
<1>4. out \subseteq rows /\ rows \in SUBSET Row
  BY <1>2, <1>3 DEF Evicted
<1>5. \A w \in out : w.ask \in AsksOf(out) /\ w.ask \in Ask
  BY <1>4 DEF AsksOf, Row
<1> HIDE DEF new, out
<1>6. \A w \in out : chan'[w.ask] # "open"
  BY <1>1, <1>5, ClosedIs
<1>7. \A b \in Ask : chan'[b] \in {chan[b], "closed"}
  BY <1>1, ClosedIs
<1>8. chan' \in [Ask -> Fate]
  BY <1>1, ClosedIs
<1>9. /\ waiting' \in [Node -> SUBSET Row] /\ waiting'[n] = rows \ out
      /\ \A k \in Node \ {n} : waiting'[k] = waiting[k]
  BY <1>1, <1>2, <1>4
<1>10. Closing /\ Honest
  BY <1>6, <1>7, <1>8, <1>9 DEF Closing, Honest
<1>11. new \in waiting'[n] \/ chan'[a] # "open"
  BY <1>3, <1>6, <1>9
<1>12. /\ correlations' \in [Node -> Nat] /\ correlations'[n] = correlations[n] + 1
       /\ \A k \in Node \ {n} : correlations'[k] = correlations[k]
       /\ slot' \in [Ask -> Nat \cup {Local}] /\ slot'[a] = correlations[n]
       /\ \A b \in Ask \ {a} : slot'[b] = slot[b]
  BY <1>1, <1>2
<1> QED
  BY <1>2, <1>9, <1>10, <1>11, <1>12 DEF new, Registers

----------------------------------------------------------------------------
(* What an action on a message does *)

Removes(m) == owed' = owed \ {m}

Replaces(m, q) ==
  /\ owed' = (owed \ {m}) \cup {q}
  /\ q \in Owed /\ q.ask = m.ask /\ q.origin = m.origin
  /\ q.kind \in {"answer", "abandon"} => q.at = q.origin

\* The caller of m, through its channel or its row, has been told, and the row is
\* gone.
Told(m) ==
  /\ m.corr = Local => chan'[m.ask] # "open"
  /\ \A w \in waiting[m.origin] :
       w.corr = m.corr => chan'[w.ask] # "open" /\ w \notin waiting'[m.origin]

Own(m) == \A w \in waiting[m.origin] : w.corr = m.corr => w.ask = m.ask

\* The table is as it was but for rows that go, or ...
Handled(m) ==
  /\ UNCHANGED <<slot, correlations>>
  /\ Shrinks
  /\ Own(m) => Honest
  /\ \/ Removes(m) /\ (fault' = "none" => Told(m))
     \/ \E q : Replaces(m, q) /\ q.corr = m.corr

\* ... the channel of m has got a row.
Registered(m) ==
  /\ m.corr = Local
  /\ Register(m.origin, m.ask)
  /\ \/ Removes(m) /\ fault' # "none"
     \/ \E q : Replaces(m, q) /\ q.corr = correlations[m.origin]

\* A fault is not forgotten.
Worse ==
  /\ fault' \in {"none", "loss", "restart"}
  /\ fault' = "none" => fault = "none"
  /\ fault' # "restart" => fault # "restart"

\* Nothing happens to the table.
LEMMA NothingGoes ==
  ASSUME TypeOK, UNCHANGED <<waiting, chan>>
  PROVE  Closing /\ Shrinks /\ Honest
BY DEF TypeOK, Closing, Shrinks, Honest, Fate

\* answer, abandon.
LEMMA RouteGoes ==
  ASSUME TypeOK, NEW m \in owed, NEW kind \in {"answer", "abandon"}, RouteReply(m, kind),
         UNCHANGED <<slot, correlations>>
  PROVE  Closing /\ Handled(m)
<1> DEFINE r == Sent(m, kind, m.origin)
<1>0. m \in Owed /\ m.origin \in Node /\ m.ask \in Ask
  BY OwedFields DEF TypeOK
<1>4. r = Sent(m, kind, m.origin)
  OBVIOUS
<1>1. CASE m.corr = Local
  <2>1. /\ chan' = (IF kind = "answer" THEN [chan EXCEPT ![m.ask] = m.ask] ELSE Closed({m.ask}))
        /\ owed' = owed \ {m} /\ waiting' = waiting
    BY <1>1 DEF RouteReply, Sent
  <2>2. /\ chan' \in [Ask -> Fate] /\ chan'[m.ask] # "open"
        /\ \A a \in Ask : chan'[a] = "open" => chan[a] = "open"
        /\ \A a \in Ask : chan'[a] \in {chan[a], "closed", a}
    <3>1. CASE kind = "answer"
      BY <1>0, <2>1, <3>1, RepliesAssumption DEF TypeOK, Fate
    <3>2. CASE kind # "answer"
      <4>1. chan' = Closed({m.ask})
        BY <2>1, <3>2
      <4> QED
        BY <1>0, <4>1, ClosedIs
    <3> QED
      BY <3>1, <3>2
  <2>3. \A w \in waiting[m.origin] : w.corr # m.corr
    BY <1>0, <1>1 DEF TypeOK, Row, Local
  <2> QED
    BY <2>1, <2>2, <2>3, Zenon DEF TypeOK, Closing, Handled, Shrinks, Honest, Removes, Told
<1>2. CASE m.corr # Local /\ m.origin = m.at
  <2>1. DeliverReply(m.origin, r) /\ owed' = owed \ {m}
    BY <1>2 DEF RouteReply, Sent
  <2> HIDE DEF r
  <2>2. r.ask = m.ask /\ r.corr = m.corr
    BY <1>0, <1>4, <1>2, OwedSent
  <2>3. r.ask \in Ask
    BY <1>0, <2>2
  <2>4. /\ Closing /\ Shrinks
        /\ \A w \in waiting[m.origin] :
             w.corr = r.corr => chan'[w.ask] # "open" /\ w \notin waiting'[m.origin]
        /\ (\A w \in waiting[m.origin] : w.corr = r.corr => w.ask = r.ask) => Honest
    BY <1>0, <2>1, <2>3, DeliverGoes
  <2> QED
    BY <1>2, <2>1, <2>2, <2>4 DEF Handled, Removes, Told, Own
<1>3. CASE m.corr # Local /\ m.origin # m.at
  <2>1. owed' = (owed \ {m}) \cup {r} /\ UNCHANGED <<waiting, chan>>
    BY <1>3 DEF RouteReply, Sent
  <2> HIDE DEF r
  <2>2. /\ r \in Owed /\ r.kind = kind /\ r.at = m.origin /\ r.origin = m.origin
        /\ r.corr = m.corr /\ r.ask = m.ask
    BY <1>0, <1>4, <1>3, OwedSent
  <2>3. Replaces(m, r) /\ r.corr = m.corr
    BY <2>1, <2>2 DEF Replaces
  <2>4. Closing /\ Shrinks /\ Honest
    BY <2>1, NothingGoes
  <2> QED
    BY <2>3, <2>4 DEF Handled
<1> QED
  BY <1>1, <1>2, <1>3

OnMessage(m) ==
  \/ Take(m) \/ Reject(m) \/ Refuse(m) \/ Arrive(m) \/ Lose(m)
  \/ Answer(m) \/ DropHandle(m) \/ ForwardErr(m)
  \/ \E to \in Host : Forward(m, to)

\* Every action on a message is of one of the two forms.
LEMMA MessageStep ==
  ASSUME TypeOK, NEW m \in owed, OnMessage(m),
         m.kind \in {"answer", "abandon"} => m.at = m.origin
  PROVE  /\ UNCHANGED <<caller, home, serving>>
         /\ Closing /\ Worse
         /\ Handled(m) \/ Registered(m)
<1> USE DEF ask, node
<1>0. /\ m \in Owed /\ m.at \in Node /\ m.origin \in Node /\ m.ask \in Ask
      /\ m.corr \in Nat \cup {Local}
      /\ (m.corr = Local => m.kind = "handle" /\ m.at = m.origin)
      /\ fault \in {"none", "loss", "restart"}
  BY OwedFields DEF TypeOK
<1>1. CASE Take(m)
  <2> DEFINE q == Sent(m, "handle", m.at)
  <2>0. q = Sent(m, "handle", m.at)
    OBVIOUS
  <2>1. /\ owed' = (owed \ {m}) \cup {[m EXCEPT !.kind = "handle"]} /\ m.kind = "command"
        /\ UNCHANGED <<caller, home, chan, slot, correlations, waiting, serving, fault>>
    BY <1>1 DEF Take
  <2>2. [m EXCEPT !.kind = "handle"] = q
    BY <1>0, Zenon DEF Owed, Sent
  <2> HIDE DEF q
  <2>3. /\ q \in Owed /\ q.kind = "handle" /\ q.origin = m.origin
        /\ q.corr = m.corr /\ q.ask = m.ask
    BY <1>0, <2>0, <2>1, OwedSent
  <2>4. Replaces(m, q) /\ q.corr = m.corr
    BY <2>1, <2>2, <2>3 DEF Replaces
  <2>5. Closing /\ Shrinks /\ Honest
    BY <2>1, NothingGoes
  <2> QED
    BY <1>0, <2>1, <2>4, <2>5 DEF Handled, Worse
<1>2. CASE Reject(m) \/ Answer(m) \/ DropHandle(m)
  <2>1. PICK kind \in {"answer", "abandon"} : RouteReply(m, kind)
    BY <1>2 DEF Reject, Answer, DropHandle
  <2>2. UNCHANGED <<caller, home, slot, correlations, serving, fault>>
    BY <1>2 DEF Reject, Answer, DropHandle
  <2>3. Closing /\ Handled(m)
    BY <2>1, <2>2, RouteGoes
  <2> QED
    BY <1>0, <2>2, <2>3 DEF Worse
<1>3. CASE Refuse(m) \/ Lose(m)
  <2>1. /\ owed' = owed \ {m} /\ fault' \in {fault, "loss"} /\ fault' # "none"
        /\ (fault = "restart" => fault' = "restart")
        /\ UNCHANGED <<caller, home, chan, slot, correlations, waiting, serving>>
    BY <1>0, <1>3 DEF Refuse, Lose, Lost
  <2>2. Closing /\ Shrinks /\ Honest
    BY <2>1, NothingGoes
  <2> QED
    BY <1>0, <2>1, <2>2 DEF Handled, Removes, Worse
<1>4. CASE Arrive(m)
  <2>1. /\ DeliverReply(m.origin, m) /\ owed' = owed \ {m} /\ m.corr # Local
        /\ UNCHANGED <<caller, home, slot, correlations, serving, fault>>
    BY <1>0, <1>4 DEF Arrive
  <2>2. /\ Closing /\ Shrinks
        /\ \A w \in waiting[m.origin] :
             w.corr = m.corr => chan'[w.ask] # "open" /\ w \notin waiting'[m.origin]
        /\ (\A w \in waiting[m.origin] : w.corr = m.corr => w.ask = m.ask) => Honest
    BY <1>0, <2>1, DeliverGoes
  <2> QED
    BY <1>0, <2>1, <2>2 DEF Handled, Removes, Told, Own, Worse
<1>5. CASE ForwardErr(m)
  <2>1. /\ Encode(m) /\ owed' = owed \ {m} /\ fault' \in {fault, "loss"} /\ fault' # "none"
        /\ (fault = "restart" => fault' = "restart")
        /\ UNCHANGED <<caller, home, serving>>
    BY <1>0, <1>5 DEF ForwardErr, Lost
  <2>2. CASE m.corr = Local
    <3>1. Register(m.origin, m.ask)
      BY <1>0, <2>1, <2>2 DEF Encode
    <3>2. Registers(m.origin, m.ask)
      BY <1>0, <3>1, RegisterAdds
    <3>3. Closing
      BY <3>2 DEF Registers
    <3> QED
      BY <1>0, <2>1, <2>2, <3>1, <3>3 DEF Registered, Removes, Worse
  <2>3. CASE m.corr # Local
    <3>1. UNCHANGED <<waiting, chan, correlations, slot>>
      BY <2>1, <2>3 DEF Encode
    <3>2. Closing /\ Shrinks /\ Honest
      BY <3>1, NothingGoes
    <3> QED
      BY <1>0, <2>1, <3>1, <3>2 DEF Handled, Removes, Worse
  <2> QED
    BY <2>2, <2>3
<1>6. CASE \E to \in Host : Forward(m, to)
  <2>0. PICK to \in Host : Forward(m, to)
    BY <1>6
  <2> DEFINE c == Wire(m)
             q == Forwarded(m, to, c)
  <2>1. /\ Encode(m) /\ owed' = (owed \ {m}) \cup {q} /\ m.hops < MaxHops
        /\ UNCHANGED <<caller, home, serving, fault>>
    BY <2>0 DEF Forward, Encode, Forwarded
  <2>2. c \in Nat /\ c = (IF m.corr = Local THEN correlations[m.origin] ELSE m.corr)
    BY <1>0 DEF Wire, TypeOK
  <2>3. to \in Node
    BY RepliesAssumption
  <2> HIDE DEF c
  <2>9. q = Forwarded(m, to, c)
    OBVIOUS
  <2> HIDE DEF q
  <2>4. q \in Owed /\ q.kind = "command" /\ q.origin = m.origin /\ q.corr = c /\ q.ask = m.ask
    BY <1>0, <2>1, <2>2, <2>3, <2>9, OwedForwarded
  <2>5. Replaces(m, q)
    BY <2>1, <2>4 DEF Replaces
  <2>6. CASE m.corr = Local
    <3>1. Register(m.origin, m.ask)
      BY <1>0, <2>1, <2>6 DEF Encode
    <3>2. Registers(m.origin, m.ask)
      BY <1>0, <3>1, RegisterAdds
    <3>3. Closing
      BY <3>2 DEF Registers
    <3>4. q.corr = correlations[m.origin]
      BY <2>2, <2>4, <2>6
    <3> QED
      BY <1>0, <2>1, <2>5, <2>6, <3>1, <3>3, <3>4 DEF Registered, Worse
  <2>7. CASE m.corr # Local
    <3>1. UNCHANGED <<waiting, chan, correlations, slot>>
      BY <2>1, <2>7 DEF Encode
    <3>2. Closing /\ Shrinks /\ Honest
      BY <3>1, NothingGoes
    <3>3. q.corr = m.corr
      BY <2>2, <2>4, <2>7
    <3> QED
      BY <1>0, <2>1, <2>5, <3>1, <3>2, <3>3 DEF Handled, Worse
  <2> QED
    BY <2>6, <2>7
<1> QED
  BY <1>1, <1>2, <1>3, <1>4, <1>5, <1>6 DEF OnMessage

----------------------------------------------------------------------------
(* Handles and rows *)

\* One thing may answer an ask, and only once its caller has let go of it; it
\* knows where the caller is.
Sole ==
  /\ OneAnswerer
  /\ \A m \in owed : /\ caller[m.ask] \notin {"idle", "sending"}
                     /\ m.origin = home[m.ask]
                     /\ m.kind \in {"answer", "abandon"} => m.at = m.origin

Sending == \A a \in Ask : caller[a] = "sending" => slot[a] # Local

\* A correlation that is in the table will not be given out again.
Below == \A n \in Node : \A w \in waiting[n] : w.corr < correlations[n]

BaseInv == TypeOK /\ Sole /\ Sending /\ Below

\* The messages of one action.
LEMMA SoleNext ==
  ASSUME TypeOK, Sole, NEW m \in owed, UNCHANGED <<caller, home>>,
         Removes(m) \/ \E q : Replaces(m, q)
  PROVE  Sole' /\ owed' \in SUBSET Owed
<1>1. owed \in SUBSET Owed
  BY DEF TypeOK
<1>2. CASE Removes(m)
  BY <1>1, <1>2 DEF Sole, OneAnswerer, Removes
<1>3. CASE \E q : Replaces(m, q)
  BY <1>1, <1>3 DEF Sole, OneAnswerer, Replaces
<1> QED
  BY <1>2, <1>3

\* A new message for an ask that had none.
LEMMA SoleAdds ==
  ASSUME TypeOK, Sole, NEW a \in Ask, caller[a] \in {"idle", "sending"},
         caller' = [caller EXCEPT ![a] = "waiting"], home' = home,
         NEW q \in Owed, q.ask = a, q.origin = home[a], q.kind \in {"command", "handle"},
         owed' = owed \cup {q}
  PROVE  Sole' /\ owed' \in SUBSET Owed
<1>1. owed \in SUBSET Owed /\ \A m \in owed : m.ask \in Ask
  BY OwedFields DEF TypeOK
<1>2. \A m \in owed : m.ask # a
  BY DEF Sole
<1>3. caller \in [Ask -> Stage]
  BY DEF TypeOK, Stage
<1>4. /\ caller'[a] = "waiting" /\ \A b \in Ask \ {a} : caller'[b] = caller[b]
  BY <1>3
<1> QED
  BY <1>1, <1>2, <1>4 DEF Sole, OneAnswerer

\* The rows below a counter that only grows.
LEMMA BelowNext ==
  ASSUME TypeOK, Below, Shrinks, correlations' = correlations
  PROVE  Below'
BY DEF Below, Shrinks

\* ... and moves past the row it is given to.
LEMMA BelowAdds ==
  ASSUME TypeOK, Below, NEW n \in Node, NEW a \in Ask, Register(n, a)
  PROVE  Below'
<1> DEFINE new == [corr |-> correlations[n], ask |-> a]
<1>1. /\ waiting'[n] \subseteq waiting[n] \cup {new}
      /\ \A k \in Node \ {n} : waiting'[k] = waiting[k]
      /\ correlations[n] \in Nat /\ correlations'[n] = correlations[n] + 1
      /\ \A k \in Node \ {n} : correlations'[k] = correlations[k]
  <2>1. Registers(n, a)
    BY RegisterAdds
  <2> QED
    BY <2>1 DEF Registers
<1>2. \A w \in waiting[n] : w.corr \in Nat
  BY DEF TypeOK, Row
<1>3. \A w \in waiting'[n] : w.corr < correlations'[n]
  BY <1>1, <1>2 DEF Below
<1> QED
  BY <1>1, <1>3 DEF Below

\* An ask that ends.
LEMMA EndStep ==
  ASSUME TypeOK, NEW a \in Ask, NEW as \in {"answered", "failed", "gone"}, End(a, as)
  PROVE  /\ caller' \in [Ask -> Stage] /\ caller'[a] = as
         /\ \A b \in Ask \ {a} : caller'[b] = caller[b] /\ slot'[b] = slot[b]
         /\ slot' \in [Ask -> Nat \cup {Local}] /\ slot'[a] = Local
         /\ UNCHANGED <<home, correlations, owed, serving, fault>>
         /\ Closing /\ Shrinks /\ Honest
         /\ \A w \in waiting[home[a]] : w.corr = slot[a] => w \notin waiting'[home[a]]
<1>1. /\ caller' = [caller EXCEPT ![a] = as] /\ slot' = [slot EXCEPT ![a] = Local]
      /\ UNCHANGED <<home, correlations, owed, serving, fault>> /\ Forget(a)
  BY DEF End, Forget, node
<1>2. /\ Closing /\ Shrinks /\ Honest
      /\ \A w \in waiting[home[a]] : w.corr = slot[a] => w \notin waiting'[home[a]]
  BY <1>1, ForgetGoes
<1>3. caller \in [Ask -> Stage] /\ slot \in [Ask -> Nat \cup {Local}]
  BY DEF TypeOK, Stage
<1>4. /\ caller' \in [Ask -> Stage] /\ caller'[a] = as
      /\ \A b \in Ask \ {a} : caller'[b] = caller[b] /\ slot'[b] = slot[b]
      /\ slot' \in [Ask -> Nat \cup {Local}] /\ slot'[a] = Local
  BY <1>1, <1>3, Zenon DEF Stage
<1> QED
  BY <1>1, <1>2, <1>4, Zenon

Ends(a) == SendErr(a) \/ Receive(a) \/ Cancel(a)

\* The three ways in which a caller stops waiting.
LEMMA EndsAs ==
  ASSUME NEW a, Ends(a)
  PROVE  /\ caller[a] \in {"sending", "waiting"}
         /\ \E as \in {"answered", "failed", "gone"} : End(a, as)
BY DEF Ends, SendErr, Receive, Cancel

\* StandDown.
LEMMA StandDownStep ==
  ASSUME TypeOK, NEW n \in Node, StandDown(n)
  PROVE  /\ Closing /\ Shrinks /\ Honest /\ serving' \in [Node -> BOOLEAN]
         /\ UNCHANGED <<caller, home, slot, correlations, owed, fault>>
<1>1. /\ waiting' = [waiting EXCEPT ![n] = @ \ waiting[n]]
      /\ chan' = Closed(AsksOf(waiting[n])) /\ serving' = [serving EXCEPT ![n] = FALSE]
      /\ UNCHANGED <<caller, home, slot, correlations, owed, fault>>
  BY Zenon DEF StandDown, ask, TypeOK
<1>2. waiting[n] \in SUBSET Row /\ serving' \in [Node -> BOOLEAN]
  BY <1>1 DEF TypeOK
<1>3. Closing /\ Shrinks /\ Honest
  BY <1>1, <1>2, RowsGo, Zenon
<1> QED
  BY <1>1, <1>2, <1>3

\* Restart.
LEMMA RestartStep ==
  ASSUME TypeOK, NEW n \in Node, Restart(n)
  PROVE  /\ caller' \in [Ask -> Stage] /\ slot' \in [Ask -> Nat \cup {Local}]
         /\ \A a \in Ask : \/ caller'[a] = "gone"
                           \/ caller'[a] = caller[a] /\ slot'[a] = slot[a]
         /\ \A a \in Ask : caller[a] = "idle" \/ caller'[a] # "idle"
         /\ waiting' \in [Node -> SUBSET Row] /\ Shrinks /\ waiting'[n] = {}
         /\ chan' \in [Ask -> Fate]
         /\ correlations' \in [Node -> Nat]
         /\ \A k \in Node \ {n} : correlations'[k] = correlations[k]
         /\ owed' \subseteq owed /\ fault' = "restart" /\ UNCHANGED <<home, serving>>
<1> DEFINE mine == {a \in Ask : home[a] = n /\ caller[a] \in {"sending", "waiting"}}
<1>1. /\ caller' = [a \in Ask |-> IF a \in mine THEN "gone" ELSE caller[a]]
      /\ slot' = [a \in Ask |-> IF a \in mine THEN Local ELSE slot[a]]
      /\ chan' = Closed(mine)
      /\ correlations' = [correlations EXCEPT ![n] = 0]
      /\ waiting' = [waiting EXCEPT ![n] = {}]
      /\ owed' \subseteq owed /\ fault' = "restart" /\ UNCHANGED <<home, serving>>
  BY DEF Restart
<1> HIDE DEF mine
<1>2. /\ caller \in [Ask -> Stage] /\ slot \in [Ask -> Nat \cup {Local}]
      /\ correlations \in [Node -> Nat] /\ waiting \in [Node -> SUBSET Row]
  BY DEF TypeOK, Stage
<1>3. /\ caller' \in [Ask -> Stage] /\ slot' \in [Ask -> Nat \cup {Local}]
      /\ \A a \in Ask : \/ caller'[a] = "gone"
                        \/ caller'[a] = caller[a] /\ slot'[a] = slot[a]
      /\ \A a \in Ask : caller[a] = "idle" \/ caller'[a] # "idle"
  BY <1>1, <1>2 DEF Stage
<1>4. /\ waiting' \in [Node -> SUBSET Row] /\ Shrinks /\ waiting'[n] = {}
      /\ correlations' \in [Node -> Nat]
      /\ \A k \in Node \ {n} : correlations'[k] = correlations[k]
  BY <1>1, <1>2 DEF Shrinks
<1>5. chan' \in [Ask -> Fate]
  BY <1>1, ClosedIs
<1> QED
  BY <1>1, <1>3, <1>4, <1>5

\* An ask of an actor on this node, and one whose command has been sent.
Begins(a, q) ==
  /\ q \in Owed /\ q.ask = a /\ q.origin = home[a] /\ q.kind \in {"command", "handle"}
  /\ \/ q.corr = Local /\ caller[a] = "idle"
     \/ q.corr = slot[a] /\ caller[a] = "sending"
  /\ owed' = owed \cup {q}
  /\ caller[a] \in {"idle", "sending"} /\ caller' = [caller EXCEPT ![a] = "waiting"]
  /\ UNCHANGED <<home, chan, slot, correlations, waiting, serving, fault>>

\* That is what they do.
LEMMA BeginsStep ==
  ASSUME BaseInv, NEW a \in Ask, AskHere(a) \/ \E to \in Host : SendOk(a, to)
  PROVE  \E q : Begins(a, q)
<1>1. home[a] \in Node /\ 0 \in 0..MaxHops
  BY RepliesAssumption DEF BaseInv, TypeOK
<1>2. CASE AskHere(a)
  <2> DEFINE q == [kind |-> "handle", at |-> home[a], origin |-> home[a],
                   corr |-> Local, ask |-> a, hops |-> 0]
  <2>1. q \in Owed
    BY <1>1, OwedMade, Zenon
  <2>2. Begins(a, q)
    BY <1>2, <2>1 DEF AskHere, Begins, node
  <2> QED
    BY <2>2
<1>3. CASE \E to \in Host : SendOk(a, to)
  <2>1. PICK to \in Host : SendOk(a, to)
    BY <1>3
  <2> DEFINE q == [kind |-> "command", at |-> to, origin |-> home[a],
                   corr |-> slot[a], ask |-> a, hops |-> 0]
  <2>2. slot[a] \in Nat \cup {Local} /\ slot[a] # Local /\ to \in Node
    BY <2>1, RepliesAssumption DEF BaseInv, TypeOK, Sending, SendOk
  <2>3. q \in Owed
    BY <1>1, <2>2, OwedMade, SMTT(30)
  <2>4. Begins(a, q)
    BY <2>1, <2>3 DEF SendOk, Begins, node
  <2> QED
    BY <2>4
<1> QED
  BY <1>2, <1>3

\* The steps, by what they do.
LEMMA Steps ==
  ASSUME BaseInv, Next
  PROVE  \/ \E m \in owed : OnMessage(m)
         \/ \E a \in Ask : AskHere(a) \/ AskAway(a) \/ Ends(a)
         \/ \E a \in Ask, to \in Host : SendOk(a, to)
         \/ \E n \in Node : StandDown(n) \/ Resume(n) \/ Restart(n)
BY RepliesAssumption DEF Next, OnMessage, Ends

\* Handles and rows stay apart.
LEMMA BaseNext ==
  ASSUME BaseInv, [Next]_vars
  PROVE  BaseInv'
<1>0. /\ TypeOK /\ Sole /\ Sending /\ Below
      /\ caller \in [Ask -> Stage] /\ home \in [Ask -> Client] /\ chan \in [Ask -> Fate]
      /\ slot \in [Ask -> Nat \cup {Local}] /\ correlations \in [Node -> Nat]
      /\ waiting \in [Node -> SUBSET Row] /\ owed \in SUBSET Owed
      /\ serving \in [Node -> BOOLEAN] /\ fault \in {"none", "loss", "restart"}
  BY DEF BaseInv, TypeOK, Stage, Fate
<1>1. CASE UNCHANGED vars
  BY <1>1 DEF BaseInv, TypeOK, Sole, OneAnswerer, Sending, Below, vars
<1>2. CASE \E m \in owed : OnMessage(m)
  <2>1. PICK m \in owed : OnMessage(m)
    BY <1>2
  <2>2. /\ UNCHANGED <<caller, home, serving>> /\ Closing /\ Worse
        /\ Handled(m) \/ Registered(m)
    BY <1>0, <2>1, MessageStep DEF Sole
  <2>3. Removes(m) \/ \E q : Replaces(m, q)
    BY <2>2 DEF Handled, Registered
  <2>4. Sole' /\ owed' \in SUBSET Owed
    BY <1>0, <2>2, <2>3, SoleNext
  <2>5. CASE Handled(m)
    <3>1. Shrinks /\ UNCHANGED <<slot, correlations>>
      BY <2>5 DEF Handled
    <3>2. Below'
      BY <1>0, <3>1, BelowNext
    <3>3. Sending'
      BY <1>0, <2>2, <3>1 DEF Sending
    <3>4. TypeOK'
      BY <1>0, <2>2, <2>4, <3>1 DEF TypeOK, Closing, Worse, Stage, Fate
    <3> QED
      BY <2>4, <3>2, <3>3, <3>4 DEF BaseInv
  <2>6. CASE Registered(m)
    <3>1. Register(m.origin, m.ask) /\ m.origin \in Node /\ m.ask \in Ask
      BY <1>0, <2>6, OwedFields DEF Registered
    <3>2. Below'
      BY <1>0, <3>1, BelowAdds
    <3>3. /\ correlations' \in [Node -> Nat] /\ slot' \in [Ask -> Nat \cup {Local}]
          /\ correlations[m.origin] \in Nat /\ slot'[m.ask] = correlations[m.origin]
          /\ \A b \in Ask \ {m.ask} : slot'[b] = slot[b]
      <4>1. Registers(m.origin, m.ask)
        BY <1>0, <3>1, RegisterAdds
      <4> QED
        BY <4>1 DEF Registers
    <3>4. Sending'
      BY <1>0, <2>2, <3>3 DEF Sending, Local
    <3>5. TypeOK'
      BY <1>0, <2>2, <2>4, <3>3 DEF TypeOK, Closing, Worse, Stage, Fate
    <3> QED
      BY <2>4, <3>2, <3>4, <3>5 DEF BaseInv
  <2> QED
    BY <2>2, <2>5, <2>6
<1>3. CASE \E a \in Ask : AskHere(a) \/ \E to \in Host : SendOk(a, to)
  <2>1. PICK a \in Ask : AskHere(a) \/ \E to \in Host : SendOk(a, to)
    BY <1>3
  <2>0. PICK q : Begins(a, q)
    BY <1>0, <2>1, BeginsStep DEF BaseInv
  <2>2. /\ q \in Owed /\ q.ask = a /\ q.origin = home[a] /\ q.kind \in {"command", "handle"}
        /\ \/ q.corr = Local
           \/ q.corr = slot[a] /\ caller[a] = "sending"
        /\ owed' = owed \cup {q}
        /\ caller[a] \in {"idle", "sending"} /\ caller' = [caller EXCEPT ![a] = "waiting"]
        /\ UNCHANGED <<home, chan, slot, correlations, waiting, serving, fault>>
    BY <2>0 DEF Begins
  <2>3. Sole' /\ owed' \in SUBSET Owed
    BY <1>0, <2>2, SoleAdds, Zenon
  <2>4. /\ caller' \in [Ask -> Stage]
        /\ \A b \in Ask : caller'[b] = "sending" => caller[b] = "sending"
    BY <1>0, <2>2 DEF Stage
  <2>5. Sending' /\ Below'
    BY <1>0, <2>2, <2>4 DEF Sending, Below
  <2>6. TypeOK'
    BY <1>0, <2>2, <2>3, <2>4 DEF TypeOK, Stage, Fate
  <2> QED
    BY <2>3, <2>5, <2>6 DEF BaseInv
<1>4. CASE \E a \in Ask : AskAway(a)
  <2>1. PICK a \in Ask : AskAway(a)
    BY <1>4
  <2>2. /\ Register(home[a], a) /\ caller[a] = "idle"
        /\ caller' = [caller EXCEPT ![a] = "sending"]
        /\ UNCHANGED <<home, owed, serving, fault>>
    BY <2>1 DEF AskAway, node
  <2>3. home[a] \in Node
    BY <1>0, RepliesAssumption
  <2>4. /\ Closing /\ correlations' \in [Node -> Nat] /\ slot' \in [Ask -> Nat \cup {Local}]
        /\ correlations[home[a]] \in Nat /\ slot'[a] = correlations[home[a]]
        /\ \A b \in Ask \ {a} : slot'[b] = slot[b]
    <3>1. Registers(home[a], a)
      BY <1>0, <2>2, <2>3, RegisterAdds
    <3> QED
      BY <3>1 DEF Registers
  <2>5. /\ caller' \in [Ask -> Stage] /\ caller'[a] = "sending"
        /\ \A b \in Ask \ {a} : caller'[b] = caller[b]
    BY <1>0, <2>2 DEF Stage
  <2>6. Below'
    BY <1>0, <2>2, <2>3, BelowAdds
  <2>7. Sending'
    BY <1>0, <2>4, <2>5 DEF Sending, Local
  <2>8. \A m \in owed : m.ask # a /\ m.ask \in Ask
    BY <1>0, <2>2, OwedFields DEF Sole
  <2>9. Sole'
    BY <1>0, <2>2, <2>5, <2>8 DEF Sole, OneAnswerer
  <2>10. TypeOK'
    BY <1>0, <2>2, <2>4, <2>5 DEF TypeOK, Closing, Stage, Fate
  <2> QED
    BY <2>6, <2>7, <2>9, <2>10 DEF BaseInv
<1>5. CASE \E a \in Ask : Ends(a)
  <2>1. PICK a \in Ask : Ends(a)
    BY <1>5
  <2>2. PICK as \in {"answered", "failed", "gone"} : End(a, as)
    BY <2>1, EndsAs
  <2>3. /\ caller' \in [Ask -> Stage] /\ caller'[a] = as
        /\ \A b \in Ask \ {a} : caller'[b] = caller[b] /\ slot'[b] = slot[b]
        /\ slot' \in [Ask -> Nat \cup {Local}]
        /\ UNCHANGED <<home, correlations, owed, serving, fault>>
        /\ Closing /\ Shrinks
    BY <1>0, <2>2, EndStep, Zenon
  <2>4. Below'
    BY <1>0, <2>3, BelowNext
  <2>5. Sending'
    BY <1>0, <2>3, ZenonT(30) DEF Sending
  <2>6. \A m \in owed : m.ask \in Ask
    BY <1>0, OwedFields
  <2>7. Sole'
    BY <1>0, <2>3, <2>6, Zenon DEF Sole, OneAnswerer
  <2>8. TypeOK'
    BY <1>0, <2>3 DEF TypeOK, Closing, Stage, Fate
  <2> QED
    BY <2>4, <2>5, <2>7, <2>8 DEF BaseInv
<1>6. CASE \E n \in Node : StandDown(n)
  <2>1. PICK n \in Node : StandDown(n)
    BY <1>6
  <2>2. /\ Closing /\ Shrinks /\ serving' \in [Node -> BOOLEAN]
        /\ UNCHANGED <<caller, home, slot, correlations, owed, fault>>
    BY <1>0, <2>1, StandDownStep
  <2>3. Below'
    BY <1>0, <2>2, BelowNext
  <2>4. Sole' /\ Sending'
    BY <1>0, <2>2 DEF Sole, OneAnswerer, Sending
  <2>5. TypeOK'
    BY <1>0, <2>2 DEF TypeOK, Closing, Stage, Fate
  <2> QED
    BY <2>3, <2>4, <2>5 DEF BaseInv
<1>7. CASE \E n \in Node : Resume(n)
  BY <1>0, <1>7, ZenonT(30) DEF Resume, ask, BaseInv, TypeOK, Sole, OneAnswerer, Sending, Below
<1>8. CASE \E n \in Node : Restart(n)
  <2>1. PICK n \in Node : Restart(n)
    BY <1>8
  <2>2. /\ caller' \in [Ask -> Stage] /\ slot' \in [Ask -> Nat \cup {Local}]
        /\ \A a \in Ask : \/ caller'[a] = "gone"
                          \/ caller'[a] = caller[a] /\ slot'[a] = slot[a]
        /\ waiting' \in [Node -> SUBSET Row] /\ Shrinks /\ waiting'[n] = {}
        /\ chan' \in [Ask -> Fate]
        /\ correlations' \in [Node -> Nat]
        /\ \A k \in Node \ {n} : correlations'[k] = correlations[k]
        /\ owed' \subseteq owed /\ fault' = "restart" /\ UNCHANGED <<home, serving>>
    BY <1>0, <2>1, RestartStep
  <2>3. Below'
    BY <1>0, <2>2 DEF Below, Shrinks
  <2>4. Sending'
    BY <1>0, <2>2 DEF Sending
  <2>5. \A m \in owed : m.ask \in Ask
    BY <1>0, OwedFields
  <2>6. Sole'
    BY <1>0, <2>2, <2>5 DEF Sole, OneAnswerer
  <2>7. TypeOK'
    BY <1>0, <2>2 DEF TypeOK, Stage, Fate
  <2> QED
    BY <2>3, <2>4, <2>6, <2>7 DEF BaseInv
<1> QED
  BY <1>1, <1>2, <1>3, <1>4, <1>5, <1>6, <1>7, <1>8, Steps

----------------------------------------------------------------------------
(* The theorems *)

\* At the start there is nothing to keep apart.
LEMMA BaseInit == Init => BaseInv
<1> SUFFICES ASSUME Init PROVE BaseInv
  OBVIOUS
<1>1. TypeOK
  BY DEF Init, TypeOK
<1>2. Sole /\ Sending /\ Below
  BY DEF Init, Sole, OneAnswerer, Sending, Below
<1> QED
  BY <1>1, <1>2 DEF BaseInv

\* BaseInv is an invariant.
LEMMA BaseHolds == Spec => []BaseInv
<1>1. BaseInv /\ [Next]_vars => BaseInv'
  BY BaseNext
<1> QED
  BY <1>1, BaseInit, PTL DEF Spec

\* The tables, channels and messages of every node keep their types.
THEOREM TypeCorrect == Spec => []TypeOK
<1>1. BaseInv => TypeOK
  BY DEF BaseInv
<1> QED
  BY <1>1, BaseHolds, PTL

\* However many nodes a handle passes through, and whatever is lost or restarted
\* on the way, one thing at most may still answer its caller.
THEOREM HandleLinear == Spec => []OneAnswerer
<1>1. BaseInv => OneAnswerer
  BY DEF BaseInv, Sole
<1> QED
  BY <1>1, BaseHolds, PTL

\* pop_first takes the smallest correlation, and the newest is the largest.
LEMMA NewestKept ==
  ASSUME TypeOK, Below, NEW n \in Node, NEW a \in Ask, Register(n, a)
  PROVE  \E r \in waiting'[n] : r.corr = correlations[n]
<1> DEFINE new == [corr |-> correlations[n], ask |-> a]
           rows == waiting[n] \cup {new}
<1>1. waiting' = [waiting EXCEPT ![n] = rows \ Evicted(rows)] /\ new.corr = correlations[n]
  BY DEF Register
<1>2. /\ waiting \in [Node -> SUBSET Row] /\ correlations[n] \in Nat
      /\ \A w \in waiting[n] : w.corr \in Nat /\ w.corr < correlations[n]
  BY DEF TypeOK, Below, Row
<1> HIDE DEF new
<1>3. new \notin Evicted(rows)
  <2>1. CASE waiting[n] = {}
    <3>1. rows = {new}
      BY <2>1
    <3>2. Cardinality({new}) = 1
      BY FS_Singleton, Zenon
    <3>3. ~(1 > Capacity)
      BY RepliesAssumption
    <3>4. Evicted({new}) = {}
      BY <3>2, <3>3 DEF Evicted
    <3> QED
      BY <3>1, <3>4
  <2>2. CASE waiting[n] # {}
    <3>1. PICK w \in waiting[n] : ~(new.corr <= w.corr)
      BY <1>1, <1>2, <2>2
    <3> QED
      BY <3>1 DEF Evicted
  <2> QED
    BY <2>1, <2>2
<1>4. new \in waiting'[n]
  BY <1>1, <1>2, <1>3
<1> QED
  BY <1>1, <1>4

\* Whoever has just been registered is in the table, however full it was.
THEOREM OldestGoes == Spec => NewcomerStays
<1>1. ASSUME BaseInv, [Next]_vars
      PROVE  \A n \in Node : correlations'[n] > correlations[n] =>
               \E r \in waiting'[n] : r.corr = correlations[n]
  <2>0. TypeOK /\ Below /\ correlations \in [Node -> Nat]
    BY <1>1 DEF BaseInv, TypeOK
  <2> SUFFICES ASSUME NEW n \in Node, correlations'[n] > correlations[n]
               PROVE  \E r \in waiting'[n] : r.corr = correlations[n]
    OBVIOUS
  <2>1. \E a \in Ask, k \in Node : Register(k, a)
    <3>1. CASE \E m \in owed : OnMessage(m)
      <4>1. PICK m \in owed : OnMessage(m)
        BY <3>1
      <4>2. Handled(m) \/ Registered(m)
        BY <1>1, <4>1, MessageStep DEF BaseInv, Sole
      <4>3. correlations' # correlations
        BY <2>0
      <4>4. Registered(m)
        BY <4>2, <4>3 DEF Handled
      <4>5. m.origin \in Node /\ m.ask \in Ask
        BY <2>0, OwedFields DEF TypeOK
      <4> QED
        BY <4>4, <4>5 DEF Registered
    <3>2. CASE \E a \in Ask : AskAway(a)
      BY <2>0, <3>2, RepliesAssumption DEF AskAway, TypeOK
    <3>3. CASE \E k \in Node : Restart(k)
      <4>1. PICK k \in Node : correlations' = [correlations EXCEPT ![k] = 0]
        BY <3>3, Zenon DEF Restart
      <4> QED
        BY <2>0, <4>1
    <3>4. CASE correlations' = correlations
      BY <2>0, <3>4
    <3>5. \/ correlations' = correlations \/ \E a \in Ask : AskAway(a)
          \/ \E k \in Node : Restart(k) \/ \E m \in owed : OnMessage(m)
      <4>1. CASE UNCHANGED vars
        BY <4>1 DEF vars
      <4>2. CASE \E a \in Ask : AskHere(a) \/ Ends(a) \/ \E to \in Host : SendOk(a, to)
        BY <4>2, ZenonT(30) DEF AskHere, Ends, SendErr, Receive, Cancel, End, SendOk
      <4>3. CASE \E k \in Node : StandDown(k) \/ Resume(k)
        BY <4>3 DEF StandDown, Resume
      <4> QED
        BY <1>1, <4>1, <4>2, <4>3, Steps
    <3> QED
      BY <3>1, <3>2, <3>3, <3>4, <3>5
  <2>2. PICK a \in Ask, k \in Node : Register(k, a)
    BY <2>1
  <2>3. correlations' = [correlations EXCEPT ![k] = @ + 1]
    BY <2>2 DEF Register
  <2>4. k = n
    BY <2>0, <2>3
  <2> QED
    BY <2>0, <2>2, <2>4, NewestKept
<1> QED
  BY <1>1, BaseHolds, PTL DEF Spec, NewcomerStays


----------------------------------------------------------------------------
(* A correlation names one ask *)

Match ==
  /\ \A m \in owed : m.corr < correlations[m.origin] /\ Own(m)
  /\ \A a \in Ask : /\ slot[a] < correlations[home[a]]
                    /\ \A w \in waiting[home[a]] : w.corr = slot[a] => w.ask = a
                    /\ chan[a] \in {"open", "closed", a}

\* Until a node forgets which correlations it has given out.
MatchInv == BaseInv /\ (fault # "restart" => Match)

\* Steps that register nobody.
LEMMA MatchKeeps ==
  ASSUME BaseInv, Match, Shrinks, Honest, UNCHANGED <<home, correlations>>,
         \A q \in owed' : q.origin \in Node /\ q.corr < correlations[q.origin] /\ Own(q),
         \A a \in Ask : slot'[a] \in {slot[a], Local}
  PROVE  Match'
<1>1. \A a \in Ask : home[a] \in Node /\ correlations[home[a]] \in Nat
  BY RepliesAssumption DEF BaseInv, TypeOK
<1>2. \A n \in Node : \A w \in waiting'[n] : w \in waiting[n] /\ w.corr # Local
  BY DEF BaseInv, TypeOK, Shrinks, Row, Local
<1>3. \A q \in owed' : q.corr < correlations'[q.origin] /\ Own(q)'
  BY <1>2 DEF Own
<1>4. ASSUME NEW a \in Ask
      PROVE  /\ slot'[a] < correlations'[home'[a]]
             /\ \A w \in waiting'[home'[a]] : w.corr = slot'[a] => w.ask = a
  <2>1. slot'[a] = slot[a] \/ slot'[a] = Local
    OBVIOUS
  <2>2. CASE slot'[a] = Local
    BY <1>1, <1>2, <2>2 DEF Local
  <2>3. CASE slot'[a] = slot[a]
    BY <1>1, <1>2, <2>3 DEF Match
  <2> QED
    BY <2>1, <2>2, <2>3
<1>5. \A a \in Ask : chan'[a] \in {"open", "closed", a}
  BY DEF Match, Honest
<1> QED
  BY <1>3, <1>4, <1>5 DEF Match

\* A registration: its correlation is new to every message and every row.
LEMMA MatchAdds ==
  ASSUME BaseInv, Match, NEW n \in Node, NEW a \in Ask, Register(n, a),
         home[a] = n, home' = home,
         \A q \in owed' : \/ q \in owed
                          \/ q.corr = correlations[n] /\ q.ask = a /\ q.origin = n
  PROVE  Match'
<1> DEFINE new == [corr |-> correlations[n], ask |-> a]
<1>0. TypeOK /\ Below
  BY ZenonT(30) DEF BaseInv
<1>1. /\ Honest
      /\ waiting'[n] \subseteq waiting[n] \cup {new}
      /\ \A k \in Node \ {n} : waiting'[k] = waiting[k]
      /\ correlations[n] \in Nat /\ correlations'[n] = correlations[n] + 1
      /\ \A k \in Node \ {n} : correlations'[k] = correlations[k]
      /\ slot'[a] = correlations[n]
      /\ \A b \in Ask \ {a} : slot'[b] = slot[b]
  <2>1. Registers(n, a)
    BY <1>0, RegisterAdds
  <2> QED
    BY <2>1 DEF Registers
<1>2. new.corr = correlations[n] /\ new.ask = a
  OBVIOUS
<1> HIDE DEF new
<1>3. \A w \in waiting[n] : w.corr \in Nat /\ w.corr < correlations[n]
  BY <1>0 DEF TypeOK, Below, Row
<1>4. \A m \in owed : m.origin \in Node /\ m.corr \in Int
  BY <1>0, OwedFields DEF TypeOK, Local
<1>5. ASSUME NEW q \in owed' PROVE q.corr < correlations'[q.origin] /\ Own(q)'
  <2>1. CASE q \in owed
    <3>1. q.corr < correlations[q.origin] /\ Own(q) /\ q.origin \in Node /\ q.corr \in Int
      BY <1>4, <2>1 DEF Match
    <3>2. CASE q.origin = n
      BY <1>1, <1>2, <3>1, <3>2 DEF Own
    <3>3. CASE q.origin # n
      BY <1>1, <3>1, <3>3 DEF Own
    <3> QED
      BY <3>2, <3>3
  <2>2. CASE q.corr = correlations[n] /\ q.ask = a /\ q.origin = n
    BY <1>1, <1>2, <1>3, <2>2 DEF Own
  <2> QED
    BY <2>1, <2>2
<1>6. ASSUME NEW b \in Ask
      PROVE  /\ slot'[b] < correlations'[home'[b]]
             /\ \A w \in waiting'[home'[b]] : w.corr = slot'[b] => w.ask = b
  <2>1. CASE b = a
    BY <1>1, <1>2, <1>3, <2>1
  <2>2. CASE b # a
    <3>1. /\ slot'[b] = slot[b] /\ slot[b] \in Int /\ home[b] \in Node
          /\ slot[b] < correlations[home[b]]
          /\ \A w \in waiting[home[b]] : w.corr = slot[b] => w.ask = b
      <4>1. slot[b] \in Int /\ home[b] \in Node
        BY <1>0, RepliesAssumption DEF TypeOK, Local
      <4> QED
        BY <1>1, <2>2, <4>1 DEF Match
    <3>2. CASE home[b] = n
      <4>1. slot'[b] < correlations'[n] /\ slot'[b] # new.corr
        BY <1>1, <1>2, <3>1, <3>2
      <4>2. \A w \in waiting'[n] : w \in waiting[n] \/ w = new
        BY <1>1
      <4> QED
        BY <3>1, <3>2, <4>1, <4>2
    <3>3. CASE home[b] # n
      BY <1>1, <3>1, <3>3
    <3> QED
      BY <3>2, <3>3
  <2> QED
    BY <2>1, <2>2
<1>7. \A b \in Ask : chan'[b] \in {"open", "closed", b}
  BY <1>1 DEF Match, Honest
<1> QED
  BY <1>5, <1>6, <1>7 DEF Match

\* An ask gets no answer but its own.
LEMMA MatchNext ==
  ASSUME MatchInv, [Next]_vars
  PROVE  MatchInv'
<1>0. BaseInv /\ TypeOK /\ Sole
  BY DEF MatchInv, BaseInv
<1>1. BaseInv'
  BY <1>0, BaseNext
<1> SUFFICES ASSUME fault' # "restart" PROVE Match'
  BY <1>1 DEF MatchInv
<1>2. \A m \in owed : m.origin \in Node /\ m.ask \in Ask /\ m.origin = home[m.ask]
  BY <1>0, OwedFields, Zenon DEF TypeOK, Sole
<1>3. CASE UNCHANGED vars
  BY <1>3 DEF MatchInv, Match, Own, vars
<1>4. CASE \E m \in owed : OnMessage(m)
  <2>1. PICK m \in owed : OnMessage(m)
    BY <1>4
  <2>2. UNCHANGED <<caller, home, serving>> /\ Worse /\ (Handled(m) \/ Registered(m))
    BY <1>0, <2>1, MessageStep DEF Sole
  <2>3. Match
    BY <2>2 DEF MatchInv, Worse
  <2>4. CASE Handled(m)
    <3>1. Own(m) /\ m.corr < correlations[m.origin]
      BY <2>3, Zenon DEF Match
    <3>2. Shrinks /\ Honest /\ UNCHANGED <<slot, correlations>>
      BY <2>4, <3>1 DEF Handled
    <3>3. \A q \in owed' : \/ q \in owed
                           \/ q.corr = m.corr /\ q.ask = m.ask /\ q.origin = m.origin
      <4>1. Removes(m) \/ \E q : Replaces(m, q) /\ q.corr = m.corr
        BY <2>4 DEF Handled
      <4>2. CASE Removes(m)
        BY <4>2 DEF Removes
      <4>3. CASE \E q : Replaces(m, q) /\ q.corr = m.corr
        BY <4>3 DEF Replaces
      <4> QED
        BY <4>1, <4>2, <4>3
    <3>4. \A q \in owed' : q.origin \in Node /\ q.corr < correlations[q.origin] /\ Own(q)
      BY <1>2, <2>3, <3>1, <3>3 DEF Match, Own
    <3> QED
      BY <1>0, <2>2, <2>3, <3>2, <3>4, MatchKeeps
  <2>5. CASE Registered(m)
    <3>1. Register(m.origin, m.ask)
      BY <2>5 DEF Registered
    <3>2. \A q \in owed' : \/ q \in owed
                           \/ q.corr = correlations[m.origin] /\ q.ask = m.ask /\ q.origin = m.origin
      <4>1. Removes(m) \/ \E q : Replaces(m, q) /\ q.corr = correlations[m.origin]
        BY <2>5 DEF Registered
      <4>2. CASE Removes(m)
        BY <4>2 DEF Removes
      <4>3. CASE \E q : Replaces(m, q) /\ q.corr = correlations[m.origin]
        BY <4>3 DEF Replaces
      <4> QED
        BY <4>1, <4>2, <4>3
    <3> QED
      BY <1>0, <1>2, <2>2, <2>3, <3>1, <3>2, MatchAdds
  <2> QED
    BY <2>2, <2>4, <2>5
<1>5. CASE \E a \in Ask : AskHere(a) \/ \E to \in Host : SendOk(a, to)
  <2>1. PICK a \in Ask : AskHere(a) \/ \E to \in Host : SendOk(a, to)
    BY <1>5
  <2>0. PICK q : Begins(a, q)
    BY <1>0, <2>1, BeginsStep DEF BaseInv
  <2>2. /\ q \in Owed /\ q.ask = a /\ q.origin = home[a] /\ q.kind \in {"command", "handle"}
        /\ \/ q.corr = Local
           \/ q.corr = slot[a] /\ caller[a] = "sending"
        /\ owed' = owed \cup {q}
        /\ caller[a] \in {"idle", "sending"} /\ caller' = [caller EXCEPT ![a] = "waiting"]
        /\ UNCHANGED <<home, chan, slot, correlations, waiting, serving, fault>>
    BY <2>0 DEF Begins
  <2>3. Match
    BY <2>2 DEF MatchInv
  <2>4. home[a] \in Node /\ correlations[home[a]] \in Nat
    BY <1>0, RepliesAssumption DEF TypeOK
  <2>5. \A w \in waiting[home[a]] : w.corr # Local
    BY <1>0, <2>4 DEF TypeOK, Row, Local
  <2>6. q.origin \in Node /\ q.corr < correlations[q.origin] /\ Own(q)
    BY <2>2, <2>3, <2>4, <2>5 DEF Match, Own, Local
  <2>7. \A m \in owed' : m.origin \in Node /\ m.corr < correlations[m.origin] /\ Own(m)
    BY <1>2, <2>2, <2>3, <2>6 DEF Match
  <2>8. Shrinks /\ Honest
    BY <1>0, <2>2, NothingGoes
  <2> QED
    BY <1>0, <2>2, <2>3, <2>7, <2>8, MatchKeeps
<1>6. CASE \E a \in Ask : AskAway(a)
  <2>1. PICK a \in Ask : AskAway(a)
    BY <1>6
  <2>2. Register(home[a], a) /\ UNCHANGED <<home, owed, serving, fault>>
    BY <2>1 DEF AskAway, node
  <2>3. home[a] \in Node
    BY <1>0, RepliesAssumption DEF TypeOK
  <2>4. Match
    BY <2>2 DEF MatchInv
  <2> QED
    BY <1>0, <2>2, <2>3, <2>4, MatchAdds
<1>7. CASE \E a \in Ask : Ends(a)
  <2>1. PICK a \in Ask : Ends(a)
    BY <1>7
  <2>2. PICK as \in {"answered", "failed", "gone"} : End(a, as)
    BY <2>1, EndsAs
  <2>3. /\ \A b \in Ask \ {a} : slot'[b] = slot[b]
        /\ slot'[a] = Local
        /\ UNCHANGED <<home, correlations, owed, serving, fault>>
        /\ Shrinks /\ Honest
    BY <1>0, <2>2, EndStep, Zenon
  <2>4. Match
    BY <2>3 DEF MatchInv
  <2>5. \A m \in owed' : m.origin \in Node /\ m.corr < correlations[m.origin] /\ Own(m)
    BY <1>2, <2>3, <2>4 DEF Match
  <2>6. \A b \in Ask : slot'[b] \in {slot[b], Local}
    BY <2>3
  <2> QED
    BY <1>0, <2>3, <2>4, <2>5, <2>6, MatchKeeps
<1>8. CASE \E n \in Node : StandDown(n)
  <2>1. PICK n \in Node : StandDown(n)
    BY <1>8
  <2>2. /\ Shrinks /\ Honest
        /\ UNCHANGED <<caller, home, slot, correlations, owed, fault>>
    BY <1>0, <2>1, StandDownStep
  <2>3. Match
    BY <2>2 DEF MatchInv
  <2>4. \A m \in owed' : m.origin \in Node /\ m.corr < correlations[m.origin] /\ Own(m)
    BY <1>2, <2>2, <2>3 DEF Match
  <2>5. \A b \in Ask : slot'[b] \in {slot[b], Local}
    BY <2>2
  <2> QED
    BY <1>0, <2>2, <2>3, <2>4, <2>5, MatchKeeps
<1>9. CASE \E n \in Node : Resume(n)
  BY <1>9 DEF Resume, ask, MatchInv, Match, Own
<1>10. CASE \E n \in Node : Restart(n)
  BY <1>10 DEF Restart
<1> QED
  BY <1>0, <1>3, <1>4, <1>5, <1>6, <1>7, <1>8, <1>9, <1>10, Steps

----------------------------------------------------------------------------
(* A caller that has not been told is owed an answer *)

\* m is what owes the answer, and it can find its caller.
Finds(m, a) ==
  m.ask = a /\ (m.corr = Local \/ [corr |-> m.corr, ask |-> a] \in waiting[m.origin])

Owe ==
  \A a \in Ask : chan[a] = "open" =>
    /\ caller[a] = "sending" => [corr |-> slot[a], ask |-> a] \in waiting[home[a]]
    /\ caller[a] = "waiting" => \E m \in owed : Finds(m, a)

OweInv == BaseInv /\ (fault = "none" => Owe)

\* A row stays as long as its caller has not been told.
LEMMA RowStays ==
  ASSUME Closing, NEW n \in Node, NEW c, NEW a, [corr |-> c, ask |-> a] \in waiting[n],
         chan'[a] = "open"
  PROVE  [corr |-> c, ask |-> a] \in waiting'[n]
<1>1. [corr |-> c, ask |-> a].ask = a
  OBVIOUS
<1> QED
  BY <1>1 DEF Closing

\* What finds a caller goes on finding it.
LEMMA StillFinds ==
  ASSUME BaseInv, Closing, NEW a \in Ask, chan'[a] = "open", NEW m \in owed, Finds(m, a)
  PROVE  Finds(m, a)'
<1>1. m.origin \in Node
  BY OwedFields DEF BaseInv, TypeOK
<1>2. CASE m.corr = Local
  BY <1>2 DEF Finds
<1>3. CASE m.corr # Local
  <2>1. [corr |-> m.corr, ask |-> a] \in waiting[m.origin]
    BY <1>3 DEF Finds
  <2>2. [corr |-> m.corr, ask |-> a] \in waiting'[m.origin]
    BY <1>1, <2>1, RowStays, Zenon
  <2> QED
    BY <2>2 DEF Finds
<1> QED
  BY <1>2, <1>3

\* Whatever is not acted upon: the ask is as it was, and so is what owes to it.
LEMMA OweStays ==
  ASSUME BaseInv, Owe, Closing, NEW a \in Ask, chan'[a] = "open",
         caller'[a] = caller[a], home'[a] = home[a],
         caller[a] = "sending" => slot'[a] = slot[a],
         \A m \in owed : m.ask = a => m \in owed'
  PROVE  /\ caller'[a] = "sending" => [corr |-> slot'[a], ask |-> a] \in waiting'[home'[a]]
         /\ caller'[a] = "waiting" => \E m \in owed' : Finds(m, a)'
<1>0. chan[a] = "open" /\ home[a] \in Node
  BY RepliesAssumption DEF Closing, BaseInv, TypeOK
<1>1. ASSUME caller'[a] = "sending"
      PROVE  [corr |-> slot'[a], ask |-> a] \in waiting'[home'[a]]
  <2>1. [corr |-> slot[a], ask |-> a] \in waiting[home[a]] /\ slot'[a] = slot[a]
    BY <1>0, <1>1, Zenon DEF Owe
  <2>2. [corr |-> slot[a], ask |-> a] \in waiting'[home[a]]
    BY <1>0, <2>1, RowStays
  <2> QED
    BY <2>1, <2>2
<1>2. ASSUME caller'[a] = "waiting" PROVE \E m \in owed' : Finds(m, a)'
  <2>1. PICK m \in owed : Finds(m, a)
    BY <1>0, <1>2, Zenon DEF Owe
  <2>2. Finds(m, a)'
    BY <2>1, StillFinds
  <2>3. m \in owed'
    BY <2>1 DEF Finds
  <2> QED
    BY <2>2, <2>3
<1> QED
  BY <1>1, <1>2

\* A message that is acted upon leaves its caller told or owed.
LEMMA OweMessage ==
  ASSUME BaseInv, Owe, NEW m \in owed, UNCHANGED <<caller, home, serving>>, Closing,
         Handled(m) \/ Registered(m), fault' = "none"
  PROVE  Owe'
<1>0. /\ m.origin \in Node /\ m.ask \in Ask /\ m.corr \in Nat \cup {Local}
      /\ caller[m.ask] # "sending" /\ TypeOK /\ Sole
  BY OwedFields, Zenon DEF BaseInv, TypeOK, Sole
<1>1. \A b \in owed : b # m => b \in owed'
  <2>1. Removes(m) \/ \E q : Replaces(m, q)
    BY DEF Handled, Registered
  <2> QED
    BY <2>1 DEF Removes, Replaces
<1>2. \A a \in Ask : caller[a] = "sending" => slot'[a] = slot[a]
  <2>1. CASE Handled(m)
    BY <2>1 DEF Handled
  <2>2. CASE Registered(m)
    <3>1. Register(m.origin, m.ask)
      BY <2>2 DEF Registered
    <3>2. slot' = [slot EXCEPT ![m.ask] = correlations[m.origin]]
      BY <3>1, ZenonT(30) DEF Register
    <3> QED
      BY <1>0, <3>2 DEF TypeOK
  <2> QED
    BY <2>1, <2>2
<1> SUFFICES ASSUME NEW a \in Ask, chan'[a] = "open"
             PROVE  /\ caller'[a] = "sending"
                         => [corr |-> slot'[a], ask |-> a] \in waiting'[home'[a]]
                    /\ caller'[a] = "waiting" => \E q \in owed' : Finds(q, a)'
  BY DEF Owe
<1>3. CASE a # m.ask
  <2>1. \A b \in owed : b.ask = a => b \in owed'
    BY <1>1, <1>3
  <2> QED
    BY <1>2, <2>1, OweStays
<1>4. CASE a = m.ask
  <2>1. SUFFICES ASSUME caller'[a] = "waiting" PROVE \E q \in owed' : Finds(q, a)'
    BY <1>0, <1>4
  <2>2. chan[a] = "open"
    BY DEF Closing
  <2>3. \E b \in owed : Finds(b, a)
    BY <2>1, <2>2, Zenon DEF Owe
  <2>4. Finds(m, a)
    BY <1>0, <1>4, <2>3, SMTT(30) DEF Sole, OneAnswerer, Finds
  <2>5. CASE Handled(m)
    <3>1. CASE \E q : Replaces(m, q) /\ q.corr = m.corr
      <4>1. PICK q : Replaces(m, q) /\ q.corr = m.corr
        BY <3>1, Zenon
      <4>2. q \in owed' /\ q.ask = m.ask /\ q.origin = m.origin
        BY <4>1 DEF Replaces
      <4>3. Finds(m, a)'
        BY <2>4, StillFinds
      <4> QED
        BY <4>1, <4>2, <4>3, ZenonT(30) DEF Finds
    <3>2. CASE Told(m)
      <4>1. [corr |-> m.corr, ask |-> a].corr = m.corr /\ [corr |-> m.corr, ask |-> a].ask = a
        OBVIOUS
      <4> QED
        BY <1>4, <2>4, <3>2, <4>1 DEF Told, Finds
    <3> QED
      BY <2>5, <3>1, <3>2, SMTT(30) DEF Handled
  <2>6. CASE Registered(m)
    <3>1. PICK q : Replaces(m, q) /\ q.corr = correlations[m.origin]
      BY <2>6 DEF Registered
    <3>2. q \in owed' /\ q.ask = m.ask /\ q.origin = m.origin
      BY <3>1 DEF Replaces
    <3>3. Register(m.origin, m.ask)
      BY <2>6, Zenon DEF Registered
    <3>4. [corr |-> correlations[m.origin], ask |-> m.ask] \in waiting'[m.origin]
      <4>1. Registers(m.origin, m.ask)
        BY <1>0, <3>3, RegisterAdds
      <4> QED
        BY <1>4, <4>1, Zenon DEF Registers
    <3> QED
      BY <1>4, <3>1, <3>2, <3>4, SMTT(30) DEF Finds
  <2> QED
    BY <2>5, <2>6, ZenonT(30)
<1> QED
  BY <1>3, <1>4

\* Nobody waits on nothing.
LEMMA OweNext ==
  ASSUME OweInv, [Next]_vars
  PROVE  OweInv'
<1>0. BaseInv /\ TypeOK /\ Sole
  BY DEF OweInv, BaseInv
<1>1. BaseInv'
  BY <1>0, BaseNext
<1> SUFFICES ASSUME fault' = "none" PROVE Owe'
  BY <1>1 DEF OweInv
<1>2. /\ caller \in [Ask -> Stage] /\ \A a \in Ask : home[a] \in Node
      /\ slot \in [Ask -> Nat \cup {Local}]
  <2>1. home \in [Ask -> Client]
    BY <1>0 DEF TypeOK
  <2>2. \A a \in Ask : home[a] \in Node
    BY <2>1, RepliesAssumption, Zenon
  <2> QED
    BY <1>0, <2>2 DEF TypeOK, Stage
<1>3. CASE UNCHANGED vars
  BY <1>3 DEF OweInv, Owe, Finds, vars
<1>4. CASE \E m \in owed : OnMessage(m)
  <2>1. PICK m \in owed : OnMessage(m)
    BY <1>4
  <2>2. /\ UNCHANGED <<caller, home, serving>> /\ Worse /\ Closing
        /\ Handled(m) \/ Registered(m)
    BY <1>0, <2>1, MessageStep DEF Sole
  <2>3. Owe
    BY <2>2, Zenon DEF OweInv, Worse
  <2> QED
    BY <1>0, <2>2, <2>3, OweMessage
<1>5. CASE \E a \in Ask : AskHere(a) \/ \E to \in Host : SendOk(a, to)
  <2>1. PICK a \in Ask : AskHere(a) \/ \E to \in Host : SendOk(a, to)
    BY <1>5
  <2>0. PICK q : Begins(a, q)
    BY <1>0, <2>1, BeginsStep DEF BaseInv
  <2>2. /\ q \in Owed /\ q.ask = a /\ q.origin = home[a] /\ q.kind \in {"command", "handle"}
        /\ \/ q.corr = Local
           \/ q.corr = slot[a] /\ caller[a] = "sending"
        /\ owed' = owed \cup {q}
        /\ caller[a] \in {"idle", "sending"} /\ caller' = [caller EXCEPT ![a] = "waiting"]
        /\ UNCHANGED <<home, chan, slot, correlations, waiting, serving, fault>>
    BY <2>0 DEF Begins
  <2>3. Owe
    BY <2>2 DEF OweInv
  <2>4. Closing
    BY <1>0, <2>2, NothingGoes
  <2>5. caller'[a] = "waiting" /\ \A b \in Ask \ {a} : caller'[b] = caller[b]
    BY <1>2, <2>2, Zenon
  <2> SUFFICES ASSUME NEW b \in Ask, chan'[b] = "open"
               PROVE  /\ caller'[b] = "sending"
                           => [corr |-> slot'[b], ask |-> b] \in waiting'[home'[b]]
                      /\ caller'[b] = "waiting" => \E m \in owed' : Finds(m, b)'
    BY Zenon DEF Owe
  <2>6. CASE b = a
    <3>1. chan[a] = "open"
      BY <2>2, <2>6
    <3>2. q.corr = Local \/ [corr |-> q.corr, ask |-> a] \in waiting[home[a]]
      BY <2>2, <2>3, <3>1, Zenon DEF Owe
    <3>3. Finds(q, a)' /\ q \in owed'
      BY <2>2, <3>2 DEF Finds
    <3> QED
      BY <2>5, <2>6, <3>3
  <2>7. CASE b # a
    <3>1. /\ caller'[b] = caller[b] /\ home'[b] = home[b] /\ slot'[b] = slot[b]
          /\ \A m \in owed : m \in owed'
      BY <2>2, <2>5, <2>7
    <3> QED
      BY <1>0, <2>3, <2>4, <3>1, OweStays, Zenon
  <2> QED
    BY <2>6, <2>7
<1>6. CASE \E a \in Ask : AskAway(a)
  <2>1. PICK a \in Ask : AskAway(a)
    BY <1>6
  <2>2. /\ Register(home[a], a) /\ UNCHANGED <<home, owed, serving, fault>>
        /\ caller' = [caller EXCEPT ![a] = "sending"]
    BY <2>1 DEF AskAway, node
  <2>3. Owe
    BY <2>2 DEF OweInv
  <2>4. /\ Closing
        /\ [corr |-> correlations[home[a]], ask |-> a] \in waiting'[home[a]] \/ chan'[a] # "open"
        /\ slot'[a] = correlations[home[a]]
        /\ \A b \in Ask \ {a} : slot'[b] = slot[b]
    <3>1. Registers(home[a], a)
      BY <1>0, <1>2, <2>2, RegisterAdds
    <3> QED
      BY <3>1 DEF Registers
  <2>5. caller'[a] = "sending" /\ \A b \in Ask \ {a} : caller'[b] = caller[b]
    BY <1>2, <2>2, Zenon
  <2> SUFFICES ASSUME NEW b \in Ask, chan'[b] = "open"
               PROVE  /\ caller'[b] = "sending"
                           => [corr |-> slot'[b], ask |-> b] \in waiting'[home'[b]]
                      /\ caller'[b] = "waiting" => \E m \in owed' : Finds(m, b)'
    BY DEF Owe
  <2>6. CASE b = a
    BY <2>2, <2>4, <2>5, <2>6, Zenon
  <2>7. CASE b # a
    <3>1. /\ caller'[b] = caller[b] /\ home'[b] = home[b] /\ slot'[b] = slot[b]
          /\ \A m \in owed : m \in owed'
      BY <2>2, <2>4, <2>5, <2>7, SMTT(30)
    <3> QED
      BY <1>0, <2>3, <2>4, <3>1, OweStays, Zenon
  <2> QED
    BY <2>6, <2>7
<1>7. CASE \E a \in Ask : Ends(a)
  <2>1. PICK a \in Ask : Ends(a)
    BY <1>7
  <2>2. PICK as \in {"answered", "failed", "gone"} : End(a, as)
    BY <2>1, EndsAs
  <2>3. /\ caller'[a] = as
        /\ \A b \in Ask \ {a} : caller'[b] = caller[b] /\ slot'[b] = slot[b]
        /\ UNCHANGED <<home, correlations, owed, serving, fault>>
        /\ Closing
    BY <1>0, <2>2, EndStep, Zenon
  <2>4. Owe
    BY <2>3 DEF OweInv
  <2> SUFFICES ASSUME NEW b \in Ask, chan'[b] = "open"
               PROVE  /\ caller'[b] = "sending"
                           => [corr |-> slot'[b], ask |-> b] \in waiting'[home'[b]]
                      /\ caller'[b] = "waiting" => \E m \in owed' : Finds(m, b)'
    BY DEF Owe
  <2>5. CASE b = a
    BY <2>3, <2>5, Zenon
  <2>6. CASE b # a
    <3>1. /\ caller'[b] = caller[b] /\ home'[b] = home[b] /\ slot'[b] = slot[b]
          /\ \A m \in owed : m \in owed'
      BY <2>3, <2>6
    <3> QED
      BY <1>0, <2>3, <2>4, <3>1, OweStays
  <2> QED
    BY <2>5, <2>6, Zenon
<1>8. CASE \E n \in Node : StandDown(n)
  <2>1. PICK n \in Node : StandDown(n)
    BY <1>8
  <2>2. Closing /\ UNCHANGED <<caller, home, slot, correlations, owed, fault>>
    BY <1>0, <2>1, StandDownStep
  <2>3. Owe
    BY <2>2 DEF OweInv
  <2>4. ASSUME NEW b \in Ask, chan'[b] = "open"
        PROVE  /\ caller'[b] = "sending"
                    => [corr |-> slot'[b], ask |-> b] \in waiting'[home'[b]]
               /\ caller'[b] = "waiting" => \E m \in owed' : Finds(m, b)'
    <3>1. /\ caller'[b] = caller[b] /\ home'[b] = home[b] /\ slot'[b] = slot[b]
          /\ \A m \in owed : m \in owed'
      BY <2>2
    <3> QED
      BY <1>0, <2>2, <2>3, <2>4, <3>1, OweStays
  <2> QED
    BY <2>4 DEF Owe
<1>9. CASE \E n \in Node : Resume(n)
  <2>1. UNCHANGED <<caller, home, chan, slot, waiting, owed, fault>>
    BY <1>9 DEF Resume, ask
  <2>2. Owe
    BY <2>1 DEF OweInv
  <2> QED
    BY <2>1, <2>2 DEF Owe, Finds
<1>10. CASE \E n \in Node : Restart(n)
  BY <1>10 DEF Restart
<1> QED
  BY <1>0, <1>3, <1>4, <1>5, <1>6, <1>7, <1>8, <1>9, <1>10, Steps

----------------------------------------------------------------------------
(* A row is taken away by its ask or by what carries its correlation *)

\* The row w of the node n is waited for, or will be answered.
Kept(n, w) ==
  \/ caller[w.ask] \in {"sending", "waiting"} /\ slot[w.ask] = w.corr
  \/ \E m \in owed : m.ask = w.ask /\ m.corr = w.corr /\ m.origin = n

\* An ask that has not been registered has an empty slot.
Rows ==
  /\ \A n \in Node : \A w \in waiting[n] : home[w.ask] = n /\ Kept(n, w)
  /\ \A m \in owed : m.corr = Local => slot[m.ask] = Local
  /\ \A a \in Ask : caller[a] = "idle" => slot[a] = Local

RowInv == BaseInv /\ (fault = "none" => Rows)

\* A message that is answered takes its row, and one that goes on keeps it.
LEMMA RowsHandled ==
  ASSUME BaseInv, Rows, NEW m \in owed, UNCHANGED <<caller, home>>, Handled(m), fault' = "none"
  PROVE  Rows'
<1>0. /\ UNCHANGED slot /\ \A n \in Node : waiting'[n] \subseteq waiting[n]
      /\ \/ Removes(m) /\ Told(m)
         \/ \E q : Replaces(m, q) /\ q.corr = m.corr
  BY DEF Handled, Shrinks
<1>1. CASE Removes(m) /\ Told(m)
  <2>1. owed' = owed \ {m}
    BY <1>1 DEF Removes
  <2>2. ASSUME NEW n \in Node, NEW w \in waiting'[n] PROVE home'[w.ask] = n /\ Kept(n, w)'
    <3>1. w \in waiting[n] /\ home[w.ask] = n /\ Kept(n, w)
      BY <1>0 DEF Rows
    <3>2. w.corr = m.corr => n # m.origin
      BY <1>1, <3>1 DEF Told
    <3> QED
      BY <1>0, <2>1, <3>1, <3>2, Zenon DEF Kept
  <2> QED
    BY <1>0, <2>1, <2>2 DEF Rows
<1>2. CASE \E q : Replaces(m, q) /\ q.corr = m.corr
  <2>1. PICK q : /\ owed' = (owed \ {m}) \cup {q} /\ q.ask = m.ask
                 /\ q.origin = m.origin /\ q.corr = m.corr
    BY <1>2, Zenon DEF Replaces
  <2>2. ASSUME NEW n \in Node, NEW w \in waiting'[n] PROVE home'[w.ask] = n /\ Kept(n, w)'
    <3>1. w \in waiting[n] /\ home[w.ask] = n /\ Kept(n, w)
      BY <1>0 DEF Rows
    <3> QED
      BY <1>0, <2>1, <3>1, Zenon DEF Kept
  <2> QED
    BY <1>0, <2>1, <2>2 DEF Rows
<1> QED
  BY <1>0, <1>1, <1>2

\* A registration adds one row, for an ask that had none.
LEMMA RowsAdd ==
  ASSUME BaseInv, Rows, NEW n \in Node, NEW a \in Ask, Register(n, a),
         home[a] = n, home' = home, slot[a] = Local,
         \A b \in Ask \ {a} : caller'[b] = caller[b],
         caller'[a] = caller[a] \/ caller[a] = "idle",
         caller'[a] # "idle",
         \A q \in owed' : IF q.ask = a THEN q.corr # Local ELSE q \in owed,
         \A m \in owed : m.ask = a => m.corr = Local,
         \A m \in owed : m.ask # a => m \in owed',
         \/ caller'[a] = "sending"
         \/ \E q \in owed' : q.ask = a /\ q.corr = correlations[n] /\ q.origin = n
  PROVE  Rows'
<1> DEFINE new == [corr |-> correlations[n], ask |-> a]
<1>0. TypeOK /\ \A m \in owed : m.ask \in Ask
  BY OwedFields, Zenon DEF BaseInv, TypeOK
<1>1. /\ waiting'[n] \subseteq waiting[n] \cup {new}
      /\ \A k \in Node \ {n} : waiting'[k] = waiting[k]
      /\ slot'[a] = correlations[n]
      /\ \A b \in Ask \ {a} : slot'[b] = slot[b]
  <2>1. Registers(n, a)
    BY <1>0, RegisterAdds, Zenon
  <2> QED
    BY <2>1, Zenon DEF Registers
<1>2. new.corr = correlations[n] /\ new.ask = a
  OBVIOUS
<1> HIDE DEF new
<1>3. ASSUME NEW k \in Node, NEW w \in waiting[k]
      PROVE  w.ask \in Ask /\ w.ask # a /\ home[w.ask] = k /\ Kept(k, w)
  <2>1. w.ask \in Ask /\ w.corr # Local
    BY <1>0 DEF TypeOK, Row, Local
  <2>2. home[w.ask] = k /\ Kept(k, w)
    BY DEF Rows
  <2> QED
    BY <2>1, <2>2 DEF Kept
<1>4. ASSUME NEW k \in Node, NEW w \in waiting'[k] PROVE home'[w.ask] = k /\ Kept(k, w)'
  <2>1. CASE w \in waiting[k]
    <3>1. w.ask \in Ask /\ w.ask # a /\ home[w.ask] = k /\ Kept(k, w)
      BY <1>3, <2>1
    <3> QED
      BY <1>1, <3>1 DEF Kept
  <2>2. CASE w \notin waiting[k]
    <3>1. k = n /\ w = new
      BY <1>1, <2>2
    <3> QED
      BY <1>1, <1>2, <3>1 DEF Kept
  <2> QED
    BY <2>1, <2>2
<1>5. \A q \in owed' : q.corr = Local => slot'[q.ask] = Local
  BY <1>0, <1>1, ZenonT(30) DEF Rows
<1>6. \A b \in Ask : caller'[b] = "idle" => slot'[b] = Local
  BY <1>1, Zenon DEF Rows
<1> QED
  BY <1>4, <1>5, <1>6 DEF Rows

\* No row is left behind.
LEMMA RowsNext ==
  ASSUME RowInv, [Next]_vars
  PROVE  RowInv'
<1>0. BaseInv /\ TypeOK /\ Sole
  BY DEF RowInv, BaseInv
<1>1. BaseInv'
  BY <1>0, BaseNext
<1> SUFFICES ASSUME fault' = "none" PROVE Rows'
  BY <1>1 DEF RowInv
<1>2. /\ caller \in [Ask -> Stage] /\ \A a \in Ask : home[a] \in Node
      /\ slot \in [Ask -> Nat \cup {Local}]
  <2>1. home \in [Ask -> Client]
    BY <1>0 DEF TypeOK
  <2>2. \A a \in Ask : home[a] \in Node
    BY <2>1, RepliesAssumption
  <2> QED
    BY <1>0, <2>2 DEF TypeOK, Stage
<1>3. CASE UNCHANGED vars
  BY <1>3 DEF RowInv, Rows, Kept, vars
<1>4. CASE \E m \in owed : OnMessage(m)
  <2>1. PICK m \in owed : OnMessage(m)
    BY <1>4
  <2>2. UNCHANGED <<caller, home, serving>> /\ Worse /\ (Handled(m) \/ Registered(m))
    BY <1>0, <2>1, MessageStep DEF Sole
  <2>3. Rows
    BY <2>2 DEF RowInv, Worse
  <2>4. CASE Handled(m)
    BY <1>0, <2>2, <2>3, <2>4, RowsHandled, Zenon
  <2>5. CASE Registered(m)
    <3>0. m.origin \in Node /\ m.ask \in Ask /\ m.origin = home[m.ask] /\ caller[m.ask] # "idle"
      BY <1>0, OwedFields DEF TypeOK, Sole
    <3>1. /\ Register(m.origin, m.ask) /\ m.corr = Local
          /\ \E q : Replaces(m, q) /\ q.corr = correlations[m.origin]
      BY <2>5 DEF Registered
    <3>2. PICK q : /\ owed' = (owed \ {m}) \cup {q} /\ q.ask = m.ask
                   /\ q.origin = m.origin /\ q.corr = correlations[m.origin]
      BY <3>1 DEF Replaces
    <3>3. q.corr # Local /\ slot[m.ask] = Local
      BY <1>0, <2>3, <3>0, <3>1, <3>2 DEF TypeOK, Local, Rows
    <3>4. \A b \in owed : b.ask = m.ask => b = m
      BY <1>0 DEF Sole, OneAnswerer
    <3>5. \A b \in owed' : IF b.ask = m.ask THEN b.corr # Local ELSE b \in owed
      BY <3>2, <3>3, <3>4
    <3>6. \A b \in owed : b.ask # m.ask => b \in owed'
      BY <3>2
    <3>7. \A b \in owed : b.ask = m.ask => b.corr = Local
      BY <3>1, <3>4
    <3>8. \E b \in owed' : b.ask = m.ask /\ b.corr = correlations[m.origin] /\ b.origin = m.origin
      BY <3>2
    <3> QED
      BY <1>0, <2>2, <2>3, <3>0, <3>1, <3>3, <3>5, <3>6, <3>7, <3>8, RowsAdd, ZenonT(30)
  <2> QED
    BY <2>2, <2>4, <2>5
<1>5. CASE \E a \in Ask : AskHere(a) \/ \E to \in Host : SendOk(a, to)
  <2>1. PICK a \in Ask : AskHere(a) \/ \E to \in Host : SendOk(a, to)
    BY <1>5
  <2>0. PICK q : Begins(a, q)
    BY <1>0, <2>1, BeginsStep DEF BaseInv
  <2>2. /\ q.ask = a
        /\ (q.corr = Local /\ caller[a] = "idle") \/ q.corr = slot[a]
        /\ owed' = owed \cup {q} /\ caller' = [caller EXCEPT ![a] = "waiting"]
        /\ UNCHANGED <<home, slot, waiting, fault>>
    BY <2>0 DEF Begins
  <2>3. Rows
    BY <2>2 DEF RowInv
  <2>4. caller'[a] = "waiting" /\ \A b \in Ask \ {a} : caller'[b] = caller[b]
    BY <1>2, <2>2
  <2>5. ASSUME NEW n \in Node, NEW w \in waiting'[n] PROVE home'[w.ask] = n /\ Kept(n, w)'
    <3>1. w.ask \in Ask /\ home[w.ask] = n /\ Kept(n, w)
      BY <1>0, <2>2, <2>3 DEF TypeOK, Row, Rows
    <3> QED
      BY <2>2, <2>4, <3>1 DEF Kept
  <2>6. \A m \in owed' : m.corr = Local => slot'[m.ask] = Local
    BY <2>2, <2>3 DEF Rows
  <2>7. \A b \in Ask : caller'[b] = "idle" => slot'[b] = Local
    BY <2>2, <2>3, <2>4 DEF Rows
  <2> QED
    BY <2>5, <2>6, <2>7, Zenon DEF Rows
<1>6. CASE \E a \in Ask : AskAway(a)
  <2>1. PICK a \in Ask : AskAway(a)
    BY <1>6
  <2>2. /\ Register(home[a], a) /\ UNCHANGED <<home, owed, fault>>
        /\ caller[a] = "idle" /\ caller' = [caller EXCEPT ![a] = "sending"]
    BY <2>1 DEF AskAway, node
  <2>3. Rows /\ home[a] \in Node
    BY <1>2, <2>2 DEF RowInv
  <2>4. caller'[a] = "sending" /\ \A b \in Ask \ {a} : caller'[b] = caller[b]
    BY <1>2, <2>2
  <2>5. slot[a] = Local
    BY <2>2, <2>3 DEF Rows
  <2>6. \A m \in owed : m.ask # a
    BY <1>0, <2>2 DEF Sole
  <2> QED
    BY <1>0, <2>2, <2>3, <2>4, <2>5, <2>6, RowsAdd
<1>7. CASE \E a \in Ask : Ends(a)
  <2>1. PICK a \in Ask : Ends(a)
    BY <1>7
  <2>2. PICK as \in {"answered", "failed", "gone"} : End(a, as)
    BY <2>1, EndsAs
  <2>3. /\ caller'[a] = as /\ slot'[a] = Local
        /\ \A b \in Ask \ {a} : caller'[b] = caller[b] /\ slot'[b] = slot[b]
        /\ UNCHANGED <<home, owed, fault>> /\ Shrinks
        /\ \A w \in waiting[home[a]] : w.corr = slot[a] => w \notin waiting'[home[a]]
    BY <1>0, <2>2, EndStep, Zenon
  <2>4. Rows
    BY <2>3 DEF RowInv
  <2>5. ASSUME NEW n \in Node, NEW w \in waiting'[n] PROVE home'[w.ask] = n /\ Kept(n, w)'
    <3>1. w \in waiting[n] /\ w.ask \in Ask /\ home[w.ask] = n /\ Kept(n, w)
      BY <1>0, <2>3, <2>4 DEF TypeOK, Row, Rows, Shrinks
    <3>2. w.ask = a => slot[a] # w.corr
      BY <2>3, <3>1, Zenon
    <3> QED
      BY <2>3, <3>1, <3>2 DEF Kept
  <2>6. \A m \in owed' : m.ask \in Ask /\ (m.corr = Local => slot'[m.ask] = Local)
    BY <1>0, <2>3, <2>4, OwedFields, ZenonT(30) DEF TypeOK, Rows
  <2>7. \A b \in Ask : caller'[b] = "idle" => slot'[b] = Local
    BY <2>3, <2>4, Zenon DEF Rows
  <2> QED
    BY <2>5, <2>6, <2>7, Zenon DEF Rows
<1>8. CASE \E n \in Node : StandDown(n)
  <2>1. Shrinks /\ UNCHANGED <<caller, home, slot, owed, fault>>
    BY <1>0, <1>8, StandDownStep
  <2>2. Rows
    BY <2>1, ZenonT(30) DEF RowInv
  <2> QED
    BY <2>1, <2>2, Zenon DEF Rows, Kept, Shrinks
<1>9. CASE \E n \in Node : Resume(n)
  <2>1. UNCHANGED <<caller, home, slot, waiting, owed, fault>>
    BY <1>9 DEF Resume, ask
  <2>2. Rows
    BY <2>1 DEF RowInv
  <2> QED
    BY <2>1, <2>2, Zenon DEF Rows, Kept
<1>10. CASE \E n \in Node : Restart(n)
  BY <1>10 DEF Restart
<1> QED
  BY <1>0, <1>3, <1>4, <1>5, <1>6, <1>7, <1>8, <1>9, <1>10, Steps

----------------------------------------------------------------------------
(* The theorems *)

\* At the start there are no correlations and no callers.
LEMMA AnswersInit == Init => MatchInv /\ OweInv /\ RowInv
<1> SUFFICES ASSUME Init PROVE MatchInv /\ OweInv /\ RowInv
  OBVIOUS
<1>1. \A a \in Ask : home[a] \in Node
  BY RepliesAssumption DEF Init
<1>2. Match
  BY <1>1 DEF Init, Match, Local
<1>3. Owe
  BY DEF Init, Owe
<1>4. Rows
  BY DEF Init, Rows
<1> QED
  BY <1>2, <1>3, <1>4, BaseInit DEF MatchInv, OweInv, RowInv

\* Until a node restarts, an ask gets no answer but its own.
THEOREM OwnAnswers == Spec => []AnswersMatch
<1>1. MatchInv /\ [Next]_vars => MatchInv'
  BY MatchNext
<1>2. MatchInv => AnswersMatch
  BY DEF MatchInv, Match, AnswersMatch
<1> QED
  BY <1>1, <1>2, AnswersInit, PTL DEF Spec

\* As long as nothing is lost, a caller that waits is owed an answer that can
\* find it: eviction, standing down and cancelling tell whom they take out.
THEOREM NobodyForgotten == Spec => []OwedAnswer
<1>1. OweInv /\ [Next]_vars => OweInv'
  BY OweNext
<1>2. OweInv => OwedAnswer
  BY Zenon DEF OweInv, Owe, Finds, OwedAnswer, Carrying
<1> QED
  BY <1>1, <1>2, AnswersInit, PTL DEF Spec

\* As long as nothing is lost, a row of the waiting table is taken away by the
\* ask that waits for it, or by what carries its correlation.
THEOREM NoRowStays == Spec => []RowsEnd
<1>1. RowInv /\ [Next]_vars => RowInv'
  BY RowsNext
<1>2. RowInv => RowsEnd
  <2> SUFFICES ASSUME RowInv, fault = "none", NEW n \in Node, NEW r \in waiting[n]
               PROVE  \/ caller[r.ask] \in {"sending", "waiting"} /\ slot[r.ask] = r.corr
                      \/ \E m \in Carrying(r.ask) : m.corr = r.corr /\ m.origin = n
    BY DEF RowsEnd
  <2>1. Kept(n, r)
    BY DEF RowInv, Rows
  <2> QED
    BY <2>1 DEF Kept, Carrying
<1> QED
  BY <1>1, <1>2, AnswersInit, PTL DEF Spec

=============================================================================
