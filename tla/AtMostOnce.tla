----------------------------- MODULE AtMostOnce -----------------------------
(***************************************************************************)
(* What a call to another node promises, whatever becomes of connections:  *)
(* the other side takes a request up at most once, and never one that was  *)
(* given up before it was sent; it answers what it took up and nothing     *)
(* else; and a call that succeeds returns an answer to its own request.  A *)
(* call that fails says nothing about whether the request was served.      *)
(***************************************************************************)
CONSTANTS
  Caller,
  Says,       \* what the other side may answer to each request
  Good,       \* those answers that are results
  Refused,    \* the news that no answer will come
  Nothing

VARIABLES
  request,    \* how far each request has come: it never goes back
  replies,    \* the answers under way to each caller
  got,        \* what each caller has heard
  result      \* how each call has ended

amoVars == <<request, replies, got, result>>

AmoInit ==
  /\ request = [k \in Caller |-> "unsent"]
  /\ replies = [k \in Caller |-> {}]
  /\ got = [k \in Caller |-> Nothing]
  /\ result = [k \in Caller |-> "open"]

Send(k) ==
  /\ result[k] = "open" /\ request[k] = "unsent"
  /\ request' = [request EXCEPT ![k] = "sent"]
  /\ UNCHANGED <<replies, got, result>>

Work(k) ==
  /\ request[k] = "sent"
  /\ request' = [request EXCEPT ![k] = "served"]
  /\ UNCHANGED <<replies, got, result>>

\* The answer goes out, or is lost at once.
Answer(k) ==
  /\ request[k] = "served"
  /\ request' = [request EXCEPT ![k] = "over"]
  /\ \E r \in Says[k] \cup {Refused} :
       replies' = replies \/ replies' = [replies EXCEPT ![k] = @ \cup {r}]
  /\ UNCHANGED <<got, result>>

\* Requests and answers are lost, any number of them at once.
Lose ==
  /\ \E lost \in SUBSET Caller :
       request' = [k \in Caller |-> IF k \in lost /\ request[k] = "sent" THEN "over" ELSE request[k]]
  /\ \E lost \in SUBSET Caller :
       replies' = [k \in Caller |-> IF k \in lost THEN {} ELSE replies[k]]
  /\ UNCHANGED <<got, result>>

\* An answer arrives.  What a caller has heard it keeps.
Hear(k) ==
  /\ \E r \in replies[k] :
       /\ replies' = [replies EXCEPT ![k] = @ \ {r}]
       /\ got' = got \/ (got[k] = Nothing /\ got' = [got EXCEPT ![k] = r])
  /\ UNCHANGED <<request, result>>

\* Callers learn that they need not wait.
HangUp ==
  /\ \E K \in SUBSET Caller :
       got' = [k \in Caller |-> IF k \in K /\ got[k] = Nothing THEN Refused ELSE got[k]]
  /\ UNCHANGED <<request, replies, result>>

Return(k) ==
  /\ result[k] = "open" /\ got[k] \in Good[k]
  /\ result' = [result EXCEPT ![k] = "ok"]
  /\ UNCHANGED <<request, replies, got>>

\* A call fails or is dropped, or will fail: what it has not sent it never sends.
GiveUp(k) ==
  /\ result[k] = "open"
  /\ \E end \in {"open", "err", "gone"} : result' = [result EXCEPT ![k] = end]
  /\ request' = [request EXCEPT ![k] = IF @ = "unsent" THEN "over" ELSE @]
  /\ UNCHANGED <<replies, got>>

AmoNext ==
  \/ Lose \/ HangUp
  \/ \E k \in Caller : Send(k) \/ Work(k) \/ Answer(k) \/ Hear(k) \/ Return(k) \/ GiveUp(k)

AmoSpec == AmoInit /\ [][AmoNext]_amoVars

=============================================================================
