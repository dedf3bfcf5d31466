--------------------------- MODULE MCTcpTransport ---------------------------
(***************************************************************************)
(* A small instance of TcpTransport.                                       *)
(***************************************************************************)
EXTENDS TcpTransport

CONSTANTS a, b, m

\* Two requests and a message; the requests ask for different things.
TwoAndOne == {a, b, m}
Requests == {a, b}
Kinds == [k \in Requests |-> IF k = a THEN "append" ELSE "vote"]

=============================================================================
