----------------------------- MODULE MCRegistry -----------------------------
(***************************************************************************)
(* A small instance of Registry for TLC: a parent with one child.          *)
(***************************************************************************)
EXTENDS Registry

Pair == {<<"p">>, <<"p", "c">>}
Top == {<<"p">>}

=============================================================================
