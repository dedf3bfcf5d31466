----------------------------- MODULE MCRouting ------------------------------
(* Two shard types under one name, which the nodes register in different        *)
(* orders; one can decode the other's command, and finds other ids in it.       *)
(* Shard ids of which one begins like the other, and is two segments when it is *)
(* written out; an entity id that is two; and two ids that are spelled alike.   *)
EXTENDS Routing, TLC

CONSTANTS S, T, n1, n2, c1, c2, c3, c4, x, y, y2, xy

Types == (S :> <<"t">>) @@ (T :> <<"t">>)
Orders == (n1 :> <<S, T>>) @@ (n2 :> <<T, S>>)
Text == (x :> <<"x">>) @@ (y :> <<"y">>) @@ (y2 :> <<"y">>) @@ (xy :> <<"x", "/", "y">>)
Told == (c1 :> S) @@ (c2 :> S) @@ (c3 :> S) @@ (c4 :> T)
At(type, shard, entity) == [type |-> type, shard |-> shard, entity |-> entity]
Found == (<<S, c1>> :> At(S, x, y)) @@ (<<S, c2>> :> At(S, xy, y)) @@ (<<S, c3>> :> At(S, x, xy))
         @@ (<<T, c4>> :> At(T, x, y)) @@ (<<S, c4>> :> At(S, xy, y2))
Rows == (n1 :> 2) @@ (n2 :> 1)
Names == {<<"y">>, <<"x", "/", "y">>}
=============================================================================
