----------------------------- MODULE MCDatabase -----------------------------
(* Instances of Database for TLC. *)
EXTENDS Database, TLC

CONSTANTS p1, p2, p3, v1, v2, v3

\* v1 and v2 have the same size, v3 another one.
MCSizeOf == (v1 :> 1) @@ (v2 :> 1) @@ (v3 :> 2)

\* No key extends another.
PrefixFree == {<<1, 0>>, <<1, 1>>}
ThreeKeys == {<<1, 0>>, <<1, 1, 0>>, <<1, 1, 1>>}

\* One key extends another, as an object's properties extend the object.
Nested == {<<1>>, <<1, 1>>}

Handles == Permutations(Proc)
=============================================================================
