------------------------- MODULE MCResourceManager -------------------------
(* Values for the constants of ResourceManager, for TLC. *)
EXTENDS ResourceManager, TLC

CONSTANTS w1, w2, v1, v2, v3, k1, k2

(* Versions of one problem: the second one has a resource in common with   *)
(* the first.                                                              *)
Overlapping == [p \in Problems |-> IF p[2] = v1 THEN {k1} ELSE {k1, k2}]

(* The first version has no resources. *)
OneEmpty == [p \in Problems |-> IF p[2] = v1 THEN {} ELSE {k1, k2}]

ThirdVersion == {p \in Problems : p[2] = v3}

WorkerSymmetry == Permutations(Workers)
=============================================================================
