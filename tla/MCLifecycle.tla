---------------------------- MODULE MCLifecycle ----------------------------
(* Bounded instances of Lifecycle.                                         *)
EXTENDS Lifecycle, TLC

CONSTANTS o1, o2, o3, a1, a2, a3, c1, c2, k1, k2

MCSchemaOf == c1 :> "s1" @@ c2 :> "s1"
MCSchemaChanges == c1 :> "s1" @@ c2 :> "s2"

Symmetry == Permutations(Ops)
=============================================================================
