------------------------- MODULE MCControlDispatch -------------------------
(* Bounded instances of ControlDispatch.                                   *)
EXTENDS ControlDispatch

CONSTANTS c1, c2, i1, i2, m1, m2
=============================================================================
