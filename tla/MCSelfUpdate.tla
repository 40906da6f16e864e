------------------------------ MODULE MCSelfUpdate ----------------------------
(* Bounded instance of SelfUpdate.                                            *)
EXTENDS SelfUpdate
CONSTANTS p1, p2
===============================================================================
