-------------------------- MODULE MCControllerKeys --------------------------
(* Model-checking instance of ControllerKeys.                               *)
EXTENDS ControllerKeys, TLC

ProcSymmetry == Permutations(Procs)

=============================================================================
