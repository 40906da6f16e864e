------------------------------ MODULE MCAcmeIssue -----------------------------
(* Bounded instance of AcmeIssue.                                             *)
EXTENDS AcmeIssue
CONSTANTS p1, p2
===============================================================================
