-------------------------- MODULE MCConformanceRun --------------------------
(* Two plans, of one and of two modules, and two workers.                  *)
EXTENDS ConformanceRun, TLC
CONSTANTS p1, p2
MCPlanSeq == <<p1, p2>>
MCSize == p1 :> 1 @@ p2 :> 2
=============================================================================
