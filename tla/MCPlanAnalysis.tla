--------------------------- MODULE MCPlanAnalysis ---------------------------
(* Small instances of PlanAnalysis. *)
EXTENDS PlanAnalysis

CONSTANTS t1, t2
=============================================================================
