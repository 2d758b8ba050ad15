----------------------------- MODULE MCMatchRun -----------------------------
(* A small instance of MatchRun. *)
EXTENDS MatchRun, TLC

CONSTANTS u1, p1, r1, r2, l1, l2, d1

OnePlan == (p1 :> u1)

\* Two requests of one account may overlap (two tabs, a double click).
Overlapping == (r1 :> u1) @@ (r2 :> u1)
=============================================================================
