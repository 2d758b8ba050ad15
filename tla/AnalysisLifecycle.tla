-------------------------- MODULE AnalysisLifecycle --------------------------
(***************************************************************************)
(* What the analysis of a business plan promises to the pages that poll    *)
(* it: analysis_status is left for 'processing' by a claim only, a claim   *)
(* succeeds unless a fresh one is held, and 'processing' is left once per  *)
(* claim, for 'completed' or 'failed', before the claim has become stale.  *)
(* PlanAnalysis is shown to implement this module.                         *)
(***************************************************************************)
VARIABLES
    status,   \* analysis_status
    stale     \* the claim is older than the timeout

vars == <<status, stale>>

Claimable == status # "processing" \/ stale

Init == status = "null" /\ stale = FALSE

Claim ==
    /\ Claimable
    /\ status' = "processing"
    /\ stale' = FALSE

Finish ==
    /\ status = "processing" /\ ~stale
    /\ status' \in {"completed", "failed"}
    /\ UNCHANGED stale

Expire ==
    /\ status = "processing" /\ ~stale
    /\ stale' = TRUE
    /\ UNCHANGED status

Next == Claim \/ Finish \/ Expire

Spec == Init /\ [][Next]_vars
=============================================================================
