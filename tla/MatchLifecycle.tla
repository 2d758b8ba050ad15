--------------------------- MODULE MatchLifecycle ---------------------------
(***************************************************************************)
(* What a matching run promises to the page that polls it, with the        *)
(* server, its sessions and its crashes left out.  A run is created in     *)
(* 'processing', leaves it once - for 'completed', together with its       *)
(* recommendations, or for 'failed', with none - and can be erased, but    *)
(* never changes its verdict.  MatchRun is shown to implement this module. *)
(***************************************************************************)
CONSTANT LogId

VARIABLES
    log,      \* log[l]: run_status of match_log l, or where its row stands
    results   \* the runs that have rows in match_result

vars == <<log, results>>

Status == {"absent", "processing", "completed", "failed", "deleted"}

Rows == {l \in LogId : log[l] \in {"processing", "completed", "failed"}}
Processing == {l \in LogId : log[l] = "processing"}

SetStatus(S, status) == [l \in LogId |-> IF l \in S THEN status ELSE log[l]]

Init ==
    /\ log = [l \in LogId |-> "absent"]
    /\ results = {}

Create(l) ==
    /\ log[l] = "absent"
    /\ log' = SetStatus({l}, "processing")
    /\ UNCHANGED results

Complete(l) ==
    /\ log[l] = "processing"
    /\ log' = SetStatus({l}, "completed")
    /\ \/ results' = results \cup {l}
       \/ UNCHANGED results       \* no notice was worth recommending

Fail(S) ==
    /\ S \subseteq Processing
    /\ log' = SetStatus(S, "failed")
    /\ UNCHANGED results

Erase(S) ==
    /\ S \subseteq Rows
    /\ log' = SetStatus(S, "deleted")
    /\ results' = results \ S

Next ==
    \/ \E l \in LogId : Create(l) \/ Complete(l)
    \/ \E S \in SUBSET LogId : Fail(S) \/ Erase(S)

Spec == Init /\ [][Next]_vars
=============================================================================
