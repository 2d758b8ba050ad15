---------------------------- MODULE PlanAnalysis ----------------------------
(***************************************************************************)
(* The analysis of one uploaded business plan: text extraction (OCR), then *)
(* normalization (LLM), as a background task whose state lives in the      *)
(* analysis_* columns of the business_plan row (api/business_plan_analysis,*)
(* services/business_plan_analysis_service).  The right to run is claimed  *)
(* by one conditional UPDATE; a claim older than ten minutes may be taken  *)
(* over, on the assumption that the process that held it died.             *)
(*                                                                         *)
(* One step is one commit, or the moment an outcome becomes known.  Time   *)
(* is kept as one bit: whether analysis_started_at is older than           *)
(* _STALE_PROCESSING_TIMEOUT.                                              *)
(***************************************************************************)
EXTENDS Naturals

CONSTANTS
    Task,               \* slots for background tasks of this plan
    SlowTasks,          \* may a live task outlast _STALE_PROCESSING_TIMEOUT?
    MaxCrashes          \* bound: how often the process dies

ASSUME SlowTasksAssumption == SlowTasks \in BOOLEAN
ASSUME CrashAssumption == MaxCrashes \in Nat

VARIABLES
    exists,     \* the row; a withdrawal deletes it
    status,     \* analysis_status
    step,       \* analysis_step
    stale,      \* analysis_started_at is older than the timeout
    rawText,    \* raw_text: not extracted, extracted as "", or a text
    analysed,   \* analysis_json is there
    task,       \* task[t]: where _run_analysis_job of slot t stands
    source,     \* source[t]: the text task t is working from
    crashes

row == <<exists, status, step, stale, rawText, analysed>>
vars == <<row, task, source, crashes>>

AnalysisStatus == {"null", "processing", "completed", "failed"}
AnalysisStep == {"null", "extracting", "normalizing"}
Text == {"none", "blank", "text"}

\* queued: handed to BackgroundTasks.  loaded: plan row read.  extracting: in
\* extract_fn.  extracted: text known and stored.  normalizing: in
\* normalize_fn.  succeeded, failed: run_analysis returned or raised, and
\* finish_analysis is next.
TaskState == {"none", "queued", "loaded", "extracting", "extracted",
              "normalizing", "succeeded", "failed"}
Working == TaskState \ {"none", "succeeded", "failed"}
Live == TaskState \ {"none"}

To(t, state) == task' = [task EXCEPT ![t] = state]

-----------------------------------------------------------------------------
\* MUTANT: no takeover of an old claim.
ClaimableWhenIdle == status # "processing"

\* try_claim_analysis, its WHERE clause.
Claimable == status # "processing" \/ stale

\* MUTANT: the status is read first and not tested again by the UPDATE.
ClaimUnguarded(t) ==
    /\ exists
    /\ task[t] = "none"
    /\ status' = "processing"
    /\ step' = "null"
    /\ stale' = FALSE
    /\ To(t, "queued")
    /\ UNCHANGED <<exists, rawText, analysed, source, crashes>>

\* create_analysis: try_claim_analysis is one conditional UPDATE, and only the
\* request whose UPDATE matched registers a task.
Claim(t) ==
    /\ exists
    /\ task[t] = "none"
    /\ Claimable
    /\ status' = "processing"
    /\ step' = "null"
    /\ stale' = FALSE
    /\ To(t, "queued")
    /\ UNCHANGED <<exists, rawText, analysed, source, crashes>>

\* MUTANT: `if plan.raw_text` for `if plan.raw_text is None`.
LoadIfTruthy(t) ==
    /\ task[t] = "queued"
    /\ exists
    /\ source' = [source EXCEPT ![t] = rawText]
    /\ To(t, IF rawText = "text" THEN "extracted" ELSE "loaded")
    /\ UNCHANGED <<row, crashes>>

\* run_analysis reads the row; raw_text that is not NULL is reused.
Load(t) ==
    /\ task[t] = "queued"
    /\ IF exists
       THEN /\ source' = [source EXCEPT ![t] = rawText]
            /\ To(t, IF rawText = "none" THEN "loaded" ELSE "extracted")
       ELSE To(t, "failed") /\ UNCHANGED source
    /\ UNCHANGED <<row, crashes>>

\* set_analysis_step touches the row whoever claimed it last.
SetStep(name) == step' = IF exists THEN name ELSE step

BeginExtract(t) ==
    /\ task[t] = "loaded"
    /\ SetStep("extracting")
    /\ To(t, "extracting")
    /\ UNCHANGED <<exists, status, stale, rawText, analysed, source, crashes>>

\* extract_fn returns; save_raw_text is committed before anything else.
SaveRawText(t, text) ==
    /\ task[t] = "extracting"
    /\ IF exists
       THEN /\ rawText' = text
            /\ source' = [source EXCEPT ![t] = text]
            /\ To(t, "extracted")
       ELSE To(t, "failed") /\ UNCHANGED <<rawText, source>>
    /\ UNCHANGED <<exists, status, step, stale, analysed, crashes>>

BeginNormalize(t) ==
    /\ task[t] = "extracted"
    /\ SetStep("normalizing")
    /\ To(t, IF source[t] = "blank" THEN "failed" ELSE "normalizing")
    /\ UNCHANGED <<exists, status, stale, rawText, analysed, source, crashes>>

\* normalize_fn returns; save_normalization_result commits.  What follows
\* (autofill of the profile, embedding) cannot fail the analysis.
SaveAnalysis(t) ==
    /\ task[t] = "normalizing"
    /\ IF exists
       THEN analysed' = TRUE /\ To(t, "succeeded")
       ELSE To(t, "failed") /\ UNCHANGED analysed
    /\ UNCHANGED <<exists, status, step, stale, rawText, source, crashes>>

\* OCR, the LLM or the database raises; the open transaction is rolled back.
Fail(t) ==
    /\ task[t] \in Working
    /\ To(t, "failed")
    /\ UNCHANGED <<row, source, crashes>>

\* MUTANT: the task is finished as completed whatever its outcome.
FinishAsCompleted(t) ==
    /\ task[t] \in {"succeeded", "failed"}
    /\ status' = IF exists THEN "completed" ELSE status
    /\ step' = IF exists THEN "null" ELSE step
    /\ To(t, "none")
    /\ source' = [source EXCEPT ![t] = "none"]
    /\ UNCHANGED <<exists, stale, rawText, analysed, crashes>>

\* finish_analysis, again whoever claimed the row last.
Finish(t) ==
    /\ task[t] \in {"succeeded", "failed"}
    /\ IF exists
       THEN /\ status' = IF task[t] = "succeeded" THEN "completed" ELSE "failed"
            /\ step' = "null"
       ELSE UNCHANGED <<status, step>>
    /\ To(t, "none")
    /\ source' = [source EXCEPT ![t] = "none"]
    /\ UNCHANGED <<exists, stale, rawText, analysed, crashes>>

\* The session cannot be opened, or finish_analysis itself raises: nothing
\* catches that, and the row stays in 'processing'.
Lose(t) ==
    /\ task[t] \in {"queued", "succeeded", "failed"}
    /\ To(t, "none")
    /\ source' = [source EXCEPT ![t] = "none"]
    /\ UNCHANGED <<row, crashes>>

\* The ten minutes since the claim pass.
Expire ==
    /\ status = "processing"
    /\ ~stale
    /\ SlowTasks \/ \A t \in Task : task[t] \notin Live
    /\ stale' = TRUE
    /\ UNCHANGED <<exists, status, step, rawText, analysed, task, source, crashes>>

\* The process dies and comes back; nothing recovers the row at start-up.
Crash ==
    /\ crashes < MaxCrashes
    /\ crashes' = crashes + 1
    /\ task' = [t \in Task |-> "none"]
    /\ source' = [t \in Task |-> "none"]
    /\ UNCHANGED row

\* delete_owned_data of the account that owns the plan.
Withdraw ==
    /\ exists
    /\ exists' = FALSE
    /\ UNCHANGED <<status, step, stale, rawText, analysed, task, source, crashes>>

-----------------------------------------------------------------------------
Init ==
    /\ exists = TRUE
    /\ status = "null"
    /\ step = "null"
    /\ stale = FALSE
    /\ rawText = "none"
    /\ analysed = FALSE
    /\ task = [t \in Task |-> "none"]
    /\ source = [t \in Task |-> "none"]
    /\ crashes = 0

Run(t) ==
    \/ Load(t)
    \/ BeginExtract(t)
    \/ \E text \in {"blank", "text"} : SaveRawText(t, text)
    \/ BeginNormalize(t)
    \/ SaveAnalysis(t)
    \/ Finish(t)

Next ==
    \/ \E t \in Task : Claim(t) \/ Run(t) \/ Fail(t) \/ Lose(t)
    \/ Expire
    \/ Crash
    \/ Withdraw

Spec == Init /\ [][Next]_vars

\* Tasks run on, external calls return, and the clock moves.
FairSpec == Spec /\ WF_vars(Expire) /\ \A t \in Task : WF_vars(Run(t))

-----------------------------------------------------------------------------
TypeOK ==
    /\ exists \in BOOLEAN
    /\ status \in AnalysisStatus
    /\ step \in AnalysisStep
    /\ stale \in BOOLEAN
    /\ rawText \in Text
    /\ analysed \in BOOLEAN
    /\ task \in [Task -> TaskState]
    /\ source \in [Task -> Text]
    /\ crashes \in 0 .. MaxCrashes

\* create_match_log takes 'completed' to mean that analysis_json can be
\* matched: no takeover, crash or late finish_analysis makes it say so of a
\* plan that was never normalized.
CompletedIsAnalysed == status = "completed" => analysed

\* The claim is exclusive ("duplicate execution is prevented, expensive OCR
\* and LLM calls do not go out twice"): one task at a time.
OneTask == \A t, u \in Task : task[t] \in Live /\ task[u] \in Live => t = u

\* raw_text, once committed, is what every later attempt starts from: a retry
\* after a failed normalization or a crash does not pay for OCR again.
OcrIsNotRepeated ==
    [][\A t \in Task :
         (task[t] # "extracting" /\ task'[t] = "extracting") => rawText = "none"]_vars

\* A plan never stays in 'processing' for good with nobody allowed to act.
AnalysisEnds ==
    (exists /\ status = "processing") ~> (~exists \/ Claimable)

\* What the pages that poll the row see of all this: a verdict comes once per
\* claim and while it is fresh, from the task that holds it.
Lifecycle == INSTANCE AnalysisLifecycle WITH status <- status, stale <- stale
ImplementsLifecycle == Lifecycle!Spec
=============================================================================
