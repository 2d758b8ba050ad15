------------------------------ MODULE MatchRun ------------------------------
(***************************************************************************)
(* Matching runs (api/match_log.py): the request that starts one, the      *)
(* background task that executes it, the requests that erase it (DELETE    *)
(* /match-logs/{id}, DELETE /auth/me), and the process that may die under  *)
(* all of them.                                                            *)
(*                                                                         *)
(* One step is what one database statement or commit makes visible.  The   *)
(* database is PostgreSQL at READ COMMITTED: a statement sees what was     *)
(* committed before it, a row that another transaction deleted or locked   *)
(* is waited for, and a foreign key that would dangle aborts the           *)
(* transaction.  The state of a transaction that is still open is kept in  *)
(* `job` and `eraser`; `log`, `results`, `plans` and `active` hold         *)
(* committed rows only.                                                    *)
(***************************************************************************)
EXTENDS Naturals, FiniteSets

CONSTANTS
    User,            \* accounts
    Plan,            \* business plans whose analysis is completed
    NoPlan, NoUser,  \* no plan, no account
    Owner,           \* Owner[p]: the account that owns plan p
    LogId,           \* ids of match_log rows
    Request,         \* slots for POST /match-logs being served
    Client,          \* Client[r]: the account that calls through slot r
    Eraser,          \* slots for erasing requests being served
    PipelineLimit,   \* MATCHING_PIPELINE_CONCURRENCY_LIMIT
    MaxCrashes,      \* bound: how often the process dies
    MaxDbFailures    \* bound: how often the failure handler fails as well

ASSUME NoneAssumption == NoPlan \notin Plan /\ NoUser \notin User
ASSUME OwnerAssumption == Owner \in [Plan -> User]
ASSUME ClientAssumption == Client \in [Request -> User]
ASSUME LimitAssumption == PipelineLimit \in Nat \ {0}
ASSUME BoundAssumption == MaxCrashes \in Nat /\ MaxDbFailures \in Nat

VARIABLES
    up,          \* the process has finished its lifespan start-up
    active,      \* accounts whose status is ACTIVE
    plans,       \* business_plan rows
    log,         \* log[l]: run_status of row l, "absent" before and "deleted" after
    logPlan,     \* logPlan[l]: the business_plan_id that row l was given
    results,     \* runs that own match_result rows
    job,         \* job[l]: where _execute_matching_job(l) stands
    judged,      \* runs whose open transaction wrote secondary_filtering_judgment
    request,     \* request[r]: the plan r was checked for, or NoPlan
    eraser,      \* eraser[d]: the transaction of slot d
    crashes,
    dbFailures

data == <<active, plans, log, logPlan, results>>
vars == <<up, data, job, judged, request, eraser, crashes, dbFailures>>

-----------------------------------------------------------------------------
LogStatus == {"absent", "processing", "completed", "failed", "deleted"}

\* queued: handed to BackgroundTasks.  waiting: rows loaded, at the pipeline
\* semaphore.  running, saving: inside it, computing or at replace_results.
\* flushed: results written, commit pending.  notready: MatchingNotReadyError
\* caught.  handling: any other exception reached _execute_matching_job.
\* ended: returned.  stuck: the handler itself raised.
JobState == {"none", "queued", "waiting", "running", "saving", "flushed",
             "notready", "handling", "ended", "stuck"}
LiveJob == JobState \ {"none", "ended", "stuck"}

\* MUTANT: a permit that a finished run does not give back.
InPipelineForever == {"running", "saving", "ended"}
InPipeline == {"running", "saving"}

\* children: match_result and match_report rows deleted; rows: match_log rows
\* too; plans: the account's bookmarks, chunks, plans and profiles too.
EraserState == {"idle", "children", "rows", "plans"}

Rows == {l \in LogId : log[l] \in {"processing", "completed", "failed"}}
LogsOf(u) == {l \in Rows : Owner[logPlan[l]] = u}
PlansOf(u) == {p \in Plan : Owner[p] = u}

\* logs: the runs it erases.  seen: those of them that had results when it
\* deleted those.  account: the account it withdraws, if any.
IdleEraser == [at |-> "idle", logs |-> {}, seen |-> {}, account |-> NoUser]

\* Rows an open transaction has deleted: others wait for its outcome.
RowDeleted(l) == \E d \in Eraser : eraser[d].at \in {"rows", "plans"} /\ l \in eraser[d].logs
PlansDeleted(u) == \E d \in Eraser : eraser[d].at = "plans" /\ eraser[d].account = u

SetLog(S, status) == [l \in LogId |-> IF l \in S THEN status ELSE log[l]]

-----------------------------------------------------------------------------
(* Starting a run: create_match_log reads, awaits, then inserts.           *)

\* get_processing_by_user: the account's run in progress, if any.
ProcessingOf(u) == {l \in LogsOf(u) : log[l] = "processing"}

\* MUTANT: the account's run in progress is not looked for.
CheckCreateAlways(r, p) ==
    /\ up
    /\ request[r] = NoPlan
    /\ Client[r] \in active
    /\ p \in plans /\ Owner[p] = Client[r]
    /\ request' = [request EXCEPT ![r] = p]
    /\ UNCHANGED <<up, data, job, judged, eraser, crashes, dbFailures>>

\* The checks.  With a run in progress the call ends here, by returning that
\* run (same plan) or with 409 (another plan), and leaves no trace.
CheckCreate(r, p) ==
    /\ up
    /\ request[r] = NoPlan
    /\ Client[r] \in active
    /\ p \in plans /\ Owner[p] = Client[r]
    /\ ProcessingOf(Client[r]) = {}
    /\ request' = [request EXCEPT ![r] = p]
    /\ UNCHANGED <<up, data, job, judged, eraser, crashes, dbFailures>>

\* MUTANT: match_log.business_plan_id is not a foreign key.
CommitCreateDangling(r, l) ==
    /\ up
    /\ request[r] # NoPlan
    /\ log[l] = "absent"
    /\ log' = [log EXCEPT ![l] = "processing"]
    /\ logPlan' = [logPlan EXCEPT ![l] = request[r]]
    /\ job' = [job EXCEPT ![l] = "queued"]
    /\ request' = [request EXCEPT ![r] = NoPlan]
    /\ UNCHANGED <<up, active, plans, results, judged, eraser, crashes, dbFailures>>

\* INSERT and commit, then the background task is queued.
CommitCreate(r, l) ==
    /\ up
    /\ request[r] # NoPlan
    /\ ~PlansDeleted(Client[r])
    /\ request[r] \in plans
    /\ log[l] = "absent"
    /\ log' = [log EXCEPT ![l] = "processing"]
    /\ logPlan' = [logPlan EXCEPT ![l] = request[r]]
    /\ job' = [job EXCEPT ![l] = "queued"]
    /\ request' = [request EXCEPT ![r] = NoPlan]
    /\ UNCHANGED <<up, active, plans, results, judged, eraser, crashes, dbFailures>>

\* The plan is gone by the time of the INSERT (its foreign key fails), or the
\* statement fails for a reason of the database's own.
AbandonCreate(r) ==
    /\ up
    /\ request[r] # NoPlan
    /\ request' = [request EXCEPT ![r] = NoPlan]
    /\ UNCHANGED <<up, data, job, judged, eraser, crashes, dbFailures>>

-----------------------------------------------------------------------------
(* Executing a run: _execute_matching_job, _run_matching_job, run_matching. *)

\* MUTANT: the session of the failed run is left open.
RaiseInSession(l) ==
    /\ job' = [job EXCEPT ![l] = "handling"]
    /\ UNCHANGED judged

\* The task's transaction is rolled back and its exception handled.
Raise(l) ==
    /\ job' = [job EXCEPT ![l] = "handling"]
    /\ judged' = judged \ {l}

\* session.get(MatchLog): None, once the row is erased, raises on log.user_id.
LoadRun(l) ==
    /\ up
    /\ job[l] = "queued"
    /\ IF l \in Rows
       THEN job' = [job EXCEPT ![l] = "waiting"] /\ UNCHANGED judged
       ELSE Raise(l)
    /\ UNCHANGED <<up, data, request, eraser, crashes, dbFailures>>

\* async with _matching_pipeline_semaphore
EnterPipeline(l) ==
    /\ up
    /\ job[l] = "waiting"
    /\ Cardinality({m \in LogId : job[m] \in InPipeline}) < PipelineLimit
    /\ job' = [job EXCEPT ![l] = "running"]
    /\ UNCHANGED <<up, data, judged, request, eraser, crashes, dbFailures>>

\* save_judgment: the inserted row holds a key-share lock on the plan.
SaveJudgments(l) ==
    /\ up
    /\ job[l] = "running"
    /\ l \notin judged
    /\ ~PlansDeleted(Owner[logPlan[l]])
    /\ IF logPlan[l] \in plans
       THEN judged' = judged \cup {l} /\ UNCHANGED job
       ELSE Raise(l)
    /\ UNCHANGED <<up, data, request, eraser, crashes, dbFailures>>

\* Scores are final; replace_results is called.
ReachResults(l) ==
    /\ up
    /\ job[l] = "running"
    /\ job' = [job EXCEPT ![l] = "saving"]
    /\ UNCHANGED <<up, data, judged, request, eraser, crashes, dbFailures>>

\* replace_results flushes the log row and the results, waiting for whoever
\* is deleting the row; the semaphore is released as run_matching returns.
ReplaceResults(l) ==
    /\ up
    /\ job[l] = "saving"
    /\ ~RowDeleted(l)
    /\ IF l \in Rows
       THEN job' = [job EXCEPT ![l] = "flushed"] /\ UNCHANGED judged
       ELSE Raise(l)
    /\ UNCHANGED <<up, data, request, eraser, crashes, dbFailures>>

\* MUTANT: replace_results commits, and the status is committed after it.
CommitRunInTwo(l) ==
    /\ up
    /\ job[l] = "flushed"
    /\ IF l \in results
       THEN /\ log' = [log EXCEPT ![l] = "completed"]
            /\ job' = [job EXCEPT ![l] = "ended"]
            /\ UNCHANGED results
       ELSE results' = results \cup {l} /\ UNCHANGED <<log, job>>
    /\ UNCHANGED <<up, active, plans, logPlan, judged, request, eraser, crashes, dbFailures>>

\* run_status, completed_at and the results become visible together.
CommitRun(l) ==
    /\ up
    /\ job[l] = "flushed"
    /\ log' = [log EXCEPT ![l] = "completed"]
    /\ results' \in {results, results \cup {l}}
    /\ job' = [job EXCEPT ![l] = "ended"]
    /\ judged' = judged \ {l}
    /\ UNCHANGED <<up, active, plans, logPlan, request, eraser, crashes, dbFailures>>

\* No candidate notice, or none that passes the gates.
NotReady(l) ==
    /\ up
    /\ job[l] = "running"
    /\ l \notin judged
    /\ job' = [job EXCEPT ![l] = "notready"]
    /\ UNCHANGED <<up, data, judged, request, eraser, crashes, dbFailures>>

CommitNotReady(l) ==
    /\ up
    /\ job[l] = "notready"
    /\ ~RowDeleted(l)
    /\ IF l \in Rows
       THEN /\ log' = [log EXCEPT ![l] = "failed"]
            /\ job' = [job EXCEPT ![l] = "ended"]
            /\ UNCHANGED judged
       ELSE Raise(l) /\ UNCHANGED log
    /\ UNCHANGED <<up, active, plans, logPlan, results, request, eraser, crashes, dbFailures>>

\* Any other exception: OCR, embedding, judgment, the database, a bug.
FailRun(l) ==
    /\ up
    /\ job[l] \in LiveJob \ {"handling"}
    /\ Raise(l)
    /\ UNCHANGED <<up, data, request, eraser, crashes, dbFailures>>

\* MUTANT: the except block writes its own copy of the row (session.merge).
HandleFailureByMerge(l) ==
    /\ up
    /\ job[l] = "handling"
    /\ log' = [log EXCEPT ![l] = "failed"]
    /\ job' = [job EXCEPT ![l] = "ended"]
    /\ UNCHANGED <<up, active, plans, logPlan, results, judged, request, eraser,
                   crashes, dbFailures>>

\* The except block: a new session, and whatever the row's status is by now.
HandleFailure(l) ==
    /\ up
    /\ job[l] = "handling"
    /\ ~RowDeleted(l)
    /\ log' = IF l \in Rows THEN [log EXCEPT ![l] = "failed"] ELSE log
    /\ job' = [job EXCEPT ![l] = "ended"]
    /\ UNCHANGED <<up, active, plans, logPlan, results, judged, request, eraser,
                   crashes, dbFailures>>

\* The except block raises in turn: nothing catches that.
LoseFailure(l) ==
    /\ up
    /\ job[l] = "handling"
    /\ dbFailures < MaxDbFailures
    /\ dbFailures' = dbFailures + 1
    /\ job' = [job EXCEPT ![l] = "stuck"]
    /\ UNCHANGED <<up, data, judged, request, eraser, crashes>>

-----------------------------------------------------------------------------
(* Erasing runs: delete_owned_by_user (one run) and delete_owned_data (all *)
(* an account owns), children before parents.                              *)

\* The run is read, or the account's runs are listed, and the children of
\* what was found are deleted, behind any other transaction deleting them.
BeginErase(d, S, account) ==
    /\ up
    /\ eraser[d].at = "idle"
    /\ \A e \in Eraser : eraser[e].seen \cap S = {}
    /\ eraser' = [eraser EXCEPT ![d] =
                    [at |-> "children", logs |-> S, seen |-> S \cap results,
                     account |-> account]]
    /\ UNCHANGED <<up, data, job, judged, request, crashes, dbFailures>>

DeleteMatchLog(d, l) ==
    /\ l \in Rows
    /\ Owner[logPlan[l]] \in active
    /\ BeginErase(d, {l}, NoUser)

WithdrawAccount(d, u) ==
    /\ u \in active
    /\ BeginErase(d, LogsOf(u), u)

Rollback(d) == eraser' = [eraser EXCEPT ![d] = IdleEraser]

\* DELETE FROM match_log waits for a run that has flushed.  If that run then
\* committed results, they dangle: the foreign key aborts the erasure.
EraseRows(d) ==
    /\ up
    /\ eraser[d].at = "children"
    /\ \A l \in eraser[d].logs : job[l] # "flushed" /\ ~RowDeleted(l)
    /\ IF eraser[d].logs \cap results \subseteq eraser[d].seen
       THEN eraser' = [eraser EXCEPT ![d].at = "rows"]
       ELSE Rollback(d)
    /\ UNCHANGED <<up, data, job, judged, request, crashes, dbFailures>>

\* DELETE FROM business_plan waits for the runs whose judgments reference the
\* plans, and aborts if a run was created after the account's were listed.
ErasePlans(d) ==
    LET u == eraser[d].account IN
    /\ up
    /\ eraser[d].at = "rows" /\ u # NoUser
    /\ ~PlansDeleted(u)
    /\ \A l \in judged : Owner[logPlan[l]] # u
    /\ IF LogsOf(u) \subseteq eraser[d].logs
       THEN eraser' = [eraser EXCEPT ![d].at = "plans"]
       ELSE Rollback(d)
    /\ UNCHANGED <<up, data, job, judged, request, crashes, dbFailures>>

\* For a withdrawal this is also where the account becomes WITHDRAWN.
CommitErase(d) ==
    LET u == eraser[d].account IN
    /\ up
    /\ eraser[d].at = IF u = NoUser THEN "rows" ELSE "plans"
    /\ log' = SetLog(eraser[d].logs \cap Rows, "deleted")
    /\ results' = results \ eraser[d].logs
    /\ plans' = plans \ PlansOf(u)
    /\ active' = active \ {u}
    /\ Rollback(d)
    /\ UNCHANGED <<up, logPlan, job, judged, request, crashes, dbFailures>>

\* A statement fails for a reason of the database's own.
AbandonErase(d) ==
    /\ up
    /\ eraser[d].at # "idle"
    /\ Rollback(d)
    /\ UNCHANGED <<up, data, job, judged, request, crashes, dbFailures>>

\* PostgreSQL's deadlock detector: the withdrawal waits for the plan that
\* run l has judged, and l waits for its row, which the withdrawal deleted.
Deadlocked(d, l) ==
    /\ eraser[d].at = "rows" /\ eraser[d].account # NoUser
    /\ l \in eraser[d].logs \cap judged
    /\ job[l] = "saving"

BreakDeadlock(d, l) ==
    /\ up
    /\ Deadlocked(d, l)
    /\ \/ Raise(l) /\ UNCHANGED eraser
       \/ Rollback(d) /\ UNCHANGED <<job, judged>>
    /\ UNCHANGED <<up, data, request, crashes, dbFailures>>

-----------------------------------------------------------------------------
(* The process.                                                            *)

\* Background tasks, open requests and open transactions die with it.
Crash ==
    /\ up
    /\ crashes < MaxCrashes
    /\ crashes' = crashes + 1
    /\ up' = FALSE
    /\ job' = [l \in LogId |-> "none"]
    /\ judged' = {}
    /\ request' = [r \in Request |-> NoPlan]
    /\ eraser' = [d \in Eraser |-> IdleEraser]
    /\ UNCHANGED <<data, dbFailures>>

\* MUTANT: start-up without the recovery.
RestartOnly ==
    /\ ~up
    /\ up' = TRUE
    /\ UNCHANGED <<data, job, judged, request, eraser, crashes, dbFailures>>

\* lifespan: mark_stale_processing_as_failed, before any request is served.
Restart ==
    /\ ~up
    /\ up' = TRUE
    /\ log' = SetLog({l \in LogId : log[l] = "processing"}, "failed")
    /\ UNCHANGED <<active, plans, logPlan, results, job, judged, request, eraser,
                   crashes, dbFailures>>

-----------------------------------------------------------------------------
Init ==
    /\ up = TRUE
    /\ active = User
    /\ plans = Plan
    /\ log = [l \in LogId |-> "absent"]
    /\ logPlan = [l \in LogId |-> NoPlan]
    /\ results = {}
    /\ job = [l \in LogId |-> "none"]
    /\ judged = {}
    /\ request = [r \in Request |-> NoPlan]
    /\ eraser = [d \in Eraser |-> IdleEraser]
    /\ crashes = 0
    /\ dbFailures = 0

Serve ==
    \/ \E r \in Request, p \in Plan : CheckCreate(r, p)
    \/ \E r \in Request, l \in LogId : CommitCreate(r, l)
    \/ \E r \in Request : AbandonCreate(r)
    \/ \E d \in Eraser, l \in LogId : DeleteMatchLog(d, l)
    \/ \E d \in Eraser, u \in User : WithdrawAccount(d, u)

\* What the event loop and the database go on doing by themselves.
Execute(l) ==
    \/ LoadRun(l)
    \/ EnterPipeline(l)
    \/ ReachResults(l)
    \/ ReplaceResults(l)
    \/ CommitRun(l)
    \/ CommitNotReady(l)
    \/ HandleFailure(l)

Erase(d) ==
    \/ EraseRows(d)
    \/ ErasePlans(d)
    \/ CommitErase(d)
    \/ \E l \in LogId : BreakDeadlock(d, l)

Disturb ==
    \/ \E l \in LogId : SaveJudgments(l) \/ NotReady(l) \/ FailRun(l) \/ LoseFailure(l)
    \/ \E d \in Eraser : AbandonErase(d)
    \/ Crash

Next ==
    \/ Serve
    \/ \E l \in LogId : Execute(l)
    \/ \E d \in Eraser : Erase(d)
    \/ Disturb
    \/ Restart

Spec == Init /\ [][Next]_vars

\* The event loop runs every task that can proceed, its semaphore and the
\* database's row locks serve waiters in order (hence strong fairness: an
\* other waiter may go first, not forever), and the container is restarted.
\* Nothing obliges a client to call or a failure to happen.
FairSpec ==
    /\ Spec
    /\ WF_vars(Restart)
    /\ \A l \in LogId : SF_vars(Execute(l))
    /\ \A d \in Eraser : SF_vars(Erase(d))

-----------------------------------------------------------------------------
TypeOK ==
    /\ up \in BOOLEAN
    /\ active \subseteq User
    /\ plans \subseteq Plan
    /\ log \in [LogId -> LogStatus]
    /\ logPlan \in [LogId -> Plan \cup {NoPlan}]
    /\ results \subseteq LogId
    /\ job \in [LogId -> JobState]
    /\ judged \subseteq LogId
    /\ request \in [Request -> Plan \cup {NoPlan}]
    /\ eraser \in [Eraser -> [at : EraserState, logs : SUBSET LogId,
                              seen : SUBSET LogId, account : User \cup {NoUser}]]
    /\ crashes \in 0 .. MaxCrashes
    /\ dbFailures \in 0 .. MaxDbFailures

\* Recommendations are visible only under a run that says 'completed':
\* replace_results, the status and completed_at are one transaction, and no
\* failure path or restart overtakes it (match_log.py, matching_service.py).
ResultsOnlyOnCompleted == \A l \in results : log[l] = "completed"

\* While the server is up, a run in 'processing' has a task that will decide
\* it, unless the failure handler has itself failed: lifespan recovers what a
\* dead process left behind, and every exception path ends in a handler.
ProcessingIsAttended ==
    up => \A l \in LogId :
            log[l] = "processing" => job[l] \in LiveJob \cup {"stuck"}

\* After a withdrawal nothing of the account is left, whatever requests and
\* tasks of its were in flight (auth_service.withdraw_account: "hard-deleted
\* so that nothing remains after re-joining").
WithdrawnOwnsNothing ==
    \A u \in User \ active : LogsOf(u) = {} /\ plans \cap PlansOf(u) = {}

RequestsDoNotOverlap ==
    \A r, q \in Request :
        request[r] # NoPlan /\ request[q] # NoPlan /\ Client[r] = Client[q] => r = q

\* create_match_log refuses a second run: an account whose requests never overlap
\* has at most one in 'processing'.  With requests that do, two may pass the
\* check before either inserts its row.
OneRunPerUser ==
    []RequestsDoNotOverlap => [](\A u \in User : Cardinality(ProcessingOf(u)) <= 1)

\* A matching run is a MatchLifecycle, whatever happens to the server.
Lifecycle == INSTANCE MatchLifecycle WITH LogId <- LogId, log <- log, results <- results
ImplementsLifecycle == Lifecycle!Spec

\* Every run reaches its verdict, or is erased; the polling page stops.
RunEnds ==
    \A l \in LogId :
        log[l] = "processing" ~> (log[l] # "processing" \/ job[l] = "stuck")

\* Every erasing request is answered, even one that deadlocks with a run.
EraseEnds == \A d \in Eraser : eraser[d].at # "idle" ~> eraser[d].at = "idle"
-----------------------------------------------------------------------------
(* What the invariants above rest on: together with them these are kept by *)
(* every step, which MatchRunProofs shows.                                 *)

\* A task that still has something to say has the undecided row, or none.
TaskFollowsRow ==
    \A l \in LogId :
        job[l] \in LiveJob \cup {"stuck"} => log[l] \in {"processing", "deleted"}

\* Written results hold their row: nobody erases it before the commit.
FlushHoldsRow ==
    \A l \in LogId : job[l] = "flushed" => log[l] = "processing" /\ ~RowDeleted(l)

DownIsQuiet == ~up => \A l \in LogId : job[l] = "none"

RequestOwnsPlan ==
    \A r \in Request : request[r] # NoPlan => Owner[request[r]] = Client[r]

RowsHavePlans == \A l \in Rows : logPlan[l] \in Plan

\* Once the plans are going, no run of the account is missing from the list.
WithdrawalListsAll ==
    \A d \in Eraser :
        eraser[d].at = "plans" =>
            /\ eraser[d].account # NoUser
            /\ LogsOf(eraser[d].account) \subseteq eraser[d].logs

\* Runs in 'processing' of one account, as long as its requests do not overlap.
AtMostOne ==
    /\ \A u \in User : \A l, m \in ProcessingOf(u) : l = m
    /\ \A r \in Request : request[r] # NoPlan => ProcessingOf(Client[r]) = {}

TaskInv ==
    /\ TaskFollowsRow
    /\ FlushHoldsRow
    /\ DownIsQuiet
    /\ ResultsOnlyOnCompleted
    /\ ProcessingIsAttended

OwnershipInv ==
    /\ RequestOwnsPlan
    /\ RowsHavePlans
    /\ WithdrawalListsAll
    /\ WithdrawnOwnsNothing
=============================================================================
