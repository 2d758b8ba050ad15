--------------------------- MODULE MatchRunProofs ---------------------------
(***************************************************************************)
(* The invariants of MatchRun for any number of accounts, plans, runs and  *)
(* requests, any pipeline limit, and any number of crashes.                *)
(***************************************************************************)
EXTENDS MatchRun, FiniteSetTheorems, TLAPS

\* Typing: every handler leaves every table and every task in a state the
\* other handlers expect.
LEMMA TypeInit == Init => TypeOK
  BY BoundAssumption DEF Init, TypeOK, LogStatus, JobState, EraserState, IdleEraser

\* One step per handler.
LEMMA TypeStep == TypeOK /\ [Next]_vars => TypeOK'
  <1> SUFFICES ASSUME TypeOK, [Next]_vars PROVE TypeOK'
    OBVIOUS
  <1> USE BoundAssumption, ClientAssumption DEF TypeOK, LogStatus, JobState, EraserState
  <1>1. ASSUME NEW r \in Request, NEW p \in Plan, CheckCreate(r, p) PROVE TypeOK'
    BY <1>1 DEF CheckCreate, data
  <1>2. ASSUME NEW r \in Request, NEW l \in LogId, CommitCreate(r, l) PROVE TypeOK'
    BY <1>2 DEF CommitCreate
  <1>3. ASSUME NEW r \in Request, AbandonCreate(r) PROVE TypeOK'
    BY <1>3 DEF AbandonCreate, data
  <1>4. ASSUME NEW d \in Eraser, NEW l \in LogId, DeleteMatchLog(d, l) PROVE TypeOK'
    BY <1>4 DEF DeleteMatchLog, BeginErase, data
  <1>5. ASSUME NEW d \in Eraser, NEW u \in User, WithdrawAccount(d, u) PROVE TypeOK'
    BY <1>5 DEF WithdrawAccount, BeginErase, LogsOf, Rows, data
  <1>6. ASSUME NEW l \in LogId, LoadRun(l) PROVE TypeOK'
    BY <1>6 DEF LoadRun, Raise, data
  <1>7. ASSUME NEW l \in LogId, EnterPipeline(l) PROVE TypeOK'
    BY <1>7 DEF EnterPipeline, data
  <1>8. ASSUME NEW l \in LogId, ReachResults(l) PROVE TypeOK'
    BY <1>8 DEF ReachResults, data
  <1>9. ASSUME NEW l \in LogId, ReplaceResults(l) PROVE TypeOK'
    BY <1>9 DEF ReplaceResults, Raise, data
  <1>10. ASSUME NEW l \in LogId, CommitRun(l) PROVE TypeOK'
    BY <1>10 DEF CommitRun
  <1>11. ASSUME NEW l \in LogId, CommitNotReady(l) PROVE TypeOK'
    BY <1>11 DEF CommitNotReady, Raise
  <1>12. ASSUME NEW l \in LogId, HandleFailure(l) PROVE TypeOK'
    BY <1>12 DEF HandleFailure
  <1>13. ASSUME NEW d \in Eraser, EraseRows(d) PROVE TypeOK'
    BY <1>13 DEF EraseRows, Rollback, IdleEraser, data
  <1>14. ASSUME NEW d \in Eraser, ErasePlans(d) PROVE TypeOK'
    BY <1>14 DEF ErasePlans, Rollback, IdleEraser, data
  <1>15. ASSUME NEW d \in Eraser, CommitErase(d) PROVE TypeOK'
    BY <1>15 DEF CommitErase, Rollback, IdleEraser, SetLog
  <1>16. ASSUME NEW d \in Eraser, NEW l \in LogId, BreakDeadlock(d, l) PROVE TypeOK'
    BY <1>16 DEF BreakDeadlock, Raise, Rollback, IdleEraser, data
  <1>17. ASSUME NEW l \in LogId, SaveJudgments(l) PROVE TypeOK'
    BY <1>17 DEF SaveJudgments, Raise, data
  <1>18. ASSUME NEW l \in LogId, NotReady(l) PROVE TypeOK'
    BY <1>18 DEF NotReady, data
  <1>19. ASSUME NEW l \in LogId, FailRun(l) PROVE TypeOK'
    BY <1>19 DEF FailRun, Raise, data
  <1>20. ASSUME NEW l \in LogId, LoseFailure(l) PROVE TypeOK'
    BY <1>20 DEF LoseFailure, data
  <1>21. ASSUME NEW d \in Eraser, AbandonErase(d) PROVE TypeOK'
    BY <1>21 DEF AbandonErase, Rollback, IdleEraser, data
  <1>22. CASE Crash
    <2>1. eraser' \in [Eraser -> [at : EraserState, logs : SUBSET LogId,
                                  seen : SUBSET LogId, account : User \cup {NoUser}]]
      BY <1>22 DEF Crash, IdleEraser
    <2>2. crashes' \in 0 .. MaxCrashes
      BY <1>22 DEF Crash
    <2> QED
      BY <1>22, <2>1, <2>2 DEF Crash, data
  <1>23. CASE Restart
    BY <1>23 DEF Restart, SetLog
  <1>24. CASE UNCHANGED vars
    BY <1>24 DEF vars, data
  <1> QED
    BY <1>1, <1>2, <1>3, <1>4, <1>5, <1>6, <1>7, <1>8, <1>9, <1>10, <1>11, <1>12, <1>13, <1>14, <1>15, <1>16, <1>17, <1>18, <1>19, <1>20, <1>21, <1>22, <1>23, <1>24
       DEF Next, Serve, Execute, Erase, Disturb

\* Every status the handlers write is one that the API's schema knows, and no
\* step leaves a table or a task in a state no handler expects.
THEOREM TypeCorrect == Spec => []TypeOK
  BY TypeInit, TypeStep, PTL DEF Spec
-----------------------------------------------------------------------------
(* The tasks and the rows they decide.                                     *)

\* Nothing runs and nothing is in 'processing' when the server first starts.
LEMMA TaskInit == Init => TaskInv
  BY DEF Init, TaskInv, TaskFollowsRow, FlushHoldsRow, DownIsQuiet,
         ResultsOnlyOnCompleted, ProcessingIsAttended, LiveJob, JobState

\* Each handler decides its own row only, and only while the row is undecided;
\* results and row locks that a task holds survive the steps of everyone else.
LEMMA TaskStep == TypeOK /\ TaskInv /\ [Next]_vars => TaskInv'
  <1> SUFFICES ASSUME TypeOK, TaskInv, [Next]_vars PROVE TaskInv'
    OBVIOUS
  <1> USE DEF TypeOK, TaskInv, TaskFollowsRow, FlushHoldsRow, DownIsQuiet,
              ResultsOnlyOnCompleted, ProcessingIsAttended, RowDeleted, Rows, LiveJob, JobState
  <1>1. ASSUME NEW r \in Request, NEW p \in Plan, CheckCreate(r, p) PROVE TaskInv'
    BY <1>1 DEF CheckCreate, data
  <1>2. ASSUME NEW r \in Request, NEW l \in LogId, CommitCreate(r, l) PROVE TaskInv'
    BY <1>2 DEF CommitCreate
  <1>3. ASSUME NEW r \in Request, AbandonCreate(r) PROVE TaskInv'
    BY <1>3 DEF AbandonCreate, data
  <1>4. ASSUME NEW d \in Eraser, NEW l \in LogId, DeleteMatchLog(d, l) PROVE TaskInv'
    BY <1>4 DEF DeleteMatchLog, BeginErase, data
  <1>5. ASSUME NEW d \in Eraser, NEW u \in User, WithdrawAccount(d, u) PROVE TaskInv'
    BY <1>5 DEF WithdrawAccount, BeginErase, LogsOf, Rows, data
  <1>6. ASSUME NEW l \in LogId, LoadRun(l) PROVE TaskInv'
    BY <1>6 DEF LoadRun, Raise, data
  <1>7. ASSUME NEW l \in LogId, EnterPipeline(l) PROVE TaskInv'
    BY <1>7 DEF EnterPipeline, data
  <1>8. ASSUME NEW l \in LogId, ReachResults(l) PROVE TaskInv'
    BY <1>8 DEF ReachResults, data
  <1>9. ASSUME NEW l \in LogId, ReplaceResults(l) PROVE TaskInv'
    BY <1>9 DEF ReplaceResults, Raise, data
  <1>10. ASSUME NEW l \in LogId, CommitRun(l) PROVE TaskInv'
    BY <1>10 DEF CommitRun
  <1>11. ASSUME NEW l \in LogId, CommitNotReady(l) PROVE TaskInv'
    BY <1>11 DEF CommitNotReady, Raise
  <1>12. ASSUME NEW l \in LogId, HandleFailure(l) PROVE TaskInv'
    BY <1>12 DEF HandleFailure
  <1>13. ASSUME NEW d \in Eraser, EraseRows(d) PROVE TaskInv'
    BY <1>13 DEF EraseRows, Rollback, IdleEraser, data
  <1>14. ASSUME NEW d \in Eraser, ErasePlans(d) PROVE TaskInv'
    BY <1>14 DEF ErasePlans, Rollback, IdleEraser, data
  <1>15. ASSUME NEW d \in Eraser, CommitErase(d) PROVE TaskInv'
    BY <1>15 DEF CommitErase, Rollback, IdleEraser, SetLog
  <1>16. ASSUME NEW d \in Eraser, NEW l \in LogId, BreakDeadlock(d, l) PROVE TaskInv'
    <2>1. CASE Raise(l) /\ UNCHANGED eraser
      BY <1>16, <2>1 DEF BreakDeadlock, Deadlocked, Raise, data
    <2>2. CASE Rollback(d) /\ UNCHANGED <<job, judged>>
      <3>1. \A m \in LogId : RowDeleted(m)' => RowDeleted(m)
        BY <2>2 DEF Rollback, IdleEraser
      <3> QED
        BY <1>16, <2>2, <3>1 DEF BreakDeadlock, data
    <2> QED
      BY <1>16, <2>1, <2>2 DEF BreakDeadlock
  <1>17. ASSUME NEW l \in LogId, SaveJudgments(l) PROVE TaskInv'
    BY <1>17 DEF SaveJudgments, Raise, data
  <1>18. ASSUME NEW l \in LogId, NotReady(l) PROVE TaskInv'
    BY <1>18 DEF NotReady, data
  <1>19. ASSUME NEW l \in LogId, FailRun(l) PROVE TaskInv'
    BY <1>19 DEF FailRun, Raise, data
  <1>20. ASSUME NEW l \in LogId, LoseFailure(l) PROVE TaskInv'
    BY <1>20 DEF LoseFailure, data
  <1>21. ASSUME NEW d \in Eraser, AbandonErase(d) PROVE TaskInv'
    BY <1>21 DEF AbandonErase, Rollback, IdleEraser, data
  <1>22. CASE Crash
    BY <1>22 DEF Crash, IdleEraser, data
  <1>23. CASE Restart
    BY <1>23 DEF Restart, SetLog
  <1>24. CASE UNCHANGED vars
    BY <1>24 DEF vars, data
  <1> QED
    BY <1>1, <1>2, <1>3, <1>4, <1>5, <1>6, <1>7, <1>8, <1>9, <1>10, <1>11, <1>12, <1>13, <1>14, <1>15, <1>16, <1>17, <1>18, <1>19, <1>20, <1>21, <1>22, <1>23, <1>24
       DEF Next, Serve, Execute, Erase, Disturb

-----------------------------------------------------------------------------
(* The accounts and what is theirs.                                        *)

\* Every account starts ACTIVE and without runs.
LEMMA OwnershipInit == Init => OwnershipInv
  BY DEF Init, OwnershipInv, RequestOwnsPlan, RowsHavePlans, WithdrawalListsAll,
         WithdrawnOwnsNothing, Rows, IdleEraser

\* A withdrawal that has reached the plans has listed every run there is, and
\* no request adds one before it commits, nor after.
LEMMA OwnershipStep == TypeOK /\ TaskInv /\ OwnershipInv /\ [Next]_vars => OwnershipInv'
  <1> SUFFICES ASSUME TypeOK, TaskInv, OwnershipInv, [Next]_vars PROVE OwnershipInv'
    OBVIOUS
  <1> USE OwnerAssumption, NoneAssumption
      DEF TypeOK, OwnershipInv, RequestOwnsPlan, RowsHavePlans, WithdrawalListsAll,
          WithdrawnOwnsNothing, LogsOf, PlansOf, PlansDeleted, Rows
  <1>1. ASSUME NEW r \in Request, NEW p \in Plan, CheckCreate(r, p) PROVE OwnershipInv'
    BY <1>1 DEF CheckCreate, data
  <1>2. ASSUME NEW r \in Request, NEW l \in LogId, CommitCreate(r, l) PROVE OwnershipInv'
    BY <1>2 DEF CommitCreate
  <1>3. ASSUME NEW r \in Request, AbandonCreate(r) PROVE OwnershipInv'
    BY <1>3 DEF AbandonCreate, data
  <1>4. ASSUME NEW d \in Eraser, NEW l \in LogId, DeleteMatchLog(d, l) PROVE OwnershipInv'
    BY <1>4 DEF DeleteMatchLog, BeginErase, data
  <1>5. ASSUME NEW d \in Eraser, NEW u \in User, WithdrawAccount(d, u) PROVE OwnershipInv'
    BY <1>5 DEF WithdrawAccount, BeginErase, LogsOf, Rows, data
  <1>6. ASSUME NEW l \in LogId, LoadRun(l) PROVE OwnershipInv'
    BY <1>6 DEF LoadRun, Raise, data
  <1>7. ASSUME NEW l \in LogId, EnterPipeline(l) PROVE OwnershipInv'
    BY <1>7 DEF EnterPipeline, data
  <1>8. ASSUME NEW l \in LogId, ReachResults(l) PROVE OwnershipInv'
    BY <1>8 DEF ReachResults, data
  <1>9. ASSUME NEW l \in LogId, ReplaceResults(l) PROVE OwnershipInv'
    BY <1>9 DEF ReplaceResults, Raise, data
  <1>10. ASSUME NEW l \in LogId, CommitRun(l) PROVE OwnershipInv'
    <2>1. l \in Rows
      BY <1>10 DEF CommitRun, TaskInv, FlushHoldsRow
    <2>2. Rows' = Rows /\ \A u \in User : LogsOf(u)' = LogsOf(u)
      BY <1>10, <2>1 DEF CommitRun
    <2> QED
      BY <1>10, <2>2 DEF CommitRun
  <1>11. ASSUME NEW l \in LogId, CommitNotReady(l) PROVE OwnershipInv'
    BY <1>11 DEF CommitNotReady, Raise
  <1>12. ASSUME NEW l \in LogId, HandleFailure(l) PROVE OwnershipInv'
    BY <1>12 DEF HandleFailure
  <1>13. ASSUME NEW d \in Eraser, EraseRows(d) PROVE OwnershipInv'
    BY <1>13 DEF EraseRows, Rollback, IdleEraser, data
  <1>14. ASSUME NEW d \in Eraser, ErasePlans(d) PROVE OwnershipInv'
    BY <1>14 DEF ErasePlans, Rollback, IdleEraser, data
  <1>15. ASSUME NEW d \in Eraser, CommitErase(d) PROVE OwnershipInv'
    BY <1>15 DEF CommitErase, Rollback, IdleEraser, SetLog
  <1>16. ASSUME NEW d \in Eraser, NEW l \in LogId, BreakDeadlock(d, l) PROVE OwnershipInv'
    BY <1>16 DEF BreakDeadlock, Raise, Rollback, IdleEraser, data
  <1>17. ASSUME NEW l \in LogId, SaveJudgments(l) PROVE OwnershipInv'
    BY <1>17 DEF SaveJudgments, Raise, data
  <1>18. ASSUME NEW l \in LogId, NotReady(l) PROVE OwnershipInv'
    BY <1>18 DEF NotReady, data
  <1>19. ASSUME NEW l \in LogId, FailRun(l) PROVE OwnershipInv'
    BY <1>19 DEF FailRun, Raise, data
  <1>20. ASSUME NEW l \in LogId, LoseFailure(l) PROVE OwnershipInv'
    BY <1>20 DEF LoseFailure, data
  <1>21. ASSUME NEW d \in Eraser, AbandonErase(d) PROVE OwnershipInv'
    BY <1>21 DEF AbandonErase, Rollback, IdleEraser, data
  <1>22. CASE Crash
    BY <1>22 DEF Crash, IdleEraser, data
  <1>23. CASE Restart
    BY <1>23 DEF Restart, SetLog
  <1>24. CASE UNCHANGED vars
    BY <1>24 DEF vars, data
  <1> QED
    BY <1>1, <1>2, <1>3, <1>4, <1>5, <1>6, <1>7, <1>8, <1>9, <1>10, <1>11, <1>12, <1>13, <1>14, <1>15, <1>16, <1>17, <1>18, <1>19, <1>20, <1>21, <1>22, <1>23, <1>24
       DEF Next, Serve, Execute, Erase, Disturb

-----------------------------------------------------------------------------
\* The inductive invariant of a matching run: the tasks follow their rows, and
\* what an account owns follows the account.
THEOREM InvariantCorrect == Spec => [](TypeOK /\ TaskInv /\ OwnershipInv)
  <1>1. Init => TypeOK /\ TaskInv /\ OwnershipInv
    BY TypeInit, TaskInit, OwnershipInit
  <1>2. TypeOK /\ TaskInv /\ OwnershipInv /\ [Next]_vars => (TypeOK /\ TaskInv /\ OwnershipInv)'
    BY TypeStep, TaskStep, OwnershipStep
  <1> QED
    BY <1>1, <1>2, PTL DEF Spec

\* Recommendations are only ever visible under a run that says 'completed'.
THEOREM ResultsCorrect == Spec => []ResultsOnlyOnCompleted
  <1>1. TaskInv => ResultsOnlyOnCompleted
    BY DEF TaskInv
  <1> QED
    BY <1>1, InvariantCorrect, PTL

\* While the server is up, every run in 'processing' is somebody's to decide.
THEOREM AttendanceCorrect == Spec => []ProcessingIsAttended
  <1>1. TaskInv => ProcessingIsAttended
    BY DEF TaskInv
  <1> QED
    BY <1>1, InvariantCorrect, PTL

\* A withdrawn account has neither plans nor runs, and gets none back.
THEOREM WithdrawalCorrect == Spec => []WithdrawnOwnsNothing
  <1>1. OwnershipInv => WithdrawnOwnsNothing
    BY DEF OwnershipInv
  <1> QED
    BY <1>1, InvariantCorrect, PTL

-----------------------------------------------------------------------------
(* One run per account.                                                    *)

\* Only CommitCreate adds a run to those in processing.
LEMMA ProcessingShrinks ==
    ASSUME NEW u \in User, UNCHANGED logPlan,
           \A l \in LogId : log'[l] = "processing" => log[l] = "processing"
    PROVE  ProcessingOf(u)' \subseteq ProcessingOf(u)
  BY DEF ProcessingOf, LogsOf, Rows

\* A request that has passed the check finds no run of its account beside it
\* when it inserts its row, if no other request of the account is past the check.
LEMMA AtMostOneStep ==
    TypeOK /\ OwnershipInv /\ RequestsDoNotOverlap /\ AtMostOne /\ [Next]_vars => AtMostOne'
  <1> SUFFICES ASSUME TypeOK, OwnershipInv, RequestsDoNotOverlap, AtMostOne, [Next]_vars
               PROVE  AtMostOne'
    OBVIOUS
  <1> USE ClientAssumption DEF TypeOK
  <1>1. ASSUME NEW r \in Request, NEW l \in LogId, CommitCreate(r, l) PROVE AtMostOne'
    <2>1. Owner[request[r]] = Client[r] /\ request[r] \in Plan
      BY <1>1, NoneAssumption DEF CommitCreate, OwnershipInv, RequestOwnsPlan
    <2>2. ASSUME NEW u \in User
          PROVE  ProcessingOf(u)' = IF u = Client[r] THEN {l} ELSE ProcessingOf(u)
      <3>1. ProcessingOf(Client[r]) = {}
        BY <1>1 DEF CommitCreate, AtMostOne
      <3>2. \A m \in LogId \ {l} : log'[m] = log[m] /\ logPlan'[m] = logPlan[m]
        BY <1>1 DEF CommitCreate
      <3>3. log'[l] = "processing" /\ logPlan'[l] = request[r] /\ log[l] = "absent"
        BY <1>1 DEF CommitCreate
      <3> QED
        BY <2>1, <3>1, <3>2, <3>3 DEF ProcessingOf, LogsOf, Rows
    <2>3. ASSUME NEW q \in Request, request'[q] # NoPlan
          PROVE  request[q] # NoPlan /\ Client[q] # Client[r]
      BY <1>1, <2>3 DEF CommitCreate, RequestsDoNotOverlap
    <2> QED
      BY <2>2, <2>3 DEF AtMostOne
  <1>2. ASSUME NEW r \in Request, NEW p \in Plan, CheckCreate(r, p) PROVE AtMostOne'
    <2>1. UNCHANGED <<log, logPlan>> /\ ProcessingOf(Client[r]) = {}
      BY <1>2 DEF CheckCreate, data
    <2>2. \A q \in Request \ {r} : request'[q] = request[q]
      BY <1>2 DEF CheckCreate
    <2> QED
      BY <2>1, <2>2 DEF AtMostOne, ProcessingOf, LogsOf, Rows
  <1>3. ASSUME UNCHANGED logPlan, \A q \in Request : request'[q] \in {request[q], NoPlan},
               \A l \in LogId : log'[l] = "processing" => log[l] = "processing"
        PROVE  AtMostOne'
    <2>1. \A u \in User : ProcessingOf(u)' \subseteq ProcessingOf(u)
      BY <1>3, ProcessingShrinks
    <2> QED
      BY <1>3, <2>1 DEF AtMostOne
  <1> DEFINE Kept == /\ UNCHANGED logPlan
                     /\ \A q \in Request : request'[q] \in {request[q], NoPlan}
                     /\ \A l \in LogId : log'[l] = "processing" => log[l] = "processing"
  <1>4. ASSUME Serve, \A r \in Request, l \in LogId : ~CommitCreate(r, l),
               \A r \in Request, p \in Plan : ~CheckCreate(r, p)
        PROVE  Kept
    BY <1>4 DEF Serve, AbandonCreate, DeleteMatchLog, WithdrawAccount, BeginErase, data
  <1>5. ASSUME NEW l \in LogId, Execute(l) PROVE Kept
    BY <1>5 DEF Execute, LoadRun, EnterPipeline, ReachResults, ReplaceResults, CommitRun,
                CommitNotReady, HandleFailure, Raise, data
  <1>6. ASSUME NEW d \in Eraser, Erase(d) PROVE Kept
    <2>1. CASE CommitErase(d)
      BY <2>1 DEF CommitErase, SetLog
    <2>2. CASE ~CommitErase(d)
      BY <1>6, <2>2 DEF Erase, EraseRows, ErasePlans, BreakDeadlock, data
    <2> QED
      BY <2>1, <2>2
  <1>7. CASE Disturb
    <2>1. Kept
      BY <1>7 DEF Disturb, SaveJudgments, NotReady, FailRun, LoseFailure, AbandonErase, Crash, data
    <2> QED
      BY <1>3, <2>1
  <1>8. CASE Restart
    <2>1. Kept
      BY <1>8 DEF Restart, SetLog
    <2> QED
      BY <1>3, <2>1
  <1>9. CASE UNCHANGED vars
    BY <1>3, <1>9 DEF vars, data
  <1> QED
    BY <1>1, <1>2, <1>3, <1>4, <1>5, <1>6, <1>7, <1>8, <1>9 DEF Next

\* An account whose requests never overlap has at most one run in processing.
THEOREM OneRunCorrect == Spec => OneRunPerUser
  <1>1. Init => AtMostOne
    BY DEF Init, AtMostOne, ProcessingOf, LogsOf, Rows
  <1>2. TypeOK /\ OwnershipInv /\ RequestsDoNotOverlap /\ AtMostOne /\ [Next]_vars => AtMostOne'
    BY AtMostOneStep
  <1>3. AtMostOne => \A u \in User : Cardinality(ProcessingOf(u)) <= 1
    <2> SUFFICES ASSUME AtMostOne, NEW u \in User PROVE Cardinality(ProcessingOf(u)) <= 1
      OBVIOUS
    <2>1. CASE ProcessingOf(u) = {}
      <3>1. Cardinality({}) = 0
        BY FS_EmptySet
      <3> QED
        BY <2>1, <3>1
    <2>2. ASSUME NEW l \in ProcessingOf(u) PROVE Cardinality(ProcessingOf(u)) <= 1
      <3>1. ProcessingOf(u) = {l}
        BY <2>2 DEF AtMostOne
      <3>2. Cardinality({l}) = 1
        BY FS_Singleton
      <3> QED
        BY <3>1, <3>2
    <2> QED
      BY <2>1, <2>2
  <1> QED
    BY <1>1, <1>2, <1>3, InvariantCorrect, PTL DEF Spec, OneRunPerUser

-----------------------------------------------------------------------------
(* The run a client polls.                                                 *)

\* No row, no result.
LEMMA LifecycleInit == Init => Lifecycle!Init
  BY DEF Init, Lifecycle!Init

\* Which step of the abstract run each handler takes; every other step leaves
\* the rows and the results alone.
LEMMA LifecycleStep == TypeOK /\ TaskInv /\ [Next]_vars => [Lifecycle!Next]_(Lifecycle!vars)
  <1> SUFFICES ASSUME TypeOK, TaskInv, Next PROVE Lifecycle!Next \/ UNCHANGED <<log, results>>
    BY DEF vars, data, Lifecycle!vars
  <1> USE DEF TypeOK
  <1>1. ASSUME NEW r \in Request, NEW l \in LogId, CommitCreate(r, l) PROVE Lifecycle!Create(l)
    BY <1>1 DEF CommitCreate, Lifecycle!Create, Lifecycle!SetStatus
  <1>2. ASSUME NEW l \in LogId, CommitRun(l) PROVE Lifecycle!Complete(l)
    BY <1>2 DEF CommitRun, TaskInv, FlushHoldsRow, Lifecycle!Complete, Lifecycle!SetStatus
  <1>3. ASSUME NEW l \in LogId, CommitNotReady(l)
        PROVE  Lifecycle!Fail({l}) \/ UNCHANGED <<log, results>>
    BY <1>3 DEF CommitNotReady, Rows, TaskInv, TaskFollowsRow, LiveJob, JobState,
                Lifecycle!Fail, Lifecycle!Processing, Lifecycle!SetStatus
  <1>4. ASSUME NEW l \in LogId, HandleFailure(l)
        PROVE  Lifecycle!Fail({l}) \/ UNCHANGED <<log, results>>
    BY <1>4 DEF HandleFailure, Rows, TaskInv, TaskFollowsRow, LiveJob, JobState,
                Lifecycle!Fail, Lifecycle!Processing, Lifecycle!SetStatus
  <1>5. ASSUME Restart PROVE Lifecycle!Fail(Lifecycle!Processing)
    BY <1>5 DEF Restart, SetLog, Lifecycle!Fail, Lifecycle!Processing, Lifecycle!SetStatus
  <1>6. ASSUME NEW d \in Eraser, CommitErase(d)
        PROVE  Lifecycle!Erase(eraser[d].logs \cap Rows)
    <2>1. results' = results \ (eraser[d].logs \cap Rows)
      BY <1>6 DEF CommitErase, TaskInv, ResultsOnlyOnCompleted, Rows
    <2> QED
      BY <1>6, <2>1 DEF CommitErase, SetLog, Rows, Lifecycle!Erase, Lifecycle!Rows,
                        Lifecycle!SetStatus
  <1>7. ASSUME NEW l \in LogId, Execute(l),
               ~CommitRun(l), ~CommitNotReady(l), ~HandleFailure(l)
        PROVE  UNCHANGED <<log, results>>
    BY <1>7 DEF Execute, LoadRun, EnterPipeline, ReachResults, ReplaceResults, data
  <1>8. ASSUME NEW d \in Eraser, Erase(d), ~CommitErase(d) PROVE UNCHANGED <<log, results>>
    BY <1>8 DEF Erase, EraseRows, ErasePlans, BreakDeadlock, data
  <1>9. ASSUME Disturb PROVE UNCHANGED <<log, results>>
    BY <1>9 DEF Disturb, SaveJudgments, NotReady, FailRun, LoseFailure, AbandonErase, Crash, data
  <1>10. ASSUME Serve,
                \A r \in Request, l \in LogId : ~CommitCreate(r, l)
         PROVE  UNCHANGED <<log, results>>
    BY <1>10 DEF Serve, CheckCreate, AbandonCreate, DeleteMatchLog, WithdrawAccount,
                 BeginErase, data
  <1>11. CASE Serve
    BY <1>1, <1>10, <1>11 DEF Lifecycle!Next
  <1>12. ASSUME NEW l \in LogId, Execute(l)
         PROVE  Lifecycle!Next \/ UNCHANGED <<log, results>>
    BY <1>2, <1>3, <1>4, <1>7, <1>12 DEF Lifecycle!Next
  <1>13. ASSUME NEW d \in Eraser, Erase(d)
         PROVE  Lifecycle!Next \/ UNCHANGED <<log, results>>
    BY <1>6, <1>8, <1>13 DEF Lifecycle!Next, Rows
  <1>14. CASE Restart
    BY <1>5, <1>14 DEF Lifecycle!Next, Lifecycle!Processing
  <1> QED
    BY <1>9, <1>11, <1>12, <1>13, <1>14 DEF Next

\* A matching run is a MatchLifecycle: one verdict, results with 'completed'
\* only, and no way back from erasure.
THEOREM LifecycleCorrect == Spec => ImplementsLifecycle
  <1>1. Init => Lifecycle!Init
    BY LifecycleInit
  <1>2. TypeOK /\ TaskInv /\ [Next]_vars => [Lifecycle!Next]_(Lifecycle!vars)
    BY LifecycleStep
  <1> QED
    BY <1>1, <1>2, InvariantCorrect, PTL DEF Spec, ImplementsLifecycle, Lifecycle!Spec

=============================================================================
