-------------------------- MODULE PlanAnalysisProofs --------------------------
(***************************************************************************)
(* The analysis of a plan, for any number of tasks and crashes.  That a    *)
(* claim is exclusive, and with it that OCR is paid once, is proved for    *)
(* tasks that end within _STALE_PROCESSING_TIMEOUT; that 'completed' means *)
(* an analysis, for tasks of any length.  With the exclusive claim comes   *)
(* the refinement: the verdict a page sees is that of the claim it saw.    *)
(***************************************************************************)
EXTENDS PlanAnalysis, TLAPS

\* The row and the tasks hold what the schema allows.
LEMMA TypeStep == TypeOK /\ [Next]_vars => TypeOK'
  <1> SUFFICES ASSUME TypeOK, [Next]_vars PROVE TypeOK'
    OBVIOUS
  <1> USE DEF TypeOK, AnalysisStatus, AnalysisStep, Text, TaskState, To, row
  <1>1. ASSUME NEW t \in Task, Claim(t) PROVE TypeOK'
    BY <1>1 DEF Claim
  <1>2. ASSUME NEW t \in Task, Load(t) PROVE TypeOK'
    BY <1>2 DEF Load
  <1>3. ASSUME NEW t \in Task, BeginExtract(t) PROVE TypeOK'
    BY <1>3 DEF BeginExtract, SetStep
  <1>4. ASSUME NEW t \in Task, NEW text \in {"blank", "text"}, SaveRawText(t, text)
        PROVE  TypeOK'
    BY <1>4 DEF SaveRawText
  <1>5. ASSUME NEW t \in Task, BeginNormalize(t) PROVE TypeOK'
    BY <1>5 DEF BeginNormalize, SetStep
  <1>6. ASSUME NEW t \in Task, SaveAnalysis(t) PROVE TypeOK'
    BY <1>6 DEF SaveAnalysis
  <1>7. ASSUME NEW t \in Task, Fail(t) PROVE TypeOK'
    BY <1>7 DEF Fail
  <1>8. ASSUME NEW t \in Task, Finish(t) PROVE TypeOK'
    BY <1>8 DEF Finish
  <1>9. ASSUME NEW t \in Task, Lose(t) PROVE TypeOK'
    BY <1>9 DEF Lose
  <1>10. CASE Expire
    BY <1>10 DEF Expire
  <1>11. CASE Crash
    BY <1>11, CrashAssumption DEF Crash
  <1>12. CASE Withdraw
    BY <1>12 DEF Withdraw
  <1>13. CASE UNCHANGED vars
    BY <1>13 DEF vars
  <1>14. ASSUME NEW t \in Task, Run(t) PROVE TypeOK'
    <2> HIDE DEF TypeOK, To, row
    <2> QED
      BY <1>14, <1>2, <1>3, <1>4, <1>5, <1>6, <1>8 DEF Run
  <1> HIDE DEF TypeOK, To, row
  <1> QED
    BY <1>1, <1>7, <1>9, <1>10, <1>11, <1>12, <1>13, <1>14 DEF Next

\* A plan that was just uploaded, with no task, is of the right type.
LEMMA TypeInit == Init => TypeOK
  <1> SUFFICES ASSUME Init PROVE TypeOK
    OBVIOUS
  <1>1. exists \in BOOLEAN /\ stale \in BOOLEAN /\ analysed \in BOOLEAN
    BY Zenon DEF Init
  <1>2. status \in AnalysisStatus /\ step \in AnalysisStep /\ rawText \in Text
    BY DEF Init, AnalysisStatus, AnalysisStep, Text
  <1>3. task \in [Task -> TaskState] /\ source \in [Task -> Text]
    BY DEF Init, TaskState, Text
  <1>4. crashes \in 0 .. MaxCrashes
    BY CrashAssumption DEF Init
  <1> QED
    BY <1>1, <1>2, <1>3, <1>4 DEF TypeOK

\* Every status, step and text is one the schema knows.
THEOREM TypeCorrect == Spec => []TypeOK
  BY TypeInit, TypeStep, PTL DEF Spec

-----------------------------------------------------------------------------
\* A task that succeeded has left its analysis in the row: this is what makes
\* an unconditional finish_analysis safe, whoever holds the claim by then.
SucceededIsAnalysed == \A t \in Task : task[t] = "succeeded" => analysed

\* No step completes a plan without an analysis, or loses one.
LEMMA AnalysedStep ==
  TypeOK /\ CompletedIsAnalysed /\ SucceededIsAnalysed /\ [Next]_vars
    => CompletedIsAnalysed' /\ SucceededIsAnalysed'
  <1> SUFFICES ASSUME TypeOK, CompletedIsAnalysed, SucceededIsAnalysed, [Next]_vars
               PROVE  CompletedIsAnalysed' /\ SucceededIsAnalysed'
    OBVIOUS
  <1> USE DEF TypeOK, CompletedIsAnalysed, SucceededIsAnalysed, To, row
  <1>1. ASSUME NEW t \in Task, Claim(t) PROVE CompletedIsAnalysed' /\ SucceededIsAnalysed'
    BY <1>1 DEF Claim
  <1>2. ASSUME NEW t \in Task, Load(t) PROVE CompletedIsAnalysed' /\ SucceededIsAnalysed'
    BY <1>2 DEF Load
  <1>3. ASSUME NEW t \in Task, BeginExtract(t) \/ BeginNormalize(t)
        PROVE  CompletedIsAnalysed' /\ SucceededIsAnalysed'
    BY <1>3 DEF BeginExtract, BeginNormalize
  <1>4. ASSUME NEW t \in Task, NEW text, SaveRawText(t, text)
        PROVE  CompletedIsAnalysed' /\ SucceededIsAnalysed'
    BY <1>4 DEF SaveRawText
  <1>5. ASSUME NEW t \in Task, SaveAnalysis(t)
        PROVE  CompletedIsAnalysed' /\ SucceededIsAnalysed'
    BY <1>5 DEF SaveAnalysis
  <1>6. ASSUME NEW t \in Task, Fail(t) \/ Lose(t)
        PROVE  CompletedIsAnalysed' /\ SucceededIsAnalysed'
    BY <1>6 DEF Fail, Lose
  <1>7. ASSUME NEW t \in Task, Finish(t) PROVE CompletedIsAnalysed' /\ SucceededIsAnalysed'
    BY <1>7 DEF Finish
  <1>8. CASE Expire \/ Crash \/ Withdraw
    BY <1>8 DEF Expire, Crash, Withdraw
  <1>9. CASE UNCHANGED vars
    BY <1>9 DEF vars
  <1> QED
    BY <1>1, <1>2, <1>3, <1>4, <1>5, <1>6, <1>7, <1>8, <1>9 DEF Next, Run

\* 'completed' means that there is an analysis to match.
THEOREM AnalysedCorrect == Spec => []CompletedIsAnalysed
  <1>1. Init => CompletedIsAnalysed /\ SucceededIsAnalysed
    BY DEF Init, CompletedIsAnalysed, SucceededIsAnalysed
  <1> QED
    BY <1>1, TypeInit, TypeStep, AnalysedStep, PTL DEF Spec

-----------------------------------------------------------------------------
\* A task that has read the row without a text still finds none there when it
\* pays for OCR.
LoadedHasNoText == \A t \in Task : task[t] = "loaded" => rawText = "none"

\* While a task works the row is 'processing' and cannot be claimed, and a step
\* is shown of a plan in progress only.
RowShowsTask ==
    exists =>
        /\ (\E t \in Task : task[t] \in Live) => status = "processing" /\ ~stale
        /\ step # "null" => status = "processing"

\* The claim, the row that shows it, and what follows for the text.
ClaimInv == TypeOK /\ OneTask /\ RowShowsTask /\ LoadedHasNoText

\* Every step keeps the claim exclusive, as long as it expires under no live
\* task: the only way to a second task is Claimable.
LEMMA ClaimStep ==
  ASSUME ~SlowTasks
  PROVE  ClaimInv /\ [Next]_vars => ClaimInv'
  <1> SUFFICES ASSUME ClaimInv, [Next]_vars PROVE OneTask' /\ RowShowsTask' /\ LoadedHasNoText'
    BY TypeStep DEF ClaimInv
  <1> USE DEF ClaimInv, OneTask, RowShowsTask, LoadedHasNoText
  \* A step by which task t goes on (or ends) leaves it the only one.
  <1>a. ASSUME NEW t \in Task, task[t] \in Live, NEW state, To(t, state)
        PROVE  OneTask' /\ \A u \in Task : task'[u] \in Live => u = t
    BY <1>a DEF To, TypeOK
  <1>1. ASSUME NEW t \in Task, Claim(t) PROVE OneTask' /\ RowShowsTask' /\ LoadedHasNoText'
    <2>1. \A u \in Task : task[u] \notin Live
      BY <1>1 DEF Claim, Claimable
    <2>2. \A u \in Task : u # t => task'[u] \notin Live
      BY <1>1, <2>1 DEF Claim, To, TypeOK
    <2>3. task'[t] = "queued"
      BY <1>1 DEF Claim, To, TypeOK
    <2>4. "loaded" \in Live
      BY DEF Live, TaskState
    <2> QED
      BY <1>1, <2>2, <2>3, <2>4 DEF Claim
  <1>2. ASSUME NEW t \in Task, Run(t) \/ Fail(t) \/ Lose(t)
        PROVE  OneTask' /\ RowShowsTask' /\ LoadedHasNoText'
    <2>1. task[t] \in Live /\ \E state : To(t, state)
      <3>1. CASE Load(t)
        BY <3>1 DEF Load, Live, TaskState
      <3>2. CASE BeginExtract(t) \/ BeginNormalize(t) \/ SaveAnalysis(t)
        BY <3>2 DEF BeginExtract, BeginNormalize, SaveAnalysis, Live, TaskState
      <3>3. CASE \E text \in {"blank", "text"} : SaveRawText(t, text)
        BY <3>3 DEF SaveRawText, Live, TaskState
      <3>4. CASE Fail(t) \/ Lose(t) \/ Finish(t)
        BY <3>4 DEF Fail, Lose, Finish, Working, Live, TaskState
      <3> QED
        BY <1>2, <3>1, <3>2, <3>3, <3>4 DEF Run
    <2>2. OneTask' /\ \A u \in Task : task'[u] \in Live => u = t
      BY <2>1, <1>a
    <2>3. "loaded" \in Live /\ "none" \notin Live
      BY DEF Live, TaskState
    <2>4. exists => status = "processing" /\ ~stale
      BY <2>1
    <2>5. RowShowsTask'
      <3>1. CASE Finish(t)
        <4>1. \A u \in Task : task'[u] \notin Live
          BY <3>1, <2>2, <2>3 DEF Finish, To, TypeOK
        <4> QED
          BY <3>1, <4>1 DEF Finish
      <3>2. CASE ~Finish(t)
        <4>1. UNCHANGED <<exists, status, stale>>
          BY <1>2, <3>2 DEF Run, Load, BeginExtract, SaveRawText, BeginNormalize,
                            SaveAnalysis, Fail, Lose, row
        <4> QED
          BY <4>1, <2>4
      <3> QED
        BY <3>1, <3>2
    <2>6. LoadedHasNoText'
      <3> SUFFICES ASSUME task'[t] = "loaded" PROVE rawText' = "none"
        BY <2>2, <2>3
      <3>1. ASSUME NEW state, To(t, state) PROVE state = "loaded"
        BY <3>1 DEF To, TypeOK
      <3>2. Load(t)
        BY <1>2, <3>1 DEF Run, BeginExtract, SaveRawText, BeginNormalize, SaveAnalysis,
                          Finish, Fail, Lose
      <3> QED
        BY <3>1, <3>2 DEF Load, row
    <2> QED
      BY <2>2, <2>5, <2>6
  <1>3. CASE Expire
    BY <1>3 DEF Expire, Live
  <1>4. CASE Crash
    BY <1>4 DEF Crash, row, Live
  <1>5. CASE Withdraw
    BY <1>5 DEF Withdraw
  <1>6. CASE UNCHANGED vars
    BY <1>6 DEF vars, row
  <1> QED
    BY <1>1, <1>2, <1>3, <1>4, <1>5, <1>6 DEF Next

\* Nothing is claimed at first.
LEMMA ClaimInit == Init => ClaimInv
  BY TypeInit DEF Init, ClaimInv, OneTask, RowShowsTask, LoadedHasNoText, Live

\* Without slow tasks the claim is exclusive and the polled row tells the truth.
THEOREM ClaimCorrect ==
  ASSUME ~SlowTasks
  PROVE  Spec => [](OneTask /\ RowShowsTask)
  <1>1. ClaimInv => OneTask /\ RowShowsTask
    BY DEF ClaimInv
  <1> QED
    BY <1>1, ClaimInit, ClaimStep, PTL DEF Spec

\* Without slow tasks OCR is started only for a row that has no text yet.
THEOREM OcrCorrect ==
  ASSUME ~SlowTasks
  PROVE  Spec => OcrIsNotRepeated
  <1>1. ASSUME ClaimInv, [Next]_vars, NEW t \in Task,
               task[t] # "extracting", task'[t] = "extracting"
        PROVE  rawText = "none"
    <2>1. task[t] = "loaded"
      <3>1. ASSUME NEW u \in Task, NEW state, To(u, state) PROVE u = t /\ state = "extracting"
        BY <1>1, <3>1 DEF To, ClaimInv, TypeOK
      <3>2. ASSUME NEW u \in Task, Claim(u) \/ Run(u) \/ Fail(u) \/ Lose(u)
            PROVE  BeginExtract(t)
        BY <3>1, <3>2 DEF Claim, Run, Load, BeginExtract, SaveRawText, BeginNormalize,
                          SaveAnalysis, Finish, Fail, Lose
      <3>3. ~Expire /\ ~Crash /\ ~Withdraw /\ ~UNCHANGED vars
        BY <1>1 DEF Expire, Crash, Withdraw, vars
      <3> QED
        BY <1>1, <3>2, <3>3 DEF Next, BeginExtract
    <2> QED
      BY <1>1, <2>1 DEF ClaimInv, LoadedHasNoText
  <1>2. ClaimInv /\ [Next]_vars =>
          [\A t \in Task :
             (task[t] # "extracting" /\ task'[t] = "extracting") => rawText = "none"]_vars
    BY <1>1
  <1> QED
    BY <1>2, ClaimInit, ClaimStep, PTL DEF Spec, OcrIsNotRepeated

-----------------------------------------------------------------------------
\* The row starts as the lifecycle does.
LEMMA LifecycleInit == Init => Lifecycle!Init
  BY DEF Init, Lifecycle!Init

\* A step of a task, a request, the clock, a crash or a withdrawal is a step of
\* the lifecycle or none: only Finish needs the claim to be the task's own.
LEMMA LifecycleStep == ClaimInv /\ [Next]_vars => [Lifecycle!Next]_(Lifecycle!vars)
  <1> SUFFICES ASSUME ClaimInv, [Next]_vars
               PROVE  Lifecycle!Next \/ UNCHANGED <<status, stale>>
    BY DEF Lifecycle!vars
  <1>1. ASSUME NEW t \in Task, Claim(t) PROVE Lifecycle!Claim
    BY <1>1 DEF Claim, Claimable, Lifecycle!Claim, Lifecycle!Claimable
  <1>2. ASSUME NEW t \in Task, Finish(t) PROVE Lifecycle!Finish \/ UNCHANGED <<status, stale>>
    <2>1. CASE exists
      <3>1. status = "processing" /\ ~stale
        BY <1>2, <2>1 DEF ClaimInv, RowShowsTask, Finish, Live, TaskState
      <3> QED
        BY <1>2, <2>1, <3>1 DEF Finish, Lifecycle!Finish
    <2>2. CASE ~exists
      BY <1>2, <2>2 DEF Finish
    <2> QED
      BY <2>1, <2>2
  <1>3. ASSUME NEW t \in Task, Run(t) \/ Fail(t) \/ Lose(t), ~Finish(t)
        PROVE  UNCHANGED <<status, stale>>
    BY <1>3 DEF Run, Load, BeginExtract, SaveRawText, BeginNormalize, SaveAnalysis,
                Fail, Lose, row
  <1>4. CASE Expire
    BY <1>4 DEF Expire, Lifecycle!Expire, Lifecycle!Next
  <1>5. CASE Crash \/ Withdraw \/ UNCHANGED vars
    BY <1>5 DEF Crash, Withdraw, vars, row
  <1> QED
    BY <1>1, <1>2, <1>3, <1>4, <1>5 DEF Next, Lifecycle!Next

\* Without slow tasks the analysis is what AnalysisLifecycle promises to the
\* pages that poll it.
THEOREM LifecycleCorrect ==
  ASSUME ~SlowTasks
  PROVE  Spec => ImplementsLifecycle
  BY ClaimInit, ClaimStep, LifecycleInit, LifecycleStep, PTL
     DEF Spec, ImplementsLifecycle, Lifecycle!Spec
=============================================================================
