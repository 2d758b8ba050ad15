--------------------------- MODULE NoticeJobsProofs ---------------------------
(***************************************************************************)
(* For any number of notices, requests and backlogs, any batch limit and   *)
(* any chunk size: a notice has one active job of a kind, and what is      *)
(* reported as COMPLETED has been stored.                                  *)
(***************************************************************************)
EXTENDS NoticeJobs, TLAPS

\* All notices exist and no job is registered at first.
LEMMA TypeInit == Init => TypeOK
  BY DEF Init, TypeOK, FreshKind, FreshPlace, FreshJob, FreshBacklog, NoBacklog,
         Kind, JobState, BacklogEntry, BacklogState

\* A registration leaves entries of the right kind behind.
LEMMA RegisterType ==
  ASSUME TypeOK, NEW s \in Slot, NEW k \in Kind, NEW S, Register(s, k, S)
  PROVE  kind' \in [Slot -> Kind] /\ job' \in [Slot -> [Notice -> JobState]]
  BY DEF Register, TypeOK, JobState, ActiveState

\* A job's entry takes one of the registry's values.
LEMMA ToType ==
  ASSUME TypeOK, NEW s \in Slot, NEW n \in Notice, NEW state \in JobState, To(s, n, state)
  PROVE  job' \in [Slot -> [Notice -> JobState]]
  BY DEF To, TypeOK

\* A result is saved for rows that exist only.
LEMMA SaveType ==
  ASSUME TypeOK, NEW n \in Notice, NEW ks, Save(ks, n)
  PROVE  stored' \in [Kind -> SUBSET notices]
  BY DEF Save, TypeOK

\* The steps of a job, one by one.
LEMMA WorkType ==
  ASSUME TypeOK, NEW s \in Slot, NEW n \in Notice, Work(s, n) \/ Raise(s, n)
  PROVE  TypeOK'
  <1>a. {"working", "calling", "done", "completed", "failed"} \subseteq JobState
    BY DEF JobState, ActiveState, Verdict
  <1>b. ASSUME NEW state \in JobState, To(s, n, state),
               stored' \in [Kind -> SUBSET notices],
               UNCHANGED <<notices, kind, place, backlog>>
        PROVE  TypeOK'
    BY <1>b, ToType DEF TypeOK
  <1>c. stored \in [Kind -> SUBSET notices]
    BY DEF TypeOK
  <1>1. CASE Begin(s, n)
    BY <1>1, <1>a, <1>b, <1>c DEF Begin, db
  <1>2. CASE StoreText(s, n)
    BY <1>2, <1>a, <1>b, SaveType DEF StoreText
  <1>3. CASE SaveTexts(s, n)
    BY <1>3, <1>a, <1>b, <1>c, SaveType DEF SaveTexts
  <1>4. CASE GiveUp(s, n)
    <2>1. stored' \in [Kind -> SUBSET notices]
      BY <1>4, <1>c DEF GiveUp, Kind
    <2> QED
      BY <1>4, <2>1, <1>a, <1>b DEF GiveUp
  <1>5. CASE StoreNormalized(s, n)
    BY <1>5, <1>a, <1>b, SaveType DEF StoreNormalized
  <1>6. CASE StoreEmbedding(s, n)
    BY <1>6, <1>a, <1>b, SaveType DEF StoreEmbedding
  <1>7. CASE HasNoText(s, n)
    BY <1>7, <1>a, <1>b, <1>c, SaveType DEF HasNoText
  <1>8. CASE Raise(s, n)
    BY <1>8, <1>a, <1>b, <1>c DEF Raise, db
  <1>9. CASE ReadText(s, n) \/ ReadFiles(s, n) \/ FindChunks(s, n) \/ Report(s, n)
    BY <1>9, <1>a, <1>b, <1>c DEF ReadText, ReadFiles, FindChunks, Report, db
  <1> QED
    BY <1>1, <1>2, <1>3, <1>4, <1>5, <1>6, <1>7, <1>8, <1>9 DEF Work

\* Requests, jobs, backlogs, deletion and crash preserve the typing.
LEMMA TypeStep == TypeOK /\ [Next]_vars => TypeOK'
  <1> SUFFICES ASSUME TypeOK, [Next]_vars PROVE TypeOK'
    OBVIOUS
  <1>a. Trigger \subseteq Slot /\ Backlog \subseteq Slot /\ BacklogKind \subseteq Kind
        /\ "ocr" \in Kind
    BY DEF Slot, BacklogKind, Kind
  <1>1. ASSUME NEW t \in Trigger, NEW k \in Kind, NEW S \in SUBSET Notice, StartBatch(t, k, S)
        PROVE  TypeOK'
    BY <1>1, <1>a, RegisterType DEF StartBatch, TypeOK, db
  <1>2. ASSUME NEW t \in Trigger, NEW S \in SUBSET Notice,
               NEW order \in [S -> 0 .. Cardinality(Notice)], Precollect(t, S, order)
        PROVE  TypeOK'
    <2>1. \A n \in S : order[n] \in Nat
      BY NoticeAssumption
    <2> QED
      BY <1>2, <2>1, <1>a, RegisterType DEF Precollect, TypeOK, db
  <1>3. ASSUME NEW s \in Slot, NEW n \in Notice, Work(s, n) \/ Raise(s, n) PROVE TypeOK'
    BY <1>3, WorkType
  <1>4. ASSUME NEW b \in Backlog, NEW k \in BacklogKind, CheckBacklog(b, k) PROVE TypeOK'
    <2>1. backlog' \in [Backlog -> BacklogEntry]
      BY <1>4 DEF CheckBacklog, TypeOK, BacklogEntry, BacklogState
    <2> QED
      BY <1>4, <2>1, <1>a, RegisterType DEF CheckBacklog, TypeOK, db
  <1>5. ASSUME NEW b \in Backlog, RegisterBacklog(b) PROVE TypeOK'
    <2>1. kind[b] \in Kind /\ Matching(kind[b]) \subseteq Notice
      BY <1>a DEF TypeOK, Matching, Kind
    <2>2. backlog' \in [Backlog -> BacklogEntry]
      BY <1>5, <2>1 DEF RegisterBacklog, TypeOK, BacklogEntry, BacklogState
    <2> QED
      BY <1>5, <2>2 DEF RegisterBacklog, TypeOK, db, registry
  <1>6. ASSUME NEW b \in Backlog, AdvanceBacklog(b) PROVE TypeOK'
    <2>1. backlog' \in [Backlog -> BacklogEntry]
      BY <1>6 DEF AdvanceBacklog, TypeOK, BacklogEntry, BacklogState
    <2>2. kind[b] \in Kind
      BY <1>a DEF TypeOK
    <2> QED
      BY <1>6, <2>1, <2>2, <1>a, RegisterType DEF AdvanceBacklog, TypeOK, db
  <1>7. ASSUME NEW b \in Backlog, FinishBacklog(b) \/ AbandonBacklog(b) PROVE TypeOK'
    <2>1. NoBacklog \in BacklogEntry
      BY DEF NoBacklog, BacklogEntry, BacklogState
    <2> QED
      BY <1>7, <2>1 DEF FinishBacklog, AbandonBacklog, TypeOK, db, registry
  <1>8. ASSUME NEW n \in Notice, DeleteNotice(n) PROVE TypeOK'
    BY <1>8 DEF DeleteNotice, TypeOK, registry
  <1>9. CASE Crash
    BY <1>9 DEF Crash, TypeOK, FreshKind, FreshPlace, FreshJob, FreshBacklog, NoBacklog,
                Kind, JobState, BacklogEntry, BacklogState, db
  <1>10. CASE UNCHANGED vars
    BY <1>10 DEF vars, db, registry, TypeOK
  <1> QED
    BY <1>1, <1>2, <1>3, <1>4, <1>5, <1>6, <1>7, <1>8, <1>9, <1>10
       DEF Next, Request, RunBacklog

\* Registries, rows and backlogs hold what their schemas allow, and results
\* belong to notices that exist.
THEOREM TypeCorrect == Spec => []TypeOK
  BY TypeInit, TypeStep, PTL DEF Spec

-----------------------------------------------------------------------------
\* A registration adds jobs to notices that have no active one of its kind.
LEMMA RegisterKeepsOne ==
  ASSUME TypeOK, OneJobPerNotice, NEW s \in Slot, NEW k \in Kind, NEW S, Register(s, k, S)
  PROVE  OneJobPerNotice'
  <1> SUFFICES ASSUME NEW u \in Slot, NEW v \in Slot, NEW n \in Notice,
                      kind'[u] = kind'[v], Active(u, n)', Active(v, n)', u # v
               PROVE  FALSE
    BY DEF OneJobPerNotice
  <1>1. \A w \in Slot \ {s} : kind'[w] = kind[w] /\ job'[w] = job[w]
    BY DEF Register, TypeOK
  <1>2. kind'[s] = k /\ (Active(s, n)' => n \notin Busy(k))
    BY DEF Register, TypeOK, Active, ActiveState
  <1>3. ASSUME NEW w \in Slot \ {s}, kind'[w] = k, Active(w, n)' PROVE n \in Busy(k)
    BY <1>1, <1>3 DEF Busy, Active
  <1>4. CASE u = s
    BY <1>2, <1>3, <1>4
  <1>5. CASE v = s
    BY <1>2, <1>3, <1>5
  <1>6. CASE u # s /\ v # s
    BY <1>1, <1>6 DEF OneJobPerNotice, Active
  <1> QED
    BY <1>4, <1>5, <1>6

\* A job's step makes no other job, nor a finished one, active.
LEMMA WorkKeepsOne ==
  ASSUME TypeOK, OneJobPerNotice, NEW s \in Slot, NEW n \in Notice, Work(s, n) \/ Raise(s, n)
  PROVE  OneJobPerNotice'
  <1>1. kind' = kind /\ Active(s, n) /\ \E state : To(s, n, state)
    BY DEF Work, Begin, ReadText, ReadFiles, StoreText, SaveTexts, GiveUp, StoreNormalized,
           FindChunks, StoreEmbedding, HasNoText, Report, Raise, Inside, Active, ActiveState
  <1>2. \A u \in Slot, m \in Notice : Active(u, m)' => Active(u, m)
    BY <1>1 DEF To, TypeOK, Active
  <1> QED
    BY <1>1, <1>2 DEF OneJobPerNotice

\* Only registrations add active jobs.
LEMMA OneJobStep == TypeOK /\ OneJobPerNotice /\ [Next]_vars => OneJobPerNotice'
  <1> SUFFICES ASSUME TypeOK, OneJobPerNotice, [Next]_vars PROVE OneJobPerNotice'
    OBVIOUS
  <1>a. Trigger \subseteq Slot /\ Backlog \subseteq Slot /\ BacklogKind \subseteq Kind
        /\ "ocr" \in Kind
    BY DEF Slot, BacklogKind, Kind
  <1>b. UNCHANGED registry => OneJobPerNotice'
    BY DEF registry, OneJobPerNotice, Active
  <1>1. ASSUME NEW t \in Trigger, Request(t) PROVE OneJobPerNotice'
    BY <1>1, <1>a, RegisterKeepsOne DEF Request, StartBatch, Precollect
  <1>2. ASSUME NEW s \in Slot, NEW n \in Notice, Work(s, n) \/ Raise(s, n)
        PROVE  OneJobPerNotice'
    BY <1>2, WorkKeepsOne
  <1>3. ASSUME NEW b \in Backlog, NEW k \in BacklogKind, CheckBacklog(b, k)
        PROVE  OneJobPerNotice'
    BY <1>3, <1>a, RegisterKeepsOne DEF CheckBacklog
  <1>4. ASSUME NEW b \in Backlog, AdvanceBacklog(b) PROVE OneJobPerNotice'
    <2>1. b \in Slot /\ kind[b] \in Kind
      BY <1>a DEF TypeOK
    <2> QED
      BY <1>4, <2>1, RegisterKeepsOne DEF AdvanceBacklog
  <1>5. ASSUME NEW b \in Backlog, RegisterBacklog(b) \/ FinishBacklog(b) \/ AbandonBacklog(b)
        PROVE  OneJobPerNotice'
    BY <1>5, <1>b DEF RegisterBacklog, FinishBacklog, AbandonBacklog
  <1>6. ASSUME NEW n \in Notice, DeleteNotice(n) PROVE OneJobPerNotice'
    BY <1>6, <1>b DEF DeleteNotice
  <1>7. CASE Crash
    BY <1>7 DEF Crash, FreshJob, OneJobPerNotice, Active, ActiveState
  <1>8. CASE UNCHANGED vars
    BY <1>8, <1>b DEF vars
  <1> QED
    BY <1>1, <1>2, <1>3, <1>4, <1>5, <1>6, <1>7, <1>8 DEF Next, RunBacklog

\* Whatever requests overlap, a notice has one active job of a kind.
THEOREM OneJobCorrect == Spec => []OneJobPerNotice
  <1>1. Init => OneJobPerNotice
    BY DEF Init, FreshJob, OneJobPerNotice, Active, ActiveState
  <1> QED
    BY <1>1, TypeInit, TypeStep, OneJobStep, PTL DEF Spec

-----------------------------------------------------------------------------
\* A result that was stored or found stays, unless its notice goes: only a
\* normalization takes one back, and it is the only one of its notice.
DoneIsStored ==
    \A s \in Slot, n \in Notice :
        job[s][n] = "done" => n \in stored[kind[s]] \/ n \notin notices

\* What one job's step does: its entry, and the results it leaves.
LEMMA WorkStores ==
  ASSUME TypeOK, NEW s \in Slot, NEW n \in Notice, Work(s, n) \/ Raise(s, n)
  PROVE  /\ UNCHANGED <<notices, kind>>
         /\ \E state : /\ To(s, n, state)
                       /\ state = "done" => n \in stored'[kind[s]]
                       /\ state = "completed" => job[s][n] = "done" /\ UNCHANGED stored
         /\ \A k \in Kind, m \in Notice :
              m \in stored[k] /\ m \notin stored'[k] => m = n /\ k = "normalize" /\ k = kind[s]
  <1> USE DEF TypeOK
  <1>a. {"ocr", "normalize", "embed"} = Kind /\ kind[s] \in Kind
    BY DEF Kind
  <1>b. ASSUME NEW ks, Save(ks, n)
        PROVE  /\ \A k \in Kind : stored[k] \subseteq stored'[k]
               /\ n \in notices => \A k \in ks \cap Kind : n \in stored'[k]
    BY <1>b DEF Save
  <1>1. CASE Begin(s, n)
    BY <1>1 DEF Begin, db
  <1>2. CASE ReadText(s, n) \/ FindChunks(s, n)
    BY <1>2 DEF ReadText, FindChunks, db
  <1>3. CASE ReadFiles(s, n)
    BY <1>3 DEF ReadFiles, db
  <1>4. CASE StoreText(s, n)
    BY <1>4, <1>a, <1>b DEF StoreText
  <1>5. CASE StoreNormalized(s, n)
    BY <1>5, <1>a, <1>b DEF StoreNormalized
  <1>6. CASE StoreEmbedding(s, n)
    BY <1>6, <1>a, <1>b DEF StoreEmbedding
  <1>7. CASE SaveTexts(s, n) \/ HasNoText(s, n)
    <2>1. Save({"ocr"}, n) \/ UNCHANGED stored
      BY <1>7 DEF SaveTexts, HasNoText
    <2>2. \A k \in Kind : stored[k] \subseteq stored'[k]
      BY <2>1, <1>b
    <2>3. PICK state \in {"calling", "failed"} : To(s, n, state)
      BY <1>7 DEF SaveTexts, HasNoText
    <2>4. UNCHANGED <<notices, kind>> /\ state # "done" /\ state # "completed"
      BY <1>7, <2>3 DEF SaveTexts, HasNoText
    <2> QED
      BY <2>2, <2>3, <2>4
  <1>8. CASE GiveUp(s, n)
    <2>1. stored' = [stored EXCEPT !["normalize"] = stored["normalize"] \ {n}]
          /\ kind[s] = "normalize"
      BY <1>8 DEF GiveUp
    <2> QED
      BY <1>8, <2>1, <1>a DEF GiveUp
  <1>9. CASE Report(s, n) \/ Raise(s, n)
    BY <1>9 DEF Report, Raise, db
  <1> QED
    BY <1>1, <1>2, <1>3, <1>4, <1>5, <1>6, <1>7, <1>8, <1>9 DEF Work

\* Requests and backlogs neither store nor finish anything.
LEMMA RegistersOnly ==
  ASSUME TypeOK,
         \/ \E t \in Trigger : Request(t)
         \/ \E b \in Backlog, k \in BacklogKind : CheckBacklog(b, k)
         \/ \E b \in Backlog : RunBacklog(b) \/ AbandonBacklog(b)
  PROVE  /\ UNCHANGED db
         /\ \A s \in Slot : \/ job'[s] = job[s] /\ kind'[s] = kind[s]
                            \/ \A n \in Notice : job'[s][n] \in {"queued", "none"}
  <1>a. Trigger \subseteq Slot /\ Backlog \subseteq Slot
    BY DEF Slot
  <1>b. ASSUME NEW u \in Slot, NEW k, NEW S, Register(u, k, S)
        PROVE  \A s \in Slot : \/ job'[s] = job[s] /\ kind'[s] = kind[s]
                               \/ \A n \in Notice : job'[s][n] \in {"queued", "none"}
    BY <1>b DEF Register, TypeOK
  <1>1. ASSUME NEW t \in Trigger, Request(t)
        PROVE  UNCHANGED db /\ \E k, S : Register(t, k, S)
    BY <1>1 DEF Request, StartBatch, Precollect
  <1>2. ASSUME NEW b \in Backlog, NEW k \in BacklogKind, CheckBacklog(b, k)
        PROVE  UNCHANGED db /\ Register(b, k, {})
    BY <1>2 DEF CheckBacklog
  <1>3. ASSUME NEW b \in Backlog, RunBacklog(b) \/ AbandonBacklog(b)
        PROVE  UNCHANGED db /\ (UNCHANGED registry \/ \E S : Register(b, kind[b], S))
    BY <1>3 DEF RunBacklog, RegisterBacklog, AdvanceBacklog, FinishBacklog, AbandonBacklog
  <1> QED
    BY <1>1, <1>2, <1>3, <1>a, <1>b DEF registry

\* Nobody takes back the result of another job that is about to report it.
LEMMA DoneStep == TypeOK /\ OneJobPerNotice /\ DoneIsStored /\ [Next]_vars => DoneIsStored'
  <1> SUFFICES ASSUME TypeOK, OneJobPerNotice, DoneIsStored, [Next]_vars,
                      NEW s \in Slot, NEW n \in Notice, job'[s][n] = "done"
               PROVE  n \in stored'[kind'[s]] \/ n \notin notices'
    BY DEF DoneIsStored
  <1>a. kind[s] \in Kind
    BY DEF TypeOK
  <1>b. UNCHANGED db /\ job'[s] = job[s] /\ kind'[s] = kind[s]
          => n \in stored'[kind'[s]] \/ n \notin notices'
    BY DEF DoneIsStored, db
  <1>1. CASE \/ \E t \in Trigger : Request(t)
             \/ \E b \in Backlog, k \in BacklogKind : CheckBacklog(b, k)
             \/ \E b \in Backlog : RunBacklog(b) \/ AbandonBacklog(b)
    BY <1>1, <1>b, RegistersOnly
  <1>2. ASSUME NEW u \in Slot, NEW m \in Notice, Work(u, m) \/ Raise(u, m)
        PROVE  n \in stored'[kind'[s]] \/ n \notin notices'
    <2>1. PICK state : /\ To(u, m, state)
                       /\ state = "done" => m \in stored'[kind[u]]
      BY <1>2, WorkStores
    <2>2. UNCHANGED <<notices, kind>> /\ Active(u, m)
      BY <1>2, WorkStores
         DEF Work, Begin, ReadText, ReadFiles, StoreText, SaveTexts, GiveUp, StoreNormalized,
             FindChunks, StoreEmbedding, HasNoText, Report, Raise, Inside, Active, ActiveState
    <2>3. CASE u = s /\ m = n
      <3>1. state = "done"
        BY <2>1, <2>3 DEF To, TypeOK
      <3> QED
        BY <2>1, <2>2, <2>3, <3>1
    <2>4. CASE ~(u = s /\ m = n)
      <3>1. job[s][n] = "done"
        BY <2>1, <2>4 DEF To, TypeOK
      <3>2. n \in stored[kind[s]] \/ n \notin notices
        BY <3>1 DEF DoneIsStored
      <3>3. ASSUME n \in stored[kind[s]], n \notin stored'[kind[s]] PROVE FALSE
        <4>1. m = n /\ kind[s] = kind[u]
          BY <1>2, <1>a, <3>3, WorkStores
        <4>2. Active(s, n)
          BY <3>1 DEF Active, ActiveState
        <4> QED
          BY <2>2, <2>4, <4>1, <4>2 DEF OneJobPerNotice
      <3> QED
        BY <2>2, <3>2, <3>3
    <2> QED
      BY <2>3, <2>4
  <1>3. ASSUME NEW m \in Notice, DeleteNotice(m)
        PROVE  n \in stored'[kind'[s]] \/ n \notin notices'
    BY <1>3, <1>a DEF DeleteNotice, DoneIsStored, registry
  <1>4. CASE Crash
    BY <1>4 DEF Crash, FreshJob
  <1>5. CASE UNCHANGED vars
    BY <1>5, <1>b DEF vars, registry
  <1> QED
    BY <1>1, <1>2, <1>3, <1>4, <1>5 DEF Next

\* A job that goes to report a result has just stored or found it; when it
\* reports it, it is there or the notice is not.
LEMMA CompletedStep ==
  ASSUME TypeOK, DoneIsStored, [Next]_vars, NEW s \in Slot, NEW n \in Notice, Active(s, n)
  PROVE  /\ job[s][n] # "done" /\ job'[s][n] \in {"done", "completed"} =>
              n \in stored'[kind[s]]
         /\ job'[s][n] = "completed" => n \in stored'[kind[s]] \/ n \notin notices'
  <1>a. job[s][n] # "completed" /\ kind[s] \in Kind
    BY DEF Active, ActiveState, TypeOK
  <1>1. CASE \/ \E t \in Trigger : Request(t)
             \/ \E b \in Backlog, k \in BacklogKind : CheckBacklog(b, k)
             \/ \E b \in Backlog : RunBacklog(b) \/ AbandonBacklog(b)
    BY <1>1, <1>a, RegistersOnly
  <1>2. ASSUME NEW u \in Slot, NEW m \in Notice, Work(u, m) \/ Raise(u, m),
               job'[s][n] # job[s][n]
        PROVE  /\ job'[s][n] = "done" => n \in stored'[kind[s]]
               /\ job'[s][n] = "completed" =>
                    job[s][n] = "done" /\ UNCHANGED <<stored, notices>>
    <2>1. PICK state : /\ To(u, m, state)
                       /\ state = "done" => m \in stored'[kind[u]]
                       /\ state = "completed" => job[u][m] = "done" /\ UNCHANGED stored
      BY <1>2, WorkStores
    <2>2. u = s /\ m = n /\ state = job'[s][n]
      BY <1>2, <2>1 DEF To, TypeOK
    <2> QED
      BY <1>2, <2>1, <2>2, WorkStores
  <1>3. CASE \/ \E m \in Notice : DeleteNotice(m)
             \/ Crash
             \/ UNCHANGED vars
    BY <1>3, <1>a DEF DeleteNotice, Crash, FreshJob, vars, registry
  <1> QED
    BY <1>1, <1>2, <1>3, <1>a DEF Next, DoneIsStored

\* COMPLETED goes back to a stored result, and is true of a notice that exists.
THEOREM StoredCorrect == Spec => CompletedWasStored
  <1>1. Init => OneJobPerNotice /\ DoneIsStored
    BY DEF Init, FreshJob, OneJobPerNotice, DoneIsStored, Active, ActiveState
  <1>2. TypeOK /\ DoneIsStored /\ [Next]_vars =>
          [\A s \in Slot, n \in Notice : Active(s, n) =>
             /\ job[s][n] # "done" /\ job'[s][n] \in {"done", "completed"} =>
                  n \in stored'[kind[s]]
             /\ job'[s][n] = "completed" => n \in stored'[kind[s]] \/ n \notin notices']_vars
    BY CompletedStep
  <1> QED
    BY <1>1, <1>2, TypeInit, TypeStep, OneJobStep, DoneStep, PTL DEF Spec, CompletedWasStored
=============================================================================
