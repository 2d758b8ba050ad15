------------------------ MODULE NoticeEmbeddingProofs ------------------------
(***************************************************************************)
(* What a call that answered embedded=True has left behind can be searched,*)
(* for any number of calls, recollections, OCR jobs and losses of Chroma;  *)
(* and what a call reuses is of the current file if calls do not overlap.  *)
(***************************************************************************)
EXTENDS NoticeEmbedding, TLAPS

\* Nothing is open and nothing is embedded at first.
LEMMA TypeInit == Init => TypeOK
  BY EmbeddingBoundAssumption
     DEF Init, TypeOK, Calls, IdleTask, Call, FirstFile, TaskState, Resting, Attachment,
         Version, Text, Time, None

\* One step per stage of a call, and one per thing that changes underneath.
LEMMA TypeStep == TypeOK /\ [Next]_vars => TypeOK'
  <1> SUFFICES ASSUME TypeOK, [Next]_vars PROVE TypeOK'
    OBVIOUS
  <1> USE DEF TypeOK, Calls, TaskState, Resting
  <1>a. FirstFile \in Attachment /\ "null" \in Text /\ None \notin Time
    BY EmbeddingBoundAssumption DEF FirstFile, Attachment, Version, Text, Time, None
  <1>b. clock < MaxTime => clock + 1 \in Time /\ clock + 1 \in 0 .. MaxTime
    BY EmbeddingBoundAssumption DEF Time
  <1>c. ASSUME NEW t \in Task, task[t].pc \notin Resting
        PROVE  OwnGeneration(t) \in Generation
    BY <1>c DEF OwnGeneration, Generation, Attachment
  <1>1. ASSUME NEW t \in Task, Start(t) PROVE TypeOK'
    BY <1>1, <1>a, <1>b, <1>c DEF Start, Call
  <1>2. ASSUME NEW t \in Task, Read(t) PROVE TypeOK'
    BY <1>2, <1>a, <1>b, <1>c DEF Read, Attachment, Text
  <1>3. ASSUME NEW t \in Task, OcrFails(t) PROVE TypeOK'
    BY <1>3, <1>a, <1>b, <1>c DEF OcrFails, Goto
  <1>4. ASSUME NEW t \in Task, Check(t) PROVE TypeOK'
    BY <1>4, <1>a, <1>b, <1>c DEF Check
  <1>5. ASSUME NEW t \in Task, Verify(t) PROVE TypeOK'
    BY <1>5, <1>a, <1>b, <1>c DEF Verify, Goto
  <1>6. ASSUME NEW t \in Task, Embed(t) PROVE TypeOK'
    BY <1>6, <1>a, <1>b, <1>c DEF Embed, Goto
  <1>7. ASSUME NEW t \in Task, BeginDelete(t) PROVE TypeOK'
    BY <1>7, <1>a, <1>b, <1>c DEF BeginDelete
  <1>8. ASSUME NEW t \in Task, InsertChunks(t) PROVE TypeOK'
    BY <1>8, <1>a, <1>b, <1>c DEF InsertChunks, Goto
  <1>9. ASSUME NEW t \in Task, Upsert(t) PROVE TypeOK'
    BY <1>9, <1>a, <1>b, <1>c DEF Upsert, Goto
  <1>10. ASSUME NEW t \in Task, Commit(t) PROVE TypeOK'
    <2>1. task[t] \in Calls /\ task[t].at \in Time /\ attachment \in Attachment
      BY <1>10 DEF Commit
    <2>2. attachment' \in Attachment /\ attachment'.file = attachment.file
      BY <1>10, <2>1 DEF Commit, Attachment
    <2>3. chunks' \subseteq Generation
      BY <1>10, <1>c DEF Commit
    <2>4. IdleTask \in Calls /\ IdleTask.pc \in Resting
      BY <1>a DEF IdleTask, Call
    <2>5. Call("answered", None, task[t].read) \in Calls
      BY <1>a, <2>1 DEF Call
    <2>6. task' \in [Task -> Calls] /\ task'[t].pc \in Resting
      BY <1>10, <2>4, <2>5 DEF Commit, Call
    <2>7. \A u \in Task \ {t} : task'[u] = task[u]
      BY <1>10 DEF Commit
    <2> QED
      BY <1>10, <2>2, <2>3, <2>6, <2>7 DEF Commit
  <1>11. ASSUME NEW t \in Task, Raise(t) PROVE TypeOK'
    BY <1>11, <1>a, <1>b, <1>c DEF Raise, IdleTask, Call
  <1>12. ASSUME NEW t \in Task, NEW text \in {"blank", "text"}, Ocr(t, text) PROVE TypeOK'
    <2>1. task[t] \in Calls /\ text \in Text /\ task[t].at \in Time
      BY <1>12 DEF Ocr, Text
    <2>2. [task[t].read EXCEPT !.text = text] \in Attachment
      BY <2>1 DEF Attachment
    <2>3. CASE attachment.file = task[t].read.file
      <3>1. task'[t] = [task[t] EXCEPT !.ocr = text, !.read.text = text,
                          !.pc = IF text = "blank" THEN "skipping" ELSE "checking"]
        BY <1>12, <2>3 DEF Ocr
      <3>2. task'[t] \in Calls /\ task'[t].at = task[t].at
        BY <2>1, <2>2, <3>1
      <3> QED
        BY <1>12, <2>1, <2>3, <3>2 DEF Ocr
    <2>4. CASE attachment.file # task[t].read.file
      BY <1>12, <1>a, <2>1, <2>4 DEF Ocr, Goto
    <2> QED
      BY <2>3, <2>4
  <1>13. CASE BeginRecollect
    BY <1>13, <1>a, <1>b DEF BeginRecollect
  <1>14. CASE CommitRecollect
    BY <1>14, <1>a, EmbeddingBoundAssumption DEF CommitRecollect, Attachment, Version
  <1>15. CASE ReadForOcr
    BY <1>15 DEF ReadForOcr, Attachment
  <1>16. CASE LoseVectors
    BY <1>16, <1>a, EmbeddingBoundAssumption DEF LoseVectors, IdleTask, Call
  <1>17. ASSUME NEW text \in {"blank", "text"}, SaveOcr(text) PROVE TypeOK'
    BY <1>17, <1>b DEF SaveOcr, Attachment, Text
  <1>18. CASE AbandonRecollect
    BY <1>18 DEF AbandonRecollect
  <1>19. CASE OcrJobFails
    BY <1>19 DEF OcrJobFails
  <1>20. ASSUME NEW t \in Task, CheckUnreadable(t) PROVE TypeOK'
    BY <1>20, <1>a DEF CheckUnreadable, Call
  <1>21. CASE UNCHANGED vars
    BY <1>21 DEF vars
  <1> QED
    BY <1>1, <1>2, <1>3, <1>4, <1>5, <1>6, <1>7, <1>8, <1>9, <1>10, <1>11, <1>12, <1>13,
       <1>14, <1>15, <1>16, <1>17, <1>18, <1>19, <1>20, <1>21
       DEF Next, Proceed

\* Calls, rows and vectors are what their readers take them for.
THEOREM TypeCorrect == Spec => []TypeOK
  BY TypeInit, TypeStep, PTL DEF Spec
-----------------------------------------------------------------------------
\* No call has answered and none is under way.
LEMMA SearchInit == Init => SearchInv
  BY DEF Init, SearchInv, NewRowsAreSearchable, ReusedRowsAreSearchable,
         OwnRowsAreSearchable, AnswerIsSearchable, IdleTask, Call

\* A step keeps what every call relies on: rows become visible only with their
\* vectors, and vectors go only when every open call goes with them.
LEMMA SearchStep == TypeOK /\ SearchInv /\ [Next]_vars => SearchInv'
  <1> SUFFICES ASSUME TypeOK, SearchInv, [Next]_vars PROVE SearchInv'
    OBVIOUS
  <1> USE DEF TypeOK, SearchInv, NewRowsAreSearchable, ReusedRowsAreSearchable,
              OwnRowsAreSearchable, AnswerIsSearchable, OwnGeneration, Calls, Attachment, Text
  <1>1. ASSUME NEW t \in Task, Start(t) PROVE SearchInv'
    BY <1>1 DEF Start, Call
  <1>2. ASSUME NEW t \in Task, Read(t) PROVE SearchInv'
    BY <1>2 DEF Read
  <1>3. ASSUME NEW t \in Task, OcrFails(t) PROVE SearchInv'
    BY <1>3 DEF OcrFails, Goto
  <1>4. ASSUME NEW t \in Task, Check(t) PROVE SearchInv'
    BY <1>4 DEF Check
  <1>5. ASSUME NEW t \in Task, Verify(t) PROVE SearchInv'
    BY <1>5 DEF Verify, Goto
  <1>6. ASSUME NEW t \in Task, Embed(t) PROVE SearchInv'
    BY <1>6 DEF Embed, Goto
  <1>7. ASSUME NEW t \in Task, BeginDelete(t) PROVE SearchInv'
    BY <1>7 DEF BeginDelete
  <1>8. ASSUME NEW t \in Task, InsertChunks(t) PROVE SearchInv'
    BY <1>8 DEF InsertChunks, Goto
  <1>9. ASSUME NEW t \in Task, Upsert(t) PROVE SearchInv'
    BY <1>9 DEF Upsert, Goto
  <1>10. ASSUME NEW t \in Task, Commit(t) PROVE SearchInv'
    <2>1. vectors' = vectors /\ task'[t].pc \in {"idle", "answered"}
      BY <1>10 DEF Commit, Call, IdleTask
    <2>2. \A u \in Task \ {t} : task'[u] = task[u]
      BY <1>10 DEF Commit
    <2>3. chunks' \subseteq chunks \cup vectors
      BY <1>10 DEF Commit
    <2>4. chunks' # {} \/ (chunks' = {} /\ chunks = {})
      BY <1>10 DEF Commit
    <2>5. task'[t].pc = "answered" => chunks' # {} /\ chunks' \subseteq vectors
      <3>1. CASE task[t].pc = "upserted"
        BY <1>10, <3>1 DEF Commit
      <3>2. CASE task[t].pc = "reusing"
        BY <1>10, <3>2 DEF Commit
      <3>3. CASE task[t].pc = "skipping"
        BY <1>10, <3>3 DEF Commit, IdleTask, Call
      <3> QED
        BY <1>10, <3>1, <3>2, <3>3 DEF Commit
    <2>6. ASSUME NEW u \in Task, u # t, task[u].pc = "answered"
          PROVE  chunks' # {} /\ chunks' \subseteq vectors
      BY <2>3, <2>4, <2>6
    <2> QED
      BY <2>1, <2>2, <2>3, <2>4, <2>5, <2>6
  <1>11. ASSUME NEW t \in Task, Raise(t) PROVE SearchInv'
    BY <1>11 DEF Raise, IdleTask, Call
  <1>12. ASSUME NEW t \in Task, NEW text \in {"blank", "text"}, Ocr(t, text) PROVE SearchInv'
    BY <1>12 DEF Ocr, Goto
  <1>13. CASE BeginRecollect
    BY <1>13 DEF BeginRecollect
  <1>14. CASE CommitRecollect
    BY <1>14 DEF CommitRecollect
  <1>15. CASE ReadForOcr
    BY <1>15 DEF ReadForOcr
  <1>16. CASE LoseVectors
    BY <1>16 DEF LoseVectors, IdleTask, Call
  <1>17. ASSUME NEW text \in {"blank", "text"}, SaveOcr(text) PROVE SearchInv'
    BY <1>17 DEF SaveOcr
  <1>18. CASE AbandonRecollect
    BY <1>18 DEF AbandonRecollect
  <1>19. CASE OcrJobFails
    BY <1>19 DEF OcrJobFails
  <1>20. ASSUME NEW t \in Task, CheckUnreadable(t) PROVE SearchInv'
    BY <1>20 DEF CheckUnreadable, Call
  <1>21. CASE UNCHANGED vars
    BY <1>21 DEF vars
  <1> QED
    BY <1>1, <1>2, <1>3, <1>4, <1>5, <1>6, <1>7, <1>8, <1>9, <1>10, <1>11,
       <1>12, <1>13, <1>14, <1>15, <1>16, <1>17, <1>18, <1>19, <1>20, <1>21
       DEF Next, Proceed

\* The rows a call answers with have their vectors, whatever ran beside it.
THEOREM SearchCorrect == Spec => []AnswerIsSearchable
  <1>1. Spec => [](TypeOK /\ SearchInv)
    BY TypeInit, TypeStep, SearchInit, SearchStep, PTL DEF Spec
  <1>2. SearchInv => AnswerIsSearchable
    BY DEF SearchInv
  <1> QED
    BY <1>1, <1>2, PTL

-----------------------------------------------------------------------------
\* The latest of one generation.
LEMMA LatestOfOne ==
    ASSUME NEW g, g.at \in Int
    PROVE  Latest({g}) = g.at
  <1>1. {h.at : h \in {g}} = {g.at}
    OBVIOUS
  <1> QED
    BY <1>1 DEF Latest, Max

\* While calls come one at a time a step keeps the order of files, texts and rows.
LEMMA CurrentStep == TypeOK /\ OneAtATime /\ CurrentInv /\ [Next]_vars => CurrentInv'
  <1> SUFFICES ASSUME TypeOK, OneAtATime, CurrentInv, [Next]_vars PROVE CurrentInv'
    OBVIOUS
  <1>1. /\ clock \in Int /\ attachment.at \in Int
        /\ \A g \in chunks : g.at \in Int
        /\ \A t \in Task : task[t].at \in Int /\ task[t].read.at \in Int
        /\ task \in [Task -> Calls]
    BY EmbeddingBoundAssumption
       DEF TypeOK, Attachment, Generation, Calls, Time, None
  <1>2. \A t \in Task : IF task[t].pc \in Resting THEN task[t].ocr = "null" ELSE CallInv(task[t])
    BY DEF CurrentInv
  <1>3. ASSUME UNCHANGED <<clock, attachment, chunks>>, NEW t \in Task,
               \A u \in Task \ {t} : task'[u] = task[u],
               IF task'[t].pc \in Resting THEN task'[t].ocr = "null" ELSE CallInv(task[t])'
        PROVE  CurrentInv'
    BY <1>3 DEF CurrentInv, RowsInv, CallInv
  <1>4. ASSUME NEW t \in Task, Start(t) PROVE CurrentInv'
    <2>1. /\ clock' = clock + 1 /\ UNCHANGED <<attachment, chunks>>
          /\ task'[t] = Call("reading", clock + 1, FirstFile)
          /\ \A u \in Task \ {t} : task'[u] = task[u]
      BY <1>1, <1>4 DEF Start
    <2>2. RowsInv'
      BY <1>1, <2>1 DEF CurrentInv, RowsInv
    <2>3. task'[t].pc \notin Resting /\ CallInv(task[t])'
      BY <1>1, <2>1 DEF CurrentInv, RowsInv, CallInv, Call, Resting
    <2>4. ASSUME NEW u \in Task \ {t}, task[u].pc \notin Resting PROVE CallInv(task[u])'
      BY <1>1, <1>2, <2>1, <2>4 DEF CallInv
    <2> QED
      BY <1>2, <2>1, <2>2, <2>3, <2>4 DEF CurrentInv
  <1>5. ASSUME NEW t \in Task, Read(t) PROVE CurrentInv'
    <2>1. /\ UNCHANGED <<clock, attachment, chunks>>
          /\ task' = [task EXCEPT
               ![t].read = attachment,
               ![t].pc = CASE attachment.text = "null"  -> "ocr"
                           [] attachment.text = "blank" -> "skipping"
                           [] attachment.text = "text"  -> "checking"]
          /\ attachment.text \in {"null", "blank", "text"}
      BY <1>5 DEF Read, TypeOK, Attachment, Text
    <2>2. task[t].pc = "reading" /\ CallInv(task[t])
      BY <1>2, <1>5 DEF Read, Resting
    <2>3. /\ task'[t].read = attachment /\ task'[t].ocr = task[t].ocr /\ task'[t].at = task[t].at
          /\ \/ task'[t].pc = "ocr"
             \/ task'[t].pc = "skipping"
             \/ task'[t].pc = "checking" /\ attachment.text = "text"
          /\ \A u \in Task \ {t} : task'[u] = task[u]
      BY <1>1, <2>1 DEF Calls
    <2>4. task'[t].pc \notin Resting /\ CallInv(task[t])'
      BY <2>1, <2>2, <2>3 DEF CurrentInv, RowsInv, CallInv, Resting
    <2> QED
      BY <1>3, <2>1, <2>3, <2>4
  <1>6. ASSUME NEW t \in Task, NEW text \in {"blank", "text"}, Ocr(t, text) PROVE CurrentInv'
    <2>1. UNCHANGED <<clock, attachment, chunks>> /\ task[t].pc = "ocr" /\ CallInv(task[t])
      BY <1>2, <1>6 DEF Ocr, Resting
    <2>2. CASE attachment.file = task[t].read.file
      <3>1. task' = [task EXCEPT ![t].ocr = text, ![t].read.text = text,
                       ![t].pc = IF text = "blank" THEN "skipping" ELSE "checking"]
        BY <1>6, <2>2 DEF Ocr
      <3>2. /\ task'[t].ocr = text /\ task'[t].at = task[t].at
            /\ task'[t].read.file = task[t].read.file
            /\ task'[t].pc \in {"skipping", "checking"}
            /\ \A u \in Task \ {t} : task'[u] = task[u]
        BY <1>1, <3>1 DEF Calls, Attachment
      <3>3. task'[t].pc \notin Resting /\ CallInv(task[t])'
        BY <2>1, <2>2, <3>2 DEF CallInv, Resting
      <3> QED
        BY <1>3, <2>1, <3>2, <3>3
    <2>3. CASE attachment.file # task[t].read.file
      <3>1. /\ task'[t] = [task[t] EXCEPT !.pc = "skipping"]
            /\ \A u \in Task \ {t} : task'[u] = task[u]
        BY <1>1, <1>6, <2>3 DEF Ocr, Goto
      <3>2. task'[t].pc \notin Resting /\ CallInv(task[t])'
        BY <1>1, <2>1, <3>1 DEF CallInv, Resting, Calls
      <3> QED
        BY <1>3, <2>1, <3>1, <3>2
    <2> QED
      BY <2>2, <2>3
  <1>7. ASSUME NEW t \in Task, OcrFails(t) PROVE CurrentInv'
    <2>1. /\ UNCHANGED <<clock, attachment, chunks>> /\ task[t].pc = "ocr" /\ CallInv(task[t])
          /\ task'[t] = [task[t] EXCEPT !.pc = "skipping"]
          /\ \A u \in Task \ {t} : task'[u] = task[u]
      BY <1>1, <1>2, <1>7 DEF OcrFails, Goto, Resting
    <2>2. task'[t].pc \notin Resting /\ CallInv(task[t])'
      BY <1>1, <2>1 DEF CallInv, Resting, Calls
    <2> QED
      BY <1>3, <2>1, <2>2
  <1>8. ASSUME NEW t \in Task, Check(t) PROVE CurrentInv'
    <2>1. /\ UNCHANGED <<clock, attachment, chunks>> /\ task[t].pc = "checking"
          /\ task[t].ocr = "null" \/ chunks = {}
          /\ CallInv(task[t])
      BY <1>2, <1>8 DEF Check, Resting
    <2>2. /\ task'[t] = [task[t] EXCEPT !.seen = chunks,
                           !.pc = IF chunks # {} /\ ~Stale(t, chunks) THEN "verifying" ELSE "embedding"]
          /\ \A u \in Task \ {t} : task'[u] = task[u]
      BY <1>1, <1>8 DEF Check
    <2>3. /\ task'[t].seen = chunks /\ task'[t].at = task[t].at
          /\ task'[t].ocr = task[t].ocr /\ task'[t].read = task[t].read
          /\ task'[t].pc = IF chunks # {} /\ ~Stale(t, chunks) THEN "verifying" ELSE "embedding"
      BY <1>1, <2>2 DEF Calls
    <2>4. ASSUME chunks # {}, ~Stale(t, chunks) PROVE \A g \in chunks : g.file = task[t].read.file
      <3>1. PICK g : chunks = {g}
        BY <2>4 DEF CurrentInv, RowsInv
      <3>2. Latest(chunks) = g.at
        BY <1>1, <3>1, LatestOfOne
      <3>3. ~(g.at < task[t].read.at)
        BY <1>1, <2>4, <3>1, <3>2 DEF Stale
      <3> QED
        BY <2>1, <2>4, <3>1, <3>3 DEF CallInv
    <2>5. task'[t].pc \notin Resting /\ CallInv(task[t])'
      BY <2>1, <2>3, <2>4 DEF CallInv, Resting
    <2> QED
      BY <1>3, <2>1, <2>2, <2>5
  <1>9. ASSUME NEW t \in Task, CheckUnreadable(t) PROVE CurrentInv'
    <2>1. /\ UNCHANGED <<clock, attachment, chunks>>
          /\ task'[t].pc = "unreadable" /\ task'[t].ocr = "null"
          /\ \A u \in Task \ {t} : task'[u] = task[u]
      BY <1>1, <1>9 DEF CheckUnreadable, Call
    <2> QED
      BY <1>3, <2>1 DEF Resting
  <1>10. ASSUME NEW t \in Task, Verify(t) PROVE CurrentInv'
    <2>1. /\ UNCHANGED <<clock, attachment, chunks>> /\ task[t].pc = "verifying"
          /\ CallInv(task[t])
          /\ \/ task'[t] = [task[t] EXCEPT !.pc = "reusing"]
             \/ task'[t] = [task[t] EXCEPT !.pc = "embedding"]
          /\ \A u \in Task \ {t} : task'[u] = task[u]
      BY <1>1, <1>2, <1>10 DEF Verify, Goto, Resting
    <2>2. task'[t].pc \notin Resting /\ CallInv(task[t])'
      BY <1>1, <2>1 DEF CallInv, Resting, Calls
    <2> QED
      BY <1>3, <2>1, <2>2
  <1>11. ASSUME NEW t \in Task, Embed(t) \/ BeginDelete(t) \/ InsertChunks(t) \/ Upsert(t)
         PROVE  CurrentInv'
    <2>1. UNCHANGED <<clock, attachment, chunks>> /\ \A u \in Task \ {t} : task'[u] = task[u]
      BY <1>1, <1>11 DEF Embed, BeginDelete, InsertChunks, Upsert, Goto
    <2>2. task[t].pc \in {"embedding", "replacing", "deleting", "inserted"} /\ CallInv(task[t])
      BY <1>2, <1>11 DEF Embed, BeginDelete, InsertChunks, Upsert, Resting
    <2>3. /\ task'[t].at = task[t].at /\ task'[t].ocr = task[t].ocr
          /\ task'[t].read = task[t].read
          /\ \/ task'[t].pc = "replacing"
             \/ task'[t].pc = "deleting" /\ task'[t].seen = chunks
             \/ /\ task'[t].pc \in {"inserted", "upserted"} /\ task'[t].seen = task[t].seen
                /\ task[t].pc \in {"deleting", "inserted"}
      BY <1>1, <1>11 DEF Embed, BeginDelete, InsertChunks, Upsert, Goto, Calls
    <2>4. task'[t].pc \notin Resting /\ CallInv(task[t])'
      BY <2>1, <2>2, <2>3 DEF CallInv, Resting
    <2> QED
      BY <1>3, <2>1, <2>4
  <1>12. ASSUME NEW t \in Task, Commit(t) PROVE CurrentInv'
    <2>1. /\ task[t].pc \in {"upserted", "reusing", "skipping"} /\ CallInv(task[t])
          /\ UNCHANGED clock
          /\ attachment' = IF task[t].ocr = "null" THEN attachment
                           ELSE [attachment EXCEPT !.text = task[t].ocr, !.at = task[t].at]
          /\ chunks' = IF task[t].pc = "upserted"
                       THEN (chunks \ task[t].seen) \cup {OwnGeneration(t)}
                       ELSE chunks
      BY <1>2, <1>12 DEF Commit, Resting
    <2>2. /\ task'[t].pc \in Resting /\ task'[t].ocr = "null"
          /\ \A u \in Task \ {t} : task'[u] = task[u]
      BY <1>1, <1>12 DEF Commit, IdleTask, Call, Resting
    <2>3. \A u \in Task \ {t} : task[u].pc \in Resting
      BY <2>1 DEF OneAtATime, Resting
    <2>4. chunks' \in {chunks, {OwnGeneration(t)}}
      BY <2>1 DEF CallInv
    <2>5. /\ attachment'.file = attachment.file
          /\ \/ attachment' = attachment /\ task[t].ocr = "null"
             \/ attachment'.at = task[t].at /\ task[t].read.file = attachment.file
      BY <2>1 DEF CallInv, TypeOK, Attachment
    <2>6. OwnGeneration(t).file = task[t].read.file /\ OwnGeneration(t).at = task[t].at
      BY DEF OwnGeneration
    <2>7. \A g \in chunks' : g.at <= clock
      BY <1>1, <2>1, <2>4, <2>6 DEF CurrentInv, RowsInv, CallInv
    <2>8. attachment'.text # "null" =>
              \A g \in chunks' : g.file = attachment'.file \/ g.at < attachment'.at
      <3>1. CASE attachment' = attachment
        BY <2>1, <2>4, <2>6, <3>1 DEF CurrentInv, RowsInv, CallInv
      <3>2. CASE attachment'.at = task[t].at /\ task[t].read.file = attachment.file
        BY <2>1, <2>4, <2>5, <2>6, <3>2 DEF CallInv
      <3> QED
        BY <2>5, <3>1, <3>2
    <2>9. \A g, h \in chunks' : g = h
      BY <2>4 DEF CurrentInv, RowsInv
    <2> QED
      BY <1>2, <2>1, <2>2, <2>3, <2>7, <2>8, <2>9 DEF CurrentInv, RowsInv
  <1>13. ASSUME NEW t \in Task, Raise(t) PROVE CurrentInv'
    <2>1. /\ UNCHANGED <<clock, attachment, chunks>>
          /\ task'[t].pc = "idle" /\ task'[t].ocr = "null"
          /\ \A u \in Task \ {t} : task'[u] = task[u]
      BY <1>1, <1>13 DEF Raise, IdleTask, Call
    <2> QED
      BY <1>3, <2>1 DEF Resting
  <1>14. ASSUME BeginRecollect PROVE CurrentInv'
    <2>1. clock' = clock + 1 /\ UNCHANGED <<attachment, chunks, task>>
      BY <1>14 DEF BeginRecollect
    <2>2. ASSUME NEW t \in Task, CallInv(task[t]) PROVE CallInv(task[t])'
      BY <1>1, <2>1, <2>2 DEF CallInv
    <2> QED
      BY <1>1, <2>1, <2>2 DEF CurrentInv, RowsInv
  <1>15. ASSUME CommitRecollect PROVE CurrentInv'
    <2>1. /\ UNCHANGED <<clock, chunks, task>> /\ attachment'.text = "null"
          /\ \A t \in Task : task[t].ocr = "null"
      BY <1>15 DEF CommitRecollect, AttachmentFree
    <2>2. ASSUME NEW t \in Task, CallInv(task[t]) PROVE CallInv(task[t])'
      BY <2>1, <2>2 DEF CallInv
    <2> QED
      BY <2>1, <2>2 DEF CurrentInv, RowsInv
  <1>16. ASSUME NEW text \in {"blank", "text"}, SaveOcr(text) PROVE CurrentInv'
    <2>1. /\ clock' = clock + 1 /\ UNCHANGED <<chunks, task>>
          /\ \A t \in Task : task[t].ocr = "null"
          /\ \/ attachment' = attachment
             \/ attachment'.file = attachment.file /\ attachment'.at = clock + 1
      BY <1>16 DEF SaveOcr, AttachmentFree, TypeOK, Attachment
    <2>2. ASSUME NEW t \in Task, CallInv(task[t]) PROVE CallInv(task[t])'
      <3>1. task[t].at <= clock'
        BY <1>1, <2>1, <2>2 DEF CallInv
      <3>2. attachment'.text # "null" /\ task[t].pc # "reading" =>
               task[t].read.file = attachment'.file \/ task[t].at < attachment'.at
        BY <1>1, <2>1, <2>2 DEF CallInv
      <3> QED
        BY <2>1, <2>2, <3>1, <3>2 DEF CallInv
    <2>3. RowsInv'
      BY <1>1, <2>1 DEF CurrentInv, RowsInv
    <2> QED
      BY <2>1, <2>2, <2>3 DEF CurrentInv
  <1>17. ASSUME AbandonRecollect \/ ReadForOcr \/ OcrJobFails PROVE CurrentInv'
    BY <1>17 DEF AbandonRecollect, ReadForOcr, OcrJobFails, CurrentInv, RowsInv, CallInv
  <1>18. ASSUME LoseVectors PROVE CurrentInv'
    BY <1>18 DEF LoseVectors, IdleTask, Call, Resting, CurrentInv, RowsInv
  <1>19. ASSUME UNCHANGED vars PROVE CurrentInv'
    BY <1>19 DEF vars, CurrentInv, RowsInv, CallInv
  <1> QED
    BY <1>4, <1>5, <1>6, <1>7, <1>8, <1>9, <1>10, <1>11, <1>12, <1>13, <1>14, <1>15, <1>16,
       <1>17, <1>18, <1>19 DEF Next, Proceed

\* A call that nothing overlaps reuses rows of the file that it has read.
THEOREM ReuseCorrect == Spec => ReusedRowsAreCurrent
  <1> DEFINE Current == \A t \in Task : task[t].pc = "reusing" =>
                           \A g \in task[t].seen : g.file = task[t].read.file
  <1>1. Init => CurrentInv
    BY DEF Init, CurrentInv, RowsInv, IdleTask, Call, Resting
  <1>2. TypeOK /\ OneAtATime /\ CurrentInv /\ [Next]_vars => CurrentInv'
    BY CurrentStep
  <1>3. CurrentInv => Current
    BY DEF CurrentInv, CallInv, Resting
  <1> QED
    BY <1>1, <1>2, <1>3, TypeCorrect, PTL DEF Spec, ReusedRowsAreCurrent
=============================================================================
