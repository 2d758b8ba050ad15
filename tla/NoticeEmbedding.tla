--------------------------- MODULE NoticeEmbedding ---------------------------
(***************************************************************************)
(* The embedding of one notice (notice_embedding_service): the text of its *)
(* attachment is cut into notice_chunk rows, and each row's id names a     *)
(* vector in Chroma.  Matching runs, the embedding jobs and the backlog    *)
(* all call ensure_notice_embedded, each in a session of its own, while    *)
(* recollection replaces the attachment and the OCR job fills in its text. *)
(*                                                                         *)
(* PostgreSQL and Chroma share no transaction.  `attachment` and `chunks`  *)
(* hold committed rows; what an open session has written is in `task`.     *)
(* created_at and updated_at are now(), the start of the transaction.  The *)
(* rows one call inserts are kept together as a generation, told from the  *)
(* others by that time.                                                    *)
(***************************************************************************)
EXTENDS Integers, FiniteSets, FiniteSetsExt

CONSTANTS
    Task,           \* slots for calls of ensure_notice_embedded
    MaxTime,        \* bound: how many transactions are started
    MaxVersion,     \* bound: how many files the attachment has been
    MaxLosses       \* bound: how often the Chroma volume is lost

ASSUME EmbeddingBoundAssumption ==
    MaxTime \in Nat /\ MaxVersion \in Nat \ {0} /\ MaxLosses \in Nat

VARIABLES
    clock,          \* transactions started so far
    attachment,     \* the pick_ocr_target row: file, parsed_text, updated_at
    chunks,         \* committed generations of notice_chunk
    vectors,        \* generations that are in Chroma
    task,
    recollection,   \* the start of the open recollection, or None
    ocrJob,         \* the file the OCR job is reading, or None
    losses

vars == <<clock, attachment, chunks, vectors, task, recollection, ocrJob, losses>>

Time == 1 .. MaxTime
Version == 1 .. MaxVersion
Text == {"null", "blank", "text"}
None == 0

Attachment == [file : Version, text : Text, at : Time \cup {None}]
Generation == [file : Version, at : Time]

\* reading: session open.  ocr: downloading and extracting.  checking: text at
\* hand.  verifying: rows found, asking Chroma for their ids.  embedding: at
\* embed_texts.  replacing, deleting: before and inside the DELETE.  inserted:
\* rows flushed.  upserted: vectors stored.  reusing: rows and vectors are
\* good.  skipping: no text.  answered: committed with embedded=True.
\* unreadable: given up at an attribute that asyncio code cannot load.
TaskState == {"idle", "reading", "ocr", "checking", "verifying", "embedding",
              "replacing", "deleting", "inserted", "upserted", "reusing",
              "skipping", "answered", "unreadable"}
Resting == {"idle", "answered", "unreadable"}

\* read: the attachment as this session knows it.  ocr: the text it has put
\* there itself.  seen: the rows it has found, then those its DELETE covers.
Call(pc, at, read) == [pc |-> pc, at |-> at, ocr |-> "null", seen |-> {}, read |-> read]

Calls == [pc : TaskState, at : Time \cup {None}, ocr : Text, seen : SUBSET Generation,
          read : Attachment]

FirstFile == [file |-> 1, text |-> "null", at |-> None]
IdleTask == Call("idle", None, FirstFile)

Latest(gens) == Max({g.at : g \in gens})

OwnGeneration(t) == [file |-> task[t].read.file, at |-> task[t].at]

\* The attachment row is locked by a call that has written its text.
AttachmentLocked(t) == \E u \in Task \ {t} : task[u].ocr # "null"
AttachmentFree == \A t \in Task : task[t].ocr = "null"

\* The rows t wants to delete are being deleted by another open transaction.
ChunksLocked(t) ==
    \E u \in Task \ {t} :
        task[u].pc \in {"inserted", "upserted"} /\ task[u].seen \cap task[t].seen # {}

Goto(t, pc) == task' = [task EXCEPT ![t].pc = pc]

-----------------------------------------------------------------------------
(* ensure_notice_attachment_ocr                                            *)

Start(t) ==
    /\ task[t].pc \in Resting
    /\ clock < MaxTime
    /\ clock' = clock + 1
    /\ task' = [task EXCEPT ![t] = Call("reading", clock + 1, FirstFile)]
    /\ UNCHANGED <<attachment, chunks, vectors, recollection, ocrJob, losses>>

Read(t) ==
    /\ task[t].pc = "reading"
    /\ task' = [task EXCEPT
         ![t].read = attachment,
         ![t].pc = CASE attachment.text = "null"  -> "ocr"
                     [] attachment.text = "blank" -> "skipping"
                     [] attachment.text = "text"  -> "checking"]
    /\ UNCHANGED <<clock, attachment, chunks, vectors, recollection, ocrJob, losses>>

\* The text is written to the row, if the row is still there, and to the
\* object read before.  The UPDATE expires the object's updated_at, a column
\* the database computes (onupdate=func.now()).
Ocr(t, text) ==
    /\ task[t].pc = "ocr"
    /\ ~AttachmentLocked(t)
    /\ IF attachment.file = task[t].read.file
       THEN task' = [task EXCEPT ![t].ocr = text, ![t].read.text = text,
                       ![t].pc = IF text = "blank" THEN "skipping" ELSE "checking"]
       ELSE Goto(t, "skipping")
    /\ UNCHANGED <<clock, attachment, chunks, vectors, recollection, ocrJob, losses>>

OcrFails(t) ==
    /\ task[t].pc = "ocr"
    /\ Goto(t, "skipping")
    /\ UNCHANGED <<clock, attachment, chunks, vectors, recollection, ocrJob, losses>>

-----------------------------------------------------------------------------
(* ensure_notice_embedded                                                  *)

\* _chunks_are_stale, on the attachment as it was read.
Stale(t, gens) == task[t].read.at > Latest(gens)

Check(t) ==
    /\ task[t].pc = "checking"
    /\ task[t].ocr = "null" \/ chunks = {}
    /\ task' = [task EXCEPT
         ![t].seen = chunks,
         ![t].pc = IF chunks # {} /\ ~Stale(t, chunks) THEN "verifying" ELSE "embedding"]
    /\ UNCHANGED <<clock, attachment, chunks, vectors, recollection, ocrJob, losses>>

\* After OCR of its own, comparing updated_at with existing rows makes SQLAlchemy
\* load it again, outside of an await: MissingGreenlet, and the call is over.
CheckUnreadable(t) ==
    /\ task[t].pc = "checking"
    /\ task[t].ocr # "null" /\ chunks # {}
    /\ task' = [task EXCEPT ![t] = Call("unreadable", None, task[t].read)]
    /\ UNCHANGED <<clock, attachment, chunks, vectors, recollection, ocrJob, losses>>

\* MUTANT: the rows are trusted without asking Chroma.
VerifyRowsOnly(t) ==
    /\ task[t].pc = "verifying"
    /\ Goto(t, "reusing")
    /\ UNCHANGED <<clock, attachment, chunks, vectors, recollection, ocrJob, losses>>

\* _chunks_exist_in_chroma
Verify(t) ==
    /\ task[t].pc = "verifying"
    /\ Goto(t, IF task[t].seen \subseteq vectors THEN "reusing" ELSE "embedding")
    /\ UNCHANGED <<clock, attachment, chunks, vectors, recollection, ocrJob, losses>>

Embed(t) ==
    /\ task[t].pc = "embedding"
    /\ Goto(t, "replacing")
    /\ UNCHANGED <<clock, attachment, chunks, vectors, recollection, ocrJob, losses>>

\* replace_notice_chunks: the DELETE covers the rows committed by now, waits
\* for whoever is deleting them, and misses what that transaction inserts.
BeginDelete(t) ==
    /\ task[t].pc = "replacing"
    /\ task' = [task EXCEPT ![t].seen = chunks, ![t].pc = "deleting"]
    /\ UNCHANGED <<clock, attachment, chunks, vectors, recollection, ocrJob, losses>>

InsertChunks(t) ==
    /\ task[t].pc = "deleting"
    /\ ~ChunksLocked(t)
    /\ Goto(t, "inserted")
    /\ UNCHANGED <<clock, attachment, chunks, vectors, recollection, ocrJob, losses>>

Upsert(t) ==
    /\ task[t].pc = "inserted"
    /\ vectors' = vectors \cup {OwnGeneration(t)}
    /\ Goto(t, "upserted")
    /\ UNCHANGED <<clock, attachment, chunks, recollection, ocrJob, losses>>

\* MUTANT: with nothing embedded the session is left open.
CommitEmbedded(t) ==
    /\ task[t].pc \in {"upserted", "reusing"}
    /\ attachment' = IF task[t].ocr = "null" THEN attachment
                     ELSE [attachment EXCEPT !.text = task[t].ocr, !.at = task[t].at]
    /\ chunks' = IF task[t].pc = "upserted"
                 THEN (chunks \ task[t].seen) \cup {OwnGeneration(t)}
                 ELSE chunks
    /\ task' = [task EXCEPT ![t] = Call("answered", None, task[t].read)]
    /\ UNCHANGED <<clock, vectors, recollection, ocrJob, losses>>

\* The caller's commit, on every path that returns a result.
Commit(t) ==
    /\ task[t].pc \in {"upserted", "reusing", "skipping"}
    /\ attachment' = IF task[t].ocr = "null" THEN attachment
                     ELSE [attachment EXCEPT !.text = task[t].ocr, !.at = task[t].at]
    /\ chunks' = IF task[t].pc = "upserted"
                 THEN (chunks \ task[t].seen) \cup {OwnGeneration(t)}
                 ELSE chunks
    /\ task' = [task EXCEPT ![t] =
                  IF task[t].pc = "skipping" THEN IdleTask
                  ELSE Call("answered", None, task[t].read)]
    /\ UNCHANGED <<clock, vectors, recollection, ocrJob, losses>>

\* Embedding, Chroma or the database raises: every caller leaves its session
\* without a commit, and with it what the call wrote, OCR text included.
Raise(t) ==
    /\ task[t].pc \notin Resting
    /\ task' = [task EXCEPT ![t] = IdleTask]
    /\ UNCHANGED <<clock, attachment, chunks, vectors, recollection, ocrJob, losses>>

-----------------------------------------------------------------------------
(* What changes underneath.                                                *)

\* recollect_bizinfo_notice opens its transaction, fetches, and commits the
\* new file in place of the old one.
BeginRecollect ==
    /\ recollection = None
    /\ attachment.file < MaxVersion
    /\ clock < MaxTime
    /\ clock' = clock + 1
    /\ recollection' = clock + 1
    /\ UNCHANGED <<attachment, chunks, vectors, task, ocrJob, losses>>

CommitRecollect ==
    /\ recollection # None
    /\ AttachmentFree
    /\ attachment' = [file |-> attachment.file + 1, text |-> "null", at |-> recollection]
    /\ recollection' = None
    /\ UNCHANGED <<clock, chunks, vectors, task, ocrJob, losses>>

\* The fetch fails, or the process goes down: nothing is committed.
AbandonRecollect ==
    /\ recollection # None
    /\ recollection' = None
    /\ UNCHANGED <<clock, attachment, chunks, vectors, task, ocrJob, losses>>

\* _run_notice_ocr_job: one session to read, none while OCR runs, a new one
\* for the result, which may find the attachment gone.
ReadForOcr ==
    /\ ocrJob = None
    /\ attachment.text = "null"
    /\ ocrJob' = attachment.file
    /\ UNCHANGED <<clock, attachment, chunks, vectors, task, recollection, losses>>

\* MUTANT: updated_at without onupdate.
SaveOcrSilently(text) ==
    /\ ocrJob # None
    /\ AttachmentFree
    /\ clock < MaxTime
    /\ clock' = clock + 1
    /\ attachment' = IF attachment.file = ocrJob THEN [attachment EXCEPT !.text = text]
                     ELSE attachment
    /\ ocrJob' = None
    /\ UNCHANGED <<chunks, vectors, task, recollection, losses>>

SaveOcr(text) ==
    /\ ocrJob # None
    /\ AttachmentFree
    /\ clock < MaxTime
    /\ clock' = clock + 1
    /\ attachment' = IF attachment.file = ocrJob
                     THEN [attachment EXCEPT !.text = text, !.at = clock + 1]
                     ELSE attachment
    /\ ocrJob' = None
    /\ UNCHANGED <<chunks, vectors, task, recollection, losses>>

OcrJobFails ==
    /\ ocrJob # None
    /\ ocrJob' = None
    /\ UNCHANGED <<clock, attachment, chunks, vectors, task, recollection, losses>>

\* A redeployment that finds an empty Chroma volume: nothing open survives.
LoseVectors ==
    /\ losses < MaxLosses
    /\ losses' = losses + 1
    /\ vectors' = {}
    /\ task' = [t \in Task |-> IdleTask]
    /\ recollection' = None
    /\ ocrJob' = None
    /\ UNCHANGED <<clock, attachment, chunks>>

-----------------------------------------------------------------------------
Init ==
    /\ clock = 0
    /\ attachment = FirstFile
    /\ chunks = {}
    /\ vectors = {}
    /\ task = [t \in Task |-> IdleTask]
    /\ recollection = None
    /\ ocrJob = None
    /\ losses = 0

\* What a call that has begun goes on to do.
Proceed(t) ==
    \/ Read(t)
    \/ \E text \in {"blank", "text"} : Ocr(t, text)
    \/ OcrFails(t)
    \/ Check(t)
    \/ CheckUnreadable(t)
    \/ Verify(t)
    \/ Embed(t)
    \/ BeginDelete(t)
    \/ InsertChunks(t)
    \/ Upsert(t)
    \/ Commit(t)

Next ==
    \/ \E t \in Task : Start(t) \/ Proceed(t) \/ Raise(t)
    \/ BeginRecollect
    \/ CommitRecollect
    \/ AbandonRecollect
    \/ ReadForOcr
    \/ OcrJobFails
    \/ \E text \in {"blank", "text"} : SaveOcr(text)
    \/ LoseVectors

Spec == Init /\ [][Next]_vars

\* External calls return, and row locks are granted in turn.
FairSpec == Spec /\ \A t \in Task : SF_vars(Proceed(t))

-----------------------------------------------------------------------------
TypeOK ==
    /\ clock \in 0 .. MaxTime
    /\ attachment \in Attachment
    /\ chunks \subseteq Generation
    /\ vectors \subseteq Generation
    /\ task \in [Task -> Calls]
    /\ \A t \in Task : task[t].pc \notin Resting => task[t].at \in Time
    /\ recollection \in Time \cup {None}
    /\ recollection # None => attachment.file < MaxVersion
    /\ ocrJob \in Version \cup {None}
    /\ losses \in 0 .. MaxLosses

\* A call that answered embedded=True has left rows that similarity search can
\* find, whatever calls ran beside it and whatever Chroma had lost before: a
\* cache in PostgreSQL with no vectors behind it is never passed on.
AnswerIsSearchable ==
    (\E t \in Task : task[t].pc = "answered") => chunks # {} /\ chunks \subseteq vectors

OneAtATime ==
    \A t, u \in Task : task[t].pc \in Resting \/ task[u].pc \in Resting \/ t = u

\* If calls never overlap, none reuses rows of an earlier file: by the time
\* a new file's text can be read, its updated_at is later than their created_at,
\* although both are starts of transactions.
ReusedRowsAreCurrent ==
    []OneAtATime
      => [](\A t \in Task :
              task[t].pc = "reusing" => \A g \in task[t].seen : g.file = task[t].read.file)

\* Calls that wait for each other's rows all return.
CallsEnd == \A t \in Task : task[t].pc \notin Resting ~> task[t].pc \in Resting
-----------------------------------------------------------------------------
(* What AnswerIsSearchable rests on; NoticeEmbeddingProofs shows that every *)
(* step keeps it.                                                          *)

\* Rows that appeared after a call looked are rows of a call that had stored
\* their vectors.
NewRowsAreSearchable ==
    \A t \in Task :
        task[t].pc \in {"verifying", "reusing", "deleting", "inserted", "upserted"} =>
            chunks \ task[t].seen \subseteq vectors

ReusedRowsAreSearchable ==
    \A t \in Task :
        /\ task[t].pc \in {"verifying", "reusing"} => chunks # {}
        /\ task[t].pc = "reusing" => task[t].seen \subseteq vectors

OwnRowsAreSearchable ==
    \A t \in Task : task[t].pc = "upserted" => OwnGeneration(t) \in vectors

SearchInv ==
    /\ NewRowsAreSearchable
    /\ ReusedRowsAreSearchable
    /\ OwnRowsAreSearchable
    /\ AnswerIsSearchable

\* What ReusedRowsAreCurrent rests on, as long as calls do not overlap.  There is
\* one generation at most, and whoever gives a file its text does so in a
\* transaction that began after the calls that have read an earlier file.
RowsInv ==
    /\ \A g, h \in chunks : g = h
    /\ \A g \in chunks : g.at <= clock
    /\ attachment.text # "null" =>
          \A g \in chunks : g.file = attachment.file \/ g.at < attachment.at

CallInv(c) ==
    /\ c.at <= clock
    /\ \A g \in chunks : g.at < c.at
    /\ c.ocr # "null" => c.read.file = attachment.file
    /\ c.pc # "reading" /\ attachment.text # "null" =>
          c.read.file = attachment.file \/ c.at < attachment.at
    /\ c.pc = "checking" /\ c.ocr = "null" =>
          \A g \in chunks : g.file = c.read.file \/ g.at < c.read.at
    /\ c.pc \in {"verifying", "reusing"} => \A g \in c.seen : g.file = c.read.file
    /\ c.pc \in {"deleting", "inserted", "upserted"} => c.seen = chunks

CurrentInv ==
    /\ RowsInv
    /\ \A t \in Task : IF task[t].pc \in Resting THEN task[t].ocr = "null" ELSE CallInv(task[t])
=============================================================================
