------------------------------ MODULE NoticeJobs ------------------------------
(***************************************************************************)
(* The in-memory registries of notice jobs: OCR, normalization, embedding  *)
(* (api/notice_ocr, api/notice_normalization, api/notice_embedding), each  *)
(* with a single and a batch trigger, the OCR precollection, and the two   *)
(* backlogs that feed batches to the registries (api/notice_*_backlog).    *)
(*                                                                         *)
(* A slot is one BackgroundTasks run: the jobs one request registered, or  *)
(* the batch a backlog is at.  A job stays in its slot with its verdict    *)
(* until the slot is used again; the registries keep such entries, and no  *)
(* handler but the status query looks at them.  A registration has no      *)
(* await between looking for active jobs and adding its own, so it is one  *)
(* step.  Collection deletes notices under jobs in flight.                 *)
(***************************************************************************)
EXTENDS Naturals, FiniteSets

CONSTANTS
    Notice,
    Trigger,        \* slots for requests of the single and batch triggers
    Backlog,        \* slots for requests of the backlogs
    BatchLimit,     \* _MAX_CONCURRENT_BATCH_OCR, _MAX_CONCURRENT_BATCH_EMBEDDING
    ChunkSize       \* _BATCH_CHUNK_SIZE

ASSUME SlotAssumption == Trigger \cap Backlog = {}
ASSUME NoticeAssumption == IsFiniteSet(Notice)
ASSUME LimitAssumption ==
    BatchLimit \in Nat \ {0} /\ ChunkSize \in Nat \ {0}

VARIABLES
    notices,        \* the rows there are; an id is never given out again
    stored,         \* stored[k]: those that have parsed_text, a 'completed'
                    \* normalization, chunks
    kind,           \* kind[s]: the registry the jobs of slot s are in
    place,          \* place[s][n]: which chunk of the slot notice n is in
    job,            \* job[s][n]: the entry of notice n, and where its task is
    backlog         \* backlog[b]: the backlog's entry and the ids left to do

db == <<notices, stored>>
registry == <<kind, place, job>>
vars == <<db, registry, backlog>>

Slot == Trigger \cup Backlog
Kind == {"ocr", "normalize", "embed"}
BacklogKind == {"normalize", "embed"}

\* queued: PENDING, its task waits for its turn or its first query.
\* working: RUNNING, on rows, files or embeddings.  calling: at CLOVA or the
\* LLM.  done: its result is committed or was found, and the task is on its way
\* to say so.  The rest are verdicts; failed stands for all but COMPLETED:
\* FAILED, NO_ATTACHMENT, UNSUPPORTED_FORMAT, NO_TEXT.
ActiveState == {"queued", "working", "calling", "done"}
Verdict == {"completed", "failed"}
JobState == {"none"} \cup ActiveState \cup Verdict

BacklogState == {"none", "checked", "pending", "running"}
BacklogEntry == [at : BacklogState, todo : SUBSET Notice]
NoBacklog == [at |-> "none", todo |-> {}]

Active(s, n) == job[s][n] \in ActiveState
Finished(s) == \A n \in Notice : ~Active(s, n)
To(s, n, state) == job' = [job EXCEPT ![s][n] = state]

\* MUTANT: a job counts as active from RUNNING on.
BusyWhenRunning(k) ==
    {n \in Notice : \E s \in Slot :
        kind[s] = k /\ job[s][n] \in ActiveState \ {"queued"}}

\* _active_job_for_notice of registry k.
Busy(k) == {n \in Notice : \E s \in Slot : kind[s] = k /\ Active(s, n)}

\* _create_pending_job for those of S that have no active job.
Register(s, k, S) ==
    /\ kind' = [kind EXCEPT ![s] = k]
    /\ job' = [job EXCEPT ![s] =
                 [n \in Notice |-> IF n \in S \ Busy(k) THEN "queued" ELSE "none"]]

\* Results are written by UPDATE or under a foreign key: no row, no result.
Save(ks, n) ==
    stored' = [k \in Kind |->
                 IF k \in ks /\ n \in notices THEN stored[k] \cup {n} ELSE stored[k]]

-----------------------------------------------------------------------------
\* POST .../batch, and a single POST as a batch of one: it answers with the
\* active job, or with 409, when there is nothing to register.  Nothing asks
\* whether the notices exist.
StartBatch(t, k, S) ==
    /\ Finished(t)
    /\ S \ Busy(k) # {}
    /\ Register(t, k, S)
    /\ place' = [place EXCEPT ![t] = [n \in Notice |-> 0]]
    /\ UNCHANGED <<db, backlog>>

\* The query's order cut into chunks: all but the last are full.
Chunked(S, order) ==
    \A n \in S :
        /\ Cardinality({m \in S : order[m] = order[n]}) <= ChunkSize
        /\ \A i \in 0 .. order[n] :
             i < order[n] => Cardinality({m \in S : order[m] = i}) = ChunkSize

\* precollect_notice_attachment_ocr: every chunk is registered at once, and
\* their runners follow each other in one BackgroundTasks.
Precollect(t, S, order) ==
    /\ Finished(t)
    /\ S \ Busy("ocr") # {}
    /\ Chunked(S, order)
    /\ Register(t, "ocr", S)
    /\ place' = [place EXCEPT ![t] = [n \in Notice |-> IF n \in S THEN order[n] ELSE 0]]
    /\ UNCHANGED <<db, backlog>>

Inside(s) == {n \in Notice : Active(s, n) /\ job[s][n] # "queued"}
Limit(k) == IF k = "normalize" THEN Cardinality(Notice) ELSE BatchLimit

\* The runners take one chunk after the other.
Turn(s, n) == \A m \in Notice : Active(s, m) => place[s][n] <= place[s][m]

\* MUTANT: a job whose notice is gone returns without an entry of its own.
BeginSilently(s, n) ==
    /\ job[s][n] = "queued"
    /\ Turn(s, n)
    /\ Cardinality(Inside(s)) < Limit(kind[s])
    /\ n \in notices
    /\ To(s, n, "working")
    /\ UNCHANGED <<db, kind, place, backlog>>

\* A job enters the semaphore its runner made (normalization has none) and
\* looks for its notice.  The query may raise.
Begin(s, n) ==
    /\ job[s][n] = "queued"
    /\ Turn(s, n)
    /\ Cardinality(Inside(s)) < Limit(kind[s])
    /\ \E state \in {"failed"} \cup (IF n \in notices THEN {"working"} ELSE {}) :
         To(s, n, state)
    /\ UNCHANGED <<db, kind, place, backlog>>

\* The attachments as an OCR job reads them last, after the crawl of a
\* K-Startup notice.  The text is there already: nothing is written any more,
\* and nobody looks again whether the notice still exists.
ReadText(s, n) ==
    /\ job[s][n] = "working"
    /\ kind[s] = "ocr"
    /\ n \in stored["ocr"]
    /\ To(s, n, "done")
    /\ UNCHANGED <<db, kind, place, backlog>>

\* ... or there is a file to read, or none: those of a deleted notice went
\* with it.
ReadFiles(s, n) ==
    /\ job[s][n] = "working"
    /\ kind[s] = "ocr"
    /\ n \notin stored["ocr"]
    /\ \E state \in {"failed"} \cup (IF n \in notices THEN {"calling"} ELSE {}) :
         To(s, n, state)
    /\ UNCHANGED <<db, kind, place, backlog>>

\* MUTANT: the verdict does not look at the row count.
StoreTextUnchecked(s, n) ==
    /\ job[s][n] = "calling"
    /\ kind[s] = "ocr"
    /\ Save({"ocr"}, n)
    /\ To(s, n, "done")
    /\ UNCHANGED <<notices, kind, place, backlog>>

\* OCR has answered: set_attachment_parsed_text, the commit, and what its row
\* count decides.
StoreText(s, n) ==
    /\ job[s][n] = "calling"
    /\ kind[s] = "ocr"
    /\ Save({"ocr"}, n)
    /\ To(s, n, IF n \in notices THEN "done" ELSE "failed")
    /\ UNCHANGED <<notices, kind, place, backlog>>

\* normalize_notice up to the LLM: texts it extracted itself are saved, and
\* nobody asks whether a row was hit.
SaveTexts(s, n) ==
    /\ job[s][n] = "working"
    /\ kind[s] = "normalize"
    /\ Save({"ocr"}, n) \/ UNCHANGED stored
    /\ To(s, n, "calling")
    /\ UNCHANGED <<notices, kind, place, backlog>>

\* No text ('skipped') or no answer ('failed'): either replaces an earlier
\* 'completed'.
GiveUp(s, n) ==
    /\ job[s][n] = "calling"
    /\ kind[s] = "normalize"
    /\ stored' = [stored EXCEPT !["normalize"] = @ \ {n}]
    /\ To(s, n, "failed")
    /\ UNCHANGED <<notices, kind, place, backlog>>

\* The best answer is written; the job fails when the notice went meanwhile.
StoreNormalized(s, n) ==
    /\ job[s][n] = "calling"
    /\ kind[s] = "normalize"
    /\ Save({"normalize"}, n)
    /\ To(s, n, IF n \in notices THEN "done" ELSE "failed")
    /\ UNCHANGED <<notices, kind, place, backlog>>

\* ensure_notice_embedded reads chunks that it will use again, if Chroma has
\* their vectors: nothing is written after this query, and a notice deleted
\* while Chroma is asked is not missed.
FindChunks(s, n) ==
    /\ job[s][n] = "working"
    /\ kind[s] = "embed"
    /\ n \in stored["embed"]
    /\ To(s, n, "done")
    /\ UNCHANGED <<db, kind, place, backlog>>

\* ... or it writes new ones.  Without a notice they violate their foreign key
\* and the job fails; from then to the commit they keep the notice from being
\* deleted.
StoreEmbedding(s, n) ==
    /\ job[s][n] = "working"
    /\ kind[s] = "embed"
    /\ Save({"ocr", "embed"}, n)
    /\ To(s, n, IF n \in notices THEN "done" ELSE "failed")
    /\ UNCHANGED <<notices, kind, place, backlog>>

\* ... or there is no text to embed, perhaps an empty one it has saved.
HasNoText(s, n) ==
    /\ job[s][n] = "working"
    /\ kind[s] = "embed"
    /\ Save({"ocr"}, n) \/ UNCHANGED stored
    /\ To(s, n, "failed")
    /\ UNCHANGED <<notices, kind, place, backlog>>

\* The session is closed, and COMPLETED is put into the registry.
Report(s, n) ==
    /\ job[s][n] = "done"
    /\ To(s, n, "completed")
    /\ UNCHANGED <<db, kind, place, backlog>>

\* Whatever a job raises, _execute_*_job catches and registers.
Raise(s, n) ==
    /\ n \in Inside(s)
    /\ To(s, n, "failed")
    /\ UNCHANGED <<db, kind, place, backlog>>

-----------------------------------------------------------------------------
\* get_notice_ids_pending_normalization, get_notice_ids_completed_normalization.
Matching(k) == IF k = "embed" THEN stored["normalize"] ELSE notices \ stored["normalize"]

HasActiveBacklog(k) ==
    \E b \in Backlog : kind[b] = k /\ backlog[b].at \in {"pending", "running"}

\* POST .../backlog up to its query.
CheckBacklog(b, k) ==
    /\ backlog[b].at = "none"
    /\ ~HasActiveBacklog(k)
    /\ backlog' = [backlog EXCEPT ![b].at = "checked"]
    /\ Register(b, k, {})
    /\ UNCHANGED <<db, place>>

\* The query has answered, with at most `limit` ids (for embedding, of
\* actionable notices only), and the entry is added without a second look.
RegisterBacklog(b) ==
    /\ backlog[b].at = "checked"
    /\ \E S \in SUBSET Matching(kind[b]) :
         backlog' = [backlog EXCEPT ![b] = [at |-> "pending", todo |-> S]]
    /\ UNCHANGED <<db, registry>>

\* The query raises.
AbandonBacklog(b) ==
    /\ backlog[b].at = "checked"
    /\ backlog' = [backlog EXCEPT ![b] = NoBacklog]
    /\ UNCHANGED <<db, registry>>

\* MUTANT: the slice starts over.
AdvanceInPlace(b) ==
    /\ backlog[b].at \in {"pending", "running"}
    /\ Finished(b)
    /\ \E chunk \in (SUBSET backlog[b].todo) \ {{}} :
         /\ Cardinality(chunk) <= ChunkSize
         /\ Register(b, kind[b], chunk)
         /\ backlog' = [backlog EXCEPT ![b].at = "running"]
    /\ UNCHANGED <<db, place>>

\* _run_backlog_job: a batch trigger for the next chunk, whose jobs it runs
\* and waits for.  Those that are active elsewhere are not waited for.
AdvanceBacklog(b) ==
    /\ backlog[b].at \in {"pending", "running"}
    /\ Finished(b)
    /\ \E chunk \in (SUBSET backlog[b].todo) \ {{}} :
         /\ chunk # backlog[b].todo => Cardinality(chunk) = ChunkSize
         /\ Cardinality(chunk) <= ChunkSize
         /\ Register(b, kind[b], chunk)
         /\ backlog' = [backlog EXCEPT ![b] =
                          [at |-> "running", todo |-> backlog[b].todo \ chunk]]
    /\ UNCHANGED <<db, place>>

FinishBacklog(b) ==
    /\ backlog[b].at \in {"pending", "running"}
    /\ Finished(b)
    /\ backlog[b].todo = {}
    /\ backlog' = [backlog EXCEPT ![b] = NoBacklog]
    /\ UNCHANGED <<db, registry>>

-----------------------------------------------------------------------------
\* Collection deletes the duplicate of a notice of another source.
DeleteNotice(n) ==
    /\ n \in notices
    /\ notices' = notices \ {n}
    /\ stored' = [k \in Kind |-> stored[k] \ {n}]
    /\ UNCHANGED <<registry, backlog>>

\* The registries of a process that has just started.
FreshKind == [s \in Slot |-> "normalize"]
FreshPlace == [s \in Slot |-> [n \in Notice |-> 0]]
FreshJob == [s \in Slot |-> [n \in Notice |-> "none"]]
FreshBacklog == [b \in Backlog |-> NoBacklog]

\* The process dies and comes back with empty registries.
Crash ==
    /\ kind' = FreshKind
    /\ place' = FreshPlace
    /\ job' = FreshJob
    /\ backlog' = FreshBacklog
    /\ UNCHANGED db

Init ==
    /\ notices = Notice
    /\ stored = [k \in Kind |-> {}]
    /\ kind = FreshKind
    /\ place = FreshPlace
    /\ job = FreshJob
    /\ backlog = FreshBacklog

Request(t) ==
    \/ \E k \in Kind, S \in SUBSET Notice : StartBatch(t, k, S)
    \/ \E S \in SUBSET Notice : \E order \in [S -> 0 .. Cardinality(Notice)] :
         Precollect(t, S, order)

Work(s, n) ==
    \/ Begin(s, n)
    \/ ReadText(s, n)
    \/ ReadFiles(s, n)
    \/ StoreText(s, n)
    \/ SaveTexts(s, n)
    \/ GiveUp(s, n)
    \/ StoreNormalized(s, n)
    \/ FindChunks(s, n)
    \/ StoreEmbedding(s, n)
    \/ HasNoText(s, n)
    \/ Report(s, n)

RunBacklog(b) == RegisterBacklog(b) \/ AdvanceBacklog(b) \/ FinishBacklog(b)

Next ==
    \/ \E t \in Trigger : Request(t)
    \/ \E s \in Slot, n \in Notice : Work(s, n) \/ Raise(s, n)
    \/ \E b \in Backlog, k \in BacklogKind : CheckBacklog(b, k)
    \/ \E b \in Backlog : RunBacklog(b) \/ AbandonBacklog(b)
    \/ \E n \in Notice : DeleteNotice(n)
    \/ Crash

Spec == Init /\ [][Next]_vars

\* The event loop runs every ready task, and external calls have timeouts.
FairSpec ==
    /\ Spec
    /\ \A s \in Slot : WF_vars(\E n \in Notice : Work(s, n))
    /\ \A b \in Backlog : WF_vars(RunBacklog(b))

-----------------------------------------------------------------------------
TypeOK ==
    /\ notices \subseteq Notice
    /\ stored \in [Kind -> SUBSET notices]
    /\ kind \in [Slot -> Kind]
    /\ place \in [Slot -> [Notice -> Nat]]
    /\ job \in [Slot -> [Notice -> JobState]]
    /\ backlog \in [Backlog -> BacklogEntry]

\* CLOVA and OpenAI are not paid twice by one registry: whatever mix of single
\* requests, batches, precollection and backlogs started them, a notice has at
\* most one active job of each kind.
OneJobPerNotice ==
    \A s, u \in Slot, n \in Notice :
        kind[s] = kind[u] /\ Active(s, n) /\ Active(u, n) => s = u

\* What a job goes to report as COMPLETED is in the database at its last commit
\* or query, although collection may have deleted the notice while the job was
\* with its files or the LLM; and when it is reported it is still there, unless
\* the notice was deleted in between, say while Chroma was asked about chunks
\* that are used again.  That much the code does not notice.
CompletedWasStored ==
    [][\A s \in Slot, n \in Notice : Active(s, n) =>
         /\ job[s][n] # "done" /\ job'[s][n] \in {"done", "completed"} =>
              n \in stored'[kind[s]]
         /\ job'[s][n] = "completed" => n \in stored'[kind[s]] \/ n \notin notices']_vars

\* Every job of a batch gets its verdict: one that stayed PENDING would block
\* its notice, and what runs behind its batch, until the process restarts.
JobsEnd == \A s \in Slot : ~Finished(s) ~> Finished(s)

\* A backlog comes to its end, and no longer answers 409 to the next one.
BacklogEnds == \A b \in Backlog : backlog[b].at # "none" ~> backlog[b].at = "none"
=============================================================================
