# Verification of kg-vending-machine

The repository is a service that matches a start-up's business plan to public
support notices.  A FastAPI process (one worker, one asyncio event loop) serves
the API and runs its background tasks and a daily scheduler; PostgreSQL (READ
COMMITTED, sessions with `expire_on_commit=False`) keeps the rows, Chroma keeps
embedding vectors, OpenAI and CLOVA are called over HTTP, and a React frontend
polls.  This directory holds TLA+ modules translated from that code, the TLC
configurations that check them on small instances, and TLAPS proofs.

Contents: 1 the system, 2 the modules, 3 the runs, 4 fairness, 5 the proofs,
6 where code and documentation disagree, 7 what the models show beyond the
runs, 8 what is not modelled, 9 what could come next.

## 1. The system

| component | state it keeps | operations | meets | modules |
|---|---|---|---|---|
| Matching runs (`api/match_log.py`, `services/matching_service.py`) | `match_log.run_status`, `match_result`, a two-permit semaphore | start, execute in the background, fail, erase, recover at start-up | plans, withdrawal, the progress page | `MatchLifecycle`, `MatchRun`, `Judging` |
| Business-plan analysis (`api/business_plan_analysis.py`) | `analysis_status/step/started_at`, `raw_text`, `analysis_json` on the plan's row | claim, extract, normalize, finish, take over | matching, withdrawal, the progress page | `AnalysisLifecycle`, `PlanAnalysis` |
| Progress page (`AnalysisProgressPage.tsx`) | phase, timers, requests in flight | start, poll, match, follow a run, leave and come back | analysis, matching runs | `ProgressPage` |
| Account: sign-in, profile, uploads, bookmarks, withdrawal (`auth_service`, `company_service`, `business_plan_service`, `bookmark_service`) | `user`, `company_profile`, `business_plan`, `notice_bookmark`, stored files, the app's link at Kakao | sign in, save, confirm, upload, autofill, bookmark, withdraw | matching, analysis | `Account` |
| Notice collection (`services/notice_collection_service.py`, `scheduler.py`) | notices, regions, attachments, raw answers; cursors are computed | collect by source, drop duplicates, refresh statuses, backfill | embedding, OCR, normalization | `NoticeCollection`, `NoticeRecord` |
| Notice job registries (`api/notice_ocr.py`, `notice_normalization.py`, `notice_embedding.py`, the two backlogs) | `_JOBS` dictionaries in memory | start one, start a batch, run, report | each other, deletion, restarts | `NoticeJobs` |
| Notice embedding (`services/notice_embedding_service.py`) | `notice_chunk` rows and Chroma vectors, one generation of random ids per embedding | reuse, embed, replace | OCR, collection, matching | `NoticeEmbedding` |
| Notice normalization (`services/notice_normalization_service.py`) | `normalization_status`, `normalized_json` | normalize one, batch, backlog | matching candidates | in `NoticeJobs` |
| Secondary filtering and judgment (`services/secondary_filtering_*.py`) | `secondary_filtering_judgment` | search, rank, judge, judge late | matching | `Judging` |
| Eligibility filter (`services/notice_eligibility_service.py`) | none | four axes, a score, a gate | matching | `NoticeEligibility` |
| Text extraction, crawlers, other pages, migrations | none of their own | parsing, HTTP, rendering | inputs of the above | |

What is hard in it: tasks live in the process while their state lives in the
database, so a crash separates them; every `await` between a read and a write
lets another request or task in; the database, Chroma, Kakao and the file
system are written one after the other with no common transaction; erasing
requests run beside tasks that still write; claims expire by time, not by the
death of their holder; several pieces of code write the same columns; and a
failure handler can fail too.

What makes each component correct:

- *Matching runs*: recommendations are visible only under `completed`; a run
  keeps its one verdict; a run in `processing` has a task; all runs end; an
  erased run or account stays erased.
- *Judging*: a judgment is used for the profile and the questions it was made
  of; the places for judgment are shared fairly; nothing that passed is lost.
- *Analysis*: one task per plan; `completed` means there is an analysis; OCR is
  paid once; a plan can always be retried.
- *Progress page*: it never waits for good and offers results of completed runs
  only, in whatever order answers come.
- *Account*: rows have their files; signing in revives no half of an account;
  rules about the profile hold after any order of edits; a withdrawal leaves
  nothing.
- *Collection*: no notice is lost but to its twin; a fault does not lose recent
  entries; refresh and backfills agree with what collecting would write, as far
  as they have read what collecting reads.
- *Job registries*: one active job per notice and registry; every registered job
  reaches a verdict, and `COMPLETED` is said of what was stored at the job's last
  commit or query.
- *Embedding*: rows that are reused can be searched and are of the current file.

## 2. The modules

A step of a module is what one statement or one commit makes visible to the
others: between two `await`s a Python coroutine runs alone, so several
assignments without an `await` between them are one step.  What an open
transaction has written is kept with the task that opened it until it commits.

| module | models | implements | proofs |
|---|---|---|---|
| `MatchLifecycle` | what a matching run promises to whoever polls it (abstract) | | |
| `MatchRun` | runs, their tasks, the requests that erase them, crash and start-up | `MatchLifecycle` | `MatchRunProofs` |
| `AnalysisLifecycle` | what the analysis promises to whoever polls it (abstract) | | |
| `PlanAnalysis` | the analysis of one plan: claim, task, takeover, crash | `AnalysisLifecycle` | `PlanAnalysisProofs` |
| `ProgressPage` | one tab, composed with both lifecycles | | `ProgressPageProofs` |
| `Account` | one user's requests against his rows, files and Kakao | | `AccountProofs` |
| `NoticeCollection` | two collectors over three portals | | `NoticeProofs` |
| `NoticeRecord` | the row of one notice over time | | `NoticeProofs` |
| `NoticeJobs` | the job registries, their triggers and backlogs | | `NoticeJobsProofs` |
| `NoticeEmbedding` | the embedding of one notice: rows, vectors, OCR, replaced files | | `NoticeEmbeddingProofs` |
| `NoticeEligibility` | the filter and the eligibility score, as operators | | |
| `Judging` | a run from its candidates to its results; extends `NoticeEligibility` | | `JudgingProofs` |

`MC...` modules give TLC its instances.  Each module holds, next to some
definitions, a variant marked as a mutant: the definition with a plausible
mistake in it.  Nothing refers to them; replacing the definition by its variant
makes TLC report the property that the variant is there to test
(`PROJECT.json`, "mutants").

How they fit together: `MatchRun` and `PlanAnalysis` implement the two
lifecycles, and `ProgressPage` composes the two lifecycles with the page.  What
is shown of the page therefore holds with any server that keeps the lifecycles,
and the refinements say that the server does (the analysis: as long as tasks end
within the takeover timeout).  `Judging` refines what `MatchRun` calls the
pipeline; the two share no state but the results, so they are checked apart.

### MatchRun

| state | code |
|---|---|
| `log[l]` | `match_log.run_status`; `absent` before the INSERT, `deleted` after erasure |
| `logPlan[l]` | `match_log.business_plan_id`; its owner is the run's owner |
| `results` | the runs that own `match_result` rows |
| `plans`, `active` | `business_plan` rows, accounts with `status = ACTIVE` |
| `job[l]` | where `_execute_matching_job(l)` stands |
| `judged` | runs whose open transaction has inserted judgments, and so holds a key-share lock on the plan |
| `request[r]` | a `POST /match-logs` between its check and its INSERT |
| `eraser[d]` | the transaction of a `DELETE /match-logs/{id}` or `DELETE /auth/me` |
| `up` | the lifespan start-up has finished |

`CheckCreate` and `CommitCreate` are `create_match_log` before and after the
awaits between them.  `LoadRun`, `EnterPipeline`, `SaveJudgments`,
`ReachResults`, `ReplaceResults`, `CommitRun` are the task on its way to
`completed`; `NotReady` and `CommitNotReady` the `MatchingNotReadyError` path;
`FailRun`, `HandleFailure`, `LoseFailure` the `except` block of
`_execute_matching_job` and its own failure.  `BeginErase`, `EraseRows`,
`ErasePlans`, `CommitErase`, `AbandonErase` are the statements of the erasing
transactions in their order, with the row locks and foreign keys that make
them wait or abort; `BreakDeadlock` is PostgreSQL choosing a victim.  `Crash`
and `Restart` are the process and `_recover_stale_match_logs`.

Left out: what the pipeline computes (`Judging`), the extra commits it makes
inside notice embedding (they are in sessions of their own), and requests that
only read.

### Judging and NoticeEligibility

`run` is `_run_matching_locked` with everything it has read: the profile, the
plan, what the passing notices say.  `Start` reads and filters, `Search` gives
similarities to some of them, `Judge` asks or looks up the cache for the
candidates of `_rank_judge_candidates` and scores, `Rerank` judges what came out
on top without a judgment and scores again, `Save` commits results and new
judgments, `Fail` rolls everything back.  `EditProfile` and `Renormalize` happen
in between.  Keywords are sets of words, and scores are exact: they are
multiples of 1/1800 point where the code has floats and keeps two places of
some.
One answer of the LLM stands for all criteria of a notice; a call that fails
counts as unclear, as in the code.  Dates are `year * YearLength + day`.

Left out: texts of reports and prompts, and the chunks behind the search.

### PlanAnalysis

`status`, `step`, `rawText`, `analysed` are the columns `analysis_status`,
`analysis_step`, `raw_text`, `analysis_json`; `stale` is one bit of
`analysis_started_at`: older than `_STALE_PROCESSING_TIMEOUT`.  `Claim` is
`try_claim_analysis` with the registration of the task; `Load` to `Finish` are
`run_analysis` inside `_run_analysis_job`, one action per commit; `Lose` is a
failure outside its `try`; `Expire` lets ten minutes pass; `Crash` ends the
tasks and leaves the row.  Text is `none`, `blank` (extracted, empty) or `text`,
because the code tells `None` from `""`.  Profile autofill is a step of
`Account`; plan embedding swallows its errors and is part of `SaveAnalysis`.

### ProgressPage

The page is a heap of unfinished promises: `run` (the effect's first GET and
POST), `chain` (polls that wait for a timer or an answer), `follow[l]` (loops of
`pollMatchLog`), `post`, `click`, `recover`.  Promises of one kind are
counted, since they differ in what they wait for only.  `timer` is the handle
the effect's `timer` variable holds, kept apart from the timers that exist:
`onVisible` goes by the handle.  `late` is `MAX_POLL_DURATION_MS`, and
`cancelled` the ref that stops loops.  `ServerSteps` is any step of the two
lifecycles, so other tabs and devices are included.

### Account

`slot[s]` is one request, or the autofill behind an analysis, between its reads
and its commit; `Arrive` is `get_current_user`.  The ORM writes the columns that
differ from what the request has read (`Written`), which is what makes two
overlapping edits mix.  Profiles and plans have the number of the request that
inserted them.  `overlaps` records whether requests of the user have overlapped:
properties that the code can keep for one request at a time only name it.
`StartLogin` to `SignedIn` is a sign-in, `Upsert` the statement whose row lock a
withdrawal waits for; `ReadForSave`/`CommitSave`, `ReadForConfirm`/`CommitConfirm`,
`ReadForUpload`/`SaveFile`/`CommitUpload`, `ReadForAutofill`/`CommitAutofill`,
`ReadForBookmark`/`AddBookmark`, `RemoveBookmark` are the handlers of those
names; `Unlink`, `List`, `Erase`, `DeleteFiles` are `withdraw_account`.  `Fail`
ends any request, `Crash` all of them.

Left out: columns that no rule is about, match logs and judgments (`MatchRun`),
token formats, and the two other ways to tokens, `dev_login` and the refresh
(`api/auth.py:181`, `:211`): what is said of signing in is said of Kakao's.

### NoticeCollection

`job[c]` is the pass that collector `c` is making: its source, page, the entries
of the page still to handle, the cursor, and what its open transaction has
written.  `Store` is one entry in its savepoint, with the deletion of its
K-Startup twins, `CommitPage` the commit.  `Publish`, `Delist`, `Recommend`,
`Forget` are the portals and matching.  A row that a transaction has written
makes others wait (`Blockers`); `BreakDeadlock` is PostgreSQL.

### NoticeRecord

`raw` is the stored answer of the portal and `row` what hangs on the notice:
days, status, `is_actionable`, category, regions, business years, attachments
with their text.  `Collect` is the upsert of any of the collection paths;
`RefreshRead` and `RefreshWrite` are `refresh_notice_statuses`, which reads all
rows at first and writes one by one.  So do the four backfills: `backfill` holds
the kind of one with the answer it has read (`BackfillRead`: the stored answers
of all notices, in one query), `BackfillLook` is its look at the row, by which
it passes over the notice or goes on to write, and `BackfillCategories`,
`BackfillRegions` (nationwide and all codes), `BackfillYears` write by id what
the answer it has read says; categories are written without another look.
`CollectBesideBackfill` is a collection whose transaction overlaps that of a
backfill of regions: each replaces the regions by DELETE and INSERT without
seeing the other's INSERT, so both sets stay; if they share a code, one fails on
the unique constraint and is as if it had not been.  One backfill is under way
at a time: only that of business years can be requested over the API, the
others are run by hand.  `Init` holds rows of this release and of an earlier
one, which is what the backfills were written for.  `overtaken` remembers that
a collection came between the two halves of a refresh.

### NoticeEmbedding

`attachment` is the row `pick_ocr_target` chooses; a new file is a new row with
a new URL.  `chunks` and `vectors` hold generations: the rows one call inserts
together, known by the file they were cut from and their `created_at`.  Both
`created_at` and `updated_at` are PostgreSQL `now()`, the *start* of the
transaction, so `clock` counts transactions started.  `task[t]` is one call of
`ensure_notice_embedded` in a session of its own: `Read`, `Ocr`, `OcrFails` are
`ensure_notice_attachment_ocr`; `Check`, `CheckUnreadable`, `Verify` decide
whether the rows found can be reused; `Embed`, `BeginDelete`, `InsertChunks`,
`Upsert` replace them; `Commit` and `Raise` are what the callers do with the
session.  `BeginRecollect`/`CommitRecollect` are `recollect_bizinfo_notice`,
`ReadForOcr`/`SaveOcr` the two sessions of `_run_notice_ocr_job`, and
`LoseVectors` is the loss of the Chroma volume the service's docstring reports.

From outside `src/`: an ORM-enabled UPDATE in SQLAlchemy expires, on objects
already loaded, the columns whose new value the database computes, and an
expired attribute read from asyncio code raises `MissingGreenlet`.
`CheckUnreadable` rests on that.

Left out: the crawl of a K-Startup listing on first use, deletion of the notice
with its rows, a file replaced under the same URL (the code does not notice it
either), and a wait for a row lock inside the OCR job's second session, which
is merged with its save.

### NoticeJobs

| state | code |
|---|---|
| `notices`, `stored[k]` | `notice` rows; those with `parsed_text`, with a completed normalization, with chunks |
| `job[s][n]` | the entry of notice `n` in `_JOBS`, and where its task stands |
| `kind[s]` | the registry the jobs of slot `s` are in |
| `place[s][n]` | the chunk of `n`, when precollection puts several runners into one `BackgroundTasks` |
| `backlog[b]` | the entry of a backlog and the ids it still has to do |

A slot is one `BackgroundTasks` run: the jobs of one request, or the batch a
backlog is at.  `StartBatch` is a batch trigger, and a single trigger as a
batch of one; `Precollect` registers all chunks at once and they run one after
the other (`Turn`).  `Begin` enters the runner's semaphore and looks for the
notice; the wait between the two is not a step, since nothing the job does
depends on it.  Then the three services go their ways: an OCR job reads the
attachments, after a crawl if it needs one, and finds a text (`ReadText`), a
file to read or none (`ReadFiles`); a normalization saves the texts it extracts
and asks the LLM (`SaveTexts`); an embedding finds chunks it can use again
(`FindChunks`) or writes new ones.  The `Store...` actions, `GiveUp` and
`HasNoText` are their last commits.  After the last commit or query a job is
`done`, and `Report` puts `COMPLETED` into the registry: there are awaits in
between (Chroma is asked about the vectors, the session is closed), so its
notice may be deleted.  `failed` stands for every other verdict (FAILED,
NO_ATTACHMENT, UNSUPPORTED_FORMAT, NO_TEXT); `Raise` is the catch-all of
`_execute_*_job`.  `CheckBacklog` and `RegisterBacklog` are a
backlog request before and after its query, `AdvanceBacklog` one turn of its
loop.  `DeleteNotice` is the commit in which collection deletes a duplicate.
`Crash` may happen any number of times; the registries come back empty.

Left out: new notices (an id that does not exist yet behaves like a deleted
one), replaced files, and the `except` clause of `_run_backlog_job`, which
nothing reaches: the jobs it waits for catch their own exceptions.

## 3. The runs

Every run finishes within three minutes.  `CHECK_DEADLOCK FALSE` stands in every
configuration because each system may come to rest: all bounded slots, ids,
days and requests are used up.

| run | question | instance | result |
|---|---|---|---|
| `match_run` | are tables, tasks and accounts consistent, is each step one of `MatchLifecycle`, do runs and erasures end? | 1 account, 1 plan, 2 requests that may overlap, 2 runs, 1 eraser, 1 permit, 1 crash, 1 failed handler | holds |
| `plan_analysis` | is the claim exclusive, OCR paid once, `completed` analysed, every plan retriable, each step one of `AnalysisLifecycle`? | 2 tasks, 2 crashes, tasks shorter than ten minutes | holds |
| `progress_page` | are results offered of completed runs only, does the page end every wait? | 2 runs, 2 chains of polls, 1 loop per run, 2 posts in flight | holds |
| `progress_page_visible` | is the match stage kept? | as above, 1 post | violated |
| `account` | files, sign-in against withdrawal, the profile's rules, erasure | 2 requests in flight, 5 in all, 6 edits, 2 answers of the analysis | holds |
| `account_prefounder` | has a founder-to-be no history? | 4 requests in all | violated |
| `notice_collection` | is a notice lost to its twin only, are recent entries collected, do duplicates heal? | 2 collectors, 2 programmes that 2 portals list in opposite orders, pages of 2, buffer 2, 1 fault | holds |
| `notice_record` | do refresh and backfills agree with collection where they have read what it reads, is text kept? | 10 answers of 3 portals, 4 days, one refresh and one backfill at a time | holds |
| `notice_jobs` | one job per notice and registry, `COMPLETED` only of what was stored, do batches and backlogs end? | 2 notices, 1 request slot, 1 backlog slot, chunks and permits of 1, any number of crashes | holds |
| `notice_embedding` | can the rows a call answers with be searched, are reused rows current, do calls return? | 2 calls, 2 files, 1 lost volume, 4 transactions | holds |
| `judging` | are judgments of this profile and of these questions, are the places shared, is nothing lost, are scores in range? | 3 notices that each may say different things, 3 profiles, 1 change, 2 runs, limits of 1, 1, 2, 2 | holds |
| `judging_fallback` | is no R&D or funding notice shown at the top on keywords alone? | the same with 1 run | violated |

Why the bounds are enough.  A matching run meets at most one other run of its
account and one eraser in each interaction the code has (foreign keys, row
locks, the permit); a second account meets the first only at the permit, where a
second run of the same account waits just so.  Deletion and withdrawal at the
same time are left to the proofs.  Two crashes are one more than the deepest
recovery path of an analysis (claim, crash, take over, crash).  Two embedding
calls give every pairwise wait.  Two requests in flight and five in all let a
user upload twice at once, be left with two profiles, and withdraw.  One fault
falls at every point of a pass; a buffer of two lets an entry appear late, and
pages of two let a transaction write two rows, which is what two passes need to
deadlock.  The ministry's portal lists nothing in that instance (its pass shares
every action but the end at an old entry): with an entry of its own the run
would take four minutes.  Four days put every period before, at and after its
ends.  Limits of one make two notices of a category compete for a judgment.
What the instances leave open, the theorems of section 5 close for the
properties listed there.

## 4. Fairness

- *MatchRun*: strong fairness of each task and each erasing request, weak
  fairness of `Restart`.  The event loop runs every ready task;
  `asyncio.Semaphore` and PostgreSQL's row locks queue their waiters, so one
  that is enabled again and again is served; the container has a restart
  policy.  Requests, failures, judgments and crashes are not fair: nothing
  makes them happen.
- *PlanAnalysis*: weak fairness of each task and of the clock.  Calls to OCR
  and the LLM have timeouts, so they return or raise.
- *ProgressPage*: weak fairness of answers and timers, and of the clock.
  Nothing is expected of the user, nor that the server ever ends a run: that the
  page stops waiting rests on its own limits.
- *NoticeCollection*: strong fairness of each pass, for row locks, and weak
  fairness of the scheduler's start: it runs every night.  Faults are not fair
  and bounded.
- *NoticeEmbedding*: strong fairness of each call, for the same row locks.
- *NoticeJobs*: weak fairness of the jobs of each slot together and of each
  backlog.  That is enough because the jobs of a slot are finitely many and a
  job takes finitely many steps.

`Account`, `NoticeRecord` and `Judging` have no liveness property: their steps
follow one another within one request or run.

## 5. The proofs

The type invariants of the modules with proofs are theorems (`TypeCorrect`, or a
part of `InvariantCorrect`), so the runs do not repeat them; that of `Judging`,
which bounds the scores, is a theorem (`JudgingIsTyped`) and checked as well.

`MatchRunProofs`, for every set of accounts, plans, runs, request slots and
erasing requests, every permit count and every bound:

- `InvariantCorrect`: `TypeOK /\ TaskInv /\ OwnershipInv` is invariant.
  `ResultsOnlyOnCompleted` and `ProcessingIsAttended` are not inductive by
  themselves: that a task may write its verdict needs `TaskFollowsRow` (a live
  task's row is undecided or gone) and, for results flushed but not committed,
  `FlushHoldsRow` (nobody has erased the row meanwhile, since a flushed row is
  locked).  `DownIsQuiet` says no task outlives a crash, which is what makes
  the start-up UPDATE safe.  `WithdrawnOwnsNothing` needs `WithdrawalListsAll`:
  once a withdrawal has deleted the plans, every run of the account is on its
  list, because a later INSERT waits for the plan it references and fails.
- `ResultsCorrect`, `AttendanceCorrect`, `WithdrawalCorrect` follow.
- `OneRunCorrect`: one run per account while its requests do not overlap.
  `AtMostOne` adds that a request that has passed the check has met no run; only
  a step under `RequestsDoNotOverlap` keeps that, so the theorem is an induction
  along the hypothesis.
- `LifecycleCorrect`: `MatchRun` implements `MatchLifecycle`.  Each handler is
  mapped to its abstract step; `TaskInv` supplies that a verdict is given to an
  undecided row only.

`PlanAnalysisProofs`, for every number of tasks and crashes:

- `AnalysedCorrect`: `completed` means that there is an analysis.  It holds for
  tasks of any length: `finish_analysis` is unconditional, but a task that
  reports success has committed its analysis (`SucceededIsAnalysed`), and
  nothing removes one.
- `ClaimCorrect`, `OcrCorrect`, `LifecycleCorrect`, for tasks that end within
  the ten minutes (`~SlowTasks`): one task at a time, OCR for rows without a
  text only, and `AnalysisLifecycle` implemented.  `ClaimInv` joins the halves:
  the row of a live task is `processing` and fresh, so nobody can claim it, so
  nobody else writes it between the look at `raw_text` and the OCR.

`ProgressPageProofs`, for every number of runs, chains, loops and requests:

- `InvariantCorrect`: nobody listens in a page that is not open, polling begins
  when the first request is answered, no chain of polls is lost or made twice
  by the page itself, and `cancelled` holds of a closed page only.
- `MatchedCorrect`: the results the page leads to are of a completed run.  It
  needs the server half too: `MatchLifecycle` never takes a verdict back, so
  what a loop has seen stays true, or the user has erased it.
- `AttendedCorrect`: a page in `matching` has a request or a loop.

`AccountProofs`, for every number of requests, in flight and in all, any bodies:

- `FilesCorrect`: rows have their files.  `FileInv` says that an upload is about
  a plan of its own, which no withdrawal has on its list, and that a withdrawal
  deletes files of rows that are gone.
- `LoginCorrect`: a sign-in with Kakao gives tokens to an `ACTIVE` account.  `LoginInv`: the sign-in
  that holds the row of `user` has seen what it is, and it is the only one.
- `WithdrawalCorrect`, `ErasureCorrect`: a withdrawal that no other request
  overlaps leaves nothing and is not refused.  `EraseInv`: it is alone, its
  lists are complete, and what is left to a withdrawn user is to sign in.
- `ProfileCorrect`: while requests do not overlap, the rules on the profile
  hold.  They do not rest on the row alone, since a save, an upload and an
  autofill each write what they derived from an earlier read.  `ProfileInv`
  adds that such a request is alone and that what it has read is what is stored
  (`UpToDate`); then the columns it writes, over those it leaves, are the merged
  profile it has validated (`WrittenIsMerged`), with the size of it
  (`SavedIsOk`).  An autofill keeps the rules because it does not write
  `prestartup` over a profile with a history (`FilledIsOk`).

`JudgingProofs`, for any finite set of notices, any versions of them, profiles,
plans and limits:

- The operators first.  Quotients and blends stay in their range (`DivBound` to
  `TotalInRange`), whence `JudgingIsTyped`: scores are between 0 and 100.  Ranks
  in a total order on a finite set grow along the order and take every value
  (`RankGrows`, `RankHitsEveryPlace`: an injection of a finite set into as many
  places is onto), so `Ranked` is a sorted permutation (`RankedIsSorted`).
- `VerdictsAreOfTheProfile`, `VerdictsAreOnTheQuestions`: `CacheOK` says that a
  cached judgment was made of the profile and the kind of notice that its key
  was computed from.  The key holds no profile but its fingerprint, so a hit may
  come from another profile; the theorem holds because profiles with the same
  fingerprint are printed alike (`KeyTells`).  A fingerprint is the fields that
  are hashed: SHA-256 is taken to have no collisions.
- `EachCategoryIsJudged`: the candidates of a category are the most similar of
  it, up to the limit (`MostSimilarIsFull`), whatever the other lists hold, and
  all of them are judged before the results are cut (`JudgedShares`).
- `ResultsAreTheBest`: all that passed is scored and sorted, late judgments
  score and sort all of it again (`ScoredIsBestFirst`, `RescoredIsBestFirst`),
  and only then it is cut.

`NoticeProofs`, for all answers a portal may give and any number of days:

- `ActionableCorrect`, `TextCorrect`.
- `BackfillsCorrect`: a backfill whose answer is still the stored one when it
  writes brings its columns to what collecting that answer gives.  It needs
  `BackfillInv`: a backfill is not about MSIT's notices, the
  category it found is that of its answer under mappings that only grow, and
  one of categories writes only if it has found one.
- `RefreshCorrect`: a refresh that no collection overtook writes, of Bizinfo and
  MSIT, what collecting the stored answer would, and leaves no notice open past
  its last day.  It is not about K-Startup's status otherwise (section 7).  It
  needs `StatusInv`: the days of the row are those of the
  stored answer; a status that days do not decide is that of the words, unless
  a refresh was overtaken.  A refresh has only days, so without it the new
  status could not be compared with what collection would write.  The theorem
  also needs that closed rows are not refreshed: without days it would set them
  to `unknown`.

and for any entries, collectors, page sizes, buffers and numbers of faults:

- `DeletionCorrect`: a K-Startup notice is deleted only in a commit that leaves
  Bizinfo's notice of the same title.  `CollectionInv` says so of every open
  transaction.  It needs that a pass handles entries of its source only, and
  that there is a newest of those left (`HasNewest`), since `Store` takes the
  newest.  The hypothesis `Numbered` is the part of `NoticeCollection`'s
  `ItemAssumption` that this rests on (keys are positive numbers): the
  assumptions of an instantiated module are no facts of the module that
  instantiates it.

`NoticeEmbeddingProofs`, for every number of calls, files and losses:

- `SearchCorrect`: the rows a call answers with have their vectors.  `SearchInv`
  adds what a call relies on between its steps: rows that appeared after it
  looked belong to a call that had stored their vectors
  (`NewRowsAreSearchable`), rows it decided to reuse are in Chroma
  (`ReusedRowsAreSearchable`), and its own rows are upserted before they are
  committed (`OwnRowsAreSearchable`).  It is why two calls that mix their
  generations still leave nothing that cannot be searched.
- `ReuseCorrect`: calls that do not overlap reuse rows of the current file only.
  The code compares `created_at` of the rows with `updated_at` of the
  attachment, and both are starts of transactions.  `CurrentInv` orders them:
  there is one generation at most, and the text of a later file is written by a
  transaction that began after that of the rows.  Only steps that keep calls
  apart keep it, so the theorem is an induction along that hypothesis.

`NoticeJobsProofs`, for every set of notices, requests and backlogs, every batch
limit and chunk size:

- `OneJobCorrect`: only a registration makes a job active, and it looks at the
  whole registry in the same step (`RegisterKeepsOne`); a job's own steps never
  revive a finished one (`WorkKeepsOne`).
- `StoredCorrect`: a job goes to report `COMPLETED` of what is stored at its
  last commit or query, and when it does the result is still there or the
  notice has gone.  It needs `DoneIsStored`, and with it `OneJobPerNotice`: only
  a normalization takes a result back, and it is the only one of its notice, so
  no other is on its way to report what it takes.

Apart from the hypotheses named above the proofs assume the constants' ASSUMEs
only.  They say that slots and bounds are of the right kind, "no plan" is not a
plan, an answer has its fields; that texts have finitely many words
(`WordsAssumption` of `Judging`); that the body of a request sets neither the size
nor the confirmation, and an analysis no stage, industry or revenue
(`BodiesAssumption` of `Account`: the fields of `CompanyProfileUpdate` and of
`_autofill_fields`).  TLC evaluates them in the runs.

Every invariant and every action property that the passing runs check is a
theorem, and so are both refinements.  Only model-checked: liveness (`RunEnds`, `EraseEnds`, `AnalysisEnds`,
`AnalysisPollingEnds`, `MatchingEnds`, `RecentIsCollected`, `DuplicatesHeal`,
`CallsEnd`, `JobsEnd`, `BacklogEnds`), which rests on fairness and ENABLED, out
of the prover's reach.

## 6. Where code and documentation disagree

Each of these is a run whose property TLC finds violated; `PROJECT.json`,
"findings", quotes the sentence.

1. *The late judgment is ignored* (`judging_fallback`): the second call of
   `_score_notice` leaves out the numbers of criteria, and the blend falls back to
   the keyword score.
2. *A founder-to-be gets a history* (`account_prefounder`): autofill and partial
   saves fill columns that exclude a stored type.
3. *The match stage is lost* (`progress_page_visible`): a tab that becomes
   visible polls a finished analysis and overwrites the stage.

## 7. What the models show beyond the runs

Some properties hold under a condition that the code does not enforce.  The
condition is part of the property; dropping it, TLC finds:

- *Two runs of one account*, when two requests overlap: `create_match_log`
  reads, awaits, inserts.  `match_log.py:255` says there is at most one.
- *A task without a row*: erasing a run in progress lets the account start a
  second one while the first task still computes.  It writes nothing.
- *Two tasks for one plan*: a claim is taken over after ten minutes
  (`api/business_plan_analysis.py:14`), and nothing renews it; with
  `SlowTasks = TRUE` both finish the row, and `OneTask`, `OcrIsNotRepeated` and
  the refinement fail.  `CompletedIsAnalysed` still holds.
- *A run stuck in `processing`*: when the failure handler of a matching run
  fails as well (`LoseFailure`), the run stays so until the next start-up.
- *Two generations of chunks*: two calls that replace a notice's rows at once
  leave both, as the second DELETE does not see the first one's INSERT.
- *A replaced file cannot be embedded on demand*: after OCR of its own, the
  date comparison raises `MissingGreenlet` (`CheckUnreadable`), until the OCR job
  has run.
- *Completed of a deleted notice*: after a job's last commit or query nobody
  looks again whether the notice is there.  An embedding job that uses chunks
  again asks Chroma first (`notice_embedding_service.py:111`), so the time is
  not short.
- *Vectors stay*: nothing deletes from the Chroma collection, and the search,
  which filters by notice only, finds vectors of replaced or rolled-back rows.
- *Two backlogs of a kind*: a backlog request checks, awaits, registers.  Their
  jobs are still not doubled.
- *Entries skipped for good*: a pass that fails after its first page leaves a
  cursor past what it has not reached; only entries within the buffer come back,
  although `notice_collection_service.py:567` says that failures are retried.
- *Duplicates that cannot be deleted*: a K-Startup notice that was recommended
  is referenced by `match_result`, and Bizinfo's entry of the same title fails
  on every pass (`Obstructed`).
- *A wrong status until the next collection*: a refresh overtaken by a
  collection writes what it had read.  A row it closes so is not refreshed again.
- *K-Startup's two statuses*: collection goes by `rcrt_prgs_yn`, the refresh by
  the days, so a notice that still recruits past its last day is closed by the
  refresh, and opened again by a collection.
- *An old answer comes back*: a backfill that a collection has overtaken writes
  what the answer says that it read at its start.  Region codes and years are
  put right by the next backfill of them or the next collection (the one that
  adds "nationwide" takes nothing away); a category by the next collection only,
  since its backfill goes over notices without one.  A collection and a backfill of regions that overlap leave the
  regions of both answers.
- *An account's overlaps*: two first requests make two profiles, both primary;
  overlapping saves combine a size, a type and a stage that no request had; a
  request that overlaps a withdrawal leaves rows behind or aborts the deletion
  after Kakao has been unlinked, and the retry is then refused by Kakao.

## 8. What is not modelled

- The scheduler's later stages (OCR, normalization and embedding batches with
  their daily limits) call the triggers that `NoticeJobs` models; that the first
  300 or 500 ids of a fixed order may fail every night and keep the rest waiting
  (`notice_repository.py:832`) follows from a LIMIT and is not a property here.
- Text extraction, crawlers, downloads, the choice of an MSIT document, and
  chunking: computations over files without state; their outcomes are inputs.
- Choosing the best of several attachments in normalization, and validating
  what the LLM answered.
- Sample and notice pages, the other pages of the frontend, migrations and
  configuration.  Constraints that migrations declare are used by the modules
  that meet them.
- Token formats, cookies and refresh: library work.

`PROJECT.json`, "components", lists every part with its status and reason.

## 9. What could come next

A `DailyPipeline` over `NoticeJobs` with limits; the choice among attachments in
normalization and chunking as pure algorithms.
