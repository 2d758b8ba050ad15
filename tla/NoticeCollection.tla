--------------------------- MODULE NoticeCollection ---------------------------
(***************************************************************************)
(* Collecting notices from three portals (services/                        *)
(* notice_collection_service): Bizinfo, then K-Startup, then the ministry  *)
(* MSIT, page by page from the newest entry, one transaction per page.     *)
(* The first two stop at a cursor computed from what is stored; the third  *)
(* at the first page with an entry outside the collection window.  A       *)
(* programme that both Bizinfo and K-Startup list is kept once, Bizinfo's. *)
(*                                                                         *)
(* Two collectors exist: the scheduler, every night, and the one job that  *)
(* POST /internal/notices/collect admits at a time.  Neither looks at the  *)
(* other.  A step handles one entry, or is one fetch or one commit.        *)
(***************************************************************************)
EXTENDS Integers, FiniteSets

CONSTANTS
    Item,           \* what the portals may list
    Collector,      \* {"scheduler", "request"} or one of them
    PageSize,
    Buffer,         \* _BIZINFO_EARLY_STOP_BUFFER, _KSTARTUP_EARLY_STOP_BUFFER
    MaxFaults,      \* bound: fetches, entries, jobs that fail; entries delisted
    None

Source == {"bizinfo", "kstartup", "msit"}

\* key: creatPnttm, pbanc_sn, pressDt: what a portal's list is ordered by.
\* class: "wanted", "other" (another category, a result announcement), "old"
\* (outside _within_collection_window).
ASSUME ItemAssumption ==
    /\ \A i \in Item :
          /\ i.source \in Source
          /\ i.key \in Nat \ {0}
          /\ i.class \in {"wanted", "other", "old"}
          /\ {"title", "period"} \subseteq DOMAIN i
    /\ \A i, j \in Item : i.source = j.source /\ i.key = j.key => i = j
ASSUME CollectorAssumption == Collector \subseteq {"scheduler", "request"}
ASSUME BoundAssumption ==
    PageSize \in Nat \ {0} /\ Buffer \in Nat \ {0} /\ MaxFaults \in Nat

VARIABLES
    listed,         \* what the portals list
    notices,        \* notice rows, committed
    recommended,    \* notices that a match_result refers to
    job,            \* job[c]: the pass collector c is making
    faults

vars == <<listed, notices, recommended, job, faults>>

\* queue: entries of the fetched page still to be handled.  stop: the cursor.
\* last: this page ends the source.  added, removed: rows written and deleted
\* by the open transaction.  locks: source rows it has upserted.
Idle == [pc |-> "idle", source |-> "bizinfo", page |-> 0, queue |-> {}, stop |-> None,
         last |-> FALSE, added |-> {}, removed |-> {}, locks |-> {}]
Pass(source) == [Idle EXCEPT !.pc = "begin", !.source = source]

To(c, record) == job' = [job EXCEPT ![c] = record]
Others(c) == Collector \ {c}
View(c) == (notices \cup job[c].added) \ job[c].removed

-----------------------------------------------------------------------------
\* What a title means.

\* find_notice_ids_by_source_and_title
Candidates(rows, source, i) == {j \in rows : j.source = source /\ j.title = i.title}

\* _find_cross_source_duplicate_notice_ids: one candidate is taken as it is,
\* several only if the application period is the same.
Duplicates(rows, source, i) ==
    LET candidates == Candidates(rows, source, i)
    IN  IF i.title = None THEN {}
        ELSE IF Cardinality(candidates) <= 1 THEN candidates
        ELSE {j \in candidates : i.period # None /\ j.period = i.period}

\* The newest key of a source among rows, 0 if there is none.
NewestKey(rows, source) ==
    LET keys == {j.key : j \in {k \in rows : k.source = source}}
    IN  IF keys = {} THEN 0 ELSE CHOOSE k \in keys : \A l \in keys : l <= k

\* MUTANT: no margin for entries that are numbered first and shown later.
CursorWithoutBuffer(rows, source) ==
    IF source = "msit" \/ NewestKey(rows, source) = 0 THEN None
    ELSE NewestKey(rows, source)

\* get_max_bizinfo_registration_time, get_max_notice_external_id: the newest
\* entry that is stored, less the buffer.
Cursor(rows, source) ==
    IF source = "msit" \/ NewestKey(rows, source) = 0 THEN None
    ELSE NewestKey(rows, source) - Buffer

\* _bizinfo_item_before_cutoff, _kstartup_item_before_cutoff
BeforeCutoff(i, stop) == stop # None /\ i.key <= stop

\* Page number n of a source, newest first.
PageOf(source, n) ==
    {i \in listed :
        /\ i.source = source
        /\ Cardinality({j \in listed : j.source = source /\ j.key > i.key})
              \in (n - 1) * PageSize .. n * PageSize - 1}

-----------------------------------------------------------------------------
\* The portals and the users of what was collected.

\* Entries may appear out of order, but less than the buffer late.
Publish(i) ==
    /\ i \notin listed
    /\ i.key + Buffer > NewestKey(listed, i.source)
    /\ listed' = listed \cup {i}
    /\ UNCHANGED <<notices, recommended, job, faults>>

Delist(i) ==
    /\ i \in listed
    /\ faults < MaxFaults
    /\ faults' = faults + 1
    /\ listed' = listed \ {i}
    /\ UNCHANGED <<notices, recommended, job>>

\* A matching run commits a match_result; match_result.notice_id makes it wait
\* for a transaction that deletes the row.  Collection deletes K-Startup rows
\* only, so references to the others are left out.
Recommend(i) ==
    /\ i \in notices \ recommended /\ i.source = "kstartup"
    /\ \A c \in Collector : i \notin job[c].removed
    /\ recommended' = recommended \cup {i}
    /\ UNCHANGED <<listed, notices, job, faults>>

\* The last match_result of the notice is erased with its run.
Forget(i) ==
    /\ i \in recommended
    /\ recommended' = recommended \ {i}
    /\ UNCHANGED <<listed, notices, job, faults>>

-----------------------------------------------------------------------------
\* One pass.

\* run_daily_notice_pipeline at night; start_collection, which refuses (409)
\* while the job of an earlier request is active.
Start(c) ==
    /\ job[c].pc = "idle"
    /\ To(c, Pass("bizinfo"))
    /\ UNCHANGED <<listed, notices, recommended, faults>>

\* What becomes of job r when its source is done: the next source, in the same
\* session, or the end, which rolls back what is not committed.
AfterSource(r) ==
    IF r.source = "msit" THEN Idle
    ELSE [Pass(IF r.source = "bizinfo" THEN "kstartup" ELSE "msit")
             EXCEPT !.locks = r.locks]

\* get_or_create_source upserts the source row, which stays locked until the
\* next commit, and the cursor is computed, or cannot be (stop = None).
Begin(c) ==
    /\ job[c].pc = "begin"
    /\ \A d \in Others(c) : job[c].source \notin job[d].locks
    /\ \/ /\ To(c, [job[c] EXCEPT !.pc = "fetch", !.page = 1,
                                  !.stop = Cursor(View(c), job[c].source),
                                  !.locks = @ \cup {job[c].source}])
          /\ UNCHANGED faults
       \/ /\ faults < MaxFaults
          /\ job[c].source # "msit"
          /\ faults' = faults + 1
          /\ To(c, [job[c] EXCEPT !.pc = "fetch", !.page = 1, !.stop = None,
                                  !.locks = @ \cup {job[c].source}])
    /\ UNCHANGED <<listed, notices, recommended>>

\* An empty page ends the source without a commit.
Fetch(c) ==
    /\ job[c].pc = "fetch"
    /\ LET page == PageOf(job[c].source, job[c].page)
       IN  To(c, IF page = {} THEN AfterSource(job[c])
                 ELSE [job[c] EXCEPT !.pc = "page", !.queue = page,
                          !.last = /\ job[c].source = "msit"
                                   /\ \E i \in page : i.class = "old"])
    /\ UNCHANGED <<listed, notices, recommended, faults>>

\* The portal fails at every retry.  The scheduler goes on to the next source;
\* the job of a request ends as FAILED.
FetchFails(c) ==
    /\ job[c].pc = "fetch"
    /\ faults < MaxFaults
    /\ faults' = faults + 1
    /\ To(c, IF c = "scheduler" THEN AfterSource(job[c]) ELSE Idle)
    /\ UNCHANGED <<listed, notices, recommended>>

\* The database fails outside a savepoint, or the process dies.
Abort(c) ==
    /\ job[c].pc # "idle"
    /\ faults < MaxFaults
    /\ faults' = faults + 1
    /\ To(c, Idle)
    /\ UNCHANGED <<listed, notices, recommended>>

-----------------------------------------------------------------------------
\* One entry.

Newest(queue) == CHOOSE i \in queue : \A j \in queue : j.key <= i.key
Current(c) == Newest(job[c].queue)
Handled(c) == [job[c] EXCEPT !.queue = @ \ {Current(c)}]

\* MUTANT: duplicates are looked for when an entry is new only.
ToDeleteOnInsert(c) ==
    IF job[c].source = "bizinfo" /\ Current(c) \notin View(c)
    THEN Duplicates(View(c), "kstartup", Current(c)) ELSE {}

\* K-Startup rows that _process_bizinfo_item deletes for the entry at hand.
ToDelete(c) ==
    IF job[c].source = "bizinfo" THEN Duplicates(View(c), "kstartup", Current(c)) ELSE {}

\* _process_kstartup_item keeps nothing that Bizinfo has.
IsSkipped(c) ==
    \/ Current(c).class # "wanted"
    \/ /\ job[c].source = "kstartup"
       /\ Duplicates(View(c), "bizinfo", Current(c)) # {}

\* Collectors whose open transaction has written a row the entry's own
\* statements need.
Blockers(c) ==
    {d \in Others(c) :
        /\ job[c].pc = "page" /\ job[c].queue # {}
        /\ ~BeforeCutoff(Current(c), job[c].stop) /\ ~IsSkipped(c)
        /\ ({Current(c)} \cup ToDelete(c)) \cap (job[d].added \cup job[d].removed) # {}}

\* An entry at or before the cursor ends the source with this page.
ReachKnown(c) ==
    /\ job[c].pc = "page" /\ job[c].queue # {}
    /\ BeforeCutoff(Current(c), job[c].stop)
    /\ To(c, [job[c] EXCEPT !.queue = {}, !.last = TRUE])
    /\ UNCHANGED <<listed, notices, recommended, faults>>

Skip(c) ==
    /\ job[c].pc = "page" /\ job[c].queue # {}
    /\ ~BeforeCutoff(Current(c), job[c].stop)
    /\ IsSkipped(c)
    /\ To(c, Handled(c))
    /\ UNCHANGED <<listed, notices, recommended, faults>>

\* MUTANT: no savepoint around an entry: what it did before failing stays.
StoreWithoutSavepoint(c) ==
    /\ job[c].pc = "page" /\ job[c].queue # {}
    /\ ~BeforeCutoff(Current(c), job[c].stop)
    /\ ~IsSkipped(c)
    /\ Blockers(c) = {}
    /\ LET deleted == ToDelete(c)
       IN  \/ To(c, [Handled(c) EXCEPT !.added = @ \cup {Current(c)},
                                       !.removed = @ \cup deleted])
           \/ To(c, [Handled(c) EXCEPT !.removed = @ \cup deleted])
    /\ UNCHANGED <<listed, notices, recommended, faults>>

\* One entry in its savepoint: upsert_notice with what hangs on it, and
\* delete_notice of its K-Startup duplicates.  A duplicate that was ever
\* recommended cannot be deleted, and the whole entry fails.
Store(c) ==
    /\ job[c].pc = "page" /\ job[c].queue # {}
    /\ ~BeforeCutoff(Current(c), job[c].stop)
    /\ ~IsSkipped(c)
    /\ Blockers(c) = {}
    /\ LET deleted == ToDelete(c)
       IN  To(c, IF deleted \cap recommended # {} THEN Handled(c)
                 ELSE [Handled(c) EXCEPT !.added = @ \cup {Current(c)},
                                         !.removed = @ \cup deleted])
    /\ UNCHANGED <<listed, notices, recommended, faults>>

\* The entry raises: its savepoint is rolled back, failed_ids gets its id.
ItemFails(c) ==
    /\ job[c].pc = "page" /\ job[c].queue # {}
    /\ ~BeforeCutoff(Current(c), job[c].stop)
    /\ ~IsSkipped(c)
    /\ faults < MaxFaults
    /\ faults' = faults + 1
    /\ To(c, Handled(c))
    /\ UNCHANGED <<listed, notices, recommended>>

\* Two collectors wait for each other's rows: PostgreSQL fails one statement.
BreakDeadlock(c) ==
    /\ \E d \in Blockers(c) : c \in Blockers(d)
    /\ To(c, Handled(c))
    /\ UNCHANGED <<listed, notices, recommended, faults>>

\* session.commit() at the end of a page.
CommitPage(c) ==
    /\ job[c].pc = "page" /\ job[c].queue = {}
    /\ notices' = (notices \ job[c].removed) \cup job[c].added
    /\ LET r == [job[c] EXCEPT !.added = {}, !.removed = {}, !.locks = {}]
       IN  To(c, IF r.last THEN AfterSource(r)
                 ELSE [r EXCEPT !.pc = "fetch", !.page = @ + 1])
    /\ UNCHANGED <<listed, recommended, faults>>

\* recollect_bizinfo_notice: one stored entry, fetched by its id and processed
\* like one of a page.  It waits for rows that a pass has written.
Recollect(i) ==
    LET deleted == Duplicates(notices, "kstartup", i)
    IN  /\ i.source = "bizinfo"
        /\ i \in listed \cap notices
        /\ deleted # {} /\ deleted \cap recommended = {}
        /\ \A c \in Collector : ({i} \cup deleted) \cap (job[c].added \cup job[c].removed) = {}
        /\ notices' = notices \ deleted
        /\ UNCHANGED <<listed, recommended, job, faults>>

-----------------------------------------------------------------------------
Init ==
    /\ listed = {}
    /\ notices = {}
    /\ recommended = {}
    /\ job = [c \in Collector |-> Idle]
    /\ faults = 0

Work(c) ==
    \/ Begin(c)
    \/ Fetch(c)
    \/ ReachKnown(c)
    \/ Skip(c)
    \/ Store(c)
    \/ BreakDeadlock(c)
    \/ CommitPage(c)

Next ==
    \/ \E c \in Collector : Start(c) \/ Work(c) \/ FetchFails(c) \/ ItemFails(c) \/ Abort(c)
    \/ \E i \in Item : Publish(i) \/ Delist(i) \/ Recommend(i) \/ Forget(i) \/ Recollect(i)

Spec == Init /\ [][Next]_vars

\* Passes go on, row locks are granted in turn, and the scheduler starts one
\* every night.
FairSpec ==
    /\ Spec
    /\ \A c \in Collector : SF_vars(Work(c))
    /\ WF_vars(Start("scheduler"))

-----------------------------------------------------------------------------
\* A notice disappears only with the commit that stores Bizinfo's entry of the
\* same title, however entries fail and collectors meet.
DeletedForItsTwin ==
    [][\A k \in notices \ notices' :
          /\ k.source = "kstartup"
          /\ \E b \in notices' : b.source = "bizinfo" /\ b.title = k.title]_vars

\* Nothing of its source is a whole buffer newer.
Recent(i) == NewestKey(listed \cup notices, i.source) < i.key + Buffer

\* Stored, or left out in favour of Bizinfo's entry.
Collected(i) ==
    \/ i \in notices
    \/ i.source = "kstartup" /\ Duplicates(notices, "bizinfo", i) # {}

\* Its K-Startup duplicate is recommended and cannot make room.
Obstructed(i) ==
    i.source = "bizinfo" /\ \E k \in recommended : k.source = "kstartup" /\ k.title = i.title

\* What a pass is for.
Wanted == {i \in Item : i.class = "wanted"}

\* An entry that is listed and not overtaken by a buffer's length of newer
\* ones gets collected, whatever fails in between.
RecentIsCollected ==
    \A i \in Wanted :
        (i \in listed /\ Recent(i)) ~> (Collected(i) \/ Obstructed(i) \/ i \notin listed \/ ~Recent(i))

\* Two overlapping passes may store a programme twice; a later pass clears it
\* up while Bizinfo's entry is recent.
Twice(b, k) == b \in notices /\ k \in Duplicates(notices, "kstartup", b)

DuplicatesHeal ==
    \A b \in {i \in Wanted : i.source = "bizinfo"} :
        \A k \in {i \in Wanted : i.source = "kstartup" /\ i.title = b.title} :
            (Twice(b, k) /\ b \in listed /\ Recent(b))
                ~> (~Twice(b, k) \/ Obstructed(b) \/ b \notin listed \/ ~Recent(b))
-----------------------------------------------------------------------------
(* What DeletedForItsTwin rests on; NoticeProofs shows that every step     *)
(* keeps it.                                                               *)

\* Whatever part of S is still to be handled has a newest entry.
HasNewest(S) == \A part \in SUBSET S : part # {} => \E i \in part : \A j \in part : j.key <= i.key

\* An open transaction that deletes a row has stored the twin of the row.
PassInv(r) ==
    /\ DOMAIN r = DOMAIN Idle
    /\ \A i \in r.queue : i \in Item /\ i.source = r.source
    /\ HasNewest(r.queue)
    /\ \A k \in r.removed :
          /\ k.source = "kstartup"
          /\ \E b \in r.added : b.source = "bizinfo" /\ b.title = k.title

CollectionInv ==
    /\ listed \subseteq Item /\ HasNewest(listed)
    /\ DOMAIN job = Collector
    /\ \A c \in Collector : PassInv(job[c])
=============================================================================
