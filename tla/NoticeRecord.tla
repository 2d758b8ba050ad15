----------------------------- MODULE NoticeRecord -----------------------------
(***************************************************************************)
(* The row of one notice over time (services/notice_collection_service,    *)
(* repositories/notice_repository): collected again and again from its     *)
(* portal, read by OCR, brought up to date by the status refresh and by    *)
(* the backfills, which work from the stored answer of the portal.  The    *)
(* row may have been written by an earlier release, whose region codes     *)
(* and missing columns are what the backfills were written for.            *)
(***************************************************************************)
EXTENDS Integers, FiniteSets

CONSTANTS
    Item,           \* what the portals may answer
    LastDay,        \* bound: days 1 .. LastDay
    None

\* words: "closed", "rolling" found in the period; recruiting: rcrt_prgs_yn.
\* years: the ceilings of biz_enyy; prestartup: its token for founders to be.
ASSUME ItemAssumption ==
    \A i \in Item :
        /\ i.source \in {"bizinfo", "kstartup", "msit"}
        /\ {i.start, i.end} \subseteq Int \cup {None}
        /\ i.words \subseteq {"closed", "rolling"}
        /\ i.recruiting \in {"Y", "N", None}
        /\ IsFiniteSet(i.years) /\ i.years \subseteq Int
        /\ i.prestartup \in BOOLEAN
ASSUME LastDayAssumption == LastDay \in Nat \ {0}

VARIABLES
    today,
    mapped,         \* keys that category_mapping holds
    raw,            \* the stored answer: raw_field
    row,            \* the notice row with its regions and attachments
    refresh,        \* what refresh_notice_statuses has read of the row, or None
    overtaken,      \* auxiliary: the last collection met a refresh in progress
    backfill        \* a backfill with the answer it has read, or NoBackfill

vars == <<today, mapped, raw, row, refresh, overtaken, backfill>>

-----------------------------------------------------------------------------
\* What an answer means.

\* REGION_CODE_BY_NAME: two names of one province, and a tag that is no region.
RegionCode == [Seoul |-> 11, SeoulCity |-> 11, Jeonnam |-> 46, Gwangju |-> 29,
               JeonnamGwangju |-> 90, Nationwide |-> 0]
All == 0

\* All provinces, before and after two of them merged.
Everywhere == {{11, 46, 29}, {11, 90}}

\* _parse_regions
Codes(tags) == {RegionCode[t] : t \in tags \cap DOMAIN RegionCode}

\* _parse_bizinfo_regions adds nationwide when every province is named.
Regions(i) ==
    LET codes == Codes(i.tags)
    IN  CASE i.source = "kstartup" -> codes
          [] i.source = "bizinfo" ->
               codes \cup (IF \E all \in Everywhere : all \subseteq codes THEN {All} ELSE {})
          [] i.source = "msit" -> {}

\* Bizinfo writes both days in one string, K-Startup each in its field; MSIT
\* has no period.
Readable(i, day) ==
    CASE i.source = "bizinfo" -> IF None \in {i.start, i.end} THEN None ELSE day
      [] i.source = "kstartup" -> day
      [] i.source = "msit" -> None

\* _derive_status_from_dates: the days decide before the words do.
Derive(start, end, words) ==
    IF start # None /\ start > today THEN "planned"
    ELSE IF end # None /\ end < today THEN "closed"
    ELSE IF start # None /\ end # None THEN "open"
    ELSE IF "closed" \in words THEN "closed"
    ELSE IF "rolling" \in words THEN "open"
    ELSE "unknown"

\* MSIT posts that were not filtered out count as open; K-Startup says itself.
Status(i) ==
    CASE i.source = "bizinfo" -> Derive(Readable(i, i.start), Readable(i, i.end), i.words)
      [] i.source = "kstartup" ->
           CASE i.recruiting = "Y" -> "open" [] i.recruiting = "N" -> "closed"
             [] OTHER -> "unknown"
      [] i.source = "msit" -> "open"

\* parse_biz_enyy: the highest ceiling named; no ceiling and no founders to be
\* is no restriction.
YearsMax(i) ==
    IF i.source # "kstartup" \/ i.years = {} THEN None
    ELSE CHOOSE y \in i.years : \A z \in i.years : z <= y
Prestartup(i) ==
    IF i.source # "kstartup" \/ (i.years = {} /\ ~i.prestartup) THEN None ELSE i.prestartup

\* category_mapping.get(raw key); MSIT has one category.
Category(i) == IF i.source = "msit" THEN "rnd" ELSE IF i.key \in mapped THEN i.key ELSE None

\* MUTANT: the text is saved with the attachment.
SaveFilesAfresh(old, i) == [f \in i.files |-> None]

\* save_attachment leaves the text of a known URL, prune_stale_attachments
\* deletes what is not listed.  A K-Startup answer lists no files.
SaveFiles(old, i) ==
    IF i.source = "kstartup" THEN old
    ELSE [f \in i.files |-> IF f \in DOMAIN old THEN old[f] ELSE None]

\* upsert_notice with the tables that hang on the row.
Collected(old, i) ==
    [start |-> Readable(i, i.start), end |-> Readable(i, i.end), status |-> Status(i),
     actionable |-> Status(i) = "open", category |-> Category(i), regions |-> Regions(i),
     yearsMax |-> YearsMax(i), prestartup |-> Prestartup(i), files |-> SaveFiles(old.files, i)]

-----------------------------------------------------------------------------
Tick ==
    /\ today < LastDay
    /\ today' = today + 1
    /\ UNCHANGED <<mapped, raw, row, refresh, overtaken, backfill>>

\* The portal's answer for the same notice, seen in a pass, a page of a
\* trigger or a recollection.  MSIT keeps no raw answer; raw stands for the
\* last answer all the same.
Collect(i) ==
    /\ i.source = raw.source
    /\ raw' = i
    /\ row' = Collected(row, i)
    /\ overtaken' = (refresh # None)
    /\ UNCHANGED <<today, mapped, refresh, backfill>>

\* set_attachment_parsed_text
Ocr(f) ==
    /\ f \in DOMAIN row.files
    /\ row' = [row EXCEPT !.files[f] = "text"]
    /\ UNCHANGED <<today, mapped, raw, refresh, overtaken, backfill>>

\* A migration adds a row to category_mapping.
MapCategory(key) ==
    /\ mapped' = mapped \cup {key}
    /\ UNCHANGED <<today, raw, row, refresh, overtaken, backfill>>

\* get_notices_for_status_refresh: closed notices are left alone for good.
RefreshRead ==
    /\ refresh = None
    /\ row.status # "closed"
    /\ refresh' = [start |-> row.start, end |-> row.end, status |-> row.status]
    /\ UNCHANGED <<today, mapped, raw, row, overtaken, backfill>>

\* MUTANT: an open notice without days is set to unknown.
RefreshWriteAll ==
    /\ refresh # None
    /\ refresh' = None
    /\ LET new == Derive(refresh.start, refresh.end, {})
       IN  row' = [row EXCEPT !.status = new, !.actionable = new = "open"]
    /\ UNCHANGED <<today, mapped, raw, overtaken, backfill>>

\* MUTANT: the status is written without the flag.
RefreshWriteStatusOnly ==
    /\ refresh # None
    /\ refresh' = None
    /\ LET new == Derive(refresh.start, refresh.end, {})
       IN  row' = IF new = "unknown" /\ refresh.status = "open"
                  THEN row ELSE [row EXCEPT !.status = new]
    /\ UNCHANGED <<today, mapped, raw, overtaken, backfill>>

\* refresh_notice_statuses, one row: written by id, from what was read.
RefreshWrite ==
    /\ refresh # None
    /\ refresh' = None
    /\ LET new == Derive(refresh.start, refresh.end, {})
       IN  row' = IF new = refresh.status \/ (new = "unknown" /\ refresh.status = "open")
                  THEN row
                  ELSE [row EXCEPT !.status = new, !.actionable = new = "open"]
    /\ UNCHANGED <<today, mapped, raw, overtaken, backfill>>

\* get_notices_missing_category, get_bizinfo_notices_with_raw,
\* get_kstartup_notices_with_raw: what a backfill of each kind goes over.
Concerned(kind) ==
    CASE kind = "categories" -> raw.source # "msit" /\ row.category = None
      [] kind = "nationwide" -> raw.source = "bizinfo"
      [] kind = "regions" -> raw.source # "msit"
      [] kind = "years" -> raw.source = "kstartup"

BackfillKind == {"categories", "nationwide", "regions", "years"}
NoBackfill == [kind |-> "none"]

\* A backfill reads the stored answers of all notices at once, and handles them
\* one after the other with awaits in between.  sure: it will write.
BackfillRead(kind) ==
    /\ backfill.kind = "none"
    /\ Concerned(kind)
    /\ backfill' = [kind |-> kind, answer |-> raw, category |-> Category(raw),
                    sure |-> kind = "categories" /\ Category(raw) # None]
    /\ UNCHANGED <<today, mapped, raw, row, refresh, overtaken>>

\* It looks at what the row holds; a category is not looked at again.
Differs ==
    CASE backfill.kind = "categories" -> FALSE
      [] backfill.kind = "nationwide" ->
           All \in Regions(backfill.answer) /\ All \notin row.regions
      [] backfill.kind = "regions" -> Regions(backfill.answer) # row.regions
      [] backfill.kind = "years" ->
           <<YearsMax(backfill.answer), Prestartup(backfill.answer)>>
             # <<row.yearsMax, row.prestartup>>

BackfillLook ==
    /\ backfill.kind # "none" /\ ~backfill.sure
    /\ backfill' = IF Differs THEN [backfill EXCEPT !.sure = TRUE] ELSE NoBackfill
    /\ UNCHANGED <<today, mapped, raw, row, refresh, overtaken>>

\* ... and writes by id, from the answer it has read.
Backfill(kinds) ==
    /\ backfill.kind \in kinds /\ backfill.sure
    /\ backfill' = NoBackfill
    /\ UNCHANGED <<today, mapped, raw, refresh, overtaken>>

BackfillCategories ==
    /\ Backfill({"categories"})
    /\ row' = [row EXCEPT !.category = backfill.category]

\* MUTANT: codes are added, wrong ones stay.
BackfillRegionsByAdding ==
    /\ Backfill({"nationwide", "regions"})
    /\ row' = [row EXCEPT !.regions = @ \cup Regions(backfill.answer)]

\* backfill_bizinfo_nationwide_regions, backfill_notice_region_codes
BackfillRegions ==
    /\ Backfill({"nationwide", "regions"})
    /\ row' = [row EXCEPT !.regions = Regions(backfill.answer)]

BackfillYears ==
    /\ Backfill({"years"})
    /\ row' = [row EXCEPT !.yearsMax = YearsMax(backfill.answer),
                          !.prestartup = Prestartup(backfill.answer)]

\* Both replace the regions, by DELETE and INSERT, in transactions that overlap:
\* neither deletes what the other has inserted.  With a code in common, one of
\* them fails on the unique constraint and is as if it had not been.
CollectBesideBackfill(i) ==
    /\ i.source = raw.source
    /\ backfill.kind \in {"nationwide", "regions"} /\ backfill.sure
    /\ Regions(i) \cap Regions(backfill.answer) = {}
    /\ raw' = i
    /\ row' = [Collected(row, i) EXCEPT !.regions = @ \cup Regions(backfill.answer)]
    /\ overtaken' = (refresh # None)
    /\ backfill' = NoBackfill
    /\ UNCHANGED <<today, mapped, refresh>>

-----------------------------------------------------------------------------
Keys == {i.key : i \in Item} \ {None}
Files == UNION {i.files : i \in Item}

\* Rows of this release, and rows of an earlier one: other region codes, no
\* year columns, no category.
Init ==
    /\ today = 1
    /\ mapped \in SUBSET Keys
    /\ raw \in Item
    /\ refresh = None
    /\ overtaken = FALSE
    /\ backfill = NoBackfill
    /\ LET now == Collected([files |-> <<>>], raw)
       IN  row \in {now, [now EXCEPT !.regions = {46}, !.yearsMax = None,
                                     !.prestartup = None, !.category = None]}

Next ==
    \/ Tick
    \/ \E i \in Item : Collect(i)
    \/ \E f \in Files : Ocr(f)
    \/ \E key \in Keys : MapCategory(key)
    \/ RefreshRead
    \/ RefreshWrite
    \/ \E kind \in BackfillKind : BackfillRead(kind)
    \/ BackfillLook
    \/ BackfillCategories
    \/ BackfillRegions
    \/ BackfillYears
    \/ \E i \in Item : CollectBesideBackfill(i)

Spec == Init /\ [][Next]_vars

-----------------------------------------------------------------------------
\* Only an open notice is offered, whichever of collection and refresh wrote
\* last.
ActionableIsOpen == row.actionable = (row.status = "open")

\* The refresh has the days but not the portal's wording, and still writes
\* what collecting the stored answer today would, of Bizinfo and MSIT: an open
\* notice without days is not closed by mistake.  Of every portal, one whose
\* last day is past does not stay open.  K-Startup's answer says itself whether
\* it recruits, which collection writes and the refresh has not read: there
\* the two may disagree.  A refresh that a collection has overtaken writes what
\* it read, and the row may be wrong until the next collection.
RefreshAgreesWithCollection ==
    [][(refresh # None /\ refresh' = None /\ ~overtaken)
          => /\ raw.source \in {"bizinfo", "msit"} => row'.status = Status(raw)
             /\ row.end # None /\ row.end < today => row'.status # "open"]_vars

\* A backfill brings its columns to what collecting the stored answer gives,
\* whatever release wrote them and however refreshes, OCR, mappings and
\* collections come in between, as long as the answer it has read is the stored
\* one when it writes; and it takes no column away from that.  A backfill that a
\* collection of another answer has overtaken writes the old one's.
BackfillsAgreeWithCollection ==
    [][backfill.kind # "none" /\ backfill.answer = raw /\ raw' = raw =>
         /\ row'.regions \in {row.regions, Regions(raw)}
         /\ row'.category \in {row.category, Category(raw)}
         /\ <<row'.yearsMax, row'.prestartup>> \in
               {<<row.yearsMax, row.prestartup>>, <<YearsMax(raw), Prestartup(raw)>>}
         /\ backfill'.kind = "none" =>
              CASE backfill.kind = "categories" ->
                     backfill.category # None => row'.category = Category(raw)
                [] backfill.kind = "nationwide" -> All \in Regions(raw) => All \in row'.regions
                [] backfill.kind = "regions" -> row'.regions = Regions(raw)
                [] backfill.kind = "years" ->
                     row'.yearsMax = YearsMax(raw) /\ row'.prestartup = Prestartup(raw)]_vars

\* Paid OCR is not lost by collecting again: a file that stays listed keeps
\* its text, a replaced one is gone with its text.
TextOutlivesCollection ==
    [][/\ \A f \in DOMAIN row.files \cap DOMAIN row'.files :
             row.files[f] # None => row'.files[f] = row.files[f]
       /\ raw'.source # "kstartup" => DOMAIN row'.files = raw'.files]_vars
-----------------------------------------------------------------------------
(* What the properties above rest on; NoticeProofs shows that every  *)
(* step keeps it.                                                          *)

TypeOK ==
    /\ today \in Nat
    /\ raw \in Item
    /\ row = [start |-> row.start, end |-> row.end, status |-> row.status,
              actionable |-> row.actionable, category |-> row.category,
              regions |-> row.regions, yearsMax |-> row.yearsMax,
              prestartup |-> row.prestartup, files |-> row.files]

FilesInv ==
    /\ \A f \in DOMAIN row.files : row.files[f] \in {None, "text"}
    /\ row.files = [f \in DOMAIN row.files |-> row.files[f]]
    /\ raw.source # "kstartup" => DOMAIN row.files = raw.files

\* The days are those of the stored answer.  A status that days do not decide
\* is that of the words, unless a refresh was overtaken.
StatusInv ==
    /\ row.start = Readable(raw, raw.start) /\ row.end = Readable(raw, raw.end)
    /\ raw.source = "msit" => row.status = "open"
    /\ raw.source = "bizinfo" /\ row.start = None /\ ~overtaken =>
          row.status = Derive(None, None, raw.words)
    /\ refresh # None /\ raw.source = "msit" =>
          refresh.status = "open" /\ refresh.start = None /\ refresh.end = None
    /\ refresh # None => refresh.status # "closed"
    /\ refresh # None /\ ~overtaken =>
          /\ refresh.start = row.start /\ refresh.end = row.end
          /\ refresh.status = row.status
=============================================================================
