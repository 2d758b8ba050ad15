---------------------------- MODULE NoticeProofs ----------------------------
(***************************************************************************)
(* Notices: NoticeRecord, the row of one of them, for any answers of the   *)
(* portals and any number of days; and NoticeCollection, the passes that   *)
(* store and delete them, for any entries, collectors and faults.          *)
(***************************************************************************)
EXTENDS NoticeRecord, TLAPS

\* A row never loses a column.
LEMMA TypeStep == TypeOK /\ [Next]_vars => TypeOK'
  <1> SUFFICES ASSUME TypeOK, [Next]_vars PROVE TypeOK'
    OBVIOUS
  <1> USE LastDayAssumption DEF TypeOK
  <1>1. CASE Tick
    BY <1>1 DEF Tick
  <1>2. ASSUME NEW i \in Item, Collect(i) PROVE TypeOK'
    BY <1>2 DEF Collect, Collected
  <1>3. ASSUME NEW f \in Files, Ocr(f) PROVE TypeOK'
    BY <1>3 DEF Ocr
  <1>4. CASE RefreshWrite
    BY <1>4 DEF RefreshWrite
  <1>5. CASE BackfillCategories \/ BackfillRegions \/ BackfillYears
    BY <1>5 DEF BackfillCategories, BackfillRegions, BackfillYears, Backfill
  <1>6. ASSUME NEW key \in Keys, MapCategory(key) PROVE TypeOK'
    BY <1>6 DEF MapCategory
  <1>7. CASE RefreshRead
    BY <1>7 DEF RefreshRead
  <1>8. ASSUME NEW kind \in BackfillKind, BackfillRead(kind) PROVE TypeOK'
    BY <1>8 DEF BackfillRead
  <1>9. CASE BackfillLook
    BY <1>9 DEF BackfillLook
  <1>10. ASSUME NEW i \in Item, CollectBesideBackfill(i) PROVE TypeOK'
    BY <1>10 DEF CollectBesideBackfill, Collected
  <1>11. CASE UNCHANGED vars
    BY <1>11 DEF vars
  <1> QED
    BY <1>1, <1>2, <1>3, <1>4, <1>5, <1>6, <1>7, <1>8, <1>9, <1>10, <1>11 DEF Next

\* Collection keeps the text of a file that stays, and only of those.
LEMMA FilesStep == TypeOK /\ FilesInv /\ [Next]_vars => FilesInv'
  <1> SUFFICES ASSUME TypeOK, FilesInv, [Next]_vars PROVE FilesInv'
    OBVIOUS
  <1> USE DEF TypeOK, FilesInv
  <1>1. ASSUME NEW i \in Item, Collect(i) \/ CollectBesideBackfill(i) PROVE FilesInv'
    <2>1. row'.files = SaveFiles(row.files, i) /\ raw' = i /\ i.source = raw.source
      BY <1>1 DEF Collect, CollectBesideBackfill, Collected
    <2>2. CASE i.source = "kstartup"
      BY <2>1, <2>2 DEF SaveFiles
    <2>3. CASE i.source # "kstartup"
      BY <2>1, <2>3 DEF SaveFiles
    <2> QED
      BY <2>2, <2>3
  <1>2. ASSUME NEW f \in Files, Ocr(f) PROVE FilesInv'
    <2>1. row'.files = [row.files EXCEPT ![f] = "text"] /\ UNCHANGED raw
      BY <1>2 DEF Ocr
    <2> QED
      BY <2>1
  <1>3. CASE UNCHANGED <<raw, row>>
    BY <1>3
  <1>4. CASE Tick \/ RefreshRead \/ BackfillLook \/ \E kind \in BackfillKind : BackfillRead(kind)
    BY <1>3, <1>4 DEF Tick, RefreshRead, BackfillLook, BackfillRead
  <1>5. ASSUME NEW key \in Keys, MapCategory(key) PROVE FilesInv'
    BY <1>3, <1>5 DEF MapCategory
  <1>6. CASE RefreshWrite \/ BackfillCategories \/ BackfillRegions \/ BackfillYears
    <2>1. row'.files = row.files /\ UNCHANGED raw
      BY <1>6 DEF RefreshWrite, BackfillCategories, BackfillRegions, BackfillYears, Backfill
    <2> QED
      BY <2>1
  <1>7. CASE UNCHANGED vars
    BY <1>3, <1>7 DEF vars
  <1> QED
    BY <1>1, <1>2, <1>4, <1>5, <1>6, <1>7 DEF Next

\* The refresh leaves alone what its days do not decide.
LEMMA StatusStep == TypeOK /\ StatusInv /\ [Next]_vars => StatusInv'
  <1> SUFFICES ASSUME TypeOK, StatusInv, [Next]_vars PROVE StatusInv'
    OBVIOUS
  <1> USE DEF TypeOK, StatusInv
  <1>1. \A words : Derive(None, None, words)' = Derive(None, None, words)
    BY DEF Derive
  <1>2. ASSUME NEW i \in Item, Collect(i) \/ CollectBesideBackfill(i) PROVE StatusInv'
    <2>1. /\ raw' = i /\ i.source = raw.source /\ overtaken' = (refresh # None)
          /\ row'.start = Readable(i, i.start) /\ row'.end = Readable(i, i.end)
          /\ row'.status = Status(i) /\ UNCHANGED <<refresh, today>>
      BY <1>2 DEF Collect, CollectBesideBackfill, Collected
    <2>2. i.source = "msit" => row'.status = "open"
      BY <2>1 DEF Status
    <2>3. i.source = "bizinfo" /\ row'.start = None => row'.status = Derive(None, None, i.words)
      <3> SUFFICES ASSUME i.source = "bizinfo", row'.start = None
                   PROVE  row'.status = Derive(None, None, i.words)
        OBVIOUS
      <3>1. row'.status = Derive(row'.start, row'.end, i.words)
        BY <2>1 DEF Status
      <3>2. row'.end = None
        BY <2>1 DEF Readable
      <3> QED
        BY <3>1, <3>2
    <2>4. UNCHANGED refresh
      BY <2>1
    <2> QED
      BY <1>1, <2>1, <2>2, <2>3
  <1>3. CASE RefreshRead
    <2>1. /\ UNCHANGED <<raw, row, overtaken, today>> /\ row.status # "closed"
          /\ refresh' = [start |-> row.start, end |-> row.end, status |-> row.status]
      BY <1>3 DEF RefreshRead
    <2>2. raw.source = "msit" => row.start = None /\ row.end = None
      BY DEF Readable
    <2>3. /\ refresh'.start = row.start /\ refresh'.end = row.end
          /\ refresh'.status = row.status
      BY <2>1
    <2>4. UNCHANGED <<Readable(raw, raw.start), Readable(raw, raw.end),
                      Derive(None, None, raw.words)>>
      BY <1>1, <2>1 DEF Readable
    <2> QED
      BY <2>1, <2>2, <2>3, <2>4
  <1>4. CASE RefreshWrite
    <2>1. /\ refresh # None /\ refresh' = None /\ UNCHANGED <<raw, overtaken, today>>
          /\ row'.start = row.start /\ row'.end = row.end
      BY <1>4 DEF RefreshWrite
    <2>2. row'.status \in {row.status, Derive(refresh.start, refresh.end, {})}
      BY <1>4 DEF RefreshWrite
    <2>3. Derive(None, None, {}) = "unknown"
      BY DEF Derive
    <2>4. raw.source = "msit" => row'.status = "open"
      BY <1>4, <2>3 DEF RefreshWrite
    <2>5. ASSUME raw.source = "bizinfo", row.start = None, ~overtaken
          PROVE  row'.status = row.status
      <3>1. row.end = None
        BY <2>5 DEF Readable
      <3>2. refresh.start = None /\ refresh.end = None /\ refresh.status = row.status
        BY <2>1, <2>5, <3>1
      <3>3. row.status \in {"closed", "open", "unknown"}
        BY <2>5 DEF Derive
      <3> QED
        BY <1>4, <2>3, <3>2, <3>3 DEF RefreshWrite
    <2> QED
      BY <1>1, <2>1, <2>4, <2>5
  <1>5. ASSUME UNCHANGED <<raw, refresh, overtaken>>, row'.start = row.start,
               row'.end = row.end, row'.status = row.status
        PROVE  StatusInv'
    BY <1>1, <1>5 DEF Readable
  <1>6. CASE Tick
    BY <1>5, <1>6 DEF Tick
  <1>7. ASSUME NEW f \in Files, Ocr(f) PROVE StatusInv'
    BY <1>5, <1>7 DEF Ocr
  <1>8. ASSUME NEW key \in Keys, MapCategory(key) PROVE StatusInv'
    BY <1>5, <1>8 DEF MapCategory
  <1>9. CASE BackfillCategories \/ BackfillRegions \/ BackfillYears
    BY <1>5, <1>9 DEF BackfillCategories, BackfillRegions, BackfillYears, Backfill
  <1>10. CASE BackfillLook \/ \E kind \in BackfillKind : BackfillRead(kind)
    BY <1>5, <1>10 DEF BackfillLook, BackfillRead
  <1>11. CASE UNCHANGED vars
    BY <1>5, <1>11 DEF vars
  <1> QED
    BY <1>2, <1>3, <1>4, <1>6, <1>7, <1>8, <1>9, <1>10, <1>11 DEF Next
-----------------------------------------------------------------------------
\* What every reachable row satisfies.
THEOREM InvariantCorrect == Spec => [](TypeOK /\ FilesInv /\ StatusInv /\ ActionableIsOpen)
  <1> DEFINE Inv == TypeOK /\ FilesInv /\ StatusInv /\ ActionableIsOpen
  <1>1. Init => Inv
    <2> SUFFICES ASSUME Init PROVE Inv
      OBVIOUS
    <2> DEFINE now == Collected([files |-> <<>>], raw)
    <2>0. row = now \/ row = [now EXCEPT !.regions = {46}, !.yearsMax = None,
                                        !.prestartup = None, !.category = None]
      BY DEF Init
    <2>1. /\ row.start = Readable(raw, raw.start) /\ row.end = Readable(raw, raw.end)
          /\ row.status = Status(raw) /\ row.actionable = (Status(raw) = "open")
          /\ row.files = SaveFiles(<<>>, raw) /\ refresh = None
      <3> HIDE DEF now
      <3>1. /\ now.start = Readable(raw, raw.start) /\ now.end = Readable(raw, raw.end)
            /\ now.status = Status(raw) /\ now.actionable = (Status(raw) = "open")
            /\ now.files = SaveFiles(<<>>, raw)
        BY DEF now, Collected
      <3>2. /\ row.start = now.start /\ row.end = now.end /\ row.status = now.status
            /\ row.actionable = now.actionable /\ row.files = now.files
        BY <2>0 DEF now, Collected
      <3> QED
        BY <3>1, <3>2 DEF Init
    <2>2. TypeOK
      BY DEF Init, Collected, TypeOK
    <2>3. FilesInv
      BY <2>1 DEF FilesInv, SaveFiles
    <2>4. raw.source = "bizinfo" /\ row.start = None => row.end = None
      BY <2>1 DEF Readable
    <2>5. StatusInv
      BY <2>1, <2>4 DEF StatusInv, Status
    <2> QED
      BY <2>1, <2>2, <2>3, <2>5 DEF ActionableIsOpen
  <1>2. TypeOK /\ ActionableIsOpen /\ [Next]_vars => ActionableIsOpen'
    <2> SUFFICES ASSUME TypeOK, ActionableIsOpen, [Next]_vars PROVE ActionableIsOpen'
      OBVIOUS
    <2> USE DEF TypeOK, ActionableIsOpen
    <2>1. CASE RefreshWrite
      BY <2>1 DEF RefreshWrite
    <2>2. ASSUME NEW i \in Item, Collect(i) \/ CollectBesideBackfill(i) PROVE ActionableIsOpen'
      BY <2>2 DEF Collect, CollectBesideBackfill, Collected
    <2>3. ASSUME ~RefreshWrite, \A i \in Item : ~Collect(i) /\ ~CollectBesideBackfill(i)
          PROVE  row'.status = row.status /\ row'.actionable = row.actionable
      BY <2>3 DEF Next, Tick, Ocr, MapCategory, RefreshRead, BackfillRead, BackfillLook,
                  BackfillCategories, BackfillRegions, BackfillYears, Backfill, vars
    <2> QED
      BY <2>1, <2>2, <2>3
  <1>3. Inv /\ [Next]_vars => Inv'
    BY <1>2, TypeStep, FilesStep, StatusStep
  <1> QED
    BY <1>1, <1>3, PTL DEF Spec

\* Only an open notice is offered, whoever wrote the status last.
THEOREM ActionableCorrect == Spec => []ActionableIsOpen
  BY InvariantCorrect, PTL

\* A refresh that is not overtaken writes what collecting the stored answer
\* would, of Bizinfo and MSIT, and leaves no notice open whose last day is past.
THEOREM RefreshCorrect == Spec => RefreshAgreesWithCollection
  <1> DEFINE Agrees ==
        (refresh # None /\ refresh' = None /\ ~overtaken)
          => /\ raw.source \in {"bizinfo", "msit"} => row'.status = Status(raw)
             /\ row.end # None /\ row.end < today => row'.status # "open"
  <1>1. TypeOK /\ StatusInv /\ [Next]_vars => [Agrees]_vars
    <2> SUFFICES ASSUME TypeOK, StatusInv, Next, refresh # None, refresh' = None, ~overtaken
                 PROVE  /\ raw.source \in {"bizinfo", "msit"} => row'.status = Status(raw)
                        /\ row.end # None /\ row.end < today => row'.status # "open"
      OBVIOUS
    <2>1. RefreshWrite
      BY DEF Next, Tick, Collect, Ocr, MapCategory, RefreshRead, BackfillRead, BackfillLook,
             BackfillCategories, BackfillRegions, BackfillYears, Backfill,
             CollectBesideBackfill
    <2>2. refresh.start = row.start /\ refresh.end = row.end /\ refresh.status = row.status
      BY DEF StatusInv
    <2>3. row'.status = IF Derive(row.start, row.end, {}) = "unknown" /\ row.status = "open"
                        THEN "open" ELSE Derive(row.start, row.end, {})
      BY <2>1, <2>2 DEF RefreshWrite, TypeOK
    <2>4. row.end # None /\ row.end < today => row'.status # "open"
      BY <2>3 DEF Derive
    <2>5. raw.source = "msit" => row'.status = Status(raw)
      BY <2>3 DEF StatusInv, Readable, Derive, Status
    <2>6. ASSUME raw.source = "bizinfo" PROVE row'.status = Status(raw)
      <3>1. Status(raw) = Derive(row.start, row.end, raw.words)
        BY <2>6 DEF Status, StatusInv
      <3>2. CASE row.start = None
        <4>1. row.end = None /\ row.status = Derive(None, None, raw.words) /\ row.status # "closed"
          BY <2>2, <2>6, <3>2 DEF StatusInv, Readable
        <4> QED
          BY <2>3, <3>1, <3>2, <4>1 DEF Derive
      <3>3. CASE row.start # None
        <4>1. row.end # None
          BY <2>6, <3>3 DEF StatusInv, Readable
        <4> QED
          BY <2>3, <3>1, <3>3, <4>1 DEF Derive
      <3> QED
        BY <3>2, <3>3
    <2> QED
      BY <2>4, <2>5, <2>6
  <1> QED
    BY <1>1, InvariantCorrect, PTL DEF Spec, RefreshAgreesWithCollection

\* A backfill in flight has the category of the answer it has read, if that
\* was mapped then, and looks again before it writes anything else.
BackfillInv ==
    backfill.kind # "none" =>
        /\ backfill.kind \in BackfillKind
        /\ backfill.answer.source # "msit"
        /\ backfill.category # None => backfill.category = Category(backfill.answer)
        /\ backfill.sure \in BOOLEAN
        /\ backfill.kind = "categories" => backfill.sure = (backfill.category # None)
        /\ backfill = [kind |-> backfill.kind, answer |-> backfill.answer,
                       category |-> backfill.category, sure |-> backfill.sure]

\* Mappings are only added, so a category that was mapped is still the answer's.
LEMMA BackfillStep == BackfillInv /\ [Next]_vars => BackfillInv'
  <1> SUFFICES ASSUME BackfillInv, [Next]_vars PROVE BackfillInv'
    OBVIOUS
  <1>a. ASSUME NEW i, i.source # "msit", mapped \subseteq mapped', Category(i) # None
        PROVE  Category(i)' = Category(i)
    BY <1>a DEF Category
  <1>1. ASSUME NEW kind \in BackfillKind, BackfillRead(kind) PROVE BackfillInv'
    <2>1. raw.source # "msit" /\ UNCHANGED <<mapped, raw>>
      BY <1>1 DEF BackfillRead, Concerned, BackfillKind
    <2>2. PICK category : category = Category(raw)
      OBVIOUS
    <2>3. backfill' = [kind |-> kind, answer |-> raw, category |-> category,
                       sure |-> kind = "categories" /\ category # None]
      BY <1>1, <2>2 DEF BackfillRead
    <2>4. category # None => category = Category(raw)'
      BY <1>a, <2>1, <2>2
    <2>5. raw' = raw
      BY <2>1
    <2> QED
      BY <2>1, <2>3, <2>4, <2>5 DEF BackfillInv, Category
  <1>2. ASSUME UNCHANGED backfill, mapped \subseteq mapped' PROVE BackfillInv'
    <2>1. CASE backfill.kind = "none"
      BY <1>2, <2>1 DEF BackfillInv
    <2>2. CASE backfill.kind # "none"
      <3>1. PICK answer : answer = backfill.answer
        OBVIOUS
      <3>2. Category(answer) # None => Category(answer)' = Category(answer)
        BY <1>2, <1>a, <2>2, <3>1 DEF BackfillInv
      <3> QED
        BY <1>2, <2>2, <3>1, <3>2 DEF BackfillInv, Category
    <2> QED
      BY <2>1, <2>2
  <1>3. CASE BackfillLook
    <2>1. CASE backfill'.kind = "none"
      BY <2>1 DEF BackfillInv
    <2>2. CASE backfill'.kind # "none"
      <3>1. /\ backfill.kind # "none" /\ UNCHANGED mapped
            /\ backfill' = [backfill EXCEPT !.sure = TRUE] /\ backfill.kind # "categories"
        BY <1>3, <2>2 DEF BackfillLook, Differs, NoBackfill
      <3> QED
        BY <3>1 DEF BackfillInv, Category
    <2> QED
      BY <2>1, <2>2
  <1>4. CASE BackfillCategories \/ BackfillRegions \/ BackfillYears
    BY <1>4 DEF BackfillCategories, BackfillRegions, BackfillYears, Backfill, BackfillInv, NoBackfill
  <1>5. ASSUME NEW i \in Item, CollectBesideBackfill(i) PROVE BackfillInv'
    BY <1>5 DEF CollectBesideBackfill, BackfillInv, NoBackfill
  <1>6. CASE Tick \/ RefreshRead \/ RefreshWrite
    BY <1>2, <1>6 DEF Tick, RefreshRead, RefreshWrite
  <1>7. ASSUME NEW i \in Item, Collect(i) PROVE BackfillInv'
    BY <1>2, <1>7 DEF Collect
  <1>8. ASSUME NEW f \in Files, Ocr(f) PROVE BackfillInv'
    BY <1>2, <1>8 DEF Ocr
  <1>9. ASSUME NEW key \in Keys, MapCategory(key) PROVE BackfillInv'
    BY <1>2, <1>9 DEF MapCategory
  <1>10. CASE UNCHANGED vars
    BY <1>2, <1>10 DEF vars
  <1> QED
    BY <1>1, <1>3, <1>4, <1>5, <1>6, <1>7, <1>8, <1>9, <1>10 DEF Next

\* A backfill whose answer is still the stored one brings its columns to what
\* collecting that answer gives, and no step takes them away from it.
THEOREM BackfillsCorrect == Spec => BackfillsAgreeWithCollection
  <1> DEFINE Agreed ==
        /\ row'.regions \in {row.regions, Regions(raw)}
        /\ row'.category \in {row.category, Category(raw)}
        /\ <<row'.yearsMax, row'.prestartup>> \in
              {<<row.yearsMax, row.prestartup>>, <<YearsMax(raw), Prestartup(raw)>>}
        /\ backfill'.kind = "none" =>
             CASE backfill.kind = "categories" ->
                    backfill.category # None => row'.category = Category(raw)
               [] backfill.kind = "nationwide" -> All \in Regions(raw) => All \in row'.regions
               [] backfill.kind = "regions" -> row'.regions = Regions(raw)
               [] backfill.kind = "years" ->
                    row'.yearsMax = YearsMax(raw) /\ row'.prestartup = Prestartup(raw)
  <1>1. TypeOK /\ BackfillInv /\ [Next]_vars
          => [backfill.kind # "none" /\ backfill.answer = raw /\ raw' = raw => Agreed]_vars
    <2> SUFFICES ASSUME TypeOK, BackfillInv, Next, backfill.kind # "none", backfill.answer = raw,
                        raw' = raw
                 PROVE  Agreed
      OBVIOUS
    <2>a. /\ backfill.category # None => backfill.category = Category(raw)
          /\ backfill.kind = "categories" => backfill.sure = (backfill.category # None)
          /\ backfill.kind \in {"categories", "nationwide", "regions", "years"}
      BY DEF BackfillInv, BackfillKind
    <2>1. ASSUME NEW i \in Item, Collect(i) PROVE Agreed
      BY <2>1 DEF Collect, Collected
    <2>2. ASSUME NEW i \in Item, CollectBesideBackfill(i) PROVE Agreed
      <3>1. i = raw /\ Regions(raw) = {}
        BY <2>2 DEF CollectBesideBackfill
      <3>2. /\ row'.regions = Regions(raw) /\ row'.category = Category(raw)
            /\ row'.yearsMax = YearsMax(raw) /\ row'.prestartup = Prestartup(raw)
        BY <2>2, <3>1 DEF CollectBesideBackfill, Collected
      <3> QED
        BY <2>a, <3>2
    <2>3. CASE BackfillLook
      <3>1. row' = row
        BY <2>3 DEF BackfillLook
      <3>2. backfill'.kind = "none" => ~Differs
        BY <2>3 DEF BackfillLook, BackfillInv
      <3>3. CASE backfill'.kind # "none"
        BY <3>1, <3>3
      <3>4. CASE backfill'.kind = "none"
        <4>1. CASE backfill.kind = "categories"
          BY <2>3, <2>a, <3>1, <4>1 DEF BackfillLook
        <4>2. CASE backfill.kind = "nationwide"
          BY <3>1, <3>2, <3>4, <4>2 DEF Differs
        <4>3. CASE backfill.kind = "regions"
          BY <3>1, <3>2, <3>4, <4>3 DEF Differs
        <4>4. CASE backfill.kind = "years"
          <5>1. <<YearsMax(raw), Prestartup(raw)>> = <<row.yearsMax, row.prestartup>>
            BY <3>2, <3>4, <4>4 DEF Differs
          <5>2. YearsMax(raw) = row.yearsMax /\ Prestartup(raw) = row.prestartup
            BY <5>1
          <5> QED
            BY <3>1, <4>4, <5>2
        <4> QED
          BY <2>a, <4>1, <4>2, <4>3, <4>4
      <3> QED
        BY <3>3, <3>4
    <2>4. CASE BackfillCategories
      BY <2>4, <2>a DEF BackfillCategories, Backfill, TypeOK
    <2>5. CASE BackfillRegions
      BY <2>5 DEF BackfillRegions, Backfill, TypeOK
    <2>6. CASE BackfillYears
      BY <2>6 DEF BackfillYears, Backfill, TypeOK
    <2>7. ASSUME UNCHANGED <<row.regions, row.category, row.yearsMax, row.prestartup>>,
                 UNCHANGED backfill
          PROVE  Agreed
      BY <2>7
    <2>8. CASE RefreshRead \/ RefreshWrite \/ Tick
      BY <2>7, <2>8 DEF RefreshRead, RefreshWrite, Tick, TypeOK
    <2>9. ASSUME NEW f \in Files, Ocr(f) PROVE Agreed
      BY <2>7, <2>9 DEF Ocr, TypeOK
    <2>10. ASSUME NEW key \in Keys, MapCategory(key) PROVE Agreed
      BY <2>7, <2>10 DEF MapCategory
    <2>11. ASSUME NEW kind \in BackfillKind, BackfillRead(kind) PROVE FALSE
      BY <2>11 DEF BackfillRead
    <2> QED
      BY <2>1, <2>2, <2>3, <2>4, <2>5, <2>6, <2>8, <2>9, <2>10, <2>11 DEF Next
  <1>2. Init => BackfillInv
    BY DEF Init, BackfillInv, NoBackfill
  <1> QED
    BY <1>1, <1>2, BackfillStep, InvariantCorrect, PTL DEF Spec, BackfillsAgreeWithCollection

\* Paid OCR is not lost by collecting again.
THEOREM TextCorrect == Spec => TextOutlivesCollection
  <1> DEFINE Outlives ==
        /\ \A f \in DOMAIN row.files \cap DOMAIN row'.files :
              row.files[f] # None => row'.files[f] = row.files[f]
        /\ raw'.source # "kstartup" => DOMAIN row'.files = raw'.files
  <1>1. TypeOK /\ FilesInv /\ [Next]_vars => [Outlives]_vars
    <2> SUFFICES ASSUME TypeOK, FilesInv, Next
                 PROVE  \A f \in DOMAIN row.files \cap DOMAIN row'.files :
                           row.files[f] # None => row'.files[f] = row.files[f]
      BY FilesStep DEF FilesInv
    <2>1. ASSUME NEW i \in Item, Collect(i) \/ CollectBesideBackfill(i)
          PROVE  \A f \in DOMAIN row.files \cap DOMAIN row'.files : row'.files[f] = row.files[f]
      <3>1. row'.files = SaveFiles(row.files, i)
        BY <2>1 DEF Collect, CollectBesideBackfill, Collected
      <3> QED
        BY <3>1 DEF SaveFiles
    <2>2. ASSUME NEW f \in Files, Ocr(f) PROVE row'.files = [row.files EXCEPT ![f] = "text"]
      BY <2>2 DEF Ocr, TypeOK
    <2>3. ASSUME \A i \in Item : ~Collect(i) /\ ~CollectBesideBackfill(i),
                 \A f \in Files : ~Ocr(f)
          PROVE  row'.files = row.files
      BY <2>3 DEF TypeOK, Next, Tick, MapCategory, RefreshRead, RefreshWrite, BackfillRead,
                  BackfillLook, BackfillCategories, BackfillRegions, BackfillYears, Backfill
    <2> QED
      BY <2>1, <2>2, <2>3 DEF FilesInv
  <1> QED
    BY <1>1, InvariantCorrect, PTL DEF Spec, TextOutlivesCollection

-----------------------------------------------------------------------------
(* Collection.                                                             *)

CONSTANTS Entry, Collector, PageSize, Buffer, MaxFaults
VARIABLES listed, notices, recommended, job, faults

Collection == INSTANCE NoticeCollection WITH Item <- Entry

\* Collection!ItemAssumption, as far as it is needed: portals number their entries.
Numbered == \A i \in Entry : i.key \in Nat \ {0}

\* What there is a newest entry of has one in every part.
LEMMA NewestOfPart ==
    ASSUME NEW S, Collection!HasNewest(S), NEW T \in SUBSET S
    PROVE  Collection!HasNewest(T)
  BY DEF Collection!HasNewest

\* One more entry is the newest, or what was the newest still is.
LEMMA NewestOfMore ==
    ASSUME Numbered, NEW S \in SUBSET Entry, Collection!HasNewest(S), NEW i \in Entry
    PROVE  Collection!HasNewest(S \cup {i})
  <1> SUFFICES ASSUME NEW part \in SUBSET (S \cup {i}), part # {}
               PROVE  \E m \in part : \A j \in part : j.key <= m.key
    BY DEF Collection!HasNewest
  <1>1. \A j \in part : j.key \in Nat
    BY DEF Numbered
  <1>2. CASE part \ {i} = {}
    BY <1>1, <1>2
  <1>3. CASE part \ {i} # {}
    <2>1. part \ {i} \in SUBSET S
      OBVIOUS
    <2>2. PICK m \in part \ {i} : \A j \in part \ {i} : j.key <= m.key
      BY <1>3, <2>1 DEF Collection!HasNewest
    <2>3. CASE i \in part /\ m.key < i.key
      <3>1. \A j \in part : j.key <= i.key
        BY <1>1, <2>2, <2>3
      <3> QED
        BY <2>3, <3>1
    <2>4. CASE ~(i \in part /\ m.key < i.key)
      <3>1. \A j \in part : j.key <= m.key
        BY <1>1, <2>2, <2>4
      <3> QED
        BY <2>2, <3>1
    <2> QED
      BY <2>3, <2>4
  <1> QED
    BY <1>2, <1>3

\* The entry at hand is one of those still to be handled.
LEMMA CurrentIsQueued ==
    ASSUME NEW c, Collection!HasNewest(job[c].queue), job[c].queue # {}
    PROVE  Collection!Current(c) \in job[c].queue
  BY DEF Collection!HasNewest, Collection!Current, Collection!Newest

\* A duplicate has the source that is asked for, and the title.
LEMMA DuplicatesAreTwins ==
    ASSUME NEW rows, NEW source, NEW i, NEW k \in Collection!Duplicates(rows, source, i)
    PROVE  k.source = source /\ k.title = i.title
  <1>1. k \in Collection!Candidates(rows, source, i)
    BY DEF Collection!Duplicates
  <1> QED
    BY <1>1 DEF Collection!Candidates

\* What is kept of a pass.
Fields == {"pc", "source", "page", "queue", "stop", "last", "added", "removed", "locks"}

LEMMA FieldsOfIdle == DOMAIN Collection!Idle = Fields
  BY DEF Collection!Idle, Fields

\* A pass over a source begins with nothing handled, or is over.
LEMMA FreshPass ==
    ASSUME NEW r, \/ r = Collection!Idle
                  \/ \E source : r = Collection!Pass(source)
                  \/ \E old : r = Collection!AfterSource(old)
    PROVE  Collection!PassInv(r)
  <1> DEFINE Fresh == r.queue = {} /\ r.removed = {} /\ DOMAIN r = Fields
  <1>1. ASSUME r = Collection!Idle PROVE Fresh
    BY <1>1 DEF Collection!Idle, Fields
  <1>2. ASSUME NEW source, r = Collection!Pass(source) PROVE Fresh
    BY <1>2 DEF Collection!Pass, Collection!Idle, Fields
  <1>3. ASSUME NEW old, r = Collection!AfterSource(old) PROVE Fresh
    <2>1. CASE old.source = "msit"
      <3>1. r = Collection!Idle
        BY <1>3, <2>1 DEF Collection!AfterSource
      <3> QED
        BY <1>1, <3>1
    <2>2. CASE old.source # "msit"
      BY <1>3, <2>2 DEF Collection!AfterSource, Collection!Pass, Collection!Idle, Fields
    <2> QED
      BY <2>1, <2>2
  <1>4. Fresh
    BY <1>1, <1>2, <1>3
  <1> QED
    BY <1>4, FieldsOfIdle DEF Collection!PassInv, Collection!HasNewest

\* A pass that has written nothing more, and has no more entries to handle.
LEMMA QuietPass ==
    ASSUME NEW old, Collection!PassInv(old), NEW r,
           DOMAIN r = Fields,
           r.source = old.source, r.queue \subseteq old.queue,
           \/ r.removed = {}
           \/ r.added = old.added /\ r.removed = old.removed
    PROVE  Collection!PassInv(r)
  <1>1. Collection!HasNewest(r.queue)
    BY NewestOfPart DEF Collection!PassInv
  <1> QED
    BY <1>1, FieldsOfIdle DEF Collection!PassInv

\* A step of one pass leaves the others alone.
LEMMA PassStep ==
    ASSUME Collection!CollectionInv, NEW c \in Collector, NEW r, Collection!PassInv(r),
           Collection!To(c, r), UNCHANGED listed
    PROVE  Collection!CollectionInv'
  BY DEF Collection!CollectionInv, Collection!To, Collection!PassInv

\* A deletion is in the same open transaction as the twin's row.
LEMMA CollectionStep ==
    ASSUME Numbered
    PROVE  Collection!CollectionInv /\ [Collection!Next]_(Collection!vars)
              => Collection!CollectionInv'
  <1> SUFFICES ASSUME Collection!CollectionInv, [Collection!Next]_(Collection!vars)
               PROVE  Collection!CollectionInv'
    OBVIOUS
  <1> USE DEF Collection!Work
  <1>1. /\ listed \subseteq Entry /\ Collection!HasNewest(listed)
        /\ \A c \in Collector : Collection!PassInv(job[c]) /\ DOMAIN job[c] = Fields
    BY FieldsOfIdle DEF Collection!CollectionInv, Collection!PassInv
  <1>2. ASSUME NEW c \in Collector, Collection!Start(c) \/ Collection!Abort(c)
        PROVE  Collection!CollectionInv'
    <2>1. PICK r : /\ Collection!To(c, r) /\ UNCHANGED listed
                   /\ r \in {Collection!Idle, Collection!Pass("bizinfo")}
      BY <1>2 DEF Collection!Start, Collection!Abort
    <2>2. Collection!PassInv(r)
      BY <2>1, FreshPass
    <2> QED
      BY <2>1, <2>2, PassStep
  <1>3. ASSUME NEW c \in Collector, Collection!Begin(c) PROVE Collection!CollectionInv'
    <2>1. PICK stop : /\ Collection!To(c, [job[c] EXCEPT !.pc = "fetch", !.page = 1, !.stop = stop,
                                                         !.locks = @ \cup {job[c].source}])
                      /\ UNCHANGED listed
      BY <1>3 DEF Collection!Begin
    <2>2. PICK r : r = [job[c] EXCEPT !.pc = "fetch", !.page = 1, !.stop = stop,
                                      !.locks = @ \cup {job[c].source}]
      OBVIOUS
    <2>3. Collection!PassInv(r)
      <3>1. /\ DOMAIN r = Fields
            /\ r.source = job[c].source /\ r.queue = job[c].queue
            /\ r.added = job[c].added /\ r.removed = job[c].removed
        BY <1>1, <2>2 DEF Collection!PassInv
      <3> QED
        BY <1>1, <3>1, QuietPass
    <2> QED
      BY <2>1, <2>2, <2>3, PassStep
  <1>4. ASSUME NEW c \in Collector, Collection!Fetch(c) PROVE Collection!CollectionInv'
    <2>1. PICK page : page = Collection!PageOf(job[c].source, job[c].page)
      OBVIOUS
    <2>2. /\ UNCHANGED listed
          /\ \/ Collection!To(c, Collection!AfterSource(job[c]))
             \/ \E last : Collection!To(c, [job[c] EXCEPT !.pc = "page", !.queue = page, !.last = last])
      BY <1>4, <2>1 DEF Collection!Fetch
    <2>3. CASE Collection!To(c, Collection!AfterSource(job[c]))
      <3>1. PICK r : r = Collection!AfterSource(job[c])
        OBVIOUS
      <3> QED
        BY <2>2, <2>3, <3>1, FreshPass, PassStep
    <2>4. ASSUME NEW last,
                 Collection!To(c, [job[c] EXCEPT !.pc = "page", !.queue = page, !.last = last])
          PROVE  Collection!CollectionInv'
      <3>1. PICK r : r = [job[c] EXCEPT !.pc = "page", !.queue = page, !.last = last]
        OBVIOUS
      <3>2. /\ DOMAIN r = Fields
            /\ r.source = job[c].source /\ r.queue = page
            /\ r.added = job[c].added /\ r.removed = job[c].removed
        BY <1>1, <3>1 DEF Collection!PassInv
      <3>3. page \subseteq listed /\ \A i \in page : i.source = job[c].source
        BY <2>1 DEF Collection!PageOf
      <3>4. Collection!HasNewest(page)
        BY <1>1, <3>3, NewestOfPart
      <3>5. Collection!PassInv(r)
        BY <1>1, <3>2, <3>3, <3>4 DEF Collection!PassInv
      <3> QED
        BY <2>2, <2>4, <3>1, <3>5, PassStep
    <2> QED
      BY <2>2, <2>3, <2>4
  <1>5. ASSUME NEW c \in Collector, Collection!FetchFails(c) PROVE Collection!CollectionInv'
    <2>1. PICK r : /\ Collection!To(c, r) /\ UNCHANGED listed
                   /\ r \in {Collection!Idle, Collection!AfterSource(job[c])}
      BY <1>5 DEF Collection!FetchFails
    <2>2. Collection!PassInv(r)
      BY <2>1, FreshPass
    <2> QED
      BY <2>1, <2>2, PassStep
  <1>6. ASSUME NEW c \in Collector, Collection!To(c, Collection!Handled(c)), UNCHANGED listed
        PROVE  Collection!CollectionInv'
    <2>1. PICK r : r = Collection!Handled(c)
      OBVIOUS
    <2>2. /\ DOMAIN r = Fields
          /\ r.source = job[c].source /\ r.queue \subseteq job[c].queue
          /\ r.added = job[c].added /\ r.removed = job[c].removed
      BY <1>1, <2>1 DEF Collection!PassInv, Collection!Handled
    <2>3. Collection!PassInv(r)
      BY <1>1, <2>2, QuietPass
    <2> QED
      BY <1>6, <2>1, <2>3, PassStep
  <1>7. ASSUME NEW c \in Collector, Collection!ReachKnown(c) PROVE Collection!CollectionInv'
    <2>1. PICK r : r = [job[c] EXCEPT !.queue = {}, !.last = TRUE]
      OBVIOUS
    <2>2. /\ DOMAIN r = Fields
          /\ r.source = job[c].source /\ r.queue \subseteq job[c].queue
          /\ r.added = job[c].added /\ r.removed = job[c].removed
      BY <1>1, <2>1 DEF Collection!PassInv
    <2>3. Collection!PassInv(r)
      BY <1>1, <2>2, QuietPass
    <2>4. Collection!To(c, r) /\ UNCHANGED listed
      BY <1>7, <2>1 DEF Collection!ReachKnown
    <2> QED
      BY <2>3, <2>4, PassStep
  <1>8. ASSUME NEW c \in Collector, Collection!Store(c) PROVE Collection!CollectionInv'
    <2>1. PICK deleted, i : deleted = Collection!ToDelete(c) /\ i = Collection!Current(c)
      OBVIOUS
    <2>2. /\ UNCHANGED listed /\ job[c].queue # {}
          /\ \/ Collection!To(c, Collection!Handled(c))
             \/ Collection!To(c, [Collection!Handled(c) EXCEPT !.added = @ \cup {i},
                                                               !.removed = @ \cup deleted])
      BY <1>8, <2>1 DEF Collection!Store
    <2>3. CASE Collection!To(c, Collection!Handled(c))
      BY <1>6, <2>2, <2>3
    <2>4. CASE Collection!To(c, [Collection!Handled(c) EXCEPT !.added = @ \cup {i},
                                                              !.removed = @ \cup deleted])
      <3>1. i \in job[c].queue /\ i.source = job[c].source
        BY <1>1, <2>1, <2>2, CurrentIsQueued DEF Collection!PassInv
      <3>2. \A k \in deleted : k.source = "kstartup" /\ i.source = "bizinfo" /\ i.title = k.title
        <4>1. CASE job[c].source = "bizinfo"
          <5>1. deleted = Collection!Duplicates(Collection!View(c), "kstartup", i)
            BY <2>1, <4>1 DEF Collection!ToDelete
          <5> QED
            BY <3>1, <4>1, <5>1, DuplicatesAreTwins
        <4>2. CASE job[c].source # "bizinfo"
          BY <2>1, <4>2 DEF Collection!ToDelete
        <4> QED
          BY <4>1, <4>2
      <3>3. PICK h : h = Collection!Handled(c)
        OBVIOUS
      <3>4. /\ DOMAIN h = Fields
            /\ h.source = job[c].source /\ h.queue \subseteq job[c].queue
            /\ h.added = job[c].added /\ h.removed = job[c].removed
        BY <1>1, <3>3 DEF Collection!PassInv, Collection!Handled
      <3>5. Collection!PassInv(h)
        BY <1>1, <3>4, QuietPass
      <3>6. PICK r : r = [h EXCEPT !.added = @ \cup {i}, !.removed = @ \cup deleted]
        OBVIOUS
      <3>7. /\ DOMAIN r = Fields
            /\ r.source = h.source /\ r.queue = h.queue
            /\ r.added = h.added \cup {i} /\ r.removed = h.removed \cup deleted
        BY <3>4, <3>6
      <3>8. Collection!PassInv(r)
        BY <3>2, <3>5, <3>7, FieldsOfIdle DEF Collection!PassInv
      <3> QED
        BY <2>2, <2>4, <3>3, <3>6, <3>8, PassStep
    <2> QED
      BY <2>2, <2>3, <2>4
  <1>9. ASSUME NEW c \in Collector, Collection!CommitPage(c) PROVE Collection!CollectionInv'
    <2>1. PICK r : r = [job[c] EXCEPT !.added = {}, !.removed = {}, !.locks = {}]
      OBVIOUS
    <2>2. /\ UNCHANGED listed
          /\ \/ Collection!To(c, Collection!AfterSource(r))
             \/ Collection!To(c, [r EXCEPT !.pc = "fetch", !.page = @ + 1])
      BY <1>9, <2>1 DEF Collection!CommitPage
    <2>3. CASE Collection!To(c, Collection!AfterSource(r))
      <3>1. PICK q : q = Collection!AfterSource(r)
        OBVIOUS
      <3> QED
        BY <2>2, <2>3, <3>1, FreshPass, PassStep
    <2>4. CASE Collection!To(c, [r EXCEPT !.pc = "fetch", !.page = @ + 1])
      <3>1. PICK q : q = [r EXCEPT !.pc = "fetch", !.page = @ + 1]
        OBVIOUS
      <3>2. /\ DOMAIN q = Fields
            /\ q.source = job[c].source /\ q.queue = job[c].queue /\ q.removed = {}
        BY <1>1, <2>1, <3>1 DEF Collection!PassInv
      <3>3. Collection!PassInv(q)
        BY <1>1, <3>2, QuietPass
      <3> QED
        BY <2>2, <2>4, <3>1, <3>3, PassStep
    <2> QED
      BY <2>2, <2>3, <2>4
  <1>10. ASSUME NEW i \in Entry, Collection!Publish(i) PROVE Collection!CollectionInv'
    <2>1. listed' = listed \cup {i} /\ UNCHANGED job
      BY <1>10 DEF Collection!Publish
    <2>2. Collection!HasNewest(listed')
      BY <1>1, <2>1, NewestOfMore
    <2> QED
      BY <1>1, <2>1, <2>2 DEF Collection!CollectionInv
  <1>11. ASSUME NEW i \in Entry,
                Collection!Delist(i) \/ Collection!Recommend(i) \/ Collection!Forget(i)
                  \/ Collection!Recollect(i)
         PROVE  Collection!CollectionInv'
    <2>1. listed' \subseteq listed /\ UNCHANGED job
      BY <1>11 DEF Collection!Delist, Collection!Recommend, Collection!Forget, Collection!Recollect
    <2>2. Collection!HasNewest(listed')
      BY <1>1, <2>1, NewestOfPart
    <2> QED
      BY <1>1, <2>1, <2>2 DEF Collection!CollectionInv
  <1>12. CASE UNCHANGED Collection!vars
    BY <1>12 DEF Collection!vars, Collection!CollectionInv
  <1>13. ASSUME NEW c \in Collector,
                Collection!Skip(c) \/ Collection!ItemFails(c) \/ Collection!BreakDeadlock(c)
         PROVE  Collection!CollectionInv'
    BY <1>6, <1>13 DEF Collection!Skip, Collection!ItemFails, Collection!BreakDeadlock
  <1> QED
    BY <1>2, <1>3, <1>4, <1>5, <1>7, <1>8, <1>9, <1>10, <1>11, <1>12, <1>13 DEF Collection!Next

\* A notice disappears only with the commit that stores its Bizinfo twin.
THEOREM DeletionCorrect ==
    ASSUME Numbered
    PROVE  Collection!Spec => Collection!DeletedForItsTwin
  <1> DEFINE Deleted ==
        \A k \in notices \ notices' :
            /\ k.source = "kstartup"
            /\ \E b \in notices' : b.source = "bizinfo" /\ b.title = k.title
  <1>1. Collection!Init => Collection!CollectionInv
    <2> SUFFICES ASSUME Collection!Init PROVE Collection!CollectionInv
      OBVIOUS
    <2>1. Collection!HasNewest(listed) /\ listed \subseteq Entry
      BY DEF Collection!Init, Collection!HasNewest
    <2>2. ASSUME NEW c \in Collector PROVE Collection!PassInv(job[c])
      BY FreshPass DEF Collection!Init
    <2> QED
      BY <2>1, <2>2 DEF Collection!Init, Collection!CollectionInv
  <1>2. Collection!CollectionInv /\ [Collection!Next]_(Collection!vars)
            => Collection!CollectionInv'
    BY CollectionStep
  <1>3. Collection!CollectionInv /\ [Collection!Next]_(Collection!vars)
            => [Deleted]_(Collection!vars)
    <2> SUFFICES ASSUME Collection!CollectionInv, Collection!Next, NEW k \in notices \ notices'
                 PROVE  /\ k.source = "kstartup"
                        /\ \E b \in notices' : b.source = "bizinfo" /\ b.title = k.title
      BY DEF Collection!vars
    <2>1. ASSUME NEW c \in Collector, Collection!CommitPage(c)
          PROVE  /\ k.source = "kstartup"
                 /\ \E b \in notices' : b.source = "bizinfo" /\ b.title = k.title
      BY <2>1 DEF Collection!CommitPage, Collection!CollectionInv, Collection!PassInv
    <2>2. ASSUME NEW i \in Entry, Collection!Recollect(i)
          PROVE  /\ k.source = "kstartup"
                 /\ \E b \in notices' : b.source = "bizinfo" /\ b.title = k.title
      <3>1. PICK deleted : /\ deleted = Collection!Duplicates(notices, "kstartup", i)
                           /\ notices' = notices \ deleted
                           /\ i \in notices /\ i.source = "bizinfo"
        BY <2>2 DEF Collection!Recollect
      <3>2. \A d \in deleted : d.source = "kstartup" /\ d.title = i.title
        BY <3>1, DuplicatesAreTwins
      <3> QED
        BY <3>1, <3>2
    <2>3. ASSUME \A c \in Collector : ~Collection!CommitPage(c),
                 \A i \in Entry : ~Collection!Recollect(i)
          PROVE  UNCHANGED notices
      BY <2>3 DEF Collection!Next, Collection!Work, Collection!Start, Collection!Begin,
                  Collection!Fetch, Collection!ReachKnown, Collection!Skip, Collection!Store,
                  Collection!BreakDeadlock, Collection!FetchFails, Collection!ItemFails,
                  Collection!Abort, Collection!Publish, Collection!Delist, Collection!Recommend,
                  Collection!Forget
    <2> QED
      BY <2>1, <2>2, <2>3
  <1> QED
    BY <1>1, <1>2, <1>3, PTL DEF Collection!Spec, Collection!DeletedForItsTwin
=============================================================================
