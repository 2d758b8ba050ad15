------------------------------- MODULE Judging -------------------------------
(***************************************************************************)
(* One matching run from its candidates to its results                     *)
(* (services/matching_service._run_matching_locked,                        *)
(* secondary_filtering_service, secondary_filtering_judge_service and its  *)
(* cache).  The notices most similar to the plan are judged by an LLM,     *)
(* whose answers are kept for later runs; R&D and funding notices are      *)
(* scored by those answers and judged late when they come out on top       *)
(* without any.  Between the steps of a run the user edits the profile and *)
(* notices are normalized again.                                           *)
(*                                                                         *)
(* Scores are exact: Unit stands for one point, and every quotient below   *)
(* is whole as long as no set of words has more than five elements.  One   *)
(* answer of the LLM holds for all criteria of a notice.                   *)
(***************************************************************************)
EXTENDS NoticeEligibility, Sequences

CONSTANTS
    Notice,         \* ids: natural numbers
    Versions,       \* what each notice may say, over its normalizations
    Profile,        \* what the user may save
    Plan,           \* the user's analyzed plans
    LatestPlan,
    JudgeTopK,      \* _SECONDARY_FILTERING_JUDGE_TOP_K, 20
    CategoryTopK,   \* _FIT_CATEGORY_JUDGE_TOP_K, 10
    RerankTopN,     \* _FINAL_RERANK_JUDGE_TOP_N, 20
    MaxResults,
    MaxRuns,        \* bound on runs
    MaxChanges      \* bound on edits and renormalizations

ASSUME JudgingAssumption ==
    /\ Notice \subseteq Nat /\ IsFiniteSet(Notice)
    /\ LatestPlan \in Plan
    /\ {JudgeTopK, CategoryTopK, RerankTopN, MaxResults} \subseteq Nat \ {0}
    /\ {MaxRuns, MaxChanges} \subseteq Nat

\* Texts are finite: so are the sets of words and of questions in them.
ASSUME WordsAssumption ==
    /\ \A id \in Notice : \A n \in Versions[id] :
          /\ \A words \in {n.about, n.seeks, n.signals, n.preferred} : IsFiniteSet(words)
          /\ {n.industries, n.criteria} \subseteq Nat
    /\ \A p \in Plan : \A words \in {p.product, p.edge, p.growth, p.team, p.field} :
          IsFiniteSet(words)

VARIABLES
    profile,        \* the profile as it is stored
    notices,        \* what each notice says
    cache,          \* secondary_filtering_judgment: key -> judgment
    run,            \* the run in progress, or None
    stored,         \* results of the last run that completed, or None
    runs, changes

vars == <<profile, notices, cache, run, stored, runs, changes>>

-----------------------------------------------------------------------------
\* Scores.

Unit == 1800
Neutral == 50 * Unit

\* _overlap_score
Overlap(l, r, default) ==
    LET base == IF Cardinality(l) < Cardinality(r) THEN Cardinality(l) ELSE Cardinality(r)
    IN  IF base = 0 THEN default
        ELSE 35 * Unit + (65 * Unit * Cardinality(l \cap r)) \div base

\* Mutant: confidence is not limited to 1.
BlendUncapped(llm, count, keyword) ==
    IF llm = None \/ count = 0 THEN keyword
    ELSE (count * llm + (3 - count) * keyword) \div 3

\* _confidence_blend: fewer than three criteria are trusted in part.
Blend(llm, count, keyword) ==
    IF llm = None \/ count = 0 THEN keyword
    ELSE IF count >= 3 THEN llm
    ELSE (count * llm + (3 - count) * keyword) \div 3

IsFit(n) == n.category \in {"rnd", "fund"}

Weights(n) ==
    CASE n.category = "rnd"  -> [eligibility |-> 25, item |-> 35, business |-> 35, growth |-> 5]
      [] n.category = "fund" -> [eligibility |-> 35, item |-> 15, business |-> 30, growth |-> 20]
      [] OTHER               -> [eligibility |-> 30, item |-> 25, business |-> 25, growth |-> 20]

\* What the words alone give.
Keyword(p, n) ==
    LET item   == p.product \cup p.edge
        growth == p.growth \cup p.team
        wants  == n.seeks \cup n.signals \cup n.preferred
    IN  [item     |-> (7 * Overlap(item, n.about, Neutral)
                        + 3 * Overlap(p.field, n.about \cup n.signals, Neutral)) \div 10,
         business |-> Overlap(item, wants, Neutral),
         growth   |-> Overlap(growth, wants, Neutral),
         bonus    |-> Overlap(p.edge \cup p.team, n.preferred, 0)]

\* The score of one criterion group: None when the notice has no such criterion.
GroupScore(j, group) == IF j = None \/ j.asked[group] = 0 THEN None ELSE j.answer

\* _score_notice, with the judgment j and the numbers of criteria it is told.
Fit(p, n, j, count) ==
    LET kw == Keyword(p, n)
        told == GroupScore(j, "criteria") # None /\ count.criteria > 0
    IN  IF ~IsFit(n) THEN kw
        ELSE [item     |-> Blend(GroupScore(j, "item"), count.item, kw.item),
              business |-> Blend(GroupScore(j, "criteria"), count.criteria, kw.business),
              growth   |-> IF told THEN Blend(GroupScore(j, "criteria"), count.criteria, kw.growth)
                           ELSE kw.growth,
              bonus    |-> Blend(GroupScore(j, "bonus"), count.bonus, kw.bonus)]

\* In 1/100 of a Unit.  The bonus lifts a score but cannot be needed for 100.
Total(c, p, n, j, count) ==
    LET w == Weights(n)
        f == Fit(p, n, j, count)
        sum == EligibilityScore(n, c) * Unit * w.eligibility + f.item * w.item
                 + f.business * w.business + f.growth * w.growth + 3 * f.bonus
    IN  IF sum > 10000 * Unit THEN 10000 * Unit ELSE sum

\* The result row, with where its fit came from (score_sources.item_fit).
Result(c, p, id, n, j, count) ==
    [notice |-> id, total |-> Total(c, p, n, j, count), fit |-> Fit(p, n, j, count),
     source |-> IF IsFit(n) /\ GroupScore(j, "item") # None /\ count.item > 0
                THEN "llm" ELSE "keyword"]

NoCount == [item |-> 0, criteria |-> 0, bonus |-> 0]
Counted(j) == IF j = None THEN NoCount
              ELSE [item |-> j.asked.item, criteria |-> j.asked.criteria, bonus |-> j.asked.bonus]

-----------------------------------------------------------------------------
\* Judgments.

AtLeastOne(count) == IF count = 0 THEN 1 ELSE count

\* _build_criteria: how many questions of each group.  A fit notice that names
\* no industry or no criterion gets one question made of its keywords.
Criteria(n) ==
    [eligibility |-> Cardinality({a \in {"regionNames", "sizes", "stages", "required"} : n[a] # {}}),
     item        |-> IF IsFit(n) THEN AtLeastOne(n.industries) ELSE 0,
     criteria    |-> IF IsFit(n) THEN AtLeastOne(n.criteria) ELSE 0,
     bonus       |-> IF IsFit(n) THEN Cardinality(n.preferred) ELSE 0]

Questions(n) == \E g \in DOMAIN Criteria(n) : Criteria(n)[g] > 0

\* The fields of the profile that the prompt prints (_company_profile_text).
Printed(c) == [size |-> c.size, type |-> c.type, region |-> c.region,
               stage |-> c.stage, years |-> c.years]

\* Mutant: a field that is printed is not in the key.
FingerprintWithoutYears(c) == <<c.size, c.type, c.region, c.stage>>

\* profile_fingerprint
Fingerprint(c) == <<c.size, c.type, c.region, c.stage, c.years>>

\* Mutant: the key without its fit version.
KeyOfAnyKind(plan, id, c, n) == <<plan, id, Fingerprint(c)>>

Key(plan, id, c, n) == <<plan, id, Fingerprint(c), IsFit(n)>>

\* judge_notice: met, unmet or unclear; a call that fails is unclear, too.
Answers == {0, Neutral, 100 * Unit}

Judgment(c, n, answer) == [answer |-> answer, asked |-> Criteria(n), of |-> Printed(c)]

-----------------------------------------------------------------------------
Init ==
    /\ profile \in Profile
    /\ notices \in {f \in [Notice -> UNION {Versions[id] : id \in Notice}] :
                        \A id \in Notice : f[id] \in Versions[id]}
    /\ cache = <<>>
    /\ run = None /\ stored = None
    /\ runs = 0 /\ changes = 0

\* The user saves the profile; a notice is normalized, or filed, again.
EditProfile ==
    /\ changes < MaxChanges
    /\ profile' \in Profile \ {profile}
    /\ changes' = changes + 1
    /\ UNCHANGED <<notices, cache, run, stored, runs>>

Renormalize(id) ==
    /\ changes < MaxChanges
    /\ \E n \in Versions[id] \ {notices[id]} : notices' = [notices EXCEPT ![id] = n]
    /\ changes' = changes + 1
    /\ UNCHANGED <<profile, cache, run, stored, runs>>

\* The filters; without a candidate the run fails (MatchingNotReadyError).
\* What the run has read here it works with to its end.
Start(plan) ==
    /\ run = None /\ runs < MaxRuns
    /\ runs' = runs + 1
    /\ LET passed == {id \in Notice : Passes(notices[id], profile, LatestPlan.company)}
       IN  run' = IF passed = {} THEN None
                  ELSE [step |-> "search", plan |-> plan, profile |-> profile,
                        passed |-> [id \in passed |-> notices[id]],
                        sims |-> <<>>, judged |-> <<>>, scored |-> <<>>, fresh |-> {}]
    /\ UNCHANGED <<profile, notices, cache, stored, changes>>

\* run_secondary_filtering: none when the plan has no text or cannot be
\* embedded; a notice without text, whose embedding fails, or that is beyond
\* the nearest chunks has no similarity.  No two are equally similar.
Search ==
    /\ run # None /\ run.step = "search"
    /\ \E found \in SUBSET DOMAIN run.passed :
         \E sims \in {s \in [found -> 1 .. Cardinality(found)] :
                        \A a, b \in found : s[a] = s[b] => a = b} :
            run' = [run EXCEPT !.step = "judge", !.sims = sims]
    /\ UNCHANGED <<profile, notices, cache, stored, runs, changes>>

\* Anything but AiEmbeddingError, of the plan or of any one notice, fails the
\* whole run, and so does an error of a later step: its transaction, with the
\* judgments saved in it, is rolled back.
Fail ==
    /\ run # None
    /\ run' = None
    /\ UNCHANGED <<profile, notices, cache, stored, runs, changes>>

\* The k most similar of a set.
MostSimilar(sims, ids, k) ==
    {id \in ids \cap DOMAIN sims :
        Cardinality({o \in ids \cap DOMAIN sims : sims[o] > sims[id]}) < k}

OfCategory(passed, category) == {id \in DOMAIN passed : passed[id].category = category}

\* Mutant: one share for both categories.
JudgePooled(r) ==
    MostSimilar(r.sims, Notice, JudgeTopK)
      \cup MostSimilar(r.sims, OfCategory(r.passed, "rnd") \cup OfCategory(r.passed, "fund"),
                       CategoryTopK)

\* _rank_judge_candidates
JudgeCandidates(r) ==
    MostSimilar(r.sims, Notice, JudgeTopK)
      \cup MostSimilar(r.sims, OfCategory(r.passed, "rnd"), CategoryTopK)
      \cup MostSimilar(r.sims, OfCategory(r.passed, "fund"), CategoryTopK)

CachedIn(r, id) ==
    LET key == Key(r.plan, id, r.profile, r.passed[id])
    IN  IF key \in DOMAIN cache THEN cache[key] ELSE None

\* _judge_notice_ids: what the cache does not know is asked, and a notice
\* without any question stays as it is.  Saving is part of the run's
\* transaction.  Answered is the run with the new judgments.
Answered(r, ids, answers) ==
    LET known == {id \in ids : CachedIn(r, id) # None}
        asked == {id \in ids \ known : Questions(r.passed[id])}
    IN  [r EXCEPT !.judged = [id \in known \cup asked \cup DOMAIN r.judged |->
                                 IF id \in known THEN CachedIn(r, id)
                                 ELSE IF id \in asked
                                      THEN Judgment(r.profile, r.passed[id], answers[id])
                                 ELSE r.judged[id]],
                  !.fresh = @ \cup asked]

JudgedOf(r, id) == IF id \in DOMAIN r.judged THEN r.judged[id] ELSE None

\* How many of S come before x, by the pairs of a total order; the n-th of S.
Rank(S, order, x) == Cardinality({y \in S : <<y, x>> \in order})
Ranked(S, order) ==
    [n \in 1 .. Cardinality(S) |-> CHOOSE x \in S : Rank(S, order, x) = n - 1]

\* Higher totals first, equals in the order they had.
Above(results) ==
    {p \in (DOMAIN results) \X (DOMAIN results) :
        \/ results[p[1]].total > results[p[2]].total
        \/ results[p[1]].total = results[p[2]].total /\ p[1] < p[2]}

ByTotal(results) ==
    LET place == Ranked(DOMAIN results, Above(results))
    IN  [i \in DOMAIN place |-> results[place[i]]]

\* Candidates are read newest first, when they end on the same day.
InOrder(ids) == Ranked(ids, {p \in ids \X ids : p[1] > p[2]})

\* Mutant: only what was found by similarity is scored.
ScoredFound(r) ==
    LET ids == InOrder(DOMAIN r.sims)
    IN  ByTotal([i \in DOMAIN ids |->
            Result(r.profile, r.plan, ids[i], r.passed[ids[i]], JudgedOf(r, ids[i]),
                   Counted(JudgedOf(r, ids[i])))])

Scored(r) ==
    LET ids == InOrder(DOMAIN r.passed)
    IN  ByTotal([i \in DOMAIN ids |->
            Result(r.profile, r.plan, ids[i], r.passed[ids[i]], JudgedOf(r, ids[i]),
                   Counted(JudgedOf(r, ids[i])))])

\* The answers for the notices that need one.
AnswersFor(r, ids) == [{id \in ids : CachedIn(r, id) = None /\ Questions(r.passed[id])} -> Answers]

Judge ==
    /\ run # None /\ run.step = "judge"
    /\ \E answers \in AnswersFor(run, JudgeCandidates(run)) :
          LET judged == Answered(run, JudgeCandidates(run), answers)
          IN  run' = [judged EXCEPT !.step = "rerank", !.scored = Scored(judged)]
    /\ UNCHANGED <<profile, notices, cache, stored, runs, changes>>

\* Fit notices among the best that nothing has judged.
Unjudged(r) ==
    {r.scored[i].notice : i \in {i \in DOMAIN r.scored :
        /\ i <= RerankTopN
        /\ IsFit(r.passed[r.scored[i].notice])
        /\ r.scored[i].notice \notin DOMAIN r.judged}}

\* They are judged and scored again, but the score is not told how many
\* criteria were judged.
Rescored(r, late) ==
    ByTotal([i \in DOMAIN r.scored |->
        LET id == r.scored[i].notice
        IN  IF id \in late
            THEN Result(r.profile, r.plan, id, r.passed[id], JudgedOf(r, id), NoCount)
            ELSE r.scored[i]])

Rerank ==
    /\ run # None /\ run.step = "rerank"
    /\ \E answers \in AnswersFor(run, Unjudged(run)) :
          LET judged == Answered(run, Unjudged(run), answers)
          IN  run' = [judged EXCEPT !.step = "save", !.scored = Rescored(judged, Unjudged(run))]
    /\ UNCHANGED <<profile, notices, cache, stored, runs, changes>>

\* The best are stored, with the judgments, in one commit.
Save ==
    /\ run # None /\ run.step = "save"
    /\ LET saved == {Key(run.plan, id, run.profile, run.passed[id]) : id \in run.fresh}
       IN  cache' = [key \in saved \cup DOMAIN cache |->
                        IF key \in saved THEN run.judged[key[2]] ELSE cache[key]]
    /\ stored' = [profile |-> run.profile, passed |-> run.passed, sims |-> run.sims,
                  judged |-> run.judged, all |-> run.scored,
                  results |-> SubSeq(run.scored, 1,
                      IF Len(run.scored) < MaxResults THEN Len(run.scored) ELSE MaxResults)]
    /\ run' = None
    /\ UNCHANGED <<profile, notices, runs, changes>>

Next ==
    \/ EditProfile
    \/ \E id \in Notice : Renormalize(id)
    \/ \E p \in Plan : Start(p)
    \/ Search
    \/ Judge
    \/ Rerank
    \/ Save
    \/ Fail

Spec == Init /\ [][Next]_vars

-----------------------------------------------------------------------------
JudgmentOk(j) == j.answer \in Answers /\ \A g \in DOMAIN j.asked : j.asked[g] \in Nat

\* Every score and every total, bonus and all, is between 0 and 100 points.
TypeOK ==
    /\ profile \in Profile
    /\ \A id \in Notice : notices[id] \in Versions[id]
    /\ \A key \in DOMAIN cache : JudgmentOk(cache[key])
    /\ run # None => /\ run.step \in {"search", "judge", "rerank", "save"}
                     /\ DOMAIN run.judged \subseteq DOMAIN run.passed
                     /\ run.fresh \subseteq DOMAIN run.judged
                     /\ \A i \in DOMAIN run.scored :
                            /\ run.scored[i].total \in 0 .. 10000 * Unit
                            /\ \A g \in DOMAIN run.scored[i].fit :
                                   run.scored[i].fit[g] \in 0 .. 100 * Unit
    /\ runs \in 0 .. MaxRuns /\ changes \in 0 .. MaxChanges

\* However often the profile was edited and the cache reused, every judgment
\* behind a result was made of the profile that the run matched.
JudgedForThisProfile ==
    stored # None =>
        \A id \in DOMAIN stored.judged : stored.judged[id].of = Printed(stored.profile)

\* A notice that is filed under R&D or funding later does not reuse answers to
\* the fewer questions of a general notice, nor the other way round.
FitQuestionsAsked ==
    stored # None =>
        \A id \in DOMAIN stored.judged :
            LET asked == stored.judged[id].asked
            IN  IF IsFit(stored.passed[id]) THEN asked.item > 0 /\ asked.criteria > 0
                ELSE asked.item = 0 /\ asked.criteria = 0

\* R&D notices do not lose their judgment to funding notices that are more
\* similar, and neither to general ones: each category has its share.
CategoriesGetTheirShare ==
    stored # None =>
        \A category \in {"rnd", "fund"} :
            LET ofIt == OfCategory(stored.passed, category) \cap DOMAIN stored.sims
                few  == IF Cardinality(ofIt) < CategoryTopK THEN Cardinality(ofIt) ELSE CategoryTopK
            IN  Cardinality(ofIt \cap DOMAIN stored.judged) >= few

\* The results are the best of everything that passed the filters, as scored
\* in the end, best first: none is lost to failed embeddings or judgments, and
\* late judgments move notices up and down as earlier ones do.
BestAreKept ==
    stored # None =>
        /\ \A id \in DOMAIN stored.passed : \E i \in DOMAIN stored.all : stored.all[i].notice = id
        /\ \A i, j \in DOMAIN stored.all : i < j => stored.all[i].total >= stored.all[j].total
        /\ \A i \in DOMAIN stored.results : stored.results[i] = stored.all[i]

\* What the comments on _FINAL_RERANK_JUDGE_TOP_N say: no R&D or funding
\* notice is shown at the top on keywords alone.
NoFallbackAtTop ==
    stored # None =>
        \A i \in DOMAIN stored.results :
            i <= RerankTopN /\ IsFit(stored.passed[stored.results[i].notice])
                => stored.results[i].source = "llm"
=============================================================================
