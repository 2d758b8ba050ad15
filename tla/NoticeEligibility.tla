--------------------------- MODULE NoticeEligibility ---------------------------
(***************************************************************************)
(* Which notices a company may apply for, and how well it qualifies: the   *)
(* hard filter of services/notice_eligibility_service (region, applicant,  *)
(* years in business, period) and the soft score and gate that             *)
(* services/matching_service applies to what is left.  A date is the       *)
(* number year * YearLength + day; a name is a model value or a string.    *)
(***************************************************************************)
EXTENDS Integers, FiniteSets

CONSTANTS
    None,
    Today,
    YearLength      \* days of a year, as few as the birthdays that matter

ASSUME DatesAssumption == YearLength \in Nat \ {0} /\ Today \in Nat

\* Applicants that are no companies, and companies that are registered.
NonCompany == {"citizen", "student", "youth", "university", "institute"}
Registered == {"individual", "corporation"}

-----------------------------------------------------------------------------
\* The company.  analysis is what the latest plan says of it, or None.

\* _needs_analysis_fallback: only then is the latest plan read.
NeedsAnalysis(c) ==
    \/ c.years = None /\ c.founded = None
    \/ c.type = None /\ c.stage = None

\* _full_years: a year counts when its anniversary has come.
FullYears(founded) ==
    LET years == Today \div YearLength - founded \div YearLength
        full == IF Today % YearLength < founded % YearLength THEN years - 1 ELSE years
    IN  IF full < 0 THEN 0 ELSE full

\* _derive_business_years
Years(c, analysis) ==
    IF c.years # None THEN c.years
    ELSE IF c.founded # None THEN FullYears(c.founded)
    ELSE IF analysis # None /\ analysis.foundedYear # None
         THEN IF Today \div YearLength < analysis.foundedYear THEN 0
              ELSE Today \div YearLength - analysis.foundedYear
    ELSE None

\* _derive_is_prestartup
IsPrestartup(c, analysis) ==
    \/ c.type = "prestartup"
    \/ analysis # None /\ analysis.registration = "prestartup"

-----------------------------------------------------------------------------
\* The four axes: what is not known does not reject, the period excepted.

PassesRegion(n, c) ==
    c.region = None \/ n.regions = {} \/ {"ALL", c.region} \cap n.regions # {}

PassesApplicant(n, c) ==
    c.type \notin Registered \/ n.targets = {} \/ n.targets \ NonCompany # {}

\* notice_allows_company
AllowsCompany(n, prestartup, years) ==
    \/ n.prestartup = None
    \/ prestartup /\ n.prestartup
    \/ ~prestartup /\ (years = None \/ (n.yearsMax # None /\ years < n.yearsMax))

PassesPeriod(n) ==
    \/ n.status = "open"
    \/ n.start # None /\ n.start <= Today /\ (n.end = None \/ n.end >= Today)

Eligible(n, c, latest) ==
    LET analysis == IF NeedsAnalysis(c) THEN latest ELSE None
    IN  /\ PassesRegion(n, c)
        /\ PassesApplicant(n, c)
        /\ AllowsCompany(n, IsPrestartup(c, analysis), Years(c, analysis))
        /\ PassesPeriod(n)

\* list_normalized_notice_candidates
IsCandidate(n) == n.normalized /\ n.actionable # FALSE

-----------------------------------------------------------------------------
\* _eligibility_score.  The text of the notice names regions, sizes and
\* stages; a company of the class "SME" belongs to each of its parts, and a
\* size that is called an enterprise counts half for every company.

SmeParts == {"micro", "small", "medium", "SME"}
Enterprises == {"small", "medium", "SME", "midsize"}

RegionScore(n, c) ==
    IF n.regionNames = {} \/ "ALL" \in n.regionNames THEN 15
    ELSE IF c.region \in n.regionNames THEN 20 ELSE -15

SizeScore(n, c) ==
    IF n.sizes = {} THEN 5
    ELSE IF c.size \in n.sizes \/ (c.size = "SME" /\ n.sizes \cap SmeParts # {}) THEN 15
    ELSE IF n.sizes \cap Enterprises # {} THEN 8 ELSE -10

StageScore(n, c) ==
    IF n.stages = {} THEN 5 ELSE IF c.stage \in n.stages THEN 10 ELSE 0

\* Universities and institutes only: no company can apply, whatever it scores.
InstitutionOnly(n) == n.applicants = "institutions"

EligibilityScore(n, c) ==
    LET sum == 55 + RegionScore(n, c) + SizeScore(n, c) + StageScore(n, c)
        score == IF sum > 100 THEN 100 ELSE sum
    IN  IF InstitutionOnly(n) /\ score > 20 THEN 20 ELSE score

EligibilityStatus(n, c) ==
    IF InstitutionOnly(n) \/ EligibilityScore(n, c) < 50 THEN "likely_ineligible"
    ELSE IF EligibilityScore(n, c) < 75 THEN "needs_review" ELSE "eligible"

\* The candidates that reach embedding and judgment: completely normalized,
\* and not ruled out by the gate.
Passes(n, c, latest) ==
    /\ Eligible(n, c, latest)
    /\ IsCandidate(n)
    /\ n.complete
    /\ EligibilityStatus(n, c) # "likely_ineligible"
=============================================================================
