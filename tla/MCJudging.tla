------------------------------ MODULE MCJudging ------------------------------
EXTENDS Judging

MCToday == 20265

Says(category) ==
    [category |-> category, about |-> {"robot", "sensor"}, seeks |-> {"export", "patent"},
     signals |-> {"robot"}, preferred |-> {}, industries |-> 0, criteria |-> 0,
     required |-> {"exists"}, regionNames |-> {"seoul"}, sizes |-> {"small"}, stages |-> {},
     applicants |-> "companies", regions |-> {}, targets |-> {}, prestartup |-> None,
     yearsMax |-> None, status |-> "open", start |-> None, end |-> None,
     normalized |-> TRUE, actionable |-> TRUE, complete |-> TRUE]

\* 1: R&D, seven years at most, more criteria than full confidence needs.
\* 2: funding, at first for institutions only, a period, another province.
\* 3: general at first, filed under R&D later.
MCVersions ==
    [id \in 1 .. 3 |->
        CASE id = 1 -> {[Says("rnd") EXCEPT !.prestartup = FALSE, !.yearsMax = 7, !.criteria = 4,
                                            !.preferred = {"export"}]}
          [] id = 2 -> {[Says("fund") EXCEPT !.status = "planned", !.start = 1, !.end = MCToday,
                                             !.regions = {"seoul", "busan"}, !.regionNames = {"ALL"},
                                             !.applicants = a, !.seeks = {"loan"}, !.industries = 2] :
                          a \in {"companies", "institutions"}}
          [] id = 3 -> {[Says(c) EXCEPT !.targets = {"citizen", "company"}, !.actionable = None] :
                          c \in {"general", "rnd"}}]

Firm == [region |-> "seoul", type |-> "corporation", size |-> "SME", stage |-> "early",
         years |-> 7, founded |-> None]

MCProfile == {Firm, [Firm EXCEPT !.years = None, !.founded = MCToday - 68],
              [Firm EXCEPT !.years = None, !.region = "jeju", !.type = "prestartup", !.stage = None]}

MCPlan == {[product |-> {"robot"}, edge |-> {"sensor", "patent"}, growth |-> {"export"},
            team |-> {"loan"}, field |-> {"sensor"},
            company |-> [foundedYear |-> 2020, registration |-> None]]}
MCLatestPlan == CHOOSE p \in MCPlan : TRUE
=============================================================================
