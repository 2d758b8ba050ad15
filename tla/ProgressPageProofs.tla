-------------------------- MODULE ProgressPageProofs --------------------------
(***************************************************************************)
(* AnalysisProgressPage, for any number of runs, polls and requests, and   *)
(* whatever the server does within AnalysisLifecycle and MatchLifecycle.   *)
(***************************************************************************)
EXTENDS ProgressPage, Integers, TLAPS

\* Nobody listens in a page that is not open, and an open one is not cancelled.
AwayIsQuiet ==
    /\ cancelled => phase = "away"
    /\ phase = "away" =>
         /\ ~recover
         /\ run = "none" /\ chain = NoChain /\ timer = "none" /\ ~late
         /\ click = "none" /\ ~confirming /\ post = 0 /\ follow = NoFollow

\* Polling begins when run() has been answered.
StartIsQuiet == run # "none" => chain = NoChain /\ timer = "none"

PollsAreBounded ==
    /\ chain.timer + chain.answer <= MaxChain
    /\ timer = "waits" => chain.timer > 0

\* TypeOK by what an action may leave alone.
ViewOK ==
    /\ phase \in Analysing \cup MatchStage \cup {"failed", "away"}
    /\ recover \in BOOLEAN /\ matchedLog \in LogId \cup {NoLog}
PollingOK ==
    /\ run \in {"none", "get", "post"}
    /\ chain \in [timer : 0..MaxChain, answer : 0..MaxChain]
    /\ timer \in {"none", "waits", "fired"} /\ late \in BOOLEAN
MatchingOK ==
    /\ click \in {"none", "profile", "dialog"} /\ confirming \in BOOLEAN
    /\ post \in 0..MaxPost /\ follow \in [LogId -> 0..MaxFollow]

LEMMA TypeParts == TypeOK <=> ViewOK /\ PollingOK /\ MatchingOK /\ cancelled \in BOOLEAN
  BY DEF TypeOK, ViewOK, PollingOK, MatchingOK

PageInv ==
    /\ TypeOK /\ AwayIsQuiet /\ StartIsQuiet /\ PollsAreBounded
    /\ MatchedIsCompleted /\ MatchingIsAttended

\* A page that was never opened.
LEMMA PageInit == Init => PageInv
  <1> SUFFICES ASSUME Init PROVE PageInv
    OBVIOUS
  <1>1. chain \in [timer : 0..MaxChain, answer : 0..MaxChain] /\ PollsAreBounded
    BY BoundAssumption DEF Init, NoChain, PollsAreBounded
  <1>2. post \in 0..MaxPost /\ follow \in [LogId -> 0..MaxFollow]
    BY BoundAssumption DEF Init, NoFollow
  <1>3. TypeOK
    BY <1>1, <1>2 DEF Init, TypeOK
  <1> QED
    BY <1>1, <1>3 DEF Init, PageInv, AwayIsQuiet, StartIsQuiet, MatchedIsCompleted,
                      MatchingIsAttended

\* A poll that goes on leaves one wait and joins the other.
LEMMA MovedPolls ==
  ASSUME TypeOK, NEW from, NEW to
  PROVE  /\ DOMAIN Moved(from, to) = {"timer", "answer"}
         /\ Moved(from, to).timer = (chain.timer + (IF to = "timer" THEN 1 ELSE 0))
                                      - (IF from = "timer" THEN 1 ELSE 0)
         /\ Moved(from, to).answer = (chain.answer + (IF to = "answer" THEN 1 ELSE 0))
                                      - (IF from = "answer" THEN 1 ELSE 0)
  BY DEF Moved

\* What the numbers say of the polls when one of them goes on.
LEMMA MovedType ==
  ASSUME TypeOK, PollsAreBounded, NEW from \in {"start", "timer", "answer"},
         NEW to \in {"timer", "answer", "end"},
         from = "timer" => chain.timer > 0,
         from = "answer" => chain.answer > 0,
         from = "start" /\ to # "end" => chain.timer + chain.answer < MaxChain
  PROVE  /\ Moved(from, to) \in [timer : 0..MaxChain, answer : 0..MaxChain]
         /\ Moved(from, to).timer + Moved(from, to).answer <= MaxChain
  <1> DEFINE m == Moved(from, to)
  <1>1. chain.timer \in 0..MaxChain /\ chain.answer \in 0..MaxChain
    BY DEF TypeOK
  <1>2. m.timer \in Int /\ m.answer \in Int /\ m.timer >= 0 /\ m.answer >= 0
           /\ m.timer + m.answer <= MaxChain
    BY <1>1, MovedPolls, BoundAssumption DEF PollsAreBounded
  <1>3. m = [timer |-> m.timer, answer |-> m.answer]
    BY MovedPolls DEF Moved
  <1>4. m.timer \in 0..MaxChain /\ m.answer \in 0..MaxChain
    BY <1>2, BoundAssumption
  <1> QED
    BY <1>2, <1>3, <1>4

-----------------------------------------------------------------------------
\* What setPhase leaves behind, for any phase but the two of a match.
LEMMA ShowStep ==
  ASSUME NEW p \in {"starting", "analysing", "analyzed", "failed", "away"},
         recover \in BOOLEAN, Show(p)
  PROVE  ViewOK' /\ MatchedIsCompleted' /\ MatchingIsAttended'
  <1>1. recover' \in BOOLEAN
    BY Zenon DEF Show
  <1> QED
    BY <1>1 DEF Show, ViewOK, MatchedIsCompleted, MatchingIsAttended, Analysing, MatchStage

\* Coming, going and trying again.
LEMMA OpenStep ==
  ASSUME PageInv, Enter \/ Leave \/ Retry
  PROVE  PageInv'
  <1> USE DEF PageInv, server, matching
  <1>1. recover \in BOOLEAN /\ PollingOK /\ MatchingOK /\ cancelled \in BOOLEAN
    BY TypeParts DEF ViewOK
  <1>2. ViewOK' /\ MatchedIsCompleted' /\ MatchingIsAttended'
    BY <1>1, ShowStep DEF Enter, Leave, Retry
  <1>3. NoChain \in [timer : 0..MaxChain, answer : 0..MaxChain]
           /\ NoFollow \in [LogId -> 0..MaxFollow] /\ 0 \in 0..MaxPost
    BY BoundAssumption DEF NoChain, NoFollow
  <1>4. PollingOK'
    BY <1>1, <1>3 DEF PollingOK, Enter, Leave, Retry
  <1>5. MatchingOK' /\ cancelled' \in BOOLEAN
    BY <1>1, <1>3 DEF MatchingOK, Enter, Leave, Retry
  <1>6. AwayIsQuiet' /\ StartIsQuiet'
    <2>1. CASE Enter
      BY <2>1 DEF AwayIsQuiet, StartIsQuiet, Enter, Show, NoChain
    <2>2. CASE Leave
      BY <2>2 DEF AwayIsQuiet, StartIsQuiet, Leave, Show, NoChain, NoFollow
    <2>3. CASE Retry
      BY <2>3 DEF AwayIsQuiet, StartIsQuiet, Retry, Show, NoChain
    <2> QED
      BY <2>1, <2>2, <2>3
  <1>7. PollsAreBounded'
    BY BoundAssumption DEF PollsAreBounded, Enter, Leave, Retry, NoChain
  <1> QED
    BY <1>2, <1>4, <1>5, <1>6, <1>7 DEF TypeOK, ViewOK, PollingOK, MatchingOK

-----------------------------------------------------------------------------
(* The analysis: polls keep their number and leave the match alone.        *)

\* What an action of the analysis has to show, in an open page.
PollsGoOn ==
    /\ PollingOK' /\ StartIsQuiet' /\ PollsAreBounded'
    /\ \/ \E p \in {"analysing", "analyzed", "failed"} : Show(p)
       \/ UNCHANGED view

LEMMA PollsGoOnInv ==
  ASSUME PageInv, phase # "away", PollsGoOn, UNCHANGED <<log, matching, cancelled>>
  PROVE  PageInv'
  <1> USE DEF PageInv, PollsGoOn, matching, view
  <1>1. ViewOK /\ MatchingOK /\ cancelled \in BOOLEAN
    BY TypeParts
  <1>2. ViewOK' /\ MatchedIsCompleted' /\ MatchingIsAttended'
    <2>1. CASE \E p \in {"analysing", "analyzed", "failed"} : Show(p)
      BY <1>1, <2>1, ShowStep DEF ViewOK
    <2>2. CASE UNCHANGED view
      BY <1>1, <2>2 DEF ViewOK, MatchedIsCompleted, MatchingIsAttended, Following
    <2> QED
      BY <2>1, <2>2
  <1>3. MatchingOK' /\ cancelled' \in BOOLEAN
    BY <1>1 DEF MatchingOK
  <1>4. AwayIsQuiet'
    BY DEF AwayIsQuiet, Show
  <1> QED
    BY <1>2, <1>3, <1>4 DEF TypeOK, ViewOK, PollingOK, MatchingOK

\* A poll that has waited comes to its next wait, or to its end.
LEMMA ApplyStep ==
  ASSUME PollingOK, PollsAreBounded, TypeOK, NEW from \in {"start", "answer"}, Apply(from),
         from = "answer" => chain.answer > 0,
         from = "start" => chain = NoChain
  PROVE  /\ \E p \in {"analysing", "analyzed", "failed"} : Show(p)
         /\ chain' \in [timer : 0..MaxChain, answer : 0..MaxChain] /\ PollsAreBounded'
         /\ timer' \in {"none", "waits", "fired"}
  <1> DEFINE m(to) == Moved(from, to)
  <1>1. from = "start" => chain.timer + chain.answer < MaxChain
    BY BoundAssumption DEF NoChain
  <1>2. \A to \in {"timer", "end"} :
           m(to) \in [timer : 0..MaxChain, answer : 0..MaxChain]
             /\ m(to).timer + m(to).answer <= MaxChain
    BY <1>1, MovedType
  <1>3. chain.timer \in Nat /\ m("timer").timer = chain.timer + 1 /\ m("end").timer = chain.timer
    BY MovedPolls DEF PollingOK
  <1>4. \/ chain' = m("end") /\ UNCHANGED timer
        \/ chain' = m("timer") /\ timer' = "waits"
    BY DEF Apply
  <1>5. \E p \in {"analysing", "analyzed", "failed"} : Show(p)
    BY DEF Apply
  <1> HIDE DEF m
  <1> QED
    BY <1>2, <1>3, <1>4, <1>5 DEF PollingOK, PollsAreBounded

\* poll, called when a timer has fired or been cleared, or beside other polls.
LEMMA PollStep ==
  ASSUME PollingOK, TypeOK, PollsAreBounded, NEW from \in {"start", "timer"}, Poll(from),
         from = "timer" => chain.timer > 0,
         from = "start" => chain.timer + chain.answer < MaxChain
  PROVE  /\ (\E p \in {"analysing", "analyzed", "failed"} : Show(p)) \/ UNCHANGED view
         /\ chain' \in [timer : 0..MaxChain, answer : 0..MaxChain]
         /\ chain'.timer + chain'.answer <= MaxChain
         /\ chain'.timer = IF from = "timer" THEN chain.timer - 1 ELSE chain.timer
  <1>1. ASSUME NEW to \in {"answer", "end"}
        PROVE  /\ Moved(from, to) \in [timer : 0..MaxChain, answer : 0..MaxChain]
               /\ Moved(from, to).timer + Moved(from, to).answer <= MaxChain
               /\ Moved(from, to).timer = IF from = "timer" THEN chain.timer - 1
                                          ELSE chain.timer
    <2>1. chain.timer \in Nat
      BY DEF PollingOK
    <2> QED
      BY <2>1, MovedType, MovedPolls
  <1> QED
    BY <1>1 DEF Poll

\* run() and the polls.
LEMMA AnalysisInv ==
  ASSUME PageInv,
         RunGet \/ RunPost \/ RunFails \/ TimerFires \/ BecomeVisible \/ PollAnswered \/ PollFails
           \/ PollingIsLate
  PROVE  PageInv'
  <1> USE DEF PageInv, server, polling
  <1>1. PollingOK /\ chain.timer \in Nat /\ chain.answer \in Nat
    BY TypeParts DEF PollingOK
  <1>2. phase # "away" /\ UNCHANGED <<log, matching, cancelled>>
    BY <1>1 DEF AwayIsQuiet, NoChain, RunGet, RunPost, RunFails, TimerFires, BecomeVisible,
                PollAnswered, PollFails, PollingIsLate
  <1>3. CASE RunGet
    <2>1. ASSUME status = "null" PROVE PollsGoOn
      BY <1>1, <1>3, <2>1 DEF RunGet, PollsGoOn, PollingOK, StartIsQuiet, PollsAreBounded, view
    <2>2. ASSUME status # "null" PROVE PollsGoOn
      BY <1>1, <1>3, <2>2, ApplyStep DEF RunGet, PollsGoOn, PollingOK, StartIsQuiet
    <2> QED
      BY <1>2, <2>1, <2>2, PollsGoOnInv
  <1>4. CASE RunPost
    <2>1. /\ Moved("start", "timer") \in [timer : 0..MaxChain, answer : 0..MaxChain]
          /\ Moved("start", "timer").timer + Moved("start", "timer").answer <= MaxChain
      BY <1>4, MovedType, BoundAssumption DEF StartIsQuiet, RunPost, NoChain
    <2>2. Moved("start", "timer").timer > 0
      BY <1>1, MovedPolls
    <2>3. PollsGoOn
      BY <1>1, <1>4, <2>1, <2>2 DEF RunPost, PollsGoOn, PollingOK, StartIsQuiet, PollsAreBounded
    <2> QED
      BY <1>2, <2>3, PollsGoOnInv
  <1>5. CASE RunFails \/ PollingIsLate
    BY <1>1, <1>2, <1>5, PollsGoOnInv
       DEF RunFails, PollingIsLate, PollsGoOn, PollingOK, StartIsQuiet, PollsAreBounded, view
  <1>6. CASE TimerFires
    <2>1. run = "none"
      BY <1>1, <1>6 DEF StartIsQuiet, TimerFires, NoChain, PollingOK
    <2>2. PollsGoOn
      BY <1>1, <1>6, <2>1, PollStep
         DEF TimerFires, PollsGoOn, PollingOK, StartIsQuiet, PollsAreBounded
    <2> QED
      BY <1>2, <2>2, PollsGoOnInv
  <1>7. CASE BecomeVisible
    <2>1. run = "none"
      BY <1>1, <1>7 DEF StartIsQuiet, BecomeVisible, PollingOK
    <2>2. PollsGoOn
      BY <1>1, <1>7, <2>1, PollStep
         DEF BecomeVisible, PollsGoOn, PollingOK, StartIsQuiet, PollsAreBounded
    <2> QED
      BY <1>2, <2>2, PollsGoOnInv
  <1>8. CASE PollAnswered
    <2>1. run = "none"
      BY <1>1, <1>8 DEF StartIsQuiet, PollAnswered, NoChain, PollingOK
    <2>2. PollsGoOn
      BY <1>1, <1>8, <2>1, ApplyStep DEF PollAnswered, PollsGoOn, PollingOK, StartIsQuiet
    <2> QED
      BY <1>2, <2>2, PollsGoOnInv
  <1>9. CASE PollFails
    <2>1. run = "none"
      BY <1>1, <1>9 DEF StartIsQuiet, PollFails, NoChain, PollingOK
    <2>2. /\ Moved("answer", "end") \in [timer : 0..MaxChain, answer : 0..MaxChain]
          /\ Moved("answer", "end").timer + Moved("answer", "end").answer <= MaxChain
          /\ Moved("answer", "end").timer = chain.timer
      BY <1>1, <1>9, MovedType, MovedPolls DEF PollFails
    <2>3. PollsGoOn
      BY <1>1, <1>9, <2>1, <2>2 DEF PollFails, PollsGoOn, PollingOK, StartIsQuiet, PollsAreBounded
    <2> QED
      BY <1>2, <2>3, PollsGoOnInv
  <1> QED
    BY <1>3, <1>4, <1>5, <1>6, <1>7, <1>8, <1>9

-----------------------------------------------------------------------------
(* The match: what the page shows, and who will end it.                    *)

\* What an action of the match has to show: polls go on undisturbed.
LEMMA MatchInv ==
  ASSUME PageInv, phase # "away", phase' # "away", UNCHANGED <<polling, cancelled>>,
         ViewOK', MatchingOK', MatchedIsCompleted', MatchingIsAttended'
  PROVE  PageInv'
  <1> USE DEF PageInv, polling
  <1>1. PollingOK' /\ cancelled' \in BOOLEAN
    BY TypeParts DEF PollingOK
  <1>2. StartIsQuiet' /\ PollsAreBounded' /\ AwayIsQuiet'
    BY DEF StartIsQuiet, PollsAreBounded, AwayIsQuiet, NoChain
  <1> QED
    BY <1>1, <1>2 DEF TypeOK, ViewOK, PollingOK, MatchingOK

\* A run that is shown as completed stays so, or is deleted.
LEMMA ServerInv ==
  ASSUME PageInv, ServerSteps
  PROVE  PageInv'
  <1> USE DEF PageInv, ServerSteps, view, polling, matching
  <1>1. ASSUME Match!Next, NEW l \in LogId, log[l] \in {"completed", "deleted"}
        PROVE  log'[l] \in {"completed", "deleted"}
    BY <1>1 DEF Match!Next, Match!Create, Match!Complete, Match!Fail, Match!Erase,
                Match!SetStatus, Match!Processing, Match!Rows
  <1>2. MatchedIsCompleted'
    BY <1>1 DEF MatchedIsCompleted, TypeOK
  <1>3. MatchingIsAttended' /\ AwayIsQuiet' /\ StartIsQuiet' /\ PollsAreBounded'
    BY DEF MatchingIsAttended, Following, AwayIsQuiet, StartIsQuiet, PollsAreBounded,
           NoChain, NoFollow
  <1>4. TypeOK'
    BY DEF TypeOK
  <1> QED
    BY <1>2, <1>3, <1>4

\* The button, the dialog and the confirmation.
LEMMA ClickInv ==
  ASSUME PageInv, ClickMatch \/ ProfileAnswered \/ ProfileFails \/ CloseDialog \/ Confirmed
                    \/ NotRecovered
  PROVE  PageInv'
  <1> USE DEF PageInv, view, server
  <1>1. ViewOK /\ MatchingOK /\ post \in Nat
    BY TypeParts, BoundAssumption DEF MatchingOK
  <1>2. phase # "away" /\ UNCHANGED <<log, polling, cancelled, follow>>
    BY DEF AwayIsQuiet, ClickMatch, ProfileAnswered, ProfileFails, CloseDialog, Confirmed,
           NotRecovered, TypeOK, matching
  <1>3. CASE UNCHANGED <<phase, matchedLog, post>>
    <2>1. recover' \in BOOLEAN /\ confirming' \in BOOLEAN /\ click' \in {"none", "profile", "dialog"}
      <3>1. recover' = recover \/ recover' = FALSE
        BY DEF ClickMatch, ProfileAnswered, ProfileFails, CloseDialog, Confirmed, NotRecovered,
               StartMatch, Show
      <3>2. confirming' = confirming \/ confirming' = FALSE \/ confirming' = TRUE
        BY DEF ClickMatch, ProfileAnswered, ProfileFails, CloseDialog, Confirmed, NotRecovered,
               matching
      <3>3. click' = click \/ click' \in {"none", "profile", "dialog"}
        BY DEF ClickMatch, ProfileAnswered, ProfileFails, CloseDialog, Confirmed, NotRecovered,
               matching
      <3> QED
        BY <1>1, <3>1, <3>2, <3>3 DEF ViewOK, MatchingOK
    <2>3. ViewOK' /\ MatchingOK'
      BY <1>1, <1>2, <1>3, <2>1 DEF ViewOK, MatchingOK
    <2>2. MatchedIsCompleted' /\ MatchingIsAttended'
      BY <1>2, <1>3 DEF MatchedIsCompleted, MatchingIsAttended, Following
    <2> QED
      BY <1>2, <1>3, <2>2, <2>3, MatchInv
  <1>4. CASE StartMatch
    <2>1. phase' = "matching" /\ ViewOK' /\ post' \in 0..MaxPost /\ post' > 0
      BY <1>1, <1>4, BoundAssumption DEF StartMatch, Show, ViewOK, MatchStage
    <2>2. MatchingOK'
      BY <1>1, <1>2, <2>1
         DEF MatchingOK, ClickMatch, ProfileAnswered, ProfileFails, CloseDialog, Confirmed,
             NotRecovered, matching
    <2>3. MatchedIsCompleted' /\ MatchingIsAttended'
      BY <2>1 DEF MatchedIsCompleted, MatchingIsAttended
    <2> QED
      BY <1>2, <2>1, <2>2, <2>3, MatchInv
  <1> QED
    BY <1>3, <1>4 DEF ClickMatch, ProfileAnswered, ProfileFails, CloseDialog, Confirmed,
                      NotRecovered, matching

\* The answer to POST /match-logs: the run it names is followed.
LEMMA PostInv ==
  ASSUME PageInv, PostFails \/ \E l \in LogId : PostAnswered(l)
  PROVE  PageInv'
  <1> USE DEF PageInv, view, server
  <1>1. ViewOK /\ MatchingOK /\ post \in Nat
    BY TypeParts, BoundAssumption DEF MatchingOK
  <1>2. phase # "away" /\ ~cancelled /\ UNCHANGED <<polling, cancelled, click, confirming>>
    BY DEF AwayIsQuiet, PostFails, PostAnswered, TypeOK
  <1>3. post' \in 0..MaxPost
    BY <1>1, BoundAssumption DEF PostFails, PostAnswered, MatchingOK
  <1>4. CASE PostFails
    <2>1. Show("analyzed")
      BY <1>2, <1>4 DEF PostFails, MatchFail
    <2>2. ViewOK' /\ MatchedIsCompleted' /\ MatchingIsAttended'
      BY <1>1, <2>1, ShowStep DEF ViewOK
    <2>3. MatchingOK'
      BY <1>1, <1>2, <1>3, <1>4 DEF PostFails, MatchingOK
    <2> QED
      BY <1>2, <2>1, <2>2, <2>3, MatchInv DEF Show
  <1>5. ASSUME NEW l \in LogId, PostAnswered(l) PROVE PageInv'
    <2>1. follow[l] < MaxFollow /\ follow' = [follow EXCEPT ![l] = @ + 1]
      BY <1>2, <1>5 DEF PostAnswered, Follow
    <2>2. follow' \in [LogId -> 0..MaxFollow] /\ follow'[l] > 0
      BY <1>1, <2>1, BoundAssumption DEF MatchingOK
    <2>3. ViewOK' /\ MatchingOK' /\ UNCHANGED view
      BY <1>1, <1>2, <1>3, <1>5, <2>2 DEF PostAnswered, ViewOK, MatchingOK
    <2>4. MatchingIsAttended'
      BY <2>2 DEF MatchingIsAttended, Following
    <2>5. MatchedIsCompleted'
      <3>1. ASSUME NEW k \in LogId, log[k] # "absent" PROVE log'[k] = log[k]
        BY <1>5, <3>1 DEF PostAnswered, Match!Create, Match!SetStatus
      <3> QED
        BY <1>1, <2>3, <3>1 DEF MatchedIsCompleted, ViewOK
    <2> QED
      BY <1>2, <2>3, <2>4, <2>5, MatchInv
  <1> QED
    BY <1>4, <1>5

\* A loop begins with a run found by the server, and ends with what to show.
LEMMA FollowInv ==
  ASSUME PageInv, NEW l \in LogId, Recovered(l) \/ LoopEnds(l) \/ LoopGivesUp(l)
  PROVE  PageInv'
  <1> USE DEF PageInv, view, server
  <1>1. ViewOK /\ MatchingOK /\ follow \in [LogId -> 0..MaxFollow]
    BY TypeParts DEF MatchingOK
  <1>2. phase # "away" /\ ~cancelled /\ UNCHANGED <<log, polling, cancelled, click, confirming, post>>
    BY <1>1 DEF AwayIsQuiet, Recovered, LoopEnds, LoopGivesUp, LoopOver, NoFollow
  <1>3. CASE Recovered(l)
    <2>1. follow[l] < MaxFollow /\ follow' = [follow EXCEPT ![l] = @ + 1]
      BY <1>2, <1>3 DEF Recovered, Follow
    <2>2. follow' \in [LogId -> 0..MaxFollow] /\ follow'[l] > 0
      BY <1>1, <2>1, BoundAssumption
    <2>3. phase' = "matching" /\ matchedLog' = NoLog /\ recover' = FALSE
      BY <1>3 DEF Recovered, Show
    <2>4. ViewOK' /\ MatchingOK' /\ MatchedIsCompleted' /\ MatchingIsAttended'
      BY <1>1, <1>2, <2>2, <2>3
         DEF ViewOK, MatchingOK, MatchStage, MatchedIsCompleted, MatchingIsAttended, Following
    <2> QED
      BY <1>2, <2>3, <2>4, MatchInv
  <1>4. CASE LoopEnds(l) \/ LoopGivesUp(l)
    <2>1. follow' = [follow EXCEPT ![l] = @ - 1] /\ follow[l] > 0
      BY <1>4 DEF LoopEnds, LoopGivesUp, LoopOver
    <2>2. MatchingOK'
      BY <1>1, <1>2, <2>1, BoundAssumption DEF MatchingOK
    <2>3. Show("analyzed") \/ (log[l] = "completed" /\ ShowMatched(l))
      <3>1. MatchFail => Show("analyzed")
        BY <1>2, Zenon DEF MatchFail
      <3> QED
        BY <1>4, <3>1 DEF LoopEnds, LoopGivesUp
    <2>4. CASE Show("analyzed")
      <3>1. ViewOK' /\ MatchedIsCompleted' /\ MatchingIsAttended'
        BY <1>1, <2>4, ShowStep DEF ViewOK
      <3> QED
        BY <1>2, <2>2, <2>4, <3>1, MatchInv DEF Show
    <2>5. CASE log[l] = "completed" /\ ShowMatched(l)
      <3>1. ViewOK' /\ MatchedIsCompleted' /\ MatchingIsAttended' /\ phase' # "away"
        BY <1>2, <2>5, NoLogAssumption
           DEF ShowMatched, ViewOK, MatchStage, MatchedIsCompleted, MatchingIsAttended
      <3> QED
        BY <1>2, <2>2, <3>1, MatchInv
    <2> QED
      BY <2>3, <2>4, <2>5
  <1> QED
    BY <1>3, <1>4

-----------------------------------------------------------------------------
\* No step of the page, of the server or of another tab breaks the invariant.
LEMMA PageStep == PageInv /\ [Next]_vars => PageInv'
  <1> SUFFICES ASSUME PageInv, [Next]_vars PROVE PageInv'
    OBVIOUS
  <1>1. CASE Next
    BY <1>1, OpenStep, AnalysisInv, ClickInv, PostInv, FollowInv, ServerInv DEF Next
  <1>2. CASE UNCHANGED vars
    BY <1>2 DEF vars, server, view, polling, matching, PageInv, TypeOK, AwayIsQuiet,
                StartIsQuiet, PollsAreBounded, MatchedIsCompleted, MatchingIsAttended,
                Following, NoChain, NoFollow
  <1> QED
    BY <1>1, <1>2

\* The page is typed, its polls are bounded, and it is quiet when it is left.
THEOREM InvariantCorrect == Spec => []PageInv
  BY PageInit, PageStep, PTL DEF Spec

\* "See the results" leads to a run that is completed, or that the user has
\* deleted since, however many loops and requests of earlier runs are alive.
THEOREM MatchedCorrect == Spec => []MatchedIsCompleted
  <1>1. PageInv => MatchedIsCompleted
    BY DEF PageInv
  <1> QED
    BY <1>1, InvariantCorrect, PTL

\* A page that shows a run in progress has a request or a loop that will end it.
THEOREM AttendedCorrect == Spec => []MatchingIsAttended
  <1>1. PageInv => MatchingIsAttended
    BY DEF PageInv
  <1> QED
    BY <1>1, InvariantCorrect, PTL
=============================================================================
