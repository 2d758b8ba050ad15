---------------------------- MODULE ProgressPage ----------------------------
(***************************************************************************)
(* AnalysisProgressPage of one business plan, in one tab, against a server *)
(* of which it knows what AnalysisLifecycle and MatchLifecycle promise.    *)
(*                                                                         *)
(* The page is a heap of unfinished promises: polls of the analysis, polls *)
(* of matching runs, the query that resumes a run, the clicks of the user. *)
(* Each goes on when its answer comes, whatever the page shows by then.    *)
(* An answer is what the server says when it is handled; an older one      *)
(* makes the page ask once more.  Promises of one kind differ in what they *)
(* wait for only, so they are counted.                                     *)
(***************************************************************************)
EXTENDS Naturals

CONSTANTS
    LogId,         \* runs of this plan
    NoLog,
    MaxChain,      \* bound: chains of analysis polls in the page
    MaxFollow,     \* bound: loops that poll one run
    MaxPost        \* bound: POST /match-logs whose answer the page awaits

ASSUME NoLogAssumption == NoLog \notin LogId

ASSUME BoundAssumption ==
    /\ MaxChain \in Nat \ {0} /\ MaxFollow \in Nat \ {0} /\ MaxPost \in Nat \ {0}

VARIABLES
    status, stale,  \* the analysis of the plan (AnalysisLifecycle)
    log,            \* the runs of the plan (MatchLifecycle)
    phase,          \* what the page shows, or "away" when it is not open
    run,            \* run() of the effect: the request it waits for
    chain,          \* polls of the analysis that wait for a timer, an answer
    timer,          \* the handle set last: none, of a timer that waits, fired
    late,           \* polling has lasted MAX_POLL_DURATION_MS
    recover,        \* getActiveMatchLog is in flight
    click,          \* the profile is asked for, or the dialog is open
    confirming,     \* confirmMatchingProfile is in flight
    post,           \* number of POST /match-logs in flight
    follow,         \* follow[l]: number of loops that poll run l
    matchedLog,     \* matchedLogId, while it is shown
    cancelled       \* matchCancelledRef

server == <<status, stale, log>>
view == <<phase, recover, matchedLog>>
polling == <<run, chain, timer, late>>
matching == <<click, confirming, post, follow>>
vars == <<server, view, polling, matching, cancelled>>

Analysis == INSTANCE AnalysisLifecycle WITH status <- status, stale <- stale
\* Results come with completion, and the page asks for them later.
Completed == {l \in LogId : log[l] = "completed"}
Match == INSTANCE MatchLifecycle WITH LogId <- LogId, log <- log, results <- Completed

-----------------------------------------------------------------------------
Analysing == {"starting", "analysing"}
MatchStage == {"analyzed", "matching", "matched"}

NoChain == [timer |-> 0, answer |-> 0]
NoFollow == [l \in LogId |-> 0]

Following == \E l \in LogId : follow[l] > 0

\* setPhase.  Coming to 'analyzed' asks for a run to resume; leaving it drops
\* that answer.
Show(p) ==
    /\ phase' = p /\ matchedLog' = NoLog
    /\ recover' = IF p # "analyzed" THEN FALSE ELSE phase # "analyzed" \/ recover

ShowMatched(l) == phase' = "matched" /\ matchedLog' = l /\ recover' = FALSE

Init ==
    /\ Analysis!Init /\ Match!Init
    /\ phase = "away" /\ recover = FALSE /\ matchedLog = NoLog
    /\ run = "none" /\ chain = NoChain /\ timer = "none" /\ late = FALSE
    /\ click = "none" /\ confirming = FALSE /\ post = 0 /\ follow = NoFollow
    /\ cancelled = FALSE

-----------------------------------------------------------------------------
(* Coming and going.                                                       *)

\* MUTANT: the flag that cleanup has raised is not lowered again.
EnterStillCancelled ==
    /\ phase = "away"
    /\ Show("starting")
    /\ run' = "get"
    /\ UNCHANGED <<server, chain, timer, late, matching, cancelled>>

\* The first effect resets matchCancelledRef, the second asks for the status.
Enter ==
    /\ phase = "away"
    /\ Show("starting")
    /\ run' = "get"
    /\ cancelled' = FALSE
    /\ UNCHANGED <<server, chain, timer, late, matching>>

\* Reload, another page, or the login page after a 401 that refresh does not
\* cure.  What is in flight goes on without a listener; a confirmation even
\* posts the run, as another tab may (ServerSteps).
Leave ==
    /\ phase # "away"
    /\ Show("away")
    /\ run' = "none" /\ chain' = NoChain /\ timer' = "none" /\ late' = FALSE
    /\ click' = "none" /\ confirming' = FALSE /\ post' = 0 /\ follow' = NoFollow
    /\ cancelled' = TRUE
    /\ UNCHANGED server

\* "Try again": a new effect cancels the chains of the old one and starts with
\* the POST.
Retry ==
    /\ phase = "failed"
    /\ Show("starting")
    /\ run' = "post" /\ chain' = NoChain /\ timer' = "none" /\ late' = FALSE
    /\ UNCHANGED <<server, matching, cancelled>>

-----------------------------------------------------------------------------
(* The analysis.                                                           *)

\* chain - from + to, for a poll that goes on from one wait to the other.
Moved(from, to) == [w \in {"timer", "answer"} |->
    (chain[w] + (IF w = to THEN 1 ELSE 0)) - (IF w = from THEN 1 ELSE 0)]

\* applyStatus, and what follows it: the next poll, unless it is over.
Apply(from) ==
    \/ /\ status = "completed"
       /\ Show("analyzed")
       /\ chain' = Moved(from, "end")
       /\ UNCHANGED timer
    \/ /\ status = "failed"
       /\ Show("failed")
       /\ chain' = Moved(from, "end")
       /\ UNCHANGED timer
    \/ /\ status \in {"null", "processing"}
       /\ Show("analysing")
       /\ chain' = Moved(from, "timer")
       /\ timer' = "waits"

\* The first look at the status: a plan that was never analysed is posted.
RunGet ==
    /\ run = "get"
    /\ IF status = "null"
       THEN run' = "post" /\ UNCHANGED <<view, chain, timer>>
       ELSE run' = "none" /\ Apply("start")
    /\ UNCHANGED <<server, late, matching, cancelled>>

\* startBusinessPlanAnalysis: a claim, if there is none; 'processing' either way.
RunPost ==
    /\ run = "post"
    /\ IF Analysis!Claimable THEN Analysis!Claim ELSE UNCHANGED <<status, stale>>
    /\ run' = "none"
    /\ Show("analysing")
    /\ chain' = Moved("start", "timer")
    /\ timer' = "waits"
    /\ UNCHANGED <<log, late, matching, cancelled>>

RunFails ==
    /\ run # "none"
    /\ run' = "none"
    /\ Show("failed")
    /\ UNCHANGED <<server, chain, timer, late, matching, cancelled>>

\* MUTANT: polling has no upper limit.
PollForever(from) ==
    /\ chain' = Moved(from, "answer")
    /\ UNCHANGED view

\* poll, up to its question.
Poll(from) ==
    IF late THEN Show("failed") /\ chain' = Moved(from, "end")
    ELSE chain' = Moved(from, "answer") /\ UNCHANGED view

\* The timer that was set last fires, or one that a newer one has replaced.
TimerFires ==
    /\ chain.timer > 0
    /\ \/ timer = "waits" /\ timer' = "fired"
       \/ (timer = "waits" => chain.timer > 1) /\ UNCHANGED timer
    /\ Poll("timer")
    /\ UNCHANGED <<server, run, late, matching, cancelled>>

\* onVisible: the timer set last is cleared, fired or not, and poll is called.
BecomeVisible ==
    /\ timer # "none" /\ chain.timer + chain.answer < MaxChain
    /\ timer' = "fired"
    /\ Poll(IF timer = "waits" THEN "timer" ELSE "start")
    /\ UNCHANGED <<server, run, late, matching, cancelled>>

PollAnswered ==
    /\ chain.answer > 0
    /\ Apply("answer")
    /\ UNCHANGED <<server, run, late, matching, cancelled>>

\* Three times in a row no answer.  (Before that, it is as if the answer had
\* taken longer.)
PollFails ==
    /\ chain.answer > 0
    /\ chain' = Moved("answer", "end")
    /\ Show("failed")
    /\ UNCHANGED <<server, run, timer, late, matching, cancelled>>

PollingIsLate ==
    /\ phase # "away" /\ ~late
    /\ late' = TRUE
    /\ UNCHANGED <<server, view, run, chain, timer, matching, cancelled>>

-----------------------------------------------------------------------------
(* Starting a run.                                                         *)

\* handleMatchClick: the button is there in the match stage only.
ClickMatch ==
    /\ phase \in {"analyzed", "matched"} /\ click = "none"
    /\ click' = "profile"
    /\ UNCHANGED <<server, view, polling, confirming, post, follow, cancelled>>

\* handleStartMatch, of a page that showed no run when it was rendered.
StartMatch ==
    /\ post < MaxPost
    /\ post' = post + 1
    /\ Show("matching")

\* The profile is there: confirmed before, or the dialog opens.
ProfileAnswered ==
    /\ click = "profile"
    /\ \/ click' = "none" /\ StartMatch
       \/ click' = "dialog" /\ UNCHANGED <<view, post>>
    /\ UNCHANGED <<server, polling, confirming, follow, cancelled>>

ProfileFails ==
    /\ click = "profile"
    /\ click' = "none"
    /\ UNCHANGED <<server, view, polling, confirming, post, follow, cancelled>>

\* "Yes" closes the dialog, too, and the button can be clicked again.  It
\* starts nothing in a page that shows a run.
CloseDialog ==
    /\ click = "dialog"
    /\ click' = "none"
    /\ \/ UNCHANGED confirming
       \/ phase # "matching" /\ ~confirming /\ confirming' = TRUE
    /\ UNCHANGED <<server, view, polling, post, follow, cancelled>>

\* The confirmation has ended, well or not.
Confirmed ==
    /\ confirming
    /\ confirming' = FALSE
    /\ StartMatch
    /\ UNCHANGED <<server, polling, click, follow, cancelled>>

\* pollMatchLog(l) begins: at once over in a page that is cancelled.
Follow(l) ==
    IF cancelled THEN UNCHANGED follow
    ELSE follow[l] < MaxFollow /\ follow' = [follow EXCEPT ![l] = @ + 1]

\* matchFail
MatchFail == IF cancelled THEN UNCHANGED view ELSE Show("analyzed")

\* createMatchLog: the server has found a run in progress, or created one.
PostAnswered(l) ==
    /\ post > 0
    /\ \/ l \in Match!Processing /\ UNCHANGED log
       \/ Match!Create(l)
    /\ post' = post - 1
    /\ Follow(l)
    /\ UNCHANGED <<status, stale, view, polling, click, confirming, cancelled>>

\* 409 of a plan that is analysed again, or no answer of whatever has been done.
PostFails ==
    /\ post > 0
    /\ post' = post - 1
    /\ MatchFail
    /\ UNCHANGED <<server, polling, click, confirming, follow, cancelled>>

-----------------------------------------------------------------------------
(* Following a run.                                                        *)

\* The effect of 'analyzed': a run in progress is followed.
Recovered(l) ==
    /\ recover /\ ~cancelled
    /\ l \in Match!Processing
    /\ Show("matching")
    /\ Follow(l)
    /\ UNCHANGED <<server, polling, click, confirming, post, cancelled>>

\* No run, or no answer: nothing is shown.
NotRecovered ==
    /\ recover
    /\ recover' = FALSE
    /\ UNCHANGED <<server, phase, matchedLog, polling, matching, cancelled>>

LoopOver(l) ==
    /\ follow[l] > 0
    /\ follow' = [follow EXCEPT ![l] = @ - 1]
    /\ UNCHANGED <<server, polling, click, confirming, post, cancelled>>

\* MUTANT: whatever has ended is shown as a result.
LoopSeesEnd(l) ==
    /\ LoopOver(l)
    /\ log[l] \in {"completed", "failed"} /\ ShowMatched(l)

\* getMatchLog: 'completed' is a result, 'failed' is none.
LoopEnds(l) ==
    /\ LoopOver(l)
    /\ \/ log[l] = "completed" /\ ShowMatched(l)
       \/ log[l] = "failed" /\ MatchFail

\* MUTANT: a loop gives up only when its run is gone.
LoopGivesUpLate(l) == log[l] = "deleted" /\ LoopOver(l) /\ MatchFail

\* MAX_POLL_DURATION_MS have passed, or three times in a row there was no
\* answer, as when the run is gone.
LoopGivesUp(l) == LoopOver(l) /\ MatchFail

-----------------------------------------------------------------------------
(* The server, with the user's other tabs, does what it may at any time.   *)

ServerSteps ==
    /\ \/ Analysis!Next /\ UNCHANGED log
       \/ Match!Next /\ UNCHANGED <<status, stale>>
    /\ UNCHANGED <<view, polling, matching, cancelled>>

Next ==
    \/ Enter \/ Leave \/ Retry
    \/ RunGet \/ RunPost \/ RunFails
    \/ TimerFires \/ BecomeVisible \/ PollAnswered \/ PollFails \/ PollingIsLate
    \/ ClickMatch \/ ProfileAnswered \/ ProfileFails \/ CloseDialog \/ Confirmed
    \/ \E l \in LogId : PostAnswered(l)
    \/ PostFails
    \/ \E l \in LogId : Recovered(l)
    \/ NotRecovered
    \/ \E l \in LogId : LoopEnds(l) \/ LoopGivesUp(l)
    \/ ServerSteps

Spec == Init /\ [][Next]_vars

AnalysisStep == RunGet \/ RunPost \/ RunFails \/ TimerFires \/ PollAnswered \/ PollFails
MatchingStep == PostFails \/ \E l \in LogId : PostAnswered(l) \/ LoopEnds(l) \/ LoopGivesUp(l)

\* Some promise is kept, in time: requests are answered or fail, timers fire,
\* the clock moves.  Nothing is expected of the user, nor that the server ever
\* ends what it runs.
FairSpec == Spec /\ WF_vars(AnalysisStep) /\ WF_vars(PollingIsLate) /\ WF_vars(MatchingStep)

-----------------------------------------------------------------------------
TypeOK ==
    /\ phase \in Analysing \cup MatchStage \cup {"failed", "away"}
    /\ recover \in BOOLEAN /\ matchedLog \in LogId \cup {NoLog}
    /\ run \in {"none", "get", "post"}
    /\ chain \in [timer : 0..MaxChain, answer : 0..MaxChain]
    /\ timer \in {"none", "waits", "fired"} /\ late \in BOOLEAN
    /\ click \in {"none", "profile", "dialog"} /\ confirming \in BOOLEAN
    /\ post \in 0..MaxPost /\ follow \in [LogId -> 0..MaxFollow]
    /\ cancelled \in BOOLEAN

\* "See the results" leads to a run that is completed, also with loops that
\* still poll earlier runs, unless the user has deleted it since.
MatchedIsCompleted ==
    phase = "matched" => matchedLog # NoLog /\ log[matchedLog] \in {"completed", "deleted"}

\* A page that shows a run in progress has a request or a loop that will end
\* it: it does not stay so for good (the comment on matchCancelledRef).
MatchingIsAttended == phase = "matching" => post > 0 \/ Following

\* Polling ends, whatever has become of the analysis.
AnalysisPollingEnds == phase \in Analysing ~> phase \notin Analysing

\* So does waiting for a run.
MatchingEnds == phase = "matching" ~> phase # "matching"

\* "After the analysis has completed (waiting for a match, matching, matched)
\* the button and the list are shown on": the match stage is not left for the
\* screen of a failed analysis.
MatchStageIsKept == [][(phase \in MatchStage) => (phase' \in MatchStage \cup {"away"})]_vars
=============================================================================
