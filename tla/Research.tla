-------------------------------- MODULE Research --------------------------------
(***************************************************************************)
(* The experiments as a whole: the protocol over the candle table, what    *)
(* its steps make of the data, and what they conclude.  A command may be   *)
(* given any history a download can have left, and may come to any         *)
(* evidence; since the operators that cut the one and classify the other   *)
(* read nothing else, each begins at the start and ends with its result.   *)
(***************************************************************************)
EXTENDS ResearchProtocol, ResearchTemporal, IntradayAlpha, EdgeLabels, ExecutionEconomics

CONSTANTS
    Evidence,   \* the evidence on a variant an experiment may come to
    Rivals,     \* the evidence on the variants of one market that it selects from
    Studies,    \* what the backtests of a temporal study may come to
    Charts,     \* closes and ranges of candles, <<closes, ranges>>
    Outcomes,   \* sequences of results of trades
    Decisions,  \* sequences of traces of a pullback run
    Streams,    \* trades, books and gaps of a recorded session, as received
    Positions,  \* what an open position may be shown until it is left
    Sessions,   \* book updates of a recorded session
    Samples,    \* labelled anchors
    Campaigns,  \* label and sessions of a campaign, and the hashes consumed before
    Answers,    \* evidence on an edge within reach
    Proposals   \* positions that anchors propose, in order of time

VARIABLE task   \* what a command works on, or None

AtStart == task = None /\ commands = 0 /\ exp = None /\ result = "none" /\ now = 1
About(kind) == task = [kind |-> kind]
Posed(kind) == task # None /\ task.kind = kind /\ "of" \in DOMAIN task

Undertake ==
    /\ AtStart
    /\ \E kind \in {"data", "selection", "verdict", "study", "chart", "outcome", "decisions",
                   "stream", "position", "session", "sample", "campaign", "answer", "proposals"} :
          task' = [kind |-> kind]
    /\ UNCHANGED vars

Prepare ==
    /\ About("data")
    /\ \E S \in (SUBSET Hours) \ {{}} : task' = [kind |-> "data", of |-> S]
    /\ UNCHANGED vars

Choose ==
    /\ About("selection")
    /\ \E E \in Rivals : task' = [kind |-> "selection", of |-> E]
    /\ UNCHANGED vars

Assess ==
    /\ About("verdict")
    /\ \E e \in Evidence : task' = [kind |-> "verdict", of |-> e]
    /\ UNCHANGED vars

Diagnose ==
    /\ About("study")
    /\ \E study \in Studies : task' = [kind |-> "study", of |-> study]
    /\ UNCHANGED vars

Describe ==
    /\ About("chart")
    /\ \E chart \in Charts : task' = [kind |-> "chart", of |-> chart]
    /\ UNCHANGED vars

Measure ==
    /\ About("outcome")
    /\ \E pnls \in Outcomes : task' = [kind |-> "outcome", of |-> pnls]
    /\ UNCHANGED vars

Trace ==
    /\ About("decisions")
    /\ \E traces \in Decisions : task' = [kind |-> "decisions", of |-> traces]
    /\ UNCHANGED vars

Replay ==
    /\ About("stream")
    /\ \E stream \in Streams : task' = [kind |-> "stream", of |-> stream]
    /\ UNCHANGED vars

Follow ==
    /\ About("position")
    /\ \E shown \in Positions : task' = [kind |-> "position", of |-> shown]
    /\ UNCHANGED vars

Label ==
    /\ About("session")
    /\ \E events \in Sessions : task' = [kind |-> "session", of |-> events]
    /\ UNCHANGED vars

Tabulate ==
    /\ About("sample")
    /\ \E anchors \in Samples : task' = [kind |-> "sample", of |-> anchors]
    /\ UNCHANGED vars

Qualify ==
    /\ About("campaign")
    /\ \E campaign \in Campaigns : task' = [kind |-> "campaign", of |-> campaign]
    /\ UNCHANGED vars

Weigh ==
    /\ About("answer")
    /\ \E evidence \in Answers : task' = [kind |-> "answer", of |-> evidence]
    /\ UNCHANGED vars

Separate ==
    /\ About("proposals")
    /\ \E proposals \in Proposals : task' = [kind |-> "proposals", of |-> proposals]
    /\ UNCHANGED vars

StudyInit == Init /\ task = None
StudyNext ==
    \/ Undertake \/ Prepare \/ Choose \/ Assess \/ Diagnose \/ Describe \/ Measure \/ Trace
    \/ Replay \/ Follow \/ Label \/ Tabulate \/ Qualify \/ Weigh \/ Separate
    \/ (task = None /\ Next /\ UNCHANGED task)
StudySpec ==
    /\ StudyInit /\ [][StudyNext]_<<vars, task>>
    /\ WF_vars(task = None /\ Turn /\ UNCHANGED <<researchVars, task>>)

\* What the experiments run on is a true cut of what the database holds, whatever hours
\* are missing: what was let through, the windows, the segments with their warm-up and
\* their marks, and the splits.
DataIsHonest ==
    Posed("data") =>
        LET S == task.of
        IN /\ ReadyIsValid(S)
           /\ SegmentsAreWarm(S) /\ SegmentsKeepMarks(S)
           /\ SplitsAreChronological(S) /\ SpotFoldsAreWhole(S)
           /\ WindowsAreHonest(Max(S)) /\ CommandsMissOneFold(Max(S))
           /\ CalendarIsWhole

\* The numbers a report rests on mean what their names say: a daily candle is what its
\* hours make of it, shares are shares, a funnel loses no trace, and a candle's context is
\* no look into the future.
NumbersMeanWhatTheySay ==
    /\ Posed("data")    => DailyLooksBack(task.of) /\ NoGapNoLostDay(task.of)
    /\ Posed("chart")     => ContextsLookBack(task.of[1], task.of[2])
    /\ Posed("outcome")   => SharesAreShares(task.of) /\ ElasticVerdictsMirror(task.of)
    /\ Posed("decisions") => FunnelKeepsCount(task.of, RuleOrder)

\* What a session says of the market is told without its future and never for both sides, and
\* what a position is left with follows from what it was shown.
IntradayIsSound ==
    /\ Posed("stream")   => /\ FeaturesLookBack(task.of)
                            /\ \A futures \in BOOLEAN :
                                  SignalsPersist(task.of, <<1, 2>>, futures) /\ FrequencyAddsUp(task.of, futures)
    /\ Posed("position") => /\ ExitsForAReason(task.of) /\ ExitsAreTimely(task.of)
                            /\ ElasticLeavesFirst(task.of) /\ OneExitOrder(task.of)
    /\ Posed("session")  => LabelsAreHonest(task.of) /\ ElasticRowsHold(task.of)
    /\ Posed("sample")   => \A ready \in BOOLEAN : TablesAddUp(task.of, ready)

\* What a campaign suffices for, and the answer it may give.
EconomicsAreSound ==
    /\ Posed("campaign")  => CampaignIsNew(task.of[1], task.of[2], task.of[3])
    /\ Posed("answer")    => AnswerIsEarned(task.of)
    /\ Posed("proposals") => EpisodesStandApart(task.of)

\* What the experiments conclude follows from both periods and from nothing else: fair
\* selections blind to validation, approvals only of what held up twice, a temporal
\* classification that means what its rationale says, from numbers that do; and, of recorded
\* sessions, exits, labels and answers that rest on what could be known.
VerdictsAreSound ==
    /\ Posed("selection") =>
           \A E \in {{Summarized(e) : e \in task.of}} : SelectionsAreFair(E, SelectionOf(E))
    /\ Posed("verdict") =>
           \A e \in {Summarized(task.of)} : ApprovalsAreEarned(e, Approvals(e))
    /\ Posed("study") =>
           TemporalRowsAddUp(task.of) /\ TemporalVerdictHolds(task.of)
    /\ NumbersMeanWhatTheySay /\ IntradayIsSound /\ EconomicsAreSound
=============================================================================
