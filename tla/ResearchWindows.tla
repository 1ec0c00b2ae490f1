----------------------------- MODULE ResearchWindows -----------------------------
(***************************************************************************)
(* How each experiment cuts its history: the periods, the walk-forward     *)
(* windows of every command, the holdout, and the segments with their      *)
(* warm-up candles.  Time is in hours; a window is the hours it trains on  *)
(* and the hours it tests on.  An empty plan, and a segment that evaluates *)
(* nothing, stand for the error the code raises.                           *)
(***************************************************************************)
EXTENDS ResearchData

Window(train, test) == [train |-> train, test |-> test]

(***************************************************************************)
(* Periods.  The calendar of the temporal diagnostics is kept in quarters. *)
(***************************************************************************)
\* ResearchPeriods: development, validation, consumed test and, if there is one, the
\* future holdout; each <<first, last>>.
ResearchPeriods(development, validation, consumed, future) ==
    /\ development[1] <= development[2] /\ development[2] < validation[1]
    /\ validation[1] <= validation[2]   /\ validation[2] < consumed[1]
    /\ consumed[1] <= consumed[2]
    /\ future # <<>> => consumed[2] < future[1] /\ future[1] <= future[2]

OverlapsConsumed(consumed, first, last) == first <= consumed[2] /\ last >= consumed[1]

QuartersOf(year)                  == (4 * year)..(4 * year + 3)
CalendarYears(first, last)        == {QuartersOf(year) : year \in first..last}
CalendarQuarters(first, last)     == {{q} : q \in UNION CalendarYears(first, last)}

\* predefined_temporal_boundaries, in quarters since January 2022.
TemporalBoundaries ==
    {Window(0..7, 8..11), Window(0..9, 10..13), Window(0..11, 12..15), Window(0..7, 8..15)}

(***************************************************************************)
(* Walk-forward windows.                                                   *)
(***************************************************************************)
\* Where windows of some length start if the last one must end before past.
Starts(first, past, length, step) ==
    {s \in first..(past - length) : (s - first) % step = 0}

Span(start, length) == start..(start + length - 1)

\* The windows that roll over first..last with their own training before them.
RollingFolds(first, past, train, length, step) ==
    {Window(Span(s - train, train), Span(s, length)) : s \in Starts(first, past, length, step)}

\* rolling_periods: tests only.
RollingPeriods(first, last, length, step) ==
    {Window({}, Span(s, length)) : s \in Starts(first, last + 1, length, step)}

\* One design of walk_forward_design_periods.
DesignPeriods(mode, first, last, train, length, step) ==
    {Window(IF mode = "EXPANDING" THEN first..(s - 1) ELSE Span(s - train, train), Span(s, length)) :
        s \in Starts(first + train, last + 1, length, step)}

\* In the validation period the whole development period is the training.
PullbackWindows(period, development, validation, train, length, step) ==
    IF period = "DEVELOPMENT"
      THEN RollingFolds(development[1] + train, development[2] + 1, train, length, step)
      ELSE {Window(development[1]..development[2], Span(s, length)) :
               s \in Starts(validation[1], validation[2] + 1, length, step)}

TrendDevelopmentWindows(development, train, length) ==
    RollingFolds(development[1] + train, development[2] + 1, train, length, length)

\* Four fixed quarters that must begin and end with the validation period.
TrendValidationWindows(development, validation, quarters) ==
    IF Head(quarters)[1] = validation[1] /\ Last(quarters)[2] = validation[2]
      THEN {Window(development[1]..development[2], quarters[i][1]..quarters[i][2]) :
               i \in DOMAIN quarters}
      ELSE {}

\* Both periods roll; the training of the first validation folds is development.
SpotFolds(period, development, validation, consumed, train, length) ==
    IF period = "development"
      THEN RollingFolds(development[1] + train, validation[1], train, length, length)
      ELSE RollingFolds(validation[1], consumed[1], train, length, length)

\* The Spot experiment wants the whole of both periods and nothing of the consumed test.
SpotInputs(opens, development, validation, consumed) ==
    /\ Min(opens) <= development[1] /\ Max(opens) >= validation[2]
    /\ \A h \in opens : h < consumed[1]

\* A real walk-forward names the first hour of its tests.
RealWalkForward(period, firstTest, train, length, step) ==
    LET folds == RollingFolds(firstTest, period[2] + 1, train, length, step)
    IN IF \A w \in folds : Min(w.test) >= period[1] /\ Max(w.test) <= period[2] THEN folds ELSE {}

(***************************************************************************)
(* Segments: the candles an engine is given, and those it may trade on.    *)
(***************************************************************************)
Segment(candles, evaluated) == [candles |-> candles, evaluated |-> evaluated]
NoSegment == Segment({}, {})

Before(opens, start)    == {h \in opens : h < start}
LastOf(S, n)            == {h \in S : Cardinality({k \in S : k > h}) < n}
AfterFirst(S, n)        == {h \in S : Cardinality({k \in S : k < h}) >= n}

\* Mutant of ResearchSegment: missing warm-up is not made up for.
ResearchSegmentCold(opens, test, warmup) ==
    LET requested == opens \cap test
    IN IF requested = {} THEN NoSegment
       ELSE Segment(LastOf(Before(opens, Min(requested)), warmup) \cup requested, requested)

\* Missing warm-up is taken from the candles that were to be evaluated.
ResearchSegment(opens, test, warmup) ==
    LET requested == opens \cap test
        prior     == LastOf(Before(opens, Min(requested)), warmup)
        evaluated == AfterFirst(prior \cup requested, warmup)
    IN IF requested = {} \/ evaluated = {} THEN NoSegment
       ELSE Segment(prior \cup requested, evaluated)

\* The backtest of research and the pullback experiments evaluates from the requested
\* start, or after the warm-up if that is later.
SpotSegment(opens, test, warmup) ==
    LET requested == opens \cap test
        candles   == LastOf(Before(opens, Min(test)), warmup) \cup requested
    IN IF requested = {} \/ Cardinality(candles) <= warmup THEN NoSegment
       ELSE Segment(candles, AfterFirst(candles, warmup) \cap requested)

\* The Futures engine evaluates whatever follows the first warmup candles.
FuturesSegment(data, test, warmup) ==
    LET requested == data.candles \cap test
        candles   == LastOf(Before(data.candles, Min(test)), warmup) \cup requested
    IN IF requested = {} \/ Cardinality(candles) <= warmup THEN NoSegment
       ELSE [candles |-> candles, evaluated |-> AfterFirst(candles, warmup),
             marks |-> data.marks \cap candles]

\* The real validation keeps the mark before the first candle, and wants the whole
\* warm-up unless the segment starts with the data.
SliceDataset(data, test, warmup) ==
    LET prior   == LastOf(Before(data.candles, Min(test)), warmup)
        candles == prior \cup (data.candles \cap test)
    IN IF \/ Cardinality(prior) < warmup /\ Min(test) > Min(data.candles)
          \/ Cardinality(candles) <= warmup
         THEN NoSegment
         ELSE [candles |-> candles, evaluated |-> AfterFirst(candles, warmup),
               marks |-> {m \in data.marks : Min(candles) - 1 <= m /\ m <= Max(candles)}]

(***************************************************************************)
(* Splits.                                                                 *)
(***************************************************************************)
\* Percentages of the candles; an empty sequence is the error.
HoldoutSplit(opens, trainPercent, validationPercent, warmup) ==
    LET total      == Cardinality(opens)
        train      == (total * trainPercent) \div 100
        validation == (total * (trainPercent + validationPercent)) \div 100
        cut(from, to) == ResearchSegment(opens, from..(to - 1), warmup)
    IN IF \/ train < 1 \/ validation - train < 1 \/ total - validation < 1
          \/ warmup >= train
         THEN <<>>
         ELSE <<cut(Nth(opens, 0), Nth(opens, train)),
                cut(Nth(opens, train), Nth(opens, validation)),
                cut(Nth(opens, validation), Max(opens) + 1)>>

\* Ranges of hours <<start, past>> named by the caller.
ExplicitSplit(opens, ranges, warmup) ==
    IF \A i \in DOMAIN ranges : /\ ranges[i][1] < ranges[i][2]
                                /\ i > 1 => ranges[i - 1][2] <= ranges[i][1]
      THEN [i \in DOMAIN ranges |->
               ResearchSegment(opens, ranges[i][1]..(ranges[i][2] - 1), warmup)]
      ELSE <<>>

\* ResearchExperimentRunner.run_segment: the engine skips the warm-up of its own
\* configuration too; a segment that leaves nothing is a failed run, not an error.
RunSegment(segment, configured) ==
    LET own == Cardinality(segment.candles) - Cardinality(segment.evaluated)
    IN [segment EXCEPT !.evaluated = AfterFirst(segment.candles, Max({own, configured}))]

(***************************************************************************)
(* The plans of the commands, which cut every fold as they go.             *)
(***************************************************************************)
\* The plan of research walk-forward.  The close of the last candle is a millisecond
\* before the hour, so a window that ends with it does not fit any more.  A part without
\* candles, or with none left after its warm-up, is an error of the whole plan.
WalkForwardPlan(mode, opens, train, length, step, warmup) ==
    LET folds == DesignPeriods(mode, Min(opens), Max(opens) - 1, train, length, step)
    IN IF \/ Min({train, length, step}) < 1 \/ warmup >= Cardinality(opens)
          \/ \E w \in folds : \/ ResearchSegment(opens, w.train, warmup).evaluated = {}
                              \/ ResearchSegment(opens, w.test, warmup).evaluated = {}
         THEN {} ELSE folds

\* What validate_futures_dataset refuses of the data of a fold.
FoldRefused(candles, marks, events, fundingPolicy) ==
    \/ \E h \in candles : Alignment(candles, marks)[h] = Missing
    \/ fundingPolicy = "FAIL" /\ FundingGaps(candles, events) # 0

\* futures-research walk-forward compares with the open of the last candle, and passes
\* over windows that lack candles or warm-up; one that is refused is an error of all.
FuturesFolds(data, fundingPolicy, train, length, step, warmup) ==
    LET opens    == data.candles
        folds    == {w \in RollingFolds(Min(opens) + train, Max(opens), train, length, step) :
                        /\ w.test \cap opens # {}
                        /\ Cardinality(Before(opens, Min(w.test))) >= warmup}
        given(w) == LastOf(Before(opens, Min(w.test)), warmup) \cup (w.test \cap opens)
        paid(w)  == {e \in data.funding : Min(given(w)) <= e /\ e <= Max(given(w))}
    IN IF \E w \in folds : FoldRefused(given(w), data.marks \cap given(w), paid(w), fundingPolicy)
         THEN {} ELSE folds

(***************************************************************************)
(* Properties of a history S, and of a development period of d hours.      *)
(***************************************************************************)
\* The windows of every experiment for the development period <<1, d>> and for the
\* validation period up to v that follows it.
DevelopmentPlans(d, v, train, length, step) ==
    PullbackWindows("DEVELOPMENT", <<1, d>>, <<d + 1, v>>, train, length, step)
      \cup TrendDevelopmentWindows(<<1, d>>, train, length)
      \cup SpotFolds("development", <<1, d>>, <<d + 1, v>>, <<v + 1, Horizon + 1>>, train, length)
      \cup RealWalkForward(<<1, d>>, 1 + train, train, length, step)
      \cup UNION {DesignPeriods(mode, 1, d, train, length, step) : mode \in {"ROLLING", "EXPANDING"}}

QuarterPlans(d, v) ==
    UNION {TrendValidationWindows(<<1, d>>, <<d + 1, v>>, <<<<d + 1, cut>>, <<cut + 1, v>>>>) :
             cut \in (d + 1)..(v - 1)}

ValidationPlans(d, v, train, length, step) ==
    PullbackWindows("VALIDATION", <<1, d>>, <<d + 1, v>>, train, length, step)
      \cup QuarterPlans(d, v)
      \cup SpotFolds("validation", <<1, d>>, <<d + 1, v>>, <<v + 1, Horizon + 1>>, train, length)
      \cup RealWalkForward(<<d + 1, v>>, d + 1, train, length, step)

NoRoom(folds, past, every, length) ==
    \A w \in folds : w.test \subseteq 1..past /\
        \E last \in folds : Min(last.test) + every + length > past

\* No plan of any command tests on hours it trained on or on hours before them, none
\* tests outside its period (so none reaches the consumed test), and the experiments
\* leave no room for one more fold.
WindowsHold(d, v, train, length, step) ==
    LET consumed == <<v + 1, Horizon + 1>>
        dev == DevelopmentPlans(d, v, train, length, step)
        val == ValidationPlans(d, v, train, length, step)
    IN ResearchPeriods(<<1, d>>, <<d + 1, v>>, consumed, <<>>) =>
          /\ \A w \in dev \cup val : \A i \in w.train, j \in w.test : i < j
          /\ \A w \in dev : w.test \subseteq 1..d
          /\ \A w \in val : /\ w.test \subseteq (d + 1)..v
                            /\ ~OverlapsConsumed(consumed, Min(w.test), Max(w.test))
          /\ NoRoom(PullbackWindows("DEVELOPMENT", <<1, d>>, <<d + 1, v>>, train, length, step),
                    d + 1, step, length)
          /\ NoRoom(SpotFolds("validation", <<1, d>>, <<d + 1, v>>, consumed, train, length),
                    v + 1, length, length)

WindowsAreHonest(d) ==
    \A v \in Hours, train, length, step \in 1..2 : WindowsHold(d, v, train, length, step)

\* A Spot history that was accepted and has no gap evaluates every fold whole.
SpotFoldsAreWhole(S) ==
    \A d, v \in Hours, period \in {"development", "validation"} :
        LET development == <<2, d>>
            validation  == <<d + 1, v>>
            consumed    == <<v + 1, Horizon + 1>>
        IN /\ ResearchPeriods(development, validation, consumed, <<>>)
           /\ SpotInputs(S, development, validation, consumed)
           /\ Breaks(Chronological(S)) = {}
           => \A w \in SpotFolds(period, development, validation, consumed, 1, 2) :
                 ResearchSegment(S, w.test, 1).evaluated = w.test

\* The commands that plan from the candles themselves miss the fold that ends with the
\* last candle and no other.  The Spot command plans nothing at all unless it trains for
\* longer than the warm-up, which the first training spends; the Futures command nothing
\* without funding where that is an error.
OneFoldIsMissed(last, train, length, step, warmup) ==
    LET opens == 1..last
        all   == RollingFolds(1 + train, last + 1, train, length, step)
        kept  == {w \in all : Max(w.test) # last}
        data  == [candles |-> opens, marks |-> opens, funding |-> {}]
    IN /\ FuturesFolds(data, "FAIL", train, length, step, warmup) = {}
       /\ warmup <= train =>
             FuturesFolds(data, "WARN", train, length, step, warmup) = kept
       /\ WalkForwardPlan("ROLLING", opens, train, length, step, warmup)
             = IF warmup < train THEN kept ELSE {}

CommandsMissOneFold(last) ==
    \A train, length, step \in 1..2 : OneFoldIsMissed(last, train, length, step, 1)

\* The diagnostics divide the years as they say: quarters refine years, every boundary
\* validates on the quarters right after its development.
CalendarIsWhole ==
    /\ UNION CalendarQuarters(0, 3) = UNION CalendarYears(0, 3)
    /\ \A y, z \in CalendarYears(0, 3) : y # z => y \cap z = {}
    /\ \A b \in TemporalBoundaries : /\ Max(b.train) + 1 = Min(b.test)
                                     /\ b.train \cup b.test \subseteq UNION CalendarYears(0, 3)
    /\ \A length, step \in 1..3 : \A w \in RollingPeriods(0, 15, length, step) :
          w.test \subseteq UNION CalendarYears(0, 3)

\* Whatever a download left out of the history S, an engine trades only on candles of
\* its window that have the whole warm-up right before them in what it was given,
\* loses none it could trade on, and is given nothing that comes after the window.
SegmentsHold(S, from, length, warmup) ==
    LET test == Span(from, length)
        data(C) == [candles |-> C, marks |-> C]
        cuts(C) == [research |-> ResearchSegment(C, test, warmup),
                    spot     |-> SpotSegment(C, test, warmup),
                    futures  |-> FuturesSegment(data(C), test, warmup),
                    slice    |-> SliceDataset(data(C), test, warmup)]
        past == S \cap 1..Max(test)
        warm == {h \in S \cap test : Cardinality(Before(S, h)) >= warmup}
    IN \A kind \in DOMAIN cuts(S) :
          LET segment == cuts(S)[kind]
          IN /\ segment.evaluated \in {{}, warm}
             /\ past # {} => segment = cuts(past)[kind]
             /\ \A h \in segment.evaluated :
                   LastOf(Before(S, h), warmup) \subseteq segment.candles

SegmentsAreWarm(S) ==
    \A from \in Hours, length \in 1..3, warmup \in 1..2 : SegmentsHold(S, from, length, warmup)

\* Each candle of a segment is priced with the mark it had in the whole history, or
\* with none (the real validation never loses one).
MarksHold(S, marks, from, length, warmup) ==
    LET data  == [candles |-> S, marks |-> marks]
        whole == Alignment(S, marks)
        slice == SliceDataset(data, Span(from, length), warmup)
        fold  == FuturesSegment(data, Span(from, length), warmup)
    IN (\A h \in S : whole[h] # Missing) =>
          /\ slice # NoSegment => \A h \in slice.candles :
                Alignment(slice.candles, slice.marks)[h] = whole[h]
          /\ fold # NoSegment => \A h \in fold.candles :
                Alignment(fold.candles, fold.marks)[h] \in {whole[h], Missing}

SegmentsKeepMarks(S) == \A marks \in SUBSET Hours, from \in Hours : MarksHold(S, marks, from, 2, 1)

\* The parts of a split follow one another, and together a holdout evaluates all that
\* follows the first warm-up; a run skips at most the warm-up of its configuration.
HoldoutHolds(S, trainPercent, validationPercent, warmup) ==
    LET split == HoldoutSplit(S, trainPercent, validationPercent, warmup)
    IN split # <<>> =>
          /\ UNION {split[i].evaluated : i \in 1..3} = AfterFirst(S, warmup)
          /\ \A i, j \in 1..3 : i < j =>
                \A h \in split[i].evaluated, k \in split[j].evaluated : h < k
          /\ \A i \in 1..3 : RunSegment(split[i], warmup).evaluated = split[i].evaluated

NamedSplitHolds(S, ranges, warmup) ==
    LET named == ExplicitSplit(S, ranges, warmup)
    IN named # <<>> => \A i, j \in DOMAIN ranges : i < j =>
          \A h \in named[i].evaluated, k \in named[j].evaluated : h < k

SplitsAreChronological(S) ==
    \A warmup \in 1..2 :
        /\ \A percent \in {20, 40, 60} : HoldoutHolds(S, percent, 20, warmup)
        /\ \A cut \in S : NamedSplitHolds(S, <<<<1, cut>>, <<cut, Horizon + 1>>>>, warmup)
=============================================================================
