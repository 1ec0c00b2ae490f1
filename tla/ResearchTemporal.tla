----------------------------- MODULE ResearchTemporal -----------------------------
(***************************************************************************)
(* The temporal diagnostics of the Futures variants: one backtest over     *)
(* 2022-2025 under each cost scenario, broken down by the quarter a trade  *)
(* ends in and by the context it began in, and a classification of the     *)
(* whole.  A study is                                                      *)
(*   runs      the trades of each cost scenario                            *)
(*   unfunded  the trades of BASE without funding                          *)
(*   contexts  the context of each quarter that has one                    *)
(*   draw      where the bootstrap puts its interval                       *)
(* Quarters are 0..15; windows of 90, 180, 365 and 730 days are 1, 2, 4    *)
(* and 8 quarters and every step is one quarter.                           *)
(***************************************************************************)
EXTENDS ResearchWindows, ResearchVerdicts

Quarters == UNION CalendarYears(0, 3)
LastYear == QuartersOf(3)
Net(t)   == t.gross - t.fees + t.funding
Pnls(trades) == [i \in DOMAIN trades |-> Net(trades[i])]
Sign(x)  == IF x > 0 THEN 1 ELSE IF x < 0 THEN -1 ELSE 0

(***************************************************************************)
(* Contexts of candles.  A candle has a close and a range; the volatility  *)
(* is the sum of the last period ranges, known from the period-th on.      *)
(***************************************************************************)
Unknown == "UNKNOWN"    \* the bucket of a value that is not known yet, <<>>; a known one is <<v>>

\* Four times the k-th quartile, interpolated between its neighbours.
Quartile(values, k) ==
    LET s == Reverse(Ranked(values))
        at == (Len(s) - 1) * k
        lower == s[at \div 4 + 1]
        upper == s[Min({at \div 4 + 2, Len(s)})]
    IN 4 * lower + (at % 4) * (upper - lower)

VolatilityBucket(value, quartiles) ==
    IF value = <<>> THEN Unknown
    ELSE LET v == 4 * value[1]
         IN CASE v <= quartiles[1] -> "LOW"
              [] v > quartiles[1] /\ v <= quartiles[2] -> "MEDIUM"
              [] v > quartiles[2] /\ v <= quartiles[3] -> "HIGH"
              [] OTHER -> "EXTREME"

LookbackReturn(closes, i, lookback) ==
    IF i <= lookback THEN <<>> ELSE <<Sign(closes[i] - closes[i - lookback])>>

DirectionalPersistence(closes, i, lookback) ==
    IF i <= lookback THEN <<>>
    ELSE <<Add([k \in 1..lookback |-> Sign(closes[i - lookback + k] - closes[i - lookback + k - 1])])>>

ContextBucket(metric, value, lookback) ==
    CASE value = <<>> -> Unknown
      [] value # <<>> /\ metric = "return" ->
            CASE value[1] < 0 -> "NEGATIVE" [] value[1] > 0 -> "POSITIVE" [] OTHER -> "FLAT"
      [] value # <<>> /\ metric = "persistence" ->
            CASE 4 * value[1] < -lookback -> "DOWN" [] 4 * value[1] > lookback -> "UP" [] OTHER -> "MIXED"

\* The quartiles come from development alone, and too much volatility hides the regime that
\* the classifier sees in the candles up to each one (`regimes`).
ComputeTemporalContexts(closes, ranges, period, developmentEnd, lookback, maximum, regimes) ==
    LET atr == [i \in DOMAIN ranges |->
                  IF i < period THEN <<>> ELSE <<Add(SubSeq(ranges, i - period + 1, i))>>]
        development == [k \in 1..(developmentEnd - period + 1) |-> atr[period + k - 1][1]]
        quartiles   == [k \in 1..3 |-> Quartile(development, k)]
    IN [i \in DOMAIN closes |->
          [regime |-> IF atr[i] # <<>> /\ atr[i][1] > maximum THEN "HIGH_VOLATILITY"
                      ELSE regimes[i],
           bucket |-> VolatilityBucket(atr[i], quartiles),
           change |-> ContextBucket("return", LookbackReturn(closes, i, lookback), lookback),
           drift  |-> ContextBucket("persistence", DirectionalPersistence(closes, i, lookback), lookback)]]

(***************************************************************************)
(* Periods: a trade belongs to the period it ends in.                      *)
(***************************************************************************)
TradesInPeriod(trades, Q) == SelectSeq(trades, LAMBDA t : t.exit \in Q)

FewTrades(trades) ==
    LET pnls == Pnls(trades) IN Add(pnls) > 0 /\ Add(pnls) <= Concentration(pnls, 3)[1]

AggregatePeriod(trades, Q) ==
    LET selected == TradesInPeriod(trades, Q)
    IN [net    |-> Add(Pnls(selected)),
        gross  |-> Add([i \in DOMAIN selected |-> selected[i].gross]),
        costs  |-> Add([i \in DOMAIN selected |-> selected[i].fees]),
        trades |-> Len(selected)]

\* What trades add up to, as every breakdown reports it.
Contribution(trades) == [net |-> Add(Pnls(trades)), trades |-> Len(trades)]

(***************************************************************************)
(* Breakdowns.  One whose quarter has no context is in none of them; the   *)
(* context of a trade is that of its entry, the period that of its exit.   *)
(***************************************************************************)
ContextForTrade(contexts, trades, Q, field, value) ==
    SelectSeq(TradesInPeriod(trades, Q),
              LAMBDA t : t.entry \in DOMAIN contexts /\ contexts[t.entry][field] = value)

RegimesOf(contexts) == {contexts[q].regime : q \in DOMAIN contexts}
BucketsOf(contexts) == {contexts[q].bucket : q \in DOMAIN contexts}

RegimeRow(contexts, trades, Q, regime) ==
    Contribution(ContextForTrade(contexts, trades, Q, "regime", regime))
VolatilityRow(contexts, trades, Q, bucket) ==
    Contribution(ContextForTrade(contexts, trades, Q, "bucket", bucket))
MarketContextRow(contexts, trades, metric, bucket) ==
    Contribution(ContextForTrade(contexts, trades, Quarters, metric, bucket))

\* The regimes a trade went through, repetitions left out.
TransitionPath(contexts, t) ==
    FoldLeft(LAMBDA path, q : IF path # <<>> /\ Last(path) = contexts[q].regime THEN path
                              ELSE Append(path, contexts[q].regime),
             <<>>, SelectSeq([k \in 1..(t.exit - t.entry + 1) |-> t.entry + k - 1],
                             LAMBDA q : q \in DOMAIN contexts))

TransitionRows(contexts, trades) ==
    LET known == SelectSeq(trades, LAMBDA t : {t.entry, t.exit} \subseteq DOMAIN contexts)
        paths == {TransitionPath(contexts, known[i]) : i \in DOMAIN known}
    IN [p \in paths |-> Contribution(SelectSeq(known, LAMBDA t : TransitionPath(contexts, t) = p))]

SideRow(trades, Q, long) ==
    Contribution(SelectSeq(TradesInPeriod(trades, Q), LAMBDA t : t.long = long))

FundingImpactRow(study, Q, threshold) ==
    LET with == AggregatePeriod(study.runs.BASE_COST, Q).net
        difference == with - AggregatePeriod(study.unfunded, Q).net
        Abs(x) == IF x < 0 THEN -x ELSE x
    IN [difference |-> difference,
        dominated  |-> with # 0 /\ AtLeast(Abs(difference), Abs(with), threshold)]

CostImpactRow(study, Q) ==
    LET row == [s \in DOMAIN study.runs |-> AggregatePeriod(study.runs[s], Q)]
        Abs(x) == IF x < 0 THEN -x ELSE x
    IN {w \in {"LOW_COST_ONLY_EDGE", "STRESS_COLLAPSE", "COST_DOMINATED_PERIOD"} :
          CASE w = "LOW_COST_ONLY_EDGE"    -> row.LOW_COST.net > 0 /\ row.BASE_COST.net <= 0
            [] w = "STRESS_COLLAPSE"       -> row.BASE_COST.net > 0 /\ row.STRESS_COST.net <= 0
            [] w = "COST_DOMINATED_PERIOD" -> /\ row.BASE_COST.costs >= Abs(row.BASE_COST.gross)
                                              /\ row.BASE_COST.costs > 0}

\* Whether a year or a quarter, as a whole or on one side, owes its gain to three trades.
TemporallyConcentrated(trades) ==
    \E Q \in CalendarYears(0, 3) \cup CalendarQuarters(0, 3) :
        \E sides \in {{TRUE, FALSE}, {TRUE}, {FALSE}} :
            FewTrades(SelectSeq(TradesInPeriod(trades, Q), LAMBDA t : t.long \in sides))

(***************************************************************************)
(* Stability over boundaries, years and windows.                           *)
(***************************************************************************)
BoundaryLabel(trades, boundary) ==
    LET dev == AggregatePeriod(trades, boundary.train).net
        val == AggregatePeriod(trades, boundary.test).net
    IN CASE dev >= 0 /\ val >= 0 -> "BOTH_POSITIVE"
         [] dev < 0 /\ val < 0   -> "BOTH_NEGATIVE"
         [] OTHER                -> "SIGN_CHANGE"

BoundarySensitive(trades) ==
    LET signs == {<<Sign(AggregatePeriod(trades, b.train).net), Sign(AggregatePeriod(trades, b.test).net)>> :
                     b \in TemporalBoundaries}
    IN Cardinality({BoundaryLabel(trades, b) : b \in TemporalBoundaries}) > 1 \/ Cardinality(signs) > 1

LeaveOneYearOut(trades, year) ==
    LET total     == Add(Pnls(trades))
        remaining == SelectSeq(trades, LAMBDA t : t.exit \notin QuartersOf(year))
    IN [remaining |-> Contribution(remaining),
        heldOut   |-> Contribution(TradesInPeriod(trades, QuartersOf(year))),
        changes   |-> Sign(total) # Sign(Add(Pnls(remaining)))]

RollingDefinitions == UNION {RollingPeriods(0, 15, n, 1) : n \in {1, 2, 4}}
WalkForwardDesigns ==
    {DesignPeriods("ROLLING", 0, 15, 4, 1, 1), DesignPeriods("EXPANDING", 0, 15, 4, 1, 1),
     DesignPeriods("ROLLING", 0, 15, 8, 1, 1), DesignPeriods("ROLLING", 0, 15, 4, 2, 1)}

\* A design is consolidated in the median of its folds.
WalkForwardMedian(trades, design) ==
    TwiceMedian(FoldSet(LAMBDA w, nets : Append(nets, AggregatePeriod(trades, w.test).net), <<>>, design))

StabilityDimension(positive, count) ==
    CASE count = 0 -> "INCONCLUSIVE"
      [] count > 0 /\ AtLeast(positive, count, 60) -> "STABLE"
      [] count > 0 /\ ~AtLeast(positive, count, 60) /\ AtLeast(positive, count, 40) -> "MIXED"
      [] OTHER -> "UNSTABLE"

\* How many periods gained.
Positive(trades, periods) == Cardinality({Q \in periods : AggregatePeriod(trades, Q).net > 0})

TemporalBootstrap(study) == BootstrapOf(Pnls(study.runs.BASE_COST), study.draw, 10)

\* The dimension called side_stability reads the years left out, as in the code.
Dimensions(study) ==
    LET trades   == study.runs.BASE_COST
        windows  == {w.test : w \in RollingDefinitions}
        designs  == WalkForwardDesigns
        years    == CalendarYears(0, 3)
        quarters == CalendarQuarters(0, 3)
        Bad(b)   == IF b THEN "UNSTABLE" ELSE "STABLE"
        Traded(kinds, Row(_)) == {k \in kinds : Row(k).trades > 0}
        Gained(kinds, Row(_)) == {k \in kinds : Row(k).trades > 0 /\ Row(k).net > 0}
        Regime(r) == RegimeRow(study.contexts, trades, Quarters, r)
        Bucket(b) == VolatilityRow(study.contexts, trades, Quarters, b)
        regimes == RegimesOf(study.contexts)
        buckets == BucketsOf(study.contexts)
        status  == TemporalBootstrap(study)
    IN   [yearly     |-> StabilityDimension(Positive(trades, years), 4),
          quarterly  |-> StabilityDimension(Positive(trades, quarters), 16),
          rolling    |-> StabilityDimension(Positive(trades, windows), Cardinality(windows)),
          boundary   |-> Bad(BoundarySensitive(trades)),
          designs    |-> StabilityDimension(
                            Cardinality({d \in designs : WalkForwardMedian(trades, d) > 0}), 4),
          side       |-> IF \E y \in 0..3 : LeaveOneYearOut(trades, y).changes THEN "UNSTABLE" ELSE "MIXED",
          regime     |-> StabilityDimension(Cardinality(Gained(regimes, Regime)), Cardinality(Traded(regimes, Regime))),
          volatility |-> StabilityDimension(Cardinality(Gained(buckets, Bucket)), Cardinality(Traded(buckets, Bucket))),
          cost       |-> Bad(\E Q \in years \cup windows : CostImpactRow(study, Q) # {}),
          funding    |-> Bad(\E Q \in years \cup quarters : FundingImpactRow(study, Q, 50).dominated),
          few        |-> Bad(TemporallyConcentrated(trades)),
          uncertainty |-> CASE status = "POSITIVE_UNCERTAIN" -> "STABLE"
                            [] status = "NEGATIVE_UNCERTAIN" -> "UNSTABLE"
                            [] status = "INCLUDES_ZERO" -> "MIXED"
                            [] OTHER -> "INCONCLUSIVE",
          sample     |-> CASE Len(trades) >= 100 -> "STABLE"
                           [] Len(trades) < 100 /\ Len(trades) >= 30 -> "MIXED"
                           [] OTHER -> "INCONCLUSIVE"]

ScorecardOf(dimensions) ==
    LET Found(s) == Cardinality({d \in DOMAIN dimensions : dimensions[d] = s})
    IN CASE dimensions.sample = "INCONCLUSIVE" -> "INCONCLUSIVE"
         [] dimensions.sample # "INCONCLUSIVE" /\ Found("UNSTABLE") >= 4 -> "UNSTABLE"
         [] dimensions.sample # "INCONCLUSIVE" /\ Found("UNSTABLE") < 4 /\ Found("STABLE") >= 9 -> "STABLE"
         [] OTHER -> "MIXED"

Scorecard(study) == ScorecardOf(Dimensions(study))

(***************************************************************************)
(* Classification.                                                         *)
(***************************************************************************)
Prior(trades) == AggregatePeriod(trades, Quarters \ LastYear).net

RepeatedRegime(study) ==
    LET Row(regime, y) == RegimeRow(study.contexts, study.runs.BASE_COST, QuartersOf(y), regime)
    IN \E regime \in RegimesOf(study.contexts) :
          Cardinality({y \in 0..3 : Row(regime, y).trades > 0 /\ Row(regime, y).net > 0}) >= 2

ConfigurationClassification(study) ==
    LET trades  == study.runs.BASE_COST
        windows == {w.test : w \in RollingDefinitions}
        years   == CalendarYears(0, 3)
        counted == Add([y \in 1..4 |-> AggregatePeriod(trades, QuartersOf(y - 1)).trades])
        status  == TemporalBootstrap(study)
        last    == AggregatePeriod(trades, LastYear).net
    IN IF counted < 30 THEN "INCONCLUSIVE"
       ELSE IF /\ Positive(trades, years) >= 3
               /\ AtLeast(Positive(trades, windows), Cardinality(windows), 60)
               /\ ~BoundarySensitive(trades) /\ ~TemporallyConcentrated(trades)
               /\ status # "NEGATIVE_UNCERTAIN" /\ Prior(trades) > 0
            THEN "ROBUSTNESS_SIGNAL"
       ELSE IF RepeatedRegime(study) /\ Prior(trades) > 0 /\ Scorecard(study) # "UNSTABLE"
            THEN "REGIME_SPECIFIC_SIGNAL"
       ELSE IF last > 0 /\ Prior(trades) <= 0 THEN "NON_STATIONARY"
       ELSE IF Positive(trades, years) <= 1 /\ status \in {"NEGATIVE_UNCERTAIN", "INCLUDES_ZERO"}
            THEN "NO_EDGE"
       ELSE "NON_STATIONARY"

\* The pattern _explain_2025 reports for the last year.
HistoricalPattern(trades) ==
    CASE \E y \in 0..2 : AggregatePeriod(trades, QuartersOf(y)).net > 0 -> "REPEATED_PATTERN"
      [] \A y \in 0..2 : AggregatePeriod(trades, QuartersOf(y)).net <= 0 ->
            IF AggregatePeriod(trades, LastYear).net > 0 THEN "NOT_OBSERVED_PREVIOUSLY"
            ELSE "INSUFFICIENT_EVIDENCE"

(***************************************************************************)
(* Properties of a study.                                                  *)
(***************************************************************************)
\* Every breakdown tells of the same trades: years, quarters, sides, the years left out and
\* a boundary over the whole count each one once; regimes, volatility, contexts and
\* transitions count once each one whose context is known.
TemporalRowsAddUp(study) ==
    LET trades == study.runs.BASE_COST
        whole  == Contribution(trades)
        known  == Contribution(SelectSeq(trades, LAMBDA t : t.entry \in DOMAIN study.contexts))
        passed == Contribution(SelectSeq(trades,
                     LAMBDA t : {t.entry, t.exit} \subseteq DOMAIN study.contexts))
        Total(S, Row(_)) ==
            [net    |-> MapThenSumSet(LAMBDA x : Row(x).net, S),
             trades |-> MapThenSumSet(LAMBDA x : Row(x).trades, S)]
        Period(Q)  == Contribution(TradesInPeriod(trades, Q))
        Side(p)    == SideRow(trades, p[1], p[2])
        Regime(p)  == RegimeRow(study.contexts, trades, p[1], p[2])
        Bucket(b)  == VolatilityRow(study.contexts, trades, Quarters, b)
        Path(p)    == TransitionRows(study.contexts, trades)[p]
        years      == CalendarYears(0, 3)
    IN /\ Total(years, Period) = whole /\ Total(CalendarQuarters(0, 3), Period) = whole
       /\ Total(years \X BOOLEAN, Side) = whole
       /\ \A y \in 0..3 : LET row == LeaveOneYearOut(trades, y)
                          IN /\ row.remaining.net + row.heldOut.net = whole.net
                             /\ row.remaining.trades + row.heldOut.trades = whole.trades
       /\ \E b \in TemporalBoundaries : Total({b.train, b.test}, Period) = whole
       /\ \A d \in WalkForwardDesigns : (\A v, w \in d : v # w => v.test \cap w.test = {}) =>
             Total({w.test : w \in d}, Period)
                = Period(UNION {w.test : w \in d})
       /\ Total(years \X RegimesOf(study.contexts), Regime) = known
       /\ Total(BucketsOf(study.contexts), Bucket) = known
       /\ Total(DOMAIN TransitionRows(study.contexts, trades), Path) = passed

\* The classification means what its rationale says: a robustness signal gained before
\* 2024, in 2024 and in 2025, and no gain of a quarter or a side is owed to three trades; what
\* was not seen before 2025 is never called robust or specific to a regime; a variant
\* whose scorecard is inconclusive is inconclusive, and the other way round.
ClassMeansIt(class, study) ==
    LET trades == study.runs.BASE_COST
        Gain(Q) == AggregatePeriod(trades, Q).net
    IN /\ class = "ROBUSTNESS_SIGNAL" =>
             /\ Gain(QuartersOf(0) \cup QuartersOf(1)) > 0 /\ Gain(QuartersOf(2)) > 0 /\ Gain(LastYear) > 0
             /\ \A Q \in CalendarQuarters(0, 3) : Gain(Q) > 0 =>
                   Count(Pnls(TradesInPeriod(trades, Q)), LAMBDA p : p > 0) > 3
       /\ HistoricalPattern(trades) # "REPEATED_PATTERN" =>
             class \notin {"ROBUSTNESS_SIGNAL", "REGIME_SPECIFIC_SIGNAL"}
       /\ class = "NO_EDGE" => ~(Gain(LastYear) > 0 /\ Prior(trades) <= 0)
       /\ class = "INCONCLUSIVE" <=> Scorecard(study) = "INCONCLUSIVE"

TemporalVerdictHolds(study) == ClassMeansIt(ConfigurationClassification(study), study)

\* What a candle's context says is known when it closes, but for the quartiles, which are
\* known when development ends; and in development each quartile holds its quarter.
ContextsLookBack(closes, ranges) ==
    LET end == 4
        Classify(s) == IF Len(s) < 2 THEN "UNKNOWN" ELSE IF s[Len(s)] < s[1] THEN "BEAR" ELSE "BULL"
        Contexts(c, r) == ComputeTemporalContexts(c, r, 2, end, 2, 5,
                                                  [i \in DOMAIN c |-> Classify(SubSeq(c, 1, i))])
        all == Contexts(closes, ranges)
    IN /\ \A i \in end..(Len(closes) - 1) :
             SubSeq(all, 1, i) = Contexts(SubSeq(closes, 1, i), SubSeq(ranges, 1, i))
       /\ \A i \in 2..Len(closes), j \in 2..Len(closes) :
             Add(SubSeq(ranges, i - 1, i)) = Add(SubSeq(ranges, j - 1, j)) => all[i].bucket = all[j].bucket
       /\ \E i \in 2..end : all[i].bucket = "LOW"
       /\ Cardinality({i \in 2..end : all[i].bucket = "EXTREME"}) <= 1
=============================================================================
