---------------------------- MODULE ResearchVerdicts ----------------------------
(***************************************************************************)
(* What each experiment concludes: which variants it selects on            *)
(* development, whether their operation is viable, and how it classifies   *)
(* the evidence.  The evidence on a variant is a record:                   *)
(*   devFolds, valFolds, stressFolds  the walk-forward folds of BASE in    *)
(*     both periods and of STRESS in validation (SummarizeFolds)           *)
(*   devPnls, valPnls                 the trades of the whole periods      *)
(*   signals, resumptions, exposure, drawdown, stressNet, liquidations,    *)
(*   baseline, draw, locked, healthy  the rest of what a criterion reads   *)
(*   sensitivity  <<how far the other costs move the mean>>, or <<>>       *)
(*   failed       the periods whose whole run failed                       *)
(*   id, complexity                   its place in the catalog             *)
(* Capital is 100, so that a result is its percentage.                     *)
(***************************************************************************)
EXTENDS ResearchStatistics

\* The evidence with its summaries: of all folds, and of those that completed (the spot
\* experiment).  Everything below reads evidence with its summaries.
Summarized(e) ==
    [dev    |-> [all |-> SummarizeFolds(e.devFolds), run |-> ConsolidateRuns(e.devFolds)],
     val    |-> [all |-> SummarizeFolds(e.valFolds), run |-> ConsolidateRuns(e.valFolds)],
     stress |-> [all |-> SummarizeFolds(e.stressFolds), run |-> ConsolidateRuns(e.stressFolds)]] @@ e
Dev(e)    == e.dev.all
Val(e)    == e.val.all
Stress(e) == e.stress.all
DevTrades(e) == Len(e.devPnls)
ValTrades(e) == Len(e.valPnls)
ShareAtMost(share, percent) == AtMost(share[1], share[2], percent)
BestShareAtMost(pnls, percent) == ShareAtMost(Concentration(pnls, 1), percent)
Bootstrap(e) == BootstrapStatus(e.valPnls, e.draw)

\* Neither period lost in the median, and in both half the folds gained.
HoldsUp(summary) == summary.median >= 0 /\ AtLeast(summary.positive, summary.count, 50)

\* The first key that differs decides; the last one differs.
Precedes(a, b) == \E i \in DOMAIN a : a[i] < b[i] /\ \A j \in 1..(i - 1) : a[j] = b[j]
RankBy(S, Key(_)) == SetToSortSeq(S, LAMBDA a, b : Precedes(Key(a), Key(b)))

(***************************************************************************)
(* Operational viability, from development alone.                          *)
(***************************************************************************)
\* assess_operational_viability of the trend catalog.
AssessOperationalViability(e) ==
    LET s == Dev(e)
    IN CASE e.exposure > 90 -> "TOO_PERMISSIVE"
         [] e.exposure <= 90 /\ (s.count = 0 \/ DevTrades(e) < 8) -> "INSUFFICIENT_SAMPLE"
         [] e.exposure <= 90 /\ s.count > 0 /\ DevTrades(e) >= 8 ->
              IF AtLeast(s.count - s.idle, s.count, 50) /\ AtMost(s.idle, s.count, 50)
              THEN "OPERATIONALLY_VIABLE" ELSE "TOO_RESTRICTIVE"

\* operational_frequency of the calibration: signals against the baseline's.
OperationalFrequency(e) ==
    LET s == Dev(e)
        active == s.count - s.idle
    IN CASE e.signals > 5 * e.baseline \/ e.exposure > 50 -> "TOO_PERMISSIVE"
         [] ~(e.signals > 5 * e.baseline \/ e.exposure > 50) ->
              IF e.signals >= 12 /\ DevTrades(e) >= 10 /\ s.count > 0
                    /\ AtLeast(active, s.count, 50) /\ AtMost(s.idle, s.count, 50)
              THEN "OPERATIONALLY_VIABLE"
              ELSE IF e.signals < 12 \/ DevTrades(e) < 10 THEN "TOO_RESTRICTIVE"
              ELSE "INCONCLUSIVE"

(***************************************************************************)
(* Selection.  E is the evidence on the variants of one market and mode.   *)
(***************************************************************************)
\* select_development_hypotheses: the original baseline (id 0) is never selected.
PullbackEligible(e) == e.id # 0 /\ HoldsUp(Dev(e))
PullbackKey(e) ==
    <<-Dev(e).median, -Dev(e).positive, e.drawdown, Dev(e).idle,
      Concentration(e.devPnls, 1)[1], -DevTrades(e), e.complexity, e.id>>
\* Mutant of SelectDevelopmentHypotheses: the folds of either sign are counted.
SelectOnMedian(E) ==
    First(RankBy({e \in E : e.id # 0 /\ Dev(e).median >= 0}, PullbackKey), 2)

SelectDevelopmentHypotheses(E) == First(RankBy({e \in E : PullbackEligible(e)}, PullbackKey), 2)

\* select_by_frequency: how often it trades decides, never what it earns.
TargetDistance(trades) ==
    CASE trades < 10 -> 10 - trades [] trades > 60 -> trades - 60 [] OTHER -> 0
FrequencyKey(e) ==
    <<-(Dev(e).count - Dev(e).idle), Dev(e).idle, TargetDistance(DevTrades(e)), e.complexity, e.id>>
SelectByFrequency(E) ==
    First(RankBy({e \in E : OperationalFrequency(e) = "OPERATIONALLY_VIABLE"}, FrequencyKey), 2)

\* select_development_hypothesis of the trend catalog: one at most.
TrendEligible(e) == AssessOperationalViability(e) = "OPERATIONALLY_VIABLE" /\ HoldsUp(Dev(e))
TrendKey(e) ==
    <<-Dev(e).median, -Dev(e).positive, e.drawdown, Concentration(e.devPnls, 3)[1],
      -DevTrades(e), e.exposure, e.complexity, e.id>>
SelectTrendHypothesis(E) == First(RankBy({e \in E : TrendEligible(e)}, TrendKey), 1)

\* select_development_candidate of the spot catalog: diagnostic regimes drop out, and a
\* median is known only when a fold completed, the sensitivity only when one did under
\* another cost scenario.
SpotEligible(e) ==
    /\ ~e.diagnostic
    /\ e.dev.run.known /\ e.dev.run.median >= 0
    /\ e.sensitivity # <<>>
SpotKey(e) ==
    LET s == e.dev.run
    IN <<-s.median, -s.positive, e.drawdown, s.idle, e.sensitivity[1], -DevTrades(e), e.complexity, e.id>>
SelectDevelopmentCandidate(E) == First(RankBy({e \in E : SpotEligible(e)}, SpotKey), 1)

(***************************************************************************)
(* Classification.  E is what was selected from.                           *)
(***************************************************************************)
Chosen(e, selected) == \E i \in DOMAIN selected : selected[i].id = e.id

\* assess_candidate: the criteria that fail.
PullbackFailures(e) ==
    LET passed == [
            trades     |-> DevTrades(e) + ValTrades(e) >= 30,
            devMedian  |-> Dev(e).median >= 0,
            valMedian  |-> Val(e).median >= 0,
            devFolds   |-> AtLeast(Dev(e).positive, Dev(e).count, 50),
            valFolds   |-> AtLeast(Val(e).positive, Val(e).count, 50),
            net        |-> Add(e.valPnls) >= 0,
            drawdown   |-> e.drawdown <= 10,
            idle       |-> AtMost(Dev(e).idle, Dev(e).count, 25) /\ AtMost(Val(e).idle, Val(e).count, 25),
            stress     |-> AtLeast(Stress(e).positive, Stress(e).count, 30),
            best       |-> BestShareAtMost(e.valPnls, 50),
            topThree   |-> WithoutTop(e.valPnls, 3) >= -1,
            bootstrap  |-> Bootstrap(e) \notin {"NEGATIVE_UNCERTAIN", "INSUFFICIENT_SAMPLE"},
            liquidated |-> e.liquidations = 0,
            locked     |-> e.locked]
    IN {c \in DOMAIN passed : ~passed[c]}

ClassifyFailures(failures) ==
    IF failures = {} THEN "PROMISING_FOR_FUTURE_HOLDOUT"
    ELSE IF failures \subseteq {"trades", "bootstrap"} THEN "INCONCLUSIVE"
    ELSE "NOT_PROMISING"

AssessPullback(e, selected) ==
    CASE selected = <<>>          -> "NO_DEVELOPMENT_HYPOTHESIS"
      [] selected # <<>> /\ ~Chosen(e, selected) -> "NOT_ASSESSED"
      [] selected # <<>> /\ Chosen(e, selected)  -> ClassifyFailures(PullbackFailures(e))

\* build_future_holdout_plan and _confirmation_plan: a plan exists for what is promising only.
PlanOf(verdicts, approval) == {e.id : e \in {x \in DOMAIN verdicts : verdicts[x] = approval}}

\* _assessment of the calibration: viable in frequency, then worth something.
FinanciallyPromising(e) ==
    /\ OperationalFrequency(e) = "OPERATIONALLY_VIABLE"
    /\ DevTrades(e) >= 10 /\ ValTrades(e) >= 5
    /\ HoldsUp(Dev(e)) /\ HoldsUp(Val(e))
    /\ Add(e.valPnls) >= 0 /\ e.drawdown <= 10
    /\ BestShareAtMost(e.valPnls, 50)
    /\ Bootstrap(e) # "NEGATIVE_UNCERTAIN"
FrequencyStable(e) == e.resumptions > 0 /\ e.valSignals > 0

\* _assessments of the trend experiment: what was not selected is never validated.
TrendCriteria(e) ==
    /\ TrendEligible(e)
    /\ ValTrades(e) >= 4 /\ HoldsUp(Val(e)) /\ Add(e.valPnls) >= 0 /\ e.drawdown <= 15
    /\ AtMost(Val(e).idle, Val(e).count, 50)
    /\ e.stressNet > -50
    /\ BestShareAtMost(e.valPnls, 50) /\ WithoutTop(e.valPnls, 3) >= -5
    /\ Bootstrap(e) # "NEGATIVE_UNCERTAIN"
    /\ e.liquidations = 0 /\ e.locked

AssessTrend(e, selected) ==
    LET viability == AssessOperationalViability(e)
    IN IF ~Chosen(e, selected)
       THEN CASE viability \in {"TOO_RESTRICTIVE", "INSUFFICIENT_SAMPLE"} -> viability
              [] TrendEligible(e) -> "OPERATIONALLY_VIABLE_BUT_UNPROVEN"
              [] OTHER -> "NOT_PROMISING"
       ELSE IF TrendCriteria(e) THEN "PROMISING_FOR_CONFIRMATION"
       ELSE IF ValTrades(e) < 4 THEN "OPERATIONALLY_VIABLE_BUT_UNPROVEN"
       ELSE "NOT_PROMISING"

\* _candidate_criteria: only what failed in BASE makes the evidence incomplete, and a fold
\* that failed under STRESS is left out of its share.
SpotCriteria(e) ==
    LET dev == e.dev.run
        val == e.val.run
        stress == e.stress.run
    IN /\ DevTrades(e) + ValTrades(e) >= 30
       /\ AtLeast(dev.positive, dev.completed, 50) /\ dev.completed > 0
       /\ AtLeast(val.positive, val.completed, 50) /\ val.completed > 0
       /\ dev.median >= 0 /\ val.median >= 0
       /\ e.drawdown <= 10
       /\ AtMost(dev.idle, dev.count, 25) /\ AtMost(val.idle, val.count, 25)
       /\ AtLeast(stress.positive, stress.completed, 30) /\ stress.completed > 0
       /\ e.devPnls \o e.valPnls # <<>>
       /\ BestShareAtMost(e.devPnls, 50) /\ BestShareAtMost(e.valPnls, 50)
       /\ Add(e.valPnls) >= 0
       /\ ~e.diagnostic

AssessSpot(e, selected) ==
    LET incomplete == e.dev.run.failed + e.val.run.failed > 0 \/ e.failed # {}
    IN CASE ~Chosen(e, selected) -> "NO_DEVELOPMENT_CANDIDATE"
         [] Chosen(e, selected) /\ incomplete -> "INCONCLUSIVE"
         [] Chosen(e, selected) /\ ~incomplete ->
              IF SpotCriteria(e) THEN "CANDIDATE" ELSE "NOT_CANDIDATE"

\* _freeze_decision
FreezeDecision(status) ==
    IF status = "CANDIDATE" THEN "READY_FOR_EXPLICIT_FREEZE" ELSE "NO_CANDIDATE_FROZEN"

\* _fold_summary of the futures validation; a period without folds never gets here.
FoldSummary(period) == period.all

\* _assessment_input: trades of both periods, folds of each.
AssessmentInput(e) ==
    [trades      |-> e.devPnls \o e.valPnls,
     development |-> FoldSummary(e.dev), validation |-> FoldSummary(e.val),
     stress      |-> FoldSummary(e.stress), net |-> Add(e.valPnls),
     drawdown    |-> e.drawdown, healthy |-> e.healthy]

AssessVariant(values) ==
    IF /\ Len(values.trades) >= 30 /\ HoldsUp(values.development) /\ HoldsUp(values.validation)
       /\ values.net >= 0 /\ values.drawdown <= 10
       /\ \A s \in {values.development, values.validation} : AtMost(s.idle, s.count, 25)
       /\ AtLeast(values.stress.positive, values.stress.count, 30)
       /\ BestShareAtMost(values.trades, 50)
       /\ values.healthy
    THEN "PROMISING_FOR_FURTHER_VALIDATION" ELSE "NOT_PROMISING"

AssessFutures(e) == AssessVariant(AssessmentInput(e))

\* candidate_assessment of the diagnostics, one run a period: a run that failed is left out
\* of every criterion, a cost scenario that failed counts as a loss.
DiagnosticRuns(e) ==
    SelectSeq(<<[period |-> "DEVELOPMENT", pnls |-> e.devPnls], [period |-> "VALIDATION", pnls |-> e.valPnls]>>,
              LAMBDA r : r.period \notin e.failed)

AssessDiagnostics(e) ==
    LET runs   == DiagnosticRuns(e)
        nets   == [i \in DOMAIN runs |-> Add(runs[i].pnls)]
        all    == FlattenSeq([i \in DOMAIN runs |-> runs[i].pnls])
        stress == e.stress.run
    IN IF runs = <<>> \/ e.stressFolds = <<>> THEN "INCONCLUSIVE"
       ELSE IF /\ Len(all) >= 30
               /\ AtLeast(Count(nets, LAMBDA n : n > 0), Len(nets), 50) /\ TwiceMedian(nets) >= 0
               /\ e.drawdown <= 10
               /\ AtLeast(stress.positive, stress.count, 30)
               /\ BestShareAtMost(all, 50)
               /\ AtMost(Count(runs, LAMBDA r : r.pnls = <<>>), Len(runs), 25)
            THEN "CANDIDATE" ELSE "NOT_CANDIDATE"

\* TrendFollowingLockedSelection: what the lock before validation accepts.
LockAccepts(e) ==
    /\ AssessOperationalViability(e) = "OPERATIONALLY_VIABLE"
    /\ ~(Dev(e).median < 0 \/ ~AtLeast(Dev(e).positive, Dev(e).count, 50))

(***************************************************************************)
(* What a verdict may be trusted for.                                      *)
(***************************************************************************)
\* A fold that fails stops every experiment but the spot one and the diagnostics.
Complete(e) == \A fs \in {e.devFolds, e.valFolds, e.stressFolds} : \A i \in DOMAIN fs : ~fs[i].failed

Approvals(e) ==
    LET E == {e}
    IN {v \in {"pullback", "calibration", "trend", "spot", "futures"} :
          CASE v = "pullback"    -> Complete(e) /\ AssessPullback(e, SelectDevelopmentHypotheses(E))
                                                     = "PROMISING_FOR_FUTURE_HOLDOUT"
            [] v = "calibration" -> Complete(e) /\ FinanciallyPromising(e)
            [] v = "trend"       -> Complete(e) /\ AssessTrend(e, SelectTrendHypothesis(E))
                                                     = "PROMISING_FOR_CONFIRMATION"
            [] v = "spot"        -> FreezeDecision(AssessSpot(e, SelectDevelopmentCandidate(E)))
                                                     = "READY_FOR_EXPLICIT_FREEZE"
            [] v = "futures"     -> Complete(e) /\ AssessFutures(e) = "PROMISING_FOR_FURTHER_VALIDATION"}

\* No experiment approves on one period: half of all folds gained in both, none of the BASE
\* folds failed, and the validation as a whole did not lose; the lock held where there is one.
ApprovalNeedsBothPeriods(e, approvals) ==
    approvals # {} =>
        /\ \A fs \in {e.devFolds, e.valFolds} :
              /\ 2 * Cardinality({i \in DOMAIN fs : fs[i].net > 0 /\ ~fs[i].failed}) >= Len(fs)
              /\ \A i \in DOMAIN fs : ~fs[i].failed
        /\ Add(e.valPnls) >= 0
        /\ {"pullback", "trend"} \cap approvals # {} => e.locked /\ e.liquidations = 0

\* A better result never costs the approval: a fold that loses may as well have gained.
ApprovalIsMonotone(e, approvals) ==
    \A f \in {"devFolds", "valFolds", "stressFolds"} :
        \A i \in {j \in DOMAIN e[f] : e[f][j].net < 0 /\ ~e[f][j].failed} :
            approvals \subseteq Approvals(Summarized([e EXCEPT ![f][i].net = 1]))

ApprovalsAreEarned(e, approvals) ==
    ApprovalNeedsBothPeriods(e, approvals) /\ ApprovalIsMonotone(e, approvals)

\* A plan for a holdout names what was approved, and nothing that was not selected.
PlansAreApproved(E, pullbacks, trends) ==
    Complete(CHOOSE e \in E : TRUE) =>
        /\ \A id \in PlanOf([e \in E |-> AssessPullback(e, pullbacks)], "PROMISING_FOR_FUTURE_HOLDOUT") :
             \E i \in DOMAIN pullbacks : pullbacks[i].id = id /\ HoldsUp(Dev(pullbacks[i]))
        /\ \A id \in PlanOf([e \in E |-> AssessTrend(e, trends)], "PROMISING_FOR_CONFIRMATION") :
             Len(trends) = 1 /\ trends[1].id = id /\ LockAccepts(trends[1])

\* Every selection takes the best of what is eligible in development and no more than it may,
\* never a loser nor the baseline, and would take the same whatever validation will show (B).
Eligible(e, kind) ==
    CASE kind = "pullback" -> e.id # 0 /\ 2 * Dev(e).positive >= Dev(e).count /\ Dev(e).median >= 0
      [] kind = "trend"    -> LockAccepts(e)
      [] kind = "spot"     -> ~e.diagnostic /\ e.dev.run.median >= 0 /\ e.dev.run.completed > 0
MedianOf(e, kind) == IF kind = "spot" THEN e.dev.run.median ELSE Dev(e).median
SelectionOf(E) ==
    [pullback |-> SelectDevelopmentHypotheses(E), trend |-> SelectTrendHypothesis(E),
     spot |-> SelectDevelopmentCandidate(E), frequency |-> SelectByFrequency(E)]
IdsOf(s) == [i \in DOMAIN s |-> s[i].id]

FairSelection(s, most, kind, E) ==
    /\ Len(s) <= most /\ IsInjective(IdsOf(s))
    /\ \A i \in DOMAIN s : Eligible(s[i], kind) /\ MedianOf(s[i], kind) >= 0
    /\ \A e \in E : Eligible(e, kind) /\ ~Chosen(e, s) =>
          Len(s) = most /\ \A i \in DOMAIN s : MedianOf(s[i], kind) >= MedianOf(e, kind)

SelectionsAreFair(E, chosen) ==
    LET B == {Summarized([e EXCEPT !.valFolds = e.devFolds, !.valPnls = <<>>, !.draw = <<-9, 9>>]) : e \in E}
    IN /\ \A kind \in {"pullback", "trend", "spot"} :
             FairSelection(chosen[kind], IF kind = "pullback" THEN 2 ELSE 1, kind, E)
       /\ \A blind \in {SelectionOf(B)} :
             \A kind \in DOMAIN chosen : IdsOf(blind[kind]) = IdsOf(chosen[kind])
       /\ PlansAreApproved(E, chosen.pullback, chosen.trend)
=============================================================================
