--------------------------- MODULE ResearchStatistics ---------------------------
(***************************************************************************)
(* The numbers the research reports are made of.  A run is known by the    *)
(* sequence of its trades' results (in percent of the capital), a fold by  *)
(* its return, its trades and whether it failed.  Shares are compared, as  *)
(* in the code, with the share of an empty whole given explicitly; a       *)
(* median is kept doubled so that it stays a whole number.                 *)
(***************************************************************************)
EXTENDS Integers, Sequences, FiniteSets, SequencesExt, TLC

Add(pnls)     == FoldLeft(LAMBDA a, b : a + b, 0, pnls)
Ranked(pnls)  == SortSeq(pnls, LAMBDA a, b : a > b)
Gains(pnls)   == SelectSeq(pnls, LAMBDA p : p > 0)
First(s, n)   == SubSeq(s, 1, IF n < Len(s) THEN n ELSE Len(s))
Count(s, Test(_)) == Len(SelectSeq(s, Test))

AtLeast(part, whole, percent) == 100 * part >= percent * whole
AtMost(part, whole, percent)  == 100 * part <= percent * whole

\* Twice the median, 0 when there is nothing.
TwiceMedian(values) ==
    LET s == Ranked(values)  n == Len(s)
    IN IF n = 0 THEN 0 ELSE s[(n + 1) \div 2] + s[n \div 2 + 1]

(***************************************************************************)
(* Trades.                                                                 *)
(***************************************************************************)
\* What the best n trades are of all gains: <<part, whole>>, nothing when there are no gains.
Concentration(pnls, n) ==
    LET gains == Ranked(Gains(pnls)) IN <<Add(First(gains, n)), Add(gains)>>

\* The result without the best n trades, whatever their sign.
WithoutTop(pnls, n) == LET s == Ranked(pnls) IN Add(SubSeq(s, n + 1, Len(s)))

\* The same without the best winning trade: a losing best trade is kept.
WithoutBestGain(pnls) == Add(pnls) - Concentration(pnls, 1)[1]

\* The interval of resampled totals is drawn from what resampling can give; its ends
\* decide.  Too few trades are never resampled.
MinimumSample == 5

BootstrapOf(pnls, draw, minimum) ==
    LET n     == Len(pnls)
        s     == Ranked(pnls)
        Clamp(x) == IF x > n * s[1] THEN n * s[1] ELSE IF x < n * s[n] THEN n * s[n] ELSE x
    IN CASE n < minimum -> "INSUFFICIENT_SAMPLE"
         [] n >= minimum /\ Clamp(draw[1]) > 0 -> "POSITIVE_UNCERTAIN"
         [] n >= minimum /\ Clamp(draw[1]) <= 0 /\ Clamp(draw[2]) < 0 -> "NEGATIVE_UNCERTAIN"
         [] OTHER -> "INCLUDES_ZERO"

BootstrapStatus(pnls, draw) == BootstrapOf(pnls, draw, MinimumSample)

\* The longest time without a new top of the running result; trades are
\* [exit, pnl], exit a day.  The time since the last top is not counted.
LongestWithoutTop(trades) ==
    LET ordered == SortSeq(trades, LAMBDA a, b : a.exit < b.exit)
        Bigger(a, b) == IF a > b THEN a ELSE b
        Step(acc, t) ==
            LET equity == acc.equity + t.pnl
            IN IF equity >= acc.top
               THEN [equity |-> equity, top |-> equity, day |-> t.exit,
                     longest |-> Bigger(acc.longest, t.exit - acc.day)]
               ELSE [acc EXCEPT !.equity = equity]
    IN IF trades = <<>> THEN 0
       ELSE FoldLeft(Step, [equity |-> 0, top |-> 0, day |-> ordered[1].exit, longest |-> 0],
                     ordered).longest

(***************************************************************************)
(* Folds.                                                                  *)
(***************************************************************************)
Nets(folds) == [i \in DOMAIN folds |-> folds[i].net]

\* summarize_folds: no fold may be missing, an empty plan has been refused before.
SummarizeFolds(folds) ==
    [count    |-> Len(folds),
     positive |-> Count(folds, LAMBDA f : f.net > 0),
     idle     |-> Count(folds, LAMBDA f : f.trades = 0),
     median   |-> TwiceMedian(Nets(folds)),
     total    |-> Add(Nets(folds)),
     trades   |-> Add([i \in DOMAIN folds |-> folds[i].trades])]

\* consolidate_runs: the share of positive folds is that of the folds which completed.
ConsolidateRuns(folds) ==
    LET completed == SelectSeq(folds, LAMBDA f : ~f.failed)
    IN [count    |-> Len(folds),
        completed |-> Len(completed),
        failed   |-> Len(folds) - Len(completed),
        positive |-> Count(completed, LAMBDA f : f.net > 0),
        idle     |-> Count(folds, LAMBDA f : f.failed \/ f.trades = 0),
        known    |-> completed # <<>>,
        median   |-> TwiceMedian(Nets(completed)),
        total    |-> Add(Nets(completed)),
        trades   |-> Add([i \in DOMAIN completed |-> completed[i].trades])]

(***************************************************************************)
(* Costs: the same configuration run under each scenario.                  *)
(***************************************************************************)
CostWarnings(low, base, stress, gross, costs, funding) ==
    LET Abs(x) == IF x < 0 THEN -x ELSE x
    IN {w \in {"LOW_COST_ONLY_EDGE", "STRESS_COLLAPSE", "COST_DOMINATED", "FUNDING_DOMINATED"} :
          CASE w = "LOW_COST_ONLY_EDGE" -> low > 0 /\ base <= 0
            [] w = "STRESS_COLLAPSE"    -> base > 0 /\ stress < 0
            [] w = "COST_DOMINATED"     -> costs > Abs(gross) /\ costs > 0
            [] w = "FUNDING_DOMINATED"  -> Abs(funding) > Abs(base) /\ funding # 0}

(***************************************************************************)
(* The funnel of a pullback run: a trace is the set of rules it fails and  *)
(* whether it became a signal.  A stage shows at most what entered it, but *)
(* counts every trace that passes its own rule.                            *)
(***************************************************************************)
\* One rule of each kind: before, at and after the resumption.
RuleOrder == <<"trend", "resumption", "extension">>

SequentialFunnel(evaluated, traces, rules, terminal) ==
    LET counts == [i \in DOMAIN rules |-> Count(traces, LAMBDA t : rules[i] \notin t.fails)] \o terminal
        Narrow(acc, n) == Append(acc, IF n < Last(acc) THEN n ELSE Last(acc))
    IN FoldLeft(Narrow, <<evaluated>>, counts)

RejectedResumptions(traces) ==
    SelectSeq(traces, LAMBDA t : "resumption" \notin t.fails /\ ~t.signal)

\* How many rejected resumptions one rule alone kept from being a signal.
SingleRuleAblation(traces, rule) ==
    Count(RejectedResumptions(traces), LAMBDA t : t.fails \subseteq {rule})

(***************************************************************************)
(* Defensive against fixed risk: two runs of one exit.                     *)
(***************************************************************************)
CompareDefensiveRisk(fixed, defensive, minimumTrades) ==
    IF fixed.trades < minimumTrades \/ defensive.trades < minimumTrades
    THEN {"INSUFFICIENT_SAMPLE"}
    ELSE LET found ==
                (IF defensive.drawdown < fixed.drawdown THEN {"DRAWDOWN_IMPROVED"} ELSE {})
                \cup (IF defensive.net < fixed.net THEN {"RETURN_REDUCED"} ELSE {})
                \cup (IF defensive.recovery > fixed.recovery THEN {"RECOVERY_DELAYED"} ELSE {})
         IN IF found = {} THEN {"NO_MATERIAL_EFFECT"} ELSE found

(***************************************************************************)
(* What makes the numbers mean what their names say.                       *)
(***************************************************************************)
\* No share exceeds its whole, more of the best trades are a larger share of the gains,
\* and the best trades and the rest make up the result (trade_concentration, bootstrap).
SharesAreShares(pnls) ==
    /\ \A n \in 1..5 : Concentration(pnls, n)[1] <= Concentration(pnls, n)[2]
    /\ \A n \in 1..4 : Concentration(pnls, n)[1] <= Concentration(pnls, n + 1)[1]
    /\ \A n \in 1..Len(pnls) :
          Add(pnls) = WithoutTop(pnls, n) + Add(First(Ranked(pnls), n))
    /\ Gains(pnls) # <<>> => WithoutBestGain(pnls) = WithoutTop(pnls, 1)
    /\ \A draw \in {<<-9, -1>>, <<-9, 9>>, <<1, 9>>} :
          /\ BootstrapStatus(pnls, draw) = "POSITIVE_UNCERTAIN" => Gains(pnls) # <<>>
          /\ BootstrapStatus(pnls, draw) = "NEGATIVE_UNCERTAIN" => \E i \in DOMAIN pnls : pnls[i] < 0
          /\ Len(Gains(pnls)) = Len(pnls) /\ Len(pnls) >= MinimumSample
                => BootstrapStatus(pnls, draw) = "POSITIVE_UNCERTAIN"

\* A stage of the funnel never shows fewer traces than passed all its rules so far, nor
\* more than the stage before; a rejected resumption kept by one rule alone is counted for
\* that rule only (sequential_funnel_rows, single_rule_ablation_rows).
FunnelKeepsCount(traces, rules) ==
    LET signals == Count(traces, LAMBDA t : t.signal)
        funnel  == SequentialFunnel(Len(traces) + 1, traces, rules, <<signals>>)
        Upto(n) == {rules[i] : i \in 1..n}
    IN /\ \A n \in 1..Len(rules) :
             Count(traces, LAMBDA t : t.fails \cap Upto(n) = {}) <= funnel[n + 1]
       /\ \A n \in 1..Len(rules) + 1 : funnel[n + 1] <= funnel[n]
       /\ (\A i \in DOMAIN traces : traces[i].signal <=> traces[i].fails = {}) =>
             /\ Last(funnel) = signals
             /\ Count(RejectedResumptions(traces), LAMBDA t : Cardinality(t.fails) = 1)
                  = Add([i \in DOMAIN rules |-> SingleRuleAblation(traces, rules[i])])
=============================================================================
