----------------------------- MODULE RiskGovernor -----------------------------
(***************************************************************************)
(* PortfolioRiskGovernor of execution/risk.py: the state machine that      *)
(* approves, reduces or blocks the orders of a research session from the   *)
(* trades, slippages, data gaps and kills reported to it.                  *)
(*                                                                         *)
(* Time is an integer the reporter never moves back; DayLength instants    *)
(* make a UTC day.  Of the list of events the model keeps the day of the   *)
(* last kill, since that is what the documentation makes promises about.   *)
(***************************************************************************)
EXTENDS Integers

CONSTANTS
    MaxDailyLoss,       \* maximum_daily_loss_percent
    MaxLosses,          \* maximum_consecutive_losses
    Cooldown,           \* cooldown_ms
    DayLength,          \* instants in a UTC day
    MaxTrade,           \* bound: |result of a trade|
    MaxPnl,             \* bound: |daily_realized_pnl|
    MaxCount,           \* bound: losses, gaps and desyncs counted
    FinalInstant         \* bound: the last instant

ASSUME GovernorAssumption ==
    /\ {MaxDailyLoss, MaxLosses, DayLength} \subseteq Nat \ {0}
    /\ {Cooldown, MaxTrade, MaxPnl, MaxCount, FinalInstant} \subseteq Nat

GovernorState == {"ACTIVE", "REDUCED", "COOLDOWN", "DAILY_KILLED", "DATA_KILLED"}
Killed        == {"DAILY_KILLED", "DATA_KILLED"}

\* The repetition of gaps or desyncs that kills.
MaxGaps == 3

None == -1

VARIABLES
    instant,        \* the time of the next report
    riskState,
    losses,         \* consecutive_losses
    pnl,            \* daily_realized_pnl
    gaps,           \* data_gaps
    desyncs,        \* book_desyncs
    cooldownUntil,  \* _cooldown_until
    day,            \* _day
    killDay         \* events: the day of the last transition into a kill

governorVars == <<instant, riskState, losses, pnl, gaps, desyncs, cooldownUntil, day, killDay>>

DayOf(t) == t \div DayLength

GovernorInit ==
    /\ instant = 0
    /\ riskState = "ACTIVE"
    /\ losses = 0 /\ pnl = 0 /\ gaps = 0 /\ desyncs = 0
    /\ cooldownUntil = None /\ day = None /\ killDay = None

\* approve_liquidity consults the state before the depth fraction.
Approving(s) == s \in {"ACTIVE", "REDUCED"}

Transition(s) ==
    /\ riskState' = s
    /\ killDay' = IF s \in Killed THEN DayOf(instant) ELSE killDay

-----------------------------------------------------------------------------
(* reset_boundary *)

NewDay == day # None /\ day # DayOf(instant)

\* Mutant of Rolled: the end of a cooldown gives back unreduced trading.
RolledToActive ==
    IF NewDay \/ (day # None /\ riskState = "COOLDOWN" /\ instant >= cooldownUntil)
    THEN "ACTIVE" ELSE riskState

\* The state reset_boundary leaves behind.
Rolled ==
    IF NewDay THEN "ACTIVE"
    ELSE IF day # None /\ riskState = "COOLDOWN" /\ cooldownUntil # None /\ instant >= cooldownUntil
    THEN "REDUCED"
    ELSE riskState

\* A counter after reset_boundary.
Fresh(count) == IF NewDay THEN 0 ELSE count

\* Mutant of ResetBoundary: the gap counters survive the day.
ResetBoundaryKeepingGaps ==
    /\ day' = DayOf(instant)
    /\ riskState' = Rolled
    /\ losses' = Fresh(losses) /\ pnl' = Fresh(pnl)
    /\ UNCHANGED <<instant, gaps, desyncs, cooldownUntil, killDay>>

ResetBoundary ==
    /\ day' = DayOf(instant)
    /\ riskState' = Rolled
    /\ losses' = Fresh(losses) /\ pnl' = Fresh(pnl)
    /\ gaps' = Fresh(gaps) /\ desyncs' = Fresh(desyncs)
    /\ UNCHANGED <<instant, cooldownUntil, killDay>>

-----------------------------------------------------------------------------
(* Reports *)

Streak(x) == IF x < 0 THEN Fresh(losses) + 1 ELSE 0

\* record_trade, which rolls the boundary first; `until` is the deadline of the
\* cooldown that a streak at its limit starts.
TradeRecorded(x, streak, until) ==
    LET total   == Fresh(pnl) + x
        lost    == total <= -MaxDailyLoss
        cooling == ~ lost /\ streak >= MaxLosses
    IN  /\ total \in -MaxPnl .. MaxPnl /\ streak <= MaxCount
        /\ pnl' = total
        /\ losses' = streak
        /\ riskState' = CASE lost                            -> "DAILY_KILLED"
                      [] cooling                         -> "COOLDOWN"
                      [] ~ lost /\ ~ cooling /\ x < 0    -> "REDUCED"
                      [] OTHER                           -> Rolled
        /\ killDay' = IF lost THEN DayOf(instant) ELSE killDay
        /\ cooldownUntil' = IF cooling THEN until ELSE cooldownUntil
        /\ day' = DayOf(instant)
        /\ gaps' = Fresh(gaps) /\ desyncs' = Fresh(desyncs)
        /\ UNCHANGED instant

RecordTrade(x) == TradeRecorded(x, Streak(x), instant + Cooldown)

\* Only an abnormal slippage changes anything.
ObserveSlippage ==
    /\ Transition("REDUCED")
    /\ UNCHANGED <<instant, losses, pnl, gaps, desyncs, cooldownUntil, day>>

ObserveDataGap ==
    /\ gaps < MaxCount
    /\ gaps' = gaps + 1
    /\ IF gaps' >= MaxGaps
       THEN Transition("DATA_KILLED") ELSE UNCHANGED <<riskState, killDay>>
    /\ UNCHANGED <<instant, losses, pnl, desyncs, cooldownUntil, day>>

ObserveDesync ==
    /\ desyncs < MaxCount
    /\ desyncs' = desyncs + 1
    /\ IF desyncs' >= MaxGaps
       THEN Transition("DATA_KILLED") ELSE UNCHANGED <<riskState, killDay>>
    /\ UNCHANGED <<instant, losses, pnl, gaps, cooldownUntil, day>>

Kill ==
    /\ Transition("DATA_KILLED")
    /\ UNCHANGED <<instant, losses, pnl, gaps, desyncs, cooldownUntil, day>>

ClockTick ==
    /\ instant < FinalInstant
    /\ instant' = instant + 1
    /\ UNCHANGED <<riskState, losses, pnl, gaps, desyncs, cooldownUntil, day, killDay>>

GovernorNext ==
    \/ \E x \in -MaxTrade .. MaxTrade : RecordTrade(x)
    \/ ObserveSlippage
    \/ ObserveDataGap
    \/ ObserveDesync
    \/ Kill
    \/ ResetBoundary
    \/ ClockTick

GovernorSpec == GovernorInit /\ [][GovernorNext]_governorVars

-----------------------------------------------------------------------------
(* Correctness *)

\* Every field keeps its type.
GovernorTypeOK ==
    /\ instant \in Nat
    /\ riskState \in GovernorState
    /\ {losses, gaps, desyncs} \subseteq Nat
    /\ pnl \in Int
    /\ {cooldownUntil, day, killDay} \subseteq Nat \cup {None}

\* Unreduced trading means that nothing bad is on the books of the governor's
\* day: whatever the order of trades, gaps, kills and day rolls, ACTIVE excludes
\* a losing streak, a daily loss at its limit and repeated gaps or desyncs.
ActiveMeansClean ==
    riskState = "ACTIVE" =>
        /\ losses = 0 /\ pnl >= 0
        /\ gaps < MaxGaps /\ desyncs < MaxGaps

\* Only a new UTC day gives back unreduced trading: neither a winning trade nor
\* the end of a cooldown does.
OnlyNewDayReactivates ==
    [][riskState # "ACTIVE" /\ riskState' = "ACTIVE" => day # None /\ day' # day]_governorVars

\* A cooldown is never endless: its deadline is set and at most Cooldown away,
\* also when an older one was overwritten or a kill came in between.
CooldownHasDeadline ==
    riskState = "COOLDOWN" => cooldownUntil # None /\ cooldownUntil <= instant + Cooldown

\* Whatever the order of trades, gaps, kills and days, full trading means a clean day
\* and a cooldown has an end.
GateConsistent == GovernorTypeOK /\ ActiveMeansClean /\ CooldownHasDeadline

-----------------------------------------------------------------------------
(* What the documentation says and the governor does not do. *)

\* docs/INTRADAY_EXECUTION_SIMULATION.md:138-141: the daily loss limit and
\* critical events trigger the kill switch and block new approvals, at least for
\* the rest of the day.
KillBlocksTheDay == killDay = DayOf(instant) => ~ Approving(riskState)
=============================================================================
