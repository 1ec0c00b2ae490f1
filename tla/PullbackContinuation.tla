-------------------------- MODULE PullbackContinuation --------------------------
(***************************************************************************)
(* The pullback-continuation strategy: PullbackContinuationCore and the    *)
(* Spot analyzer of strategy/pullback.py, the Futures analyzer of          *)
(* futures/pullback.py, and of the backtest engines only when a position   *)
(* opens and closes around their calls.                                    *)
(*                                                                         *)
(* A candle is what the analyzer derives from it: its close and the short  *)
(* average in units of the ATR above the long average (a setup is measured *)
(* in nothing else), whether the classifier sees the trend of its side,    *)
(* and whether volume and volatility pass.  Reason codes and traces are    *)
(* left out.                                                               *)
(***************************************************************************)
EXTENDS Integers, FiniteSets

CONSTANTS
    None,
    Candle,         \* the candles that are fed
    Persistence,    \* trend_persistence_candles
    MinCandles,     \* pullback_min_candles
    MaxCandles,     \* pullback_max_candles
    MinDepth,       \* minimum_pullback_depth_atr
    MaxDepth,       \* maximum_pullback_depth_atr
    MaxExtension,   \* maximum_entry_extension_atr
    Directional,    \* directional_close_confirmation
    SpotRegimeExit, \* regime_loss_exit of the Spot analyzer
    MaxFed          \* bound: candles fed

Side == {"LONG", "SHORT"}

\* TRENDING_UP and TRENDING_DOWN need the averages in that order, so that a flag
\* stands for the regime.
Candles == [close : Int, short : Int \ {0}, trend : BOOLEAN, volume : BOOLEAN, calm : BOOLEAN]

ASSUME PullbackAssumption ==
    /\ {Persistence, MinCandles, MaxCandles} \subseteq Nat \ {0}
    /\ MinCandles <= MaxCandles
    /\ {MinDepth, MaxDepth, MaxExtension, MaxFed} \subseteq Nat
    /\ MinDepth <= MaxDepth
    /\ {Directional, SpotRegimeExit} \subseteq BOOLEAN
    /\ Candle \subseteq Candles
    /\ None \notin Side

VARIABLES
    market,         \* SPOT or FUTURES
    enabled,        \* the sides the trading mode allows
    index,          \* _index
    persistence,    \* _long_persistence, _short_persistence
    active,         \* started_index of the active pullback of a side
    previous,       \* the candle before
    entryActive,    \* _entry_active of the Spot analyzer
    position,       \* the side of the engine's position
    entry,          \* the side of the entry signalled by the last candle
    fed,            \* candles fed so far
    trend,          \* history: candles of the trend in the evaluated foundation
    straight,       \* history: candles of the trend in a row, evaluated or not
    dips            \* history: ages of the valid dips nothing has spoilt since

coreVars == <<index, persistence, active>>
vars == <<market, enabled, coreVars, previous, entryActive, position, entry, fed, trend,
          straight, dips>>

Zero == [s \in Side |-> 0]

Init ==
    /\ \/ market = "SPOT" /\ enabled = {"LONG"}
       \/ market = "FUTURES" /\ enabled \in (SUBSET Side) \ {{}}
    /\ index = -1
    /\ persistence = Zero
    /\ active = [s \in Side |-> None]
    /\ previous \in {c \in Candle : c.trend /\ c.volume /\ c.calm}
    /\ entryActive = FALSE /\ position = None /\ entry = None
    /\ fed = 0
    /\ trend = Zero /\ straight = Zero /\ dips = [s \in Side |-> {}]

-----------------------------------------------------------------------------
(* A candle as a side sees it *)

\* A price measured in the direction of the side.
Along(s, price) == IF s = "LONG" THEN price ELSE -price

Foundation(s, c) == Along(s, c.short) > 0 /\ Along(s, c.close) > 0
Matches(s, c)    == Foundation(s, c) /\ c.trend
Depth(s, c)      == Along(s, c.short) - Along(s, c.close)
OnPullback(s, c) == Depth(s, c) >= 0
ValidDepth(s, c) == Depth(s, c) \in MinDepth .. MaxDepth

\* Tests of a resumption that leave the setup alone when they fail.
Directed(s, c) == Directional => Along(s, c.close) > Along(s, previous.close)
Filtered(c)    == c.volume /\ c.calm

Overextended(s, c) == Along(s, c.close) > MaxExtension

-----------------------------------------------------------------------------
(* PullbackContinuationCore *)

\* evaluate forgets everything when the candle is not later than the one before.
Before(f, forward, initial) == IF forward THEN f ELSE [s \in Side |-> initial]

\* The persistence of a side: it grows with the trend and is lost with it, except
\* that a setup survives candles without the trend.
\* Mutant of Counted: candles without the trend never cost it.
CountedForgiving(s, c, count, setup) ==
    IF Matches(s, c) THEN count + 1 ELSE count

Counted(s, c, count, setup) ==
    IF Matches(s, c) THEN count + 1
    ELSE IF setup = None \/ ~ Foundation(s, c) THEN 0
    ELSE count

Age(s, c, now, setup) == IF OnPullback(s, c) THEN now - setup + 1 ELSE now - setup

\* A setup starts on a candle of an established trend that dips far enough.
Starts(s, c, count) ==
    /\ Foundation(s, c) /\ count >= Persistence
    /\ OnPullback(s, c) /\ ValidDepth(s, c)

\* A setup is over: the long average is crossed, it is too old or too deep.
\* Mutants of Spoilt: one does not look at the depth of a later dip, one at the age.
SpoiltIgnoringDepth(s, c, now, setup) ==
    ~ Foundation(s, c) \/ Age(s, c, now, setup) > MaxCandles

SpoiltIgnoringAge(s, c, now, setup) ==
    ~ Foundation(s, c) \/ (OnPullback(s, c) /\ Depth(s, c) > MaxDepth)

Spoilt(s, c, now, setup) ==
    \/ ~ Foundation(s, c)
    \/ Age(s, c, now, setup) > MaxCandles
    \/ OnPullback(s, c) /\ Depth(s, c) > MaxDepth

\* A candle back on the other side of the short average, late and strong enough.
Resumes(s, c, now, setup) ==
    /\ ~ Spoilt(s, c, now, setup)
    /\ ~ OnPullback(s, c)
    /\ Age(s, c, now, setup) >= MinCandles
    /\ Directed(s, c)

\* A resumption that has not run away and passes the filters enters.
Enters(s, c, now, setup) ==
    /\ setup # None
    /\ Resumes(s, c, now, setup)
    /\ ~ Overextended(s, c) /\ Filtered(c)

\* The setup is over when it is spoilt, traded or overextended; the filters keep it.
Ends(s, c, now, setup) ==
    \/ Spoilt(s, c, now, setup)
    \/ Resumes(s, c, now, setup) /\ (Overextended(s, c) \/ Filtered(c))

\* _evaluate_side: the setup of a side after a candle.
Setup(s, c, now, count, setup) ==
    CASE s \notin enabled -> setup
      [] s \in enabled /\ setup = None ->
             IF Starts(s, c, count) THEN now ELSE None
      [] s \in enabled /\ setup # None ->
             IF Ends(s, c, now, setup) THEN None ELSE setup

Evaluate(c, forward) ==
    LET setups == Before(active, forward, None)
        counts == Before(persistence, forward, 0)
        now    == IF forward THEN index + 1 ELSE 0
        taken  == {s \in enabled : Enters(s, c, now, setups[s])}
    IN  /\ index' = now
        /\ persistence' = [s \in Side |-> Counted(s, c, counts[s], setups[s])]
        /\ active' = [s \in Side |-> Setup(s, c, now, persistence'[s], setups[s])]
        /\ entry' = CASE "LONG" \in taken -> "LONG"
                      [] taken = {"SHORT"} -> "SHORT"
                      [] taken = {} -> None

Skipped == entry' = None /\ UNCHANGED coreVars

-----------------------------------------------------------------------------
(* The analyzers between two candles of an engine *)

\* A signalled entry is filled or rejected at the open, and a position may be closed
\* in the candle, so at the close the position is one of these.
Positions(forward) ==
    {None} \cup IF ~ forward THEN {}
                ELSE IF position # None THEN {position}
                ELSE {entry}

\* analyze of the Spot analyzer: a candle that loses the regime after an entry
\* signals an exit instead of being evaluated: the core does not see it, nor compares
\* its time with that of the candle before.
SpotExit(c) == SpotRegimeExit /\ entryActive /\ ~ (c.short > 0 /\ c.trend)

SpotAnalyze(c, forward) ==
    /\ market = "SPOT"
    /\ IF SpotExit(c)
       THEN forward /\ Skipped /\ entryActive' = FALSE
       ELSE Evaluate(c, forward) /\ entryActive' = (entryActive \/ entry' # None)

\* analyze of the Futures analyzer: nothing is evaluated while a position is open.
FuturesAnalyze(c, forward) ==
    /\ market = "FUTURES"
    /\ IF position' # None THEN Skipped ELSE Evaluate(c, forward)
    /\ UNCHANGED entryActive

\* The histories: what the candles alone say, counted without the core's state.
Recorded(c, forward) ==
    LET evaluated == index' # index \/ ~ forward
        older(s)  == {a + 1 : a \in {d \in Before(dips, forward, {})[s] : d < MaxCandles}}
    IN  /\ trend' = [s \in Side |->
               IF ~ evaluated THEN trend[s]
               ELSE IF ~ Foundation(s, c) THEN 0
               ELSE Before(trend, forward, 0)[s] + IF c.trend THEN 1 ELSE 0]
        /\ straight' = [s \in Side |->
               IF Matches(s, c) THEN Before(straight, forward, 0)[s] + 1 ELSE 0]
        /\ dips' = [s \in Side |->
               IF ~ Foundation(s, c) \/ (OnPullback(s, c) /\ Depth(s, c) > MaxDepth) THEN {}
               ELSE older(s) \cup IF OnPullback(s, c) /\ ValidDepth(s, c) THEN {0} ELSE {}]

\* A closed candle; it is not later than the one evaluated before when the analyzer is
\* given another segment.
Feed(c, forward) ==
    /\ fed < MaxFed
    /\ fed' = fed + 1
    /\ position' \in Positions(forward)
    /\ SpotAnalyze(c, forward) \/ FuturesAnalyze(c, forward)
    /\ Recorded(c, forward)
    /\ previous' = c
    /\ UNCHANGED <<market, enabled>>

Next == \E c \in Candle, forward \in BOOLEAN : Feed(c, forward)

Spec == Init /\ [][Next]_vars

-----------------------------------------------------------------------------
(* Correctness *)

\* Every field keeps its type; a disabled side has no setup.
TypeOK ==
    /\ index \in -1 .. MaxFed
    /\ persistence \in [Side -> Nat]
    /\ \A s \in Side : active[s] \in {None} \cup 0 .. index /\ (active[s] # None => s \in enabled)
    /\ {position, entry} \subseteq enabled \cup {None}

\* A setup only starts in an established trend: since the averages and the close took
\* its side, at least Persistence of the candles shown to the core were of the trend.
SetupNeedsTrend ==
    \A s \in Side : active[s] # None => trend[s] >= Persistence

\* An entry answers a dip of the candles themselves: one of valid depth, between
\* MinCandles and MaxCandles ago in time, since which no candle crossed the long
\* average or dipped deeper, whatever positions were open in between.
EntryAnswersDip ==
    [][\A s \in Side : entry' = s => \E a \in dips'[s] : a \in MinCandles .. MaxCandles]_vars

\* Never are both sides set up, so that which of them is preferred does not matter.
OneSideAtATime == active["LONG"] = None \/ active["SHORT"] = None

\* A dead setup does not wait for a candle to resume it.
SetupExpires == \A s \in Side : active[s] # None => index - active[s] <= MaxCandles

\* The core never carries an impossible setup from one candle to the next: not on two
\* sides, not on a disabled one, not beyond its age.
SetupsConsistent == TypeOK /\ OneSideAtATime /\ SetupExpires

-----------------------------------------------------------------------------
(* What the documentation says and the analyzers do not do. *)

\* docs/PULLBACK_HYPOTHESIS_METHODOLOGY.md:73-74: persistence counts consecutive
\* candles only.  A setup that starts without them shows the difference.
PersistenceIsConsecutive ==
    [][\A s \in Side : active[s] = None /\ active'[s] # None =>
          straight[s] + 1 >= Persistence]_vars
=============================================================================
