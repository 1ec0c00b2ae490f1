---------------------------- MODULE PullbackProofs ----------------------------
(* Theorems about PullbackContinuation, for every value of its constants.   *)
EXTENDS PullbackContinuation, TLAPS

\* TypeOK, with what bounds the index of a candle.
IInv ==
    /\ TypeOK
    /\ fed \in 0 .. MaxFed
    /\ index \in -1 .. fed - 1
    /\ market \in {"SPOT", "FUTURES"} /\ enabled \subseteq Side
    /\ SetupExpires

\* What a side is left with after a candle: no setup, the one that starts with this
\* candle, or the one it had, that is not spoilt.
LEMMA SetupCases ==
    ASSUME NEW s \in Side, NEW c, NEW now, NEW count, NEW setup,
           s \notin enabled => setup = None,
           Setup(s, c, now, count, setup) # None
    PROVE  /\ s \in enabled /\ Foundation(s, c)
           /\ \/ setup = None /\ Setup(s, c, now, count, setup) = now
              \/ /\ setup # None /\ Setup(s, c, now, count, setup) = setup
                 /\ ~ Spoilt(s, c, now, setup)
<1>1. s \in enabled
  BY DEF Setup
<1>2. CASE setup = None
  <2>1. Setup(s, c, now, count, setup) = now /\ Starts(s, c, count)
    BY <1>1, <1>2 DEF Setup
  <2> QED BY <1>1, <1>2, <2>1 DEF Starts
<1>3. CASE setup # None
  <2>1. Setup(s, c, now, count, setup) = setup /\ ~ Ends(s, c, now, setup)
    BY <1>1, <1>3 DEF Setup
  <2> QED BY <1>1, <1>3, <2>1 DEF Ends, Spoilt
<1> QED BY <1>2, <1>3

\* A candle is never on the right side of the long average for both sides.
LEMMA OneFoundation ==
    ASSUME NEW c \in Candle
    PROVE  ~ (Foundation("LONG", c) /\ Foundation("SHORT", c))
<1>1. c.short \in Int
  BY PullbackAssumption DEF Candles
<1> QED BY <1>1 DEF Foundation, Along

\* A setup that is not spoilt is not too old.
LEMMA Young ==
    ASSUME NEW s, NEW c, NEW now \in Int, NEW setup \in Int, ~ Spoilt(s, c, now, setup)
    PROVE  now - setup <= MaxCandles
<1>1. Age(s, c, now, setup) <= MaxCandles /\ Age(s, c, now, setup) \in Int
      /\ now - setup <= Age(s, c, now, setup) /\ MaxCandles \in Int
  <2>1. MaxCandles \in Int
    BY PullbackAssumption
  <2>2. Age(s, c, now, setup) \in Int /\ now - setup <= Age(s, c, now, setup)
    BY DEF Age
  <2>3. ~ (Age(s, c, now, setup) > MaxCandles)
    BY DEF Spoilt
  <2> QED BY <2>1, <2>2, <2>3
<1> QED BY <1>1

\* One evaluation of the core keeps its part of the invariant.
LEMMA EvaluateKeeps ==
    ASSUME IInv, NEW c \in Candle, NEW forward \in BOOLEAN, fed < MaxFed,
           fed' = fed + 1, Evaluate(c, forward), UNCHANGED enabled
    PROVE  /\ index' \in 0 .. fed' - 1
           /\ persistence' \in [Side -> Nat]
           /\ \A s \in Side : /\ active'[s] \in {None} \cup 0 .. index'
                              /\ active'[s] # None => s \in enabled /\ Foundation(s, c)
                              /\ active'[s] # None => index' - active'[s] <= MaxCandles
           /\ entry' \in enabled \cup {None}
<1> DEFINE setups == Before(active, forward, None)
           counts == Before(persistence, forward, 0)
           now    == IF forward THEN index + 1 ELSE 0
           taken  == {s \in enabled : Enters(s, c, now, setups[s])}
<1>1. MaxFed \in Nat /\ MaxCandles \in Nat
  BY PullbackAssumption
<1>2. now \in 0 .. fed /\ now \in Int /\ index' = now
  <2>1. now \in 0 .. fed
    BY <1>1 DEF IInv
  <2>2. index' = now
    BY DEF Evaluate
  <2> QED BY <2>1, <2>2, <1>1 DEF IInv
<1>3. counts \in [Side -> Nat]
  BY DEF IInv, TypeOK, Before
<1>4. \A s \in Side : /\ setups[s] \in {None} \cup 0 .. now
                      /\ setups[s] # None => s \in enabled
  <2>1. CASE forward
    <3>1. setups = active /\ now = index + 1
      BY <2>1 DEF Before
    <3> QED BY <3>1, <1>1, <1>2 DEF IInv, TypeOK
  <2>2. CASE ~ forward
    BY <2>2 DEF Before
  <2> QED BY <2>1, <2>2
<1>5. persistence' \in [Side -> Nat]
  <2>1. persistence' = [s \in Side |-> Counted(s, c, counts[s], setups[s])]
    BY DEF Evaluate
  <2>2. \A s \in Side : Counted(s, c, counts[s], setups[s]) \in Nat
    BY <1>3 DEF Counted
  <2> QED BY <2>1, <2>2
<1>6. ASSUME NEW s \in Side
      PROVE  /\ active'[s] \in {None} \cup 0 .. index'
             /\ active'[s] # None => s \in enabled /\ Foundation(s, c)
             /\ active'[s] # None => index' - active'[s] <= MaxCandles
  <2> DEFINE new == Setup(s, c, now, persistence'[s], setups[s])
  <2>1. active'[s] = new
    BY DEF Evaluate
  <2>2. s \notin enabled => setups[s] = None
    BY <1>4
  <2>3. CASE new = None
    BY <2>1, <2>3
  <2>4. CASE new # None
    <3> HIDE DEF setups, now
    <3>1. /\ s \in enabled /\ Foundation(s, c)
          /\ \/ setups[s] = None /\ new = now
             \/ setups[s] # None /\ new = setups[s] /\ ~ Spoilt(s, c, now, setups[s])
      BY <2>2, <2>4, SetupCases
    <3>2. CASE new = now
      BY <3>1, <3>2, <2>1, <1>1, <1>2
    <3>3. CASE setups[s] # None /\ new = setups[s] /\ ~ Spoilt(s, c, now, setups[s])
      <4>1. new \in 0 .. now /\ setups[s] \in Int
        BY <3>3, <1>4, <1>2
      <4>2. now - setups[s] <= MaxCandles
        BY <4>1, <3>3, <1>2, Young
      <4> QED BY <4>1, <4>2, <3>1, <3>3, <2>1, <1>2
    <3> QED BY <3>1, <3>2, <3>3
  <2> QED BY <2>3, <2>4
<1>7. entry' \in enabled \cup {None}
  <2>1. entry' = CASE "LONG" \in taken -> "LONG"
                   [] taken = {"SHORT"} -> "SHORT"
                   [] taken = {} -> None
    BY DEF Evaluate
  <2>2. taken \subseteq enabled /\ taken \subseteq {"LONG", "SHORT"}
    BY DEF IInv, Side
  <2> HIDE DEF taken
  <2>3. CASE "LONG" \in taken
    BY <2>1, <2>2, <2>3
  <2>4. CASE "LONG" \notin taken
    <3>1. taken = {"SHORT"} \/ taken = {}
      BY <2>2, <2>4
    <3>2. CASE taken = {"SHORT"}
      BY <2>1, <2>2, <2>4, <3>2
    <3>3. CASE taken = {}
      BY <2>1, <3>3
    <3> QED BY <3>1, <3>2, <3>3
  <2> QED BY <2>3, <2>4
<1>8. index' \in 0 .. fed' - 1
  <2>1. fed \in Int /\ fed' - 1 = fed
    BY <1>1 DEF IInv
  <2> QED BY <2>1, <1>2
<1> HIDE DEF setups, counts, now, taken
<1> QED BY <1>5, <1>6, <1>7, <1>8

\* What is the same for both analyzers: an evaluation, or nothing for the core.
LEMMA AnalyzeCases ==
    ASSUME NEW c, NEW forward, SpotAnalyze(c, forward) \/ FuturesAnalyze(c, forward)
    PROVE  Evaluate(c, forward) \/ Skipped
<1>1. CASE SpotAnalyze(c, forward)
  <2>1. CASE SpotExit(c)
    BY <1>1, <2>1 DEF SpotAnalyze
  <2>2. CASE ~ SpotExit(c)
    BY <1>1, <2>2 DEF SpotAnalyze
  <2> QED BY <2>1, <2>2
<1>2. CASE FuturesAnalyze(c, forward)
  BY <1>2, Zenon DEF FuturesAnalyze
<1> QED BY <1>1, <1>2

LEMMA InitIInv == Init => IInv
<1>1. SUFFICES ASSUME Init PROVE IInv
  OBVIOUS
<1>2. MaxFed \in Nat
  BY PullbackAssumption
<1>3. market \in {"SPOT", "FUTURES"} /\ enabled \subseteq Side
  BY <1>1 DEF Init, Side
<1>4. TypeOK
  BY <1>1, <1>2, <1>3 DEF Init, TypeOK, Zero
<1> QED BY <1>1, <1>2, <1>3, <1>4 DEF Init, IInv, SetupExpires

LEMMA NextIInv == IInv /\ [Next]_vars => IInv' /\ (OneSideAtATime => OneSideAtATime')
<1>1. SUFFICES ASSUME IInv, [Next]_vars
               PROVE  IInv' /\ (OneSideAtATime => OneSideAtATime')
  OBVIOUS
<1> USE <1>1
<1>2. MaxFed \in Nat /\ MaxCandles \in Nat
  BY PullbackAssumption
<1>3. CASE UNCHANGED vars
  BY <1>3 DEF vars, coreVars, IInv, TypeOK, SetupExpires, OneSideAtATime
<1>4. ASSUME NEW c \in Candle, NEW forward \in BOOLEAN, Feed(c, forward)
      PROVE  IInv' /\ (OneSideAtATime => OneSideAtATime')
  <2> USE <1>4
  <2>1. fed < MaxFed /\ fed' = fed + 1 /\ UNCHANGED <<market, enabled>>
        /\ position' \in Positions(forward) /\ (Evaluate(c, forward) \/ Skipped)
    BY AnalyzeCases DEF Feed
  <2>2. position' \in enabled' \cup {None}
    BY <2>1 DEF Positions, IInv, TypeOK
  <2>3. CASE Evaluate(c, forward)
    <3>1. /\ index' \in 0 .. fed' - 1
          /\ persistence' \in [Side -> Nat]
          /\ \A s \in Side : /\ active'[s] \in {None} \cup 0 .. index'
                             /\ active'[s] # None => s \in enabled /\ Foundation(s, c)
                             /\ active'[s] # None => index' - active'[s] <= MaxCandles
          /\ entry' \in enabled \cup {None}
      BY <2>1, <2>3, EvaluateKeeps
    <3>2. TypeOK'
      BY <3>1, <2>1, <2>2, <1>2 DEF TypeOK, IInv
    <3>3. SetupExpires'
      BY <3>1 DEF SetupExpires
    <3>4. OneSideAtATime'
      BY <3>1, OneFoundation DEF OneSideAtATime, Side
    <3> QED BY <3>1, <3>2, <3>3, <3>4, <2>1, <1>2 DEF IInv
  <2>4. CASE Skipped
    <3>1. entry' = None /\ UNCHANGED <<index, persistence, active>>
      BY <2>4 DEF Skipped, coreVars
    <3>2. TypeOK'
      BY <3>1, <2>1, <2>2 DEF TypeOK, IInv
    <3> QED BY <3>1, <3>2, <2>1, <1>2 DEF IInv, SetupExpires, OneSideAtATime
  <2> QED BY <2>1, <2>3, <2>4
<1> QED BY <1>3, <1>4 DEF Next

\* The analyzer's state keeps its types, whatever the candles, the parameters and the
\* positions of the engines are.
THEOREM TypeCorrect == Spec => []TypeOK
<1>1. IInv => TypeOK
  BY DEF IInv
<1> QED BY <1>1, InitIInv, NextIInv, PTL DEF Spec

\* No setup outlives pullback_max_candles evaluated candles.
THEOREM SetupsExpire == Spec => []SetupExpires
<1>1. IInv => SetupExpires
  BY DEF IInv
<1> QED BY <1>1, InitIInv, NextIInv, PTL DEF Spec

\* A long and a short setup never exist together.
THEOREM OneSide == Spec => []OneSideAtATime
<1>1. Init => OneSideAtATime
  BY DEF Init, OneSideAtATime, Side
<1> QED BY <1>1, InitIInv, NextIInv, PTL DEF Spec

\* For every parameter, candle and position of an engine, no impossible setup is ever
\* carried from one candle to the next.
THEOREM SetupsAreConsistent == Spec => []SetupsConsistent
<1>1. TypeOK /\ OneSideAtATime /\ SetupExpires => SetupsConsistent
  BY DEF SetupsConsistent
<1> QED BY <1>1, TypeCorrect, OneSide, SetupsExpire, PTL
-----------------------------------------------------------------------------
(* Setups and the candles they were made of *)

\* The core never counts more candles of the trend than there were, and a setup keeps
\* those it started with.
TrendInv ==
    /\ trend \in [Side -> Nat]
    /\ \A s \in Side : persistence[s] <= trend[s]
    /\ SetupNeedsTrend

\* What the core counts for a side after a candle, against the candles themselves.
LEMMA CountedTrend ==
    ASSUME NEW s, NEW c, NEW count \in Nat, NEW setup, NEW seen \in Nat, count <= seen
    PROVE  Counted(s, c, count, setup) <=
               IF ~ Foundation(s, c) THEN 0 ELSE seen + IF c.trend THEN 1 ELSE 0
<1>1. CASE Matches(s, c)
  <2>1. Foundation(s, c) /\ c.trend
    BY <1>1 DEF Matches
  <2> QED BY <1>1, <2>1 DEF Counted
<1>2. CASE ~ Matches(s, c) /\ Foundation(s, c)
  <2>1. ~ c.trend
    BY <1>2 DEF Matches
  <2> QED BY <1>2, <2>1 DEF Counted
<1>3. CASE ~ Foundation(s, c)
  BY <1>3 DEF Counted, Matches
<1> QED BY <1>1, <1>2, <1>3

LEMMA EvaluateTrend ==
    ASSUME IInv, TrendInv, NEW c \in Candle, NEW forward \in BOOLEAN,
           Evaluate(c, forward), Recorded(c, forward), UNCHANGED enabled
    PROVE  TrendInv'
<1> DEFINE setups == Before(active, forward, None)
           counts == Before(persistence, forward, 0)
           now    == IF forward THEN index + 1 ELSE 0
           seen   == Before(trend, forward, 0)
<1>1. Persistence \in Nat \ {0} /\ c.trend \in BOOLEAN
  BY PullbackAssumption DEF Candles
<1>2. index' # index \/ ~ forward
  BY PullbackAssumption DEF Evaluate, IInv
<1>3. trend' = [s \in Side |-> IF ~ Foundation(s, c) THEN 0
                               ELSE seen[s] + IF c.trend THEN 1 ELSE 0]
  BY <1>2 DEF Recorded
<1>4. \A s \in Side : counts[s] \in Nat /\ seen[s] \in Nat /\ counts[s] <= seen[s]
  BY DEF TrendInv, Before, IInv, TypeOK
<1>5. trend' \in [Side -> Nat]
  BY <1>3, <1>4
<1>6. ASSUME NEW s \in Side
      PROVE  persistence'[s] <= trend'[s]
  <2>1. persistence'[s] = Counted(s, c, counts[s], setups[s])
    BY DEF Evaluate
  <2> HIDE DEF counts, setups, seen
  <2> QED BY <2>1, <1>3, <1>4, CountedTrend
<1>7. ASSUME NEW s \in Side, active'[s] # None
      PROVE  trend'[s] >= Persistence
  <2> DEFINE new == Setup(s, c, now, persistence'[s], setups[s])
  <2>1. active'[s] = new
    BY DEF Evaluate
  <2>2. s \notin enabled => setups[s] = None
    BY DEF Before, IInv, TypeOK
  <2>3. /\ s \in enabled /\ Foundation(s, c)
        /\ \/ setups[s] = None
           \/ setups[s] # None
    BY <1>7, <2>1, <2>2, SetupCases
  <2>4. CASE setups[s] = None
    <3>1. Starts(s, c, persistence'[s])
      BY <1>7, <2>1, <2>3, <2>4 DEF Setup
    <3>2. persistence'[s] >= Persistence
      BY <3>1 DEF Starts
    <3>3. persistence'[s] \in Int /\ trend'[s] \in Int
      <4>1. persistence'[s] = Counted(s, c, counts[s], setups[s])
        BY DEF Evaluate
      <4> HIDE DEF counts, setups
      <4> QED BY <4>1, <1>4, <1>5 DEF Counted
    <3> QED BY <3>2, <3>3, <1>6, <1>1
  <2>5. CASE setups[s] # None
    <3>1. forward /\ active[s] # None
      BY <2>5 DEF Before
    <3>2. trend[s] >= Persistence /\ trend[s] \in Nat
      BY <3>1 DEF TrendInv, SetupNeedsTrend
    <3>3. trend'[s] = trend[s] + IF c.trend THEN 1 ELSE 0
      BY <3>1, <2>3, <1>3 DEF Before
    <3> QED BY <3>2, <3>3, <1>1
  <2> QED BY <2>4, <2>5
<1> QED BY <1>5, <1>6, <1>7 DEF TrendInv, SetupNeedsTrend

\* A candle the core does not see is not counted.
LEMMA SkippedTrend ==
    ASSUME IInv, TrendInv, NEW c \in Candle, Skipped, Recorded(c, TRUE)
    PROVE  TrendInv'
<1>1. UNCHANGED <<index, persistence, active>>
  BY DEF Skipped, coreVars
<1>2. trend' = [s \in Side |-> trend[s]]
  BY <1>1 DEF Recorded
<1> QED BY <1>1, <1>2 DEF TrendInv, SetupNeedsTrend

\* No candle is left out when the analyzer is given another segment: there is no
\* position then.
LEMMA SkippedForward ==
    ASSUME NEW c, NEW forward \in BOOLEAN, position' \in Positions(forward),
           SpotAnalyze(c, forward) \/ FuturesAnalyze(c, forward), ~ Evaluate(c, forward)
    PROVE  /\ forward /\ Skipped
           /\ \/ market = "SPOT" /\ SpotRegimeExit
              \/ market = "FUTURES" /\ position' # None
<1>1. CASE SpotAnalyze(c, forward)
  <2>1. SpotExit(c) /\ forward /\ Skipped /\ market = "SPOT"
    BY <1>1 DEF SpotAnalyze
  <2> QED BY <2>1 DEF SpotExit
<1>2. CASE FuturesAnalyze(c, forward)
  <2>1. market = "FUTURES" /\ position' # None /\ Skipped
    BY <1>2, Zenon DEF FuturesAnalyze
  <2>2. forward
    BY <2>1 DEF Positions
  <2> QED BY <2>1, <2>2
<1> QED BY <1>1, <1>2

\* A setup never exists without the trend it has to continue: however the averages and
\* the close moved since, Persistence candles of the trend were counted, none of them
\* before the foundation was last lost.
THEOREM SetupsNeedTrend == Spec => []SetupNeedsTrend
<1>1. Init => TrendInv
  <2>1. SUFFICES ASSUME Init PROVE TrendInv
    OBVIOUS
  <2> QED BY <2>1 DEF Init, TrendInv, SetupNeedsTrend, Zero
<1>2. IInv /\ TrendInv /\ [Next]_vars => TrendInv'
  <2>1. SUFFICES ASSUME IInv, TrendInv, [Next]_vars PROVE TrendInv'
    OBVIOUS
  <2>2. CASE UNCHANGED vars
    BY <2>1, <2>2 DEF vars, coreVars, TrendInv, SetupNeedsTrend
  <2>3. ASSUME NEW c \in Candle, NEW forward \in BOOLEAN, Feed(c, forward)
        PROVE  TrendInv'
    <3>1. /\ position' \in Positions(forward) /\ Recorded(c, forward)
          /\ SpotAnalyze(c, forward) \/ FuturesAnalyze(c, forward)
          /\ UNCHANGED enabled
      BY <2>3 DEF Feed
    <3>2. CASE Evaluate(c, forward)
      BY <2>1, <3>1, <3>2, EvaluateTrend
    <3>3. CASE ~ Evaluate(c, forward)
      <4>1. forward /\ Skipped
        BY <3>1, <3>3, SkippedForward
      <4>2. Recorded(c, TRUE)
        BY <3>1, <4>1
      <4> QED BY <2>1, <4>1, <4>2, SkippedTrend
    <3> QED BY <3>2, <3>3
  <2> QED BY <2>1, <2>2, <2>3 DEF Next
<1>3. TrendInv => SetupNeedsTrend
  BY DEF TrendInv
<1> QED BY <1>1, <1>2, <1>3, InitIInv, NextIInv, PTL DEF Spec

\* Every setup is the age of a dip nothing has spoilt, since no candle is left out
\* while there is one: the Futures analyzer leaves candles out in a position only, and
\* a position comes from an entry, which ends the setup.
DipInv ==
    /\ \A s \in Side : dips[s] \subseteq Nat
    /\ \A s \in Side : active[s] # None => index - active[s] \in dips[s]
    /\ market = "FUTURES" /\ (position # None \/ entry # None)
           => \A s \in Side : active[s] = None

\* The dips of a side after a candle that leaves some.
LEMMA DipsKept ==
    ASSUME DipInv, NEW c \in Candle, NEW forward \in BOOLEAN, Recorded(c, forward),
           NEW s \in Side, Foundation(s, c), ~ (OnPullback(s, c) /\ Depth(s, c) > MaxDepth)
    PROVE  /\ OnPullback(s, c) /\ ValidDepth(s, c) => 0 \in dips'[s]
           /\ \A a \in dips[s] : forward /\ a < MaxCandles => a + 1 \in dips'[s]
<1> DEFINE older(t) == {a + 1 : a \in {d \in Before(dips, forward, {})[t] : d < MaxCandles}}
<1>1. dips'[s] = older(s) \cup IF OnPullback(s, c) /\ ValidDepth(s, c) THEN {0} ELSE {}
  BY DEF Recorded
<1>2. ASSUME NEW a \in dips[s], forward, a < MaxCandles
      PROVE  a + 1 \in older(s)
  BY <1>2 DEF Before
<1> HIDE DEF older
<1> QED BY <1>1, <1>2

LEMMA DipsAreAges ==
    ASSUME DipInv, NEW c \in Candle, NEW forward \in BOOLEAN, Recorded(c, forward),
           NEW s \in Side
    PROVE  dips'[s] \subseteq Nat
<1> DEFINE older(t) == {a + 1 : a \in {d \in Before(dips, forward, {})[t] : d < MaxCandles}}
<1>1. \/ dips'[s] = {}
      \/ dips'[s] = older(s) \cup IF OnPullback(s, c) /\ ValidDepth(s, c) THEN {0} ELSE {}
  BY DEF Recorded
<1>2. older(s) \subseteq Nat
  BY DEF Before, DipInv
<1> HIDE DEF older
<1> QED BY <1>1, <1>2

\* A candle the core sees keeps the setups and the dips together, and an entry answers
\* one of them.
LEMMA EvaluateDips ==
    ASSUME IInv, DipInv, OneSideAtATime, NEW c \in Candle, NEW forward \in BOOLEAN,
           Evaluate(c, forward), Recorded(c, forward), UNCHANGED <<market, enabled>>,
           fed < MaxFed, fed' = fed + 1, market = "FUTURES" => position' = None
    PROVE  /\ DipInv'
           /\ \A s \in Side : entry' = s => \E a \in dips'[s] : a \in MinCandles .. MaxCandles
<1> DEFINE setups == Before(active, forward, None)
           now    == IF forward THEN index + 1 ELSE 0
           taken  == {s \in enabled : Enters(s, c, now, setups[s])}
<1>1. /\ MaxCandles \in Nat /\ MinCandles \in Nat /\ {MinDepth, MaxDepth} \subseteq Nat
      /\ MaxFed \in Nat /\ c.close \in Int /\ c.short \in Int /\ None \notin Side
  BY PullbackAssumption DEF Candles
<1>2. index' = now /\ now \in Int
  BY <1>1 DEF Evaluate, IInv
<1>3. \A s \in Side : setups[s] # None => /\ forward /\ setups[s] = active[s]
                                          /\ now = index + 1 /\ s \in enabled
                                          /\ setups[s] \in 0 .. index /\ index \in Int
  BY <1>1 DEF Before, IInv, TypeOK
<1>4. \A s \in Side : Depth(s, c) \in Int
  BY <1>1 DEF Depth, Along
<1>5. ASSUME NEW s \in Side, active'[s] # None
      PROVE  index' - active'[s] \in dips'[s]
  <2> DEFINE new == Setup(s, c, now, persistence'[s], setups[s])
  <2>1. active'[s] = new
    BY DEF Evaluate
  <2>2. s \notin enabled => setups[s] = None
    BY <1>3
  <2> HIDE DEF setups, now
  <2>3. /\ s \in enabled /\ Foundation(s, c)
        /\ \/ setups[s] = None /\ new = now
           \/ setups[s] # None /\ new = setups[s] /\ ~ Spoilt(s, c, now, setups[s])
    BY <1>5, <2>1, <2>2, SetupCases
  <2>4. CASE setups[s] = None /\ new = now
    <3>1. Starts(s, c, persistence'[s])
      BY <1>5, <2>1, <2>3, <2>4 DEF Setup
    <3>2. OnPullback(s, c) /\ ValidDepth(s, c) /\ ~ (Depth(s, c) > MaxDepth)
      BY <3>1, <1>1, <1>4 DEF Starts, ValidDepth
    <3>3. 0 \in dips'[s]
      BY <3>2, <2>3, DipsKept
    <3> QED BY <3>3, <2>1, <2>4, <1>2
  <2>5. CASE setups[s] # None /\ new = setups[s] /\ ~ Spoilt(s, c, now, setups[s])
    <3>1. now - setups[s] <= MaxCandles
      BY <2>5, <1>2, <1>3, Young
    <3>2. index - active[s] \in dips[s] /\ forward /\ index - active[s] < MaxCandles
      BY <3>1, <2>5, <1>1, <1>3 DEF DipInv
    <3>3. ~ (OnPullback(s, c) /\ Depth(s, c) > MaxDepth)
      BY <2>5 DEF Spoilt
    <3>4. (index - active[s]) + 1 \in dips'[s]
      BY <3>2, <3>3, <2>3, DipsKept
    <3>5. (index - active[s]) + 1 = index' - active'[s]
      BY <2>1, <2>5, <1>2, <1>3
    <3> QED BY <3>4, <3>5
  <2> QED BY <2>3, <2>4, <2>5
<1>6. ASSUME NEW s \in Side, entry' = s
      PROVE  s \in taken
  <2>1. entry' = CASE "LONG" \in taken -> "LONG"
                   [] taken = {"SHORT"} -> "SHORT"
                   [] taken = {} -> None
    BY DEF Evaluate
  <2>2. taken \subseteq {"LONG", "SHORT"}
    BY DEF IInv, Side
  <2> HIDE DEF taken
  <2>3. CASE "LONG" \in taken
    BY <1>6, <2>1, <2>3
  <2>4. CASE "LONG" \notin taken /\ taken = {"SHORT"}
    BY <1>6, <2>1, <2>4
  <2>5. CASE taken = {}
    BY <1>6, <2>1, <2>5, <1>1
  <2> QED BY <2>2, <2>3, <2>4, <2>5
<1>7. ASSUME NEW s \in taken
      PROVE  /\ s \in Side /\ setups[s] # None /\ s \in enabled
             /\ Resumes(s, c, now, setups[s]) /\ Foundation(s, c)
             /\ active'[s] = None
  <2>1. s \in Side /\ s \in enabled /\ setups[s] # None
    BY DEF Enters, IInv
  <2>2. Resumes(s, c, now, setups[s]) /\ Filtered(c)
    BY DEF Enters
  <2>3. Foundation(s, c) /\ Ends(s, c, now, setups[s])
    BY <2>2 DEF Resumes, Spoilt, Ends
  <2>4. active'[s] = Setup(s, c, now, persistence'[s], setups[s])
    BY <2>1 DEF Evaluate
  <2> HIDE DEF setups, now
  <2>5. active'[s] = None
    BY <2>1, <2>3, <2>4 DEF Setup
  <2> QED BY <2>1, <2>2, <2>3, <2>5
<1>8. ASSUME NEW s \in Side, entry' = s
      PROVE  \E a \in dips'[s] : a \in MinCandles .. MaxCandles
  <2>1. s \in taken
    BY <1>6, <1>8
  <2> HIDE DEF setups, now, taken
  <2>2. /\ setups[s] # None /\ Foundation(s, c) /\ ~ OnPullback(s, c)
        /\ ~ Spoilt(s, c, now, setups[s]) /\ Age(s, c, now, setups[s]) >= MinCandles
    BY <2>1, <1>7 DEF Resumes
  <2>3. now - setups[s] \in MinCandles .. MaxCandles
    <3>1. Age(s, c, now, setups[s]) = now - setups[s]
      BY <2>2 DEF Age
    <3>2. now - setups[s] <= MaxCandles
      BY <2>2, <1>2, <1>3, Young
    <3> QED BY <3>1, <3>2, <2>2, <1>1, <1>2, <1>3
  <2>4. index - active[s] \in dips[s] /\ forward /\ index - active[s] < MaxCandles
    BY <2>3, <2>2, <1>1, <1>3 DEF DipInv
  <2>5. (index - active[s]) + 1 \in dips'[s]
    BY <2>4, <2>2, DipsKept
  <2>6. (index - active[s]) + 1 = now - setups[s]
    BY <2>2, <1>3
  <2> QED BY <2>3, <2>5, <2>6
<1>9. ASSUME entry' # None
      PROVE  \A s \in Side : active'[s] = None
  <2>1. PICK t \in Side : entry' = t
    <3>1. entry' \in enabled \cup {None}
      BY EvaluateKeeps
    <3> QED BY <3>1, <1>9 DEF IInv
  <2>2. /\ active'[t] = None /\ Foundation(t, c) /\ setups[t] # None
    BY <2>1, <1>6, <1>7
  <2>3. ASSUME NEW s \in Side, s # t
        PROVE  active'[s] = None
    <3>1. ~ Foundation(s, c)
      BY <2>2, <2>3, OneFoundation DEF Side
    <3>2. \A r \in Side : active'[r] # None => Foundation(r, c)
      BY EvaluateKeeps
    <3> QED BY <3>1, <3>2
  <2> QED BY <2>2, <2>3
<1>10. \A s \in Side : dips'[s] \subseteq Nat
  BY DipsAreAges
<1>11. (market = "FUTURES" /\ (position # None \/ entry # None)
           => \A s \in Side : active[s] = None)'
  BY <1>9
<1>12. DipInv'
  BY <1>5, <1>10, <1>11 DEF DipInv
<1> QED BY <1>8, <1>12

\* An entry answers a dip of the candles themselves, unless regime_loss_exit lets the
\* Spot analyzer pass over candles (strategy/pullback.py:779-785).
THEOREM EntriesAnswerDips ==
    Spec /\ (SpotRegimeExit => market = "FUTURES") => EntryAnswersDip
<1> DEFINE Seen == SpotRegimeExit => market = "FUTURES"
           Answers == \A s \in Side : entry' = s => \E a \in dips'[s] : a \in MinCandles .. MaxCandles
<1>1. Init => DipInv /\ OneSideAtATime
  BY DEF Init, DipInv, OneSideAtATime, Side
<1>2. IInv /\ DipInv /\ OneSideAtATime /\ Seen /\ [Next]_vars
          => DipInv' /\ Seen' /\ [Answers]_vars
  <2>1. SUFFICES ASSUME IInv, DipInv, OneSideAtATime, Seen, [Next]_vars
                 PROVE  DipInv' /\ Seen' /\ [Answers]_vars
    OBVIOUS
  <2>2. CASE UNCHANGED vars
    BY <2>1, <2>2 DEF vars, coreVars, DipInv
  <2>3. ASSUME NEW c \in Candle, NEW forward \in BOOLEAN, Feed(c, forward)
        PROVE  DipInv' /\ Seen' /\ Answers
    <3>1. /\ position' \in Positions(forward) /\ Recorded(c, forward)
          /\ SpotAnalyze(c, forward) \/ FuturesAnalyze(c, forward)
          /\ UNCHANGED <<market, enabled>> /\ fed < MaxFed /\ fed' = fed + 1
      BY <2>3 DEF Feed
    <3>2. CASE Evaluate(c, forward) /\ (market = "FUTURES" => position' = None)
      BY <2>1, <3>1, <3>2, EvaluateDips
    <3>3. CASE market = "FUTURES" /\ position' # None
      <4>1. \A s \in Side : active[s] = None
        BY <2>1, <3>1, <3>3 DEF DipInv, Positions
      <4>2. entry' = None /\ active' = active
        BY <3>1, <3>3, Zenon DEF FuturesAnalyze, SpotAnalyze, Skipped, coreVars
      <4>3. \A s \in Side : dips'[s] \subseteq Nat
        BY <2>1, <3>1, DipsAreAges
      <4>4. DipInv'
        BY <4>1, <4>2, <4>3 DEF DipInv
      <4> QED BY <2>1, <3>1, <4>2, <4>4, PullbackAssumption
    <3>4. CASE ~ Evaluate(c, forward)
      <4>1. market = "FUTURES" /\ position' # None
        <5>1. \/ market = "SPOT" /\ SpotRegimeExit
              \/ market = "FUTURES" /\ position' # None
          BY <3>1, <3>4, SkippedForward
        <5> QED BY <5>1, <2>1
      <4> QED BY <4>1, <3>3
    <3> QED BY <3>2, <3>3, <3>4
  <2> QED BY <2>1, <2>2, <2>3 DEF Next
<1>3. Answers <=> \A s \in Side : entry' = s => \E a \in dips'[s] : a \in MinCandles .. MaxCandles
  OBVIOUS
<1> QED BY <1>1, <1>2, <1>3, InitIInv, NextIInv, PTL DEF Spec, EntryAnswersDip

=============================================================================
