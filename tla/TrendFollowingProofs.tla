------------------------ MODULE TrendFollowingProofs ------------------------
(* Theorems about the trend engine for any prices, costs, percentages, stops, *)
(* funding, capital and number of days, under either risk policy.             *)
EXTENDS TrendFollowing, FiniteSetTheorems, WellFoundedInduction, TLAPS

-----------------------------------------------------------------------------
(* The inductive invariant, as predicates of the locals s of run and of the   *)
(* trades l, so that each step of an hour can be followed on its own.         *)

Sides     == {"LONG", "SHORT"}
Modes     == {"NORMAL", "DEFENSIVE"}
Equities  == {e \in Int : e > 0} \cup {None}
Positions == [side : Sides, quantity : {q \in Int : q > 0}, entry : Int, fee : Int,
              before : {e \in Int : e > 0}, mode : Modes, funding : Int, liquidation : Int,
              opened : Nat, decided : Nat]
Pendings  == [action : {"EXIT"}, reason : Structural, decided : Nat]
             \cup [action : {"ENTRY"}, side : Sides, stop : Int, decided : Nat]
Risks     == [mode : Modes, losses : Nat, target : Equities, start : Equities]
States    == [wallet : Int, position : Positions \cup {Flat}, pending : Pendings \cup {Idle},
              risk : Risks, kill : Nat, raised : BOOLEAN]
Trades    == Seq([structural : BOOLEAN, liquidated : BOOLEAN, net : Int, mode : Modes])

\* The checks of RiskState.
Checked(r) ==
    /\ r.mode = "NORMAL" => r.target = None /\ r.losses < 3
    /\ r.mode = "DEFENSIVE" => r.target # None /\ r.target = r.start

\* What the open position cost and was paid.
Held(s) == IF Open(s)
           THEN s.position.funding - s.position.fee
                - IF Futures THEN 0 ELSE s.position.entry * s.position.quantity
           ELSE 0

\* The books: the wallet, and the equity that an open position remembers.
Booked(s, l) ==
    /\ ~ s.raised => s.wallet = Realized(l)[Len(l)] + Held(s)
    /\ Open(s) => s.position.before = Realized(l)[Len(l)]

\* At full risk the machine counts exactly the losses that end the log, and its start
\* is the equity before them, which none of them brought back.
Streak(r, l) ==
    r.mode = "NORMAL" =>
        /\ r.losses <= Len(l) /\ (r.losses = 0 <=> r.start = None)
        /\ ~ config.defensive => r.losses = 0
        /\ r.losses > 0 => r.start = Realized(l)[Len(l) - r.losses]
        /\ \A j \in Len(l) - r.losses + 1 .. Len(l) :
              l[j].structural /\ l[j].net < 0 /\ Realized(l)[j] < r.start

\* The last m trades are losses of structural exits, entered at full risk.
Trailing(l, m) ==
    /\ m <= Len(l)
    /\ \A i \in Len(l) - m + 1 .. Len(l) : l[i].structural /\ l[i].net < 0 /\ l[i].mode = "NORMAL"

\* The mode the present or the next position is entered in.
Mode(s) == IF Open(s) THEN s.position.mode ELSE s.risk.mode

Followed(s, l) ==
    /\ Open(s) /\ s.position.mode = "NORMAL" => s.risk.mode = "NORMAL"
    /\ config.defensive /\ Mode(s) = "NORMAL" =>
          \A m \in 1 .. 3 : Trailing(l, m) => s.risk.losses >= m
    /\ ~ Open(s) /\ s.risk.mode = "DEFENSIVE" /\ Trailing(l, 1) => Realized(l)[Len(l)] < s.risk.target

\* A liquidation costs money.  Funding could pay for one.
LiquidationsLose == \A i \in DOMAIN log : log[i].liquidated => log[i].net < 0

\* From trade k on the log explains the target of the defensive mode.
Explains(k, r, l) ==
    /\ l[k].net < 0 /\ Realized(l)[k - 1] = r.target
    /\ \/ Cardinality({j \in k .. Len(l) : l[j].structural /\ l[j].net < 0}) >= 3
       \/ \E j \in k .. Len(l) : l[j].liquidated
    /\ \A j \in k .. Len(l) : Realized(l)[j] < r.target

Targeted(r, l) ==
    (\A i \in DOMAIN l : l[i].liquidated => l[i].net < 0) /\ r.mode = "DEFENSIVE" =>
        \E k \in DOMAIN l : Explains(k, r, l)

\* The trade that closing a position adds to the log.
TradeOf(p, reference, reason) ==
    [structural |-> reason \in Structural, liquidated |-> reason = "LIQUIDATION",
     net |-> Net(p, reference, reason), mode |-> p.mode]

\* The account after any step of an hour, and at the end of a day.
Account(s, l) ==
    /\ s \in States /\ l \in Trades
    /\ Checked(s.risk) /\ Booked(s, l) /\ Followed(s, l) /\ Targeted(s.risk, l)

\* A decision is the one of the day before; a position was entered the day after one.
Timely(s) ==
    /\ Open(s) => /\ s.position.side \in config.sides
                  /\ s.position.opened = s.position.decided + 1
    /\ s.pending # Idle => /\ s.pending.decided + 1 = day
                           /\ s.pending.action = "ENTRY" => s.pending.side \in config.sides

Ranges ==
    /\ config \in Configs /\ day \in 1 .. Days + 1 /\ hour \in 0 .. Hours /\ price \in Price

\* The last, forced, trade does not count as a loss.
TrendInv ==
    /\ Ranges /\ Account(state, log) /\ Timely(state)
    /\ day <= Days => Streak(state.risk, log)

-----------------------------------------------------------------------------
(* The running equity. *)

\* A set of numbers has a least element.
LEMMA LeastNatural ==
    ASSUME NEW T, T \subseteq Nat, T # {}
    PROVE  \E m \in T : \A k \in T : m <= k
<1> DEFINE Upto == {0 .. n : n \in T}
<1>1. Upto \subseteq FiniteSubsetsOf(Nat)
  <2>1. \A n \in T : IsFiniteSet(0 .. n)
    BY FS_Interval
  <2> QED BY <2>1 DEF FiniteSubsetsOf
<1>2. \E x \in Upto : \A y \in Upto : <<y, x>> \notin StrictSubsetOrdering(Nat)
  <2>1. IsWellFoundedOn(StrictSubsetOrdering(Nat), FiniteSubsetsOf(Nat))
    BY FS_StrictSubsetOrderingWellFounded
  <2>2. Upto # {}
    OBVIOUS
  <2> HIDE DEF Upto
  <2> QED BY <1>1, <2>1, <2>2, WFMin
<1>3. PICK m \in T : \A k \in T : <<0 .. k, 0 .. m>> \notin StrictSubsetOrdering(Nat)
  BY <1>2
<1>4. ASSUME NEW k \in T, k < m
      PROVE  FALSE
  <2>1. 0 .. k \subseteq 0 .. m /\ 0 .. k # 0 .. m
    BY <1>4
  <2>2. <<0 .. k, 0 .. m>> \in StrictSubsetOrdering(Nat)
    BY <2>1 DEF StrictSubsetOrdering
  <2> QED BY <1>3, <2>2
<1> QED BY <1>4

\* The running equity is the recursion it is defined by.
LEMMA RealizedDef ==
    ASSUME NEW l, Len(l) \in Nat
    PROVE  Realized(l) = [n \in 0 .. Len(l) |->
                             IF n = 0 THEN Capital ELSE Realized(l)[n-1] + l[n].net]
<1> DEFINE N == Len(l)
           Plus(x, i) == x + l[i].net
           IsRun(g, n) ==
             g = [i \in 0 .. n |-> IF i = 0 THEN Capital ELSE Plus(g[i-1], i)]
           Bad == {n \in 0 .. N : ~ \E g : IsRun(g, n)}
<1>1. Bad = {}
  <2> SUFFICES ASSUME Bad # {} PROVE FALSE
    OBVIOUS
  <2>1. PICK least \in Bad : \A k \in Bad : least <= k
    <3>1. Bad \subseteq Nat
      OBVIOUS
    <3> HIDE DEF Bad
    <3> QED BY <1>1, <3>1, LeastNatural
  <2>2. CASE least = 0
    <3>1. IsRun([i \in 0 .. 0 |-> Capital], 0)
      BY SMT
    <3> QED BY <2>1, <2>2, <3>1
  <2>3. CASE least # 0
    <3>1. least - 1 \in 0 .. N /\ least - 1 \notin Bad
      <4>1. Bad \subseteq 0 .. N
        OBVIOUS
      <4> HIDE DEF Bad
      <4>2. least - 1 \in 0 .. N
        BY <4>1, <2>3
      <4> QED BY <2>1, <4>1, <4>2
    <3>2. PICK g : IsRun(g, least - 1)
      BY <3>1
    <3> DEFINE h == [i \in 0 .. least |-> IF i < least THEN g[i] ELSE Plus(g[least-1], least)]
    <3>3. \A i \in 0 .. least : h[i] = IF i = 0 THEN Capital ELSE Plus(h[i-1], i)
      <4> TAKE i \in 0 .. least
      <4> HIDE DEF Plus
      <4>1. CASE i = 0
        BY <3>2, <4>1, <2>1, <2>3
      <4>2. CASE i # 0 /\ i < least
        BY <3>2, <4>2, <2>1, <2>3
      <4>3. CASE i = least
        BY <4>3, <2>1, <2>3
      <4> QED BY <4>1, <4>2, <4>3, <2>1
    <3>4. IsRun(h, least)
      <4> HIDE DEF Plus
      <4> QED BY <3>3, <2>1
    <3> QED BY <2>1, <3>4
  <2> QED BY <2>2, <2>3
<1>2. \E g : IsRun(g, N)
  BY <1>1
<1> DEFINE run == CHOOSE g : IsRun(g, N)
<1>3. Realized(l) = run
  BY DEF Realized
<1>4. IsRun(run, N)
  <2> HIDE DEF IsRun
  <2> QED BY <1>2
<1> HIDE DEF run
<1> QED BY <1>3, <1>4

LEMMA TradesType ==
    ASSUME NEW l \in Trades
    PROVE  /\ Len(l) \in Nat
           /\ \A i \in 1 .. Len(l) : l[i].net \in Int
           /\ DOMAIN l = 1 .. Len(l)
<1> DEFINE R == [structural : BOOLEAN, liquidated : BOOLEAN, net : Int, mode : Modes]
<1>1. l \in Seq(R)
  BY DEF Trades
<1>2. \A r \in R : r.net \in Int
  OBVIOUS
<1> HIDE DEF R
<1> QED BY <1>1, <1>2

LEMMA TradeAppended ==
    ASSUME NEW l \in Trades, NEW t
    PROVE  /\ Len(Append(l, t)) = Len(l) + 1
           /\ Append(l, t)[Len(l) + 1] = t
           /\ \A i \in 1 .. Len(l) : Append(l, t)[i] = l[i]
           /\ DOMAIN Append(l, t) = 1 .. Len(l) + 1
<1> DEFINE R == [structural : BOOLEAN, liquidated : BOOLEAN, net : Int, mode : Modes]
<1>1. l \in Seq(R)
  BY DEF Trades
<1> HIDE DEF R
<1> QED BY <1>1

\* Its values are numbers.
LEMMA RealizedInt ==
    ASSUME NEW l \in Trades
    PROVE  \A i \in 0 .. Len(l) : Realized(l)[i] \in Int
<1> DEFINE Bad == {n \in 0 .. Len(l) : Realized(l)[n] \notin Int}
<1>1. SUFFICES ASSUME Bad # {} PROVE FALSE
  OBVIOUS
<1>2. Len(l) \in Nat /\ \A i \in 1 .. Len(l) : l[i].net \in Int
  BY TradesType
<1>3. PICK n \in Bad : \A k \in Bad : n <= k
  <2>1. Bad \subseteq Nat
    BY <1>2
  <2> HIDE DEF Bad
  <2> QED BY <1>1, <2>1, LeastNatural
<1>4. Realized(l)[n] = IF n = 0 THEN Capital ELSE Realized(l)[n-1] + l[n].net
  <2>1. Realized(l) = [k \in 0 .. Len(l) |-> IF k = 0 THEN Capital ELSE Realized(l)[k-1] + l[k].net]
    BY <1>2, RealizedDef
  <2> QED BY <2>1, <1>3
<1>5. n # 0
  BY <1>3, <1>4, TrendAssumption
<1>6. n - 1 \in 0 .. Len(l) /\ n \in 1 .. Len(l) /\ ~ (n <= n - 1)
  BY <1>2, <1>3, <1>5
<1>7. Realized(l)[n-1] \in Int
  BY <1>3, <1>6
<1> QED BY <1>2, <1>3, <1>4, <1>5, <1>6, <1>7

\* A trade leaves the equities before it, and adds what it brought.
LEMMA RealizedAppended ==
    ASSUME NEW l \in Trades, NEW t, t.net \in Int
    PROVE  /\ \A i \in 0 .. Len(l) : Realized(Append(l, t))[i] = Realized(l)[i]
           /\ Realized(Append(l, t))[Len(l) + 1] = Realized(l)[Len(l)] + t.net
<1> DEFINE m == Append(l, t)
           Bad == {n \in 0 .. Len(l) : Realized(m)[n] # Realized(l)[n]}
<1>1. /\ Len(l) \in Nat /\ Len(m) = Len(l) + 1 /\ m[Len(l) + 1] = t
      /\ \A i \in 1 .. Len(l) : m[i] = l[i]
  BY TradesType, TradeAppended
<1>2. /\ \A n \in 0 .. Len(l) : Realized(l)[n] = IF n = 0 THEN Capital ELSE Realized(l)[n-1] + l[n].net
      /\ \A n \in 0 .. Len(m) : Realized(m)[n] = IF n = 0 THEN Capital ELSE Realized(m)[n-1] + m[n].net
  <2> HIDE DEF m
  <2>1. Len(m) \in Nat
    BY <1>1
  <2>2. Realized(l) = [n \in 0 .. Len(l) |-> IF n = 0 THEN Capital ELSE Realized(l)[n-1] + l[n].net]
    BY <1>1, RealizedDef
  <2>3. Realized(m) = [n \in 0 .. Len(m) |-> IF n = 0 THEN Capital ELSE Realized(m)[n-1] + m[n].net]
    BY <2>1, RealizedDef
  <2> QED BY <2>2, <2>3
<1>3. Bad = {}
  <2> SUFFICES ASSUME Bad # {} PROVE FALSE
    OBVIOUS
  <2>1. PICK n \in Bad : \A k \in Bad : n <= k
    <3>1. Bad \subseteq Nat
      BY <1>1
    <3> HIDE DEF Bad
    <3> QED BY <3>1, LeastNatural
  <2> HIDE DEF m
  <2>2. n \in 0 .. Len(l) /\ n \in 0 .. Len(m)
    BY <1>1, <2>1
  <2>3. n # 0
    BY <1>2, <2>1, <2>2
  <2>4. n - 1 \in 0 .. Len(l) /\ n \in 1 .. Len(l) /\ ~ (n <= n - 1)
    BY <1>1, <2>2, <2>3
  <2>5. Realized(m)[n-1] = Realized(l)[n-1]
    BY <2>1, <2>4
  <2> QED BY <1>1, <1>2, <2>1, <2>2, <2>3, <2>4, <2>5
<1>4. \A i \in 0 .. Len(l) : Realized(m)[i] = Realized(l)[i]
  BY <1>3
<1> HIDE DEF m
<1>5. Len(l) + 1 \in 0 .. Len(m) /\ Len(l) + 1 # 0 /\ Len(l) + 1 - 1 = Len(l) /\ Len(l) \in 0 .. Len(l)
  BY <1>1
<1>6. Realized(m)[Len(l) + 1] = Realized(m)[Len(l)] + m[Len(l) + 1].net
  BY <1>2, <1>5
<1>7. Realized(m)[Len(l) + 1] = Realized(l)[Len(l)] + t.net
  BY <1>1, <1>4, <1>5, <1>6
<1> QED BY <1>4, <1>7 DEF m

-----------------------------------------------------------------------------
(* The machine of the risk state: what a trade does to it. *)

LEMMA Amounts ==
    /\ Cost \in Nat /\ Fee \in Nat /\ Buffer \in Nat /\ PositionPercent \in Nat
    /\ NormalPercent \in Nat /\ DefensivePercent \in Nat
    /\ Capital \in Nat /\ Capital > 0 /\ Days \in Nat /\ Hours \in Nat /\ Days > 0 /\ Hours > 0
    /\ LiquidationFee \in Nat /\ Maintenance \in Nat
    /\ \A p \in Price : p \in Int /\ p > 0 /\ p - Cost > 0
    /\ \A x \in Spikes \cup Stops : x \in Int
    /\ \A x \in Rates : x \in Int
<1>1. \A p \in Price : p \in Nat /\ p > 0 /\ Cost < p /\ Cost \in Nat
  BY RiskAssumption, TrendAssumption
<1> QED BY <1>1, RiskAssumption, TrendAssumption

\* A liquidation ends in the defensive mode, aiming at the start of the sequence.
LEMMA LiquidationRecorded ==
    ASSUME NEW r \in Risks, Checked(r), NEW before \in Int, before > 0,
           NEW d, NEW net, NEW after
    PROVE  LET q == record_trade(r, d, "LIQUIDATION", net, before, after)
           IN  /\ q \in Risks /\ q.mode = "DEFENSIVE" /\ q.target = q.start
               /\ q.target = IF r.start = None THEN before ELSE r.start
<1>1. r.start = None => r.target = None
  BY DEF Checked, Risks, Modes
<1> DEFINE q == record_trade(r, d, "LIQUIDATION", net, before, after)
           g == IF r.start = None THEN before ELSE r.start
<1>2. q = [r EXCEPT !.mode = "DEFENSIVE", !.target = g, !.start = g]
  BY <1>1 DEF record_trade, Liquidated, SequenceStart
<1>3. g \in Equities
  BY DEF Risks, Equities
<1> HIDE DEF q, g
<1>4. q \in Risks /\ q.mode = "DEFENSIVE" /\ q.target = g /\ q.start = g
  BY <1>2, <1>3 DEF Risks, Modes
<1> QED BY <1>4 DEF q, g

\* Any other trade in the defensive mode ends the mode when the target is back.
LEMMA DefensiveRecorded ==
    ASSUME NEW r \in Risks, Checked(r), r.mode = "DEFENSIVE", NEW before \in Int, NEW d \in BOOLEAN,
           NEW reason, reason # "LIQUIDATION", NEW net \in Int, NEW after \in Int
    PROVE  LET q == record_trade(r, d, reason, net, before, after)
           IN  /\ q \in Risks
               /\ after >= r.target => q = NormalRisk
               /\ after < r.target =>
                     q.mode = "DEFENSIVE" /\ q.target = r.target /\ q.start = r.start
<1> DEFINE q == record_trade(r, d, reason, net, before, after)
           j == Judged(r, d, reason, net, before)
<1>1. j = r \/ j = [r EXCEPT !.losses = @ + 1]
  BY DEF Judged, Lost
<1>2. j \in Risks /\ j.mode = "DEFENSIVE" /\ j.target = r.target /\ j.start = r.start
  <2> HIDE DEF j
  <2> QED BY <1>1 DEF Risks, Modes
<1>3. q = IF after >= j.target THEN NormalRisk ELSE j
  BY <1>2 DEF record_trade, observe_equity
<1>4. NormalRisk \in Risks
  BY DEF NormalRisk, Risks, Modes, Equities
<1>5. r.target \in Int
  BY DEF Risks, Equities, None
<1> HIDE DEF q, j
<1>6. /\ q \in Risks
      /\ after >= r.target => q = NormalRisk
      /\ after < r.target => q.mode = "DEFENSIVE" /\ q.target = r.target /\ q.start = r.start
  BY <1>2, <1>3, <1>4, <1>5
<1> QED BY <1>6 DEF q

\* At full risk a structural loss lengthens the sequence, and the third ends full risk.
Lengthened(r, q, before, after) ==
    LET g == SequenceStart(r, before)
    IN  /\ q \in Risks
        /\ r.losses < 2 => /\ q.mode = "NORMAL" /\ q.losses = r.losses + 1
                           /\ q.target = None /\ q.start = g
        /\ r.losses = 2 /\ after < g => q.mode = "DEFENSIVE" /\ q.target = g /\ q.start = g
        /\ r.losses = 2 /\ after >= g => q = NormalRisk

LEMMA LossRecorded ==
    ASSUME NEW r \in Risks, Checked(r), r.mode = "NORMAL", NEW before \in Int, before > 0,
           NEW reason \in Structural, NEW net \in Int, net < 0, NEW after \in Int,
           NEW d \in BOOLEAN, d
    PROVE  Lengthened(r, record_trade(r, d, reason, net, before, after), before, after)
<1> DEFINE j == Judged(r, d, reason, net, before)
           q == record_trade(r, d, reason, net, before, after)
           g == SequenceStart(r, before)
           c == Counted(r, before)
<1>0. r.losses \in Nat /\ r.losses < 3 /\ r.target = None
  BY DEF Checked, Risks
<1>1. g \in Equities /\ g \in Int
  BY DEF Risks, Equities, None, SequenceStart
<1> HIDE DEF g
<1>2. /\ c \in Risks /\ c.mode = "NORMAL" /\ c.losses = r.losses + 1 /\ c.start = g
      /\ c.target = None
  <2> DEFINE n == r.losses + 1
  <2>1. c = [r EXCEPT !.losses = n, !.start = g]
    BY DEF Counted, g
  <2>2. n \in Nat
    BY <1>0
  <2> HIDE DEF c, n
  <2>3. c \in Risks /\ c.mode = r.mode /\ c.losses = n /\ c.start = g /\ c.target = r.target
    BY <2>1, <2>2, <1>1 DEF Risks
  <2> QED BY <2>3, <1>0 DEF n
<1>3. j = IF c.losses >= 3 THEN Activated(c) ELSE c
  <2>1. j = Lost(r, d, before)
    BY DEF Judged
  <2>2. Lost(r, d, before) = IF r.losses + 1 >= 3 THEN Activated(c) ELSE c
    BY DEF Lost
  <2> HIDE DEF j, c
  <2> QED BY <2>1, <2>2, <1>2
<1>4. q = IF j.mode = "DEFENSIVE" /\ after >= j.target THEN NormalRisk ELSE j
  BY DEF record_trade, observe_equity, Structural
<1>5. NormalRisk \in Risks
  BY DEF NormalRisk, Risks, Modes, Equities
<1> HIDE DEF j, c, q
<1>6. ASSUME r.losses < 2
      PROVE  q \in Risks /\ q.mode = "NORMAL" /\ q.losses = r.losses + 1 /\ q.target = None /\ q.start = g
  <2>1. j = c
    BY <1>0, <1>2, <1>3, <1>6
  <2>2. q = c
    BY <2>1, <1>2, <1>4
  <2> QED BY <2>2, <1>2
<1>7. ASSUME r.losses = 2
      PROVE  /\ q \in Risks
             /\ after < g => q.mode = "DEFENSIVE" /\ q.target = g /\ q.start = g
             /\ after >= g => q = NormalRisk
  <2>1. j = [c EXCEPT !.mode = "DEFENSIVE", !.target = c.start]
    BY <1>2, <1>3, <1>7 DEF Activated
  <2>2. j \in Risks /\ j.mode = "DEFENSIVE" /\ j.target = g /\ j.start = g
    BY <2>1, <1>1, <1>2 DEF Risks, Modes
  <2>3. CASE after >= g
    <3>1. q = NormalRisk
      BY <2>2, <2>3, <1>4
    <3>2. ~ (after < g)
      BY <2>3, <1>1
    <3> QED BY <3>1, <3>2, <1>5, Zenon
  <2>4. CASE ~ (after >= g)
    <3>1. q = j
      BY <2>2, <2>4, <1>4
    <3> QED BY <2>2, <2>4, <3>1, <1>1
  <2> QED BY <2>3, <2>4
<1>8. r.losses < 2 \/ r.losses = 2
  BY <1>0
<1> QED BY <1>6, <1>7, <1>8 DEF Lengthened, q, g

\* At full risk every other trade ends the sequence or leaves it alone.
LEMMA OtherRecorded ==
    ASSUME NEW r \in Risks, Checked(r), r.mode = "NORMAL", NEW before \in Int, NEW d \in BOOLEAN,
           NEW reason, reason # "LIQUIDATION", NEW net \in Int, NEW after \in Int,
           ~ (d /\ reason \in Structural /\ net < 0)
    PROVE  LET q == record_trade(r, d, reason, net, before, after)
           IN  /\ reason \in Structural /\ d => q = Ended(r)
               /\ ~ (reason \in Structural /\ d) /\ reason \in Structural \cup Excluded => q = r
<1> DEFINE q == record_trade(r, d, reason, net, before, after)
           j == Judged(r, d, reason, net, before)
<1>1. ASSUME reason \in Structural, d
      PROVE  j = Ended(r)
  <2>1. reason \in Structural /\ reason \notin Excluded
    BY <1>1 DEF Structural, Excluded
  <2>2. net >= 0 /\ ~ (net < 0)
    BY <1>1
  <2> QED BY <1>1, <2>1, <2>2, Zenon DEF Judged
<1>2. ASSUME ~ (reason \in Structural /\ d), reason \in Structural \cup Excluded
      PROVE  j = r
  BY <1>2 DEF Judged, Lost, Structural, Excluded
<1>3. Ended(r).mode = "NORMAL"
  BY DEF Risks, Ended
<1>4. q = IF j.mode = "DEFENSIVE" /\ after >= j.target THEN NormalRisk ELSE j
  BY DEF record_trade, observe_equity
<1> HIDE DEF q, j
<1>5. reason \in Structural /\ d => q = Ended(r)
  BY <1>1, <1>3, <1>4
<1>6. ~ (reason \in Structural /\ d) /\ reason \in Structural \cup Excluded => q = r
  BY <1>2, <1>4
<1> QED BY <1>5, <1>6 DEF q

-----------------------------------------------------------------------------
(* Steps that leave the account alone, and funding. *)

LEMMA ConfigType ==
    ASSUME config \in Configs
    PROVE  /\ config.market \in {"spot", "futures"} /\ config.sides \subseteq Sides
           /\ config.defensive \in BOOLEAN
  BY TrendAssumption DEF Sides

LEMMA Positioned ==
    ASSUME NEW s \in States
    PROVE  Open(s) <=> s.position \in Positions
<1>1. \A p \in Positions : p.side # "NONE"
  BY DEF Positions, Sides
<1>2. Flat.side = "NONE"
  BY DEF Flat
<1>3. s.position \in Positions \cup {Flat}
  BY DEF States
<1>4. Flat \notin Positions
  BY <1>1, <1>2
<1> QED BY <1>3, <1>4 DEF Open

\* What the account says depends on the wallet, the position and the risk alone, and
\* once the run has raised no more on the wallet.
LEMMA SameAccount ==
    ASSUME NEW s, NEW u \in States, NEW l, Account(s, l),
           u.position = s.position, u.risk = s.risk,
           u.raised \/ (u.raised = s.raised /\ u.wallet = s.wallet)
    PROVE  Account(u, l)
<1>1. Booked(u, l)
  BY DEF Account, Booked, Held, Open
<1>2. Followed(u, l)
  BY DEF Account, Followed, Mode, Open
<1> QED BY <1>1, <1>2 DEF Account

LEMMA SignType == \A side : Sign(side) = 1 \/ Sign(side) = -1
  BY DEF Sign

\* Funding moves the wallet and what the position was paid together.
LEMMA FundingBooked ==
    ASSUME NEW s, NEW l, Account(s, l), NEW rate \in Rates
    PROVE  LET u == Funded(s, rate)
           IN  /\ Account(u, l)
               /\ u.pending = s.pending /\ u.risk = s.risk /\ u.kill = s.kill /\ u.raised = s.raised
               /\ Open(u) <=> Open(s)
               /\ Open(s) => /\ u.position.side = s.position.side
                             /\ u.position.liquidation = s.position.liquidation
                             /\ u.position.opened = s.position.opened
                             /\ u.position.decided = s.position.decided
<1> DEFINE u == Funded(s, rate)
           flow == - Sign(s.position.side) * rate * s.position.quantity
<1>1. CASE ~ (Futures /\ Open(s))
  BY <1>1 DEF Funded
<1>2. CASE Futures /\ Open(s)
  <2>0. s \in States
    BY DEF Account
  <2>1. s.position \in Positions
    BY <1>2, <2>0, Positioned
  <2>2. rate \in Int /\ s.position.quantity \in Int
    BY <2>1, Amounts DEF Positions
  <2>3. flow \in Int
    <3> DEFINE x == Sign(s.position.side) * rate
    <3>1. x \in Int
      BY <2>2, SignType
    <3> HIDE DEF x
    <3>2. - (x * s.position.quantity) \in Int
      BY <2>2, <3>1
    <3> QED BY <3>2 DEF x
  <2> DEFINE p == Paid(s.position, flow)
  <2>4. u = [s EXCEPT !.wallet = @ + flow, !.position = p]
    BY <1>2 DEF Funded
  <2> HIDE DEF flow, u
  <2>5. /\ p \in Positions /\ p.funding = s.position.funding + flow
        /\ p.side = s.position.side /\ p.quantity = s.position.quantity
        /\ p.entry = s.position.entry /\ p.fee = s.position.fee /\ p.before = s.position.before
        /\ p.mode = s.position.mode /\ p.liquidation = s.position.liquidation
        /\ p.opened = s.position.opened /\ p.decided = s.position.decided
    BY <2>1, <2>3 DEF Positions, Paid
  <2> DEFINE w == s.wallet + flow
  <2>6. s.wallet \in Int /\ w \in Int
    BY <2>0, <2>3 DEF States
  <2>7. u = [s EXCEPT !.wallet = w, !.position = p]
    BY <2>4
  <2> HIDE DEF p, w
  <2>8. /\ u \in States /\ u.wallet = w /\ u.position = p
        /\ u.pending = s.pending /\ u.risk = s.risk /\ u.kill = s.kill /\ u.raised = s.raised
    BY <2>0, <2>5, <2>6, <2>7 DEF States
  <2>9. Open(u)
    BY <2>5, <2>8, Positioned
  <2>10. Booked(u, l)
    <3>1. Booked(s, l)
      BY DEF Account
    <3>2. Held(u) = Held(s) + flow
      BY <1>2, <2>1, <2>3, <2>5, <2>8, <2>9 DEF Held, Positions
    <3>3. Held(s) \in Int
      BY <1>2, <2>1 DEF Held, Positions
    <3>4. Realized(l)[Len(l)] \in Int
      BY RealizedInt, TradesType DEF Account
    <3> QED BY <1>2, <2>3, <2>5, <2>6, <2>8, <2>9, <3>1, <3>2, <3>3, <3>4 DEF Booked, w
  <2>11. Followed(u, l)
    BY <1>2, <2>5, <2>8, <2>9 DEF Account, Followed, Mode
  <2>12. Account(u, l)
    BY <2>8, <2>10, <2>11 DEF Account
  <2> QED BY <1>2, <2>5, <2>8, <2>9, <2>12 DEF u
<1> QED BY <1>1, <1>2

-----------------------------------------------------------------------------
(* Entering a position *)

LEMMA FloorPositive ==
    ASSUME NEW a \in Int, a >= 0, NEW b \in Int, b > 0
    PROVE  a \div b \in Int /\ a \div b >= 0
  OBVIOUS

LEMMA ProductNat ==
    ASSUME NEW a \in Int, a >= 0, NEW b \in Int, b >= 0
    PROVE  a * b \in Int /\ a * b >= 0
  OBVIOUS

\* A size is a natural number.
LEMMA SizeType ==
    ASSUME NEW market, NEW side, NEW equity \in Int, equity > 0, NEW percent \in Nat,
           NEW entry \in Int, entry > 0, NEW stop \in Int
    PROVE  size_position(market, side, equity, percent, entry, stop) \in Nat
<1> DEFINE distance == IF side = "LONG" THEN entry - stop ELSE stop - entry
           unit     == entry + Fee + IF market = "futures" THEN Buffer ELSE 0
           byRisk   == (equity * percent) \div (100 * distance)
           byShare  == (equity * PositionPercent) \div (100 * entry)
           byCash   == equity \div unit
           q        == size_position(market, side, equity, percent, entry, stop)
<1>1. distance \in Int /\ unit \in Int /\ unit > 0
  BY Amounts
<1>2. q = IF stop <= 0 \/ distance <= 0 THEN 0 ELSE Lower(byRisk, Lower(byShare, byCash))
  BY DEF size_position
<1>3. byShare \in Int /\ byShare >= 0
  <2>1. equity * PositionPercent \in Int /\ equity * PositionPercent >= 0
    BY Amounts, ProductNat
  <2>2. 100 * entry \in Int /\ 100 * entry > 0
    OBVIOUS
  <2> QED BY <2>1, <2>2, FloorPositive
<1>4. byCash \in Int /\ byCash >= 0
  <2> HIDE DEF unit
  <2> QED BY <1>1, FloorPositive
<1>5. ASSUME distance > 0 PROVE byRisk \in Int /\ byRisk >= 0
  <2>1. equity * percent \in Int /\ equity * percent >= 0
    BY ProductNat
  <2> HIDE DEF distance
  <2>2. 100 * distance \in Int /\ 100 * distance > 0
    BY <1>1, <1>5
  <2> QED BY <2>1, <2>2, FloorPositive
<1> HIDE DEF q, byRisk, byShare, byCash, distance
<1>6. q \in Nat
  BY <1>1, <1>2, <1>3, <1>4, <1>5 DEF Lower
<1> QED BY <1>6 DEF q

LEMMA PercentType == \A r : risk_percent(r) \in Nat
  BY Amounts DEF risk_percent

LEMMA EntryBooked ==
    ASSUME NEW s, NEW l, Account(s, l), config \in Configs, ~ Open(s), ~ s.raised,
           NEW side \in Sides, NEW stop \in Int, NEW open \in Price,
           day \in Nat, s.pending.decided \in Nat
    PROVE  LET u == Entered(s, side, stop, open)
           IN  /\ Account(u, l) /\ u.risk = s.risk /\ u.pending = s.pending /\ u.kill = s.kill
               /\ Open(u) => /\ u.position.side = side /\ u.position.opened = day
                             /\ u.position.decided = s.pending.decided
<1> DEFINE u     == Entered(s, side, stop, open)
           entry == open + Sign(side) * Cost
           q     == size_position(config.market, side, s.wallet, risk_percent(s.risk), entry, stop)
           p     == [side |-> side, quantity |-> q, entry |-> entry, fee |-> Fee * q,
                     before |-> s.wallet, mode |-> s.risk.mode, funding |-> 0,
                     liquidation |-> liquidation_price(side, entry),
                     opened |-> day, decided |-> s.pending.decided]
           w     == s.wallet - Fee * q - IF Futures THEN 0 ELSE entry * q
<1>0. s \in States /\ s.wallet \in Int /\ s.risk \in Risks
  BY DEF Account, States
<1>1. u = IF s.wallet <= 0 THEN [s EXCEPT !.raised = TRUE]
          ELSE IF q = 0 THEN s
          ELSE [s EXCEPT !.wallet = w, !.position = p]
  BY DEF Entered
<1>2. entry \in Int /\ entry > 0
  <2>1. entry = open + Cost \/ entry = open - Cost
    BY Amounts, SignType
  <2> QED BY <2>1, Amounts
<1>3. CASE s.wallet <= 0
  <2> HIDE DEF u
  <2>1. u = [s EXCEPT !.raised = TRUE]
    BY <1>1, <1>3
  <2>2. /\ u \in States /\ u.raised /\ u.position = s.position /\ u.risk = s.risk
        /\ u.pending = s.pending /\ u.kill = s.kill
    BY <2>1, <1>0 DEF States
  <2>3. Account(u, l)
    BY <2>2, SameAccount
  <2>4. ~ Open(u)
    BY <2>2 DEF Open
  <2> QED BY <2>2, <2>3, <2>4 DEF u
<1>4. CASE s.wallet > 0 /\ q = 0
  <2> HIDE DEF u, q
  <2>1. u = s
    BY <1>0, <1>1, <1>4
  <2> QED BY <2>1 DEF u
<1>5. CASE s.wallet > 0 /\ q # 0
  <2>1. q \in Int /\ q > 0
    <3> HIDE DEF entry
    <3>1. q \in Nat
      BY <1>0, <1>2, <1>5, PercentType, SizeType
    <3> HIDE DEF q
    <3> QED BY <1>5, <3>1
  <2>2. liquidation_price(side, entry) \in Int
    <3> HIDE DEF entry
    <3> QED BY <1>2, Amounts DEF liquidation_price
  <2>3. Fee * q \in Int /\ entry * q \in Int
    <3> HIDE DEF entry, q
    <3> QED BY <1>2, <2>1, Amounts
  <2>4. s.risk.mode \in Modes
    BY <1>0 DEF Risks
  <2>5. /\ p \in Positions /\ p.side = side /\ p.entry = entry /\ p.quantity = q
        /\ p.fee = Fee * q /\ p.funding = 0 /\ p.before = s.wallet /\ p.mode = s.risk.mode
        /\ p.opened = day /\ p.decided = s.pending.decided
    <3> DEFINE fee == Fee * q
               lp  == liquidation_price(side, entry)
    <3>1. fee \in Int /\ lp \in Int
      BY <2>2, <2>3
    <3>2. p = [side |-> side, quantity |-> q, entry |-> entry, fee |-> fee, before |-> s.wallet,
               mode |-> s.risk.mode, funding |-> 0, liquidation |-> lp,
               opened |-> day, decided |-> s.pending.decided]
      OBVIOUS
    <3> DEFINE before == s.wallet
               mode   == s.risk.mode
               from   == s.pending.decided
    <3>3. before \in Int /\ before > 0 /\ mode \in Modes /\ from \in Nat
      BY <1>0, <1>5, <2>4
    <3>4. fee = Fee * q
      OBVIOUS
    <3> HIDE DEF entry, q, fee, lp, p, before, mode, from
    <3>5. p = [side |-> side, quantity |-> q, entry |-> entry, fee |-> fee, before |-> before,
               mode |-> mode, funding |-> 0, liquidation |-> lp, opened |-> day, decided |-> from]
      BY <3>2 DEF before, mode, from
    <3>6. /\ p \in Positions /\ p.side = side /\ p.entry = entry /\ p.quantity = q
          /\ p.fee = fee /\ p.funding = 0 /\ p.before = before /\ p.mode = mode
          /\ p.opened = day /\ p.decided = from
      BY <1>2, <2>1, <3>1, <3>3, <3>5 DEF Positions
    <3> QED BY <3>4, <3>6 DEF before, mode, from
  <2>6. u = [s EXCEPT !.wallet = w, !.position = p]
    <3> HIDE DEF u, q, w, p
    <3> QED BY <1>0, <1>1, <1>5
  <2>7. w \in Int
    <3> DEFINE fee == Fee * q
               cost == entry * q
    <3>1. fee \in Int /\ cost \in Int /\ w = s.wallet - fee - IF Futures THEN 0 ELSE cost
      BY <2>3
    <3> HIDE DEF fee, cost, w
    <3> QED BY <1>0, <3>1
  <2> HIDE DEF u, p
  <2>8. /\ u \in States /\ u.wallet = w /\ u.position = p /\ u.risk = s.risk
        /\ u.pending = s.pending /\ u.kill = s.kill /\ u.raised = s.raised
    <3> HIDE DEF w
    <3> QED BY <1>0, <2>5, <2>6, <2>7 DEF States
  <2>9. Open(u)
    BY <2>5, <2>8, Positioned
  <2>10. Booked(u, l)
    <3> DEFINE fee == Fee * q
               cost == entry * q
    <3>1. fee \in Int /\ cost \in Int
      BY <2>3
    <3>2. Held(u) = 0 - fee - IF Futures THEN 0 ELSE cost
      BY <2>5, <2>8, <2>9 DEF Held
    <3>3. w = s.wallet - fee - IF Futures THEN 0 ELSE cost
      OBVIOUS
    <3>4. s.wallet = Realized(l)[Len(l)]
      <4>1. s.wallet = Realized(l)[Len(l)] + 0
        BY DEF Account, Booked, Held
      <4>2. Realized(l)[Len(l)] \in Int
        BY RealizedInt, TradesType DEF Account
      <4> QED BY <4>1, <4>2
    <3> HIDE DEF fee, cost, w, q, entry
    <3> QED BY <1>0, <2>5, <2>8, <3>1, <3>2, <3>3, <3>4 DEF Booked
  <2>11. Followed(u, l)
    BY <2>5, <2>8, <2>9 DEF Account, Followed, Mode
  <2>12. Account(u, l)
    BY <2>8, <2>10, <2>11 DEF Account
  <2> QED BY <2>5, <2>8, <2>12 DEF u
<1> QED BY <1>0, <1>3, <1>4, <1>5

-----------------------------------------------------------------------------
(* Recovering the target, and closing a position *)

LEMMA TrailingLast ==
    ASSUME NEW l \in Trades, NEW m \in 1 .. 3, Trailing(l, m)
    PROVE  /\ Trailing(l, 1) /\ 1 <= Len(l)
           /\ l[Len(l)].structural /\ l[Len(l)].net < 0 /\ l[Len(l)].mode = "NORMAL"
<1>1. Len(l) \in Nat /\ m <= Len(l)
  BY TradesType DEF Trailing
<1>2. Len(l) \in Len(l) - m + 1 .. Len(l)
  BY <1>1
<1>3. \A i \in Len(l) - 1 + 1 .. Len(l) : i = Len(l)
  BY <1>1
<1> QED BY <1>1, <1>2, <1>3 DEF Trailing

LEMMA FreshRisk ==
    /\ NormalRisk \in Risks /\ Checked(NormalRisk) /\ NormalRisk.mode = "NORMAL"
    /\ \A l \in Trades : Streak(NormalRisk, l)
<1>1. NormalRisk \in Risks /\ Checked(NormalRisk) /\ NormalRisk.mode = "NORMAL"
  BY DEF NormalRisk, Risks, Modes, Equities, None, Checked
<1>2. ASSUME NEW l \in Trades PROVE Streak(NormalRisk, l)
  <2>1. Len(l) \in Nat
    BY TradesType
  <2> QED BY <2>1 DEF Streak, NormalRisk
<1> QED BY <1>1, <1>2

\* Observing the equity may end the defensive mode, never without a recovery.
LEMMA ObservationBooked ==
    ASSUME NEW s, NEW l, Account(s, l), ~ s.raised, Streak(s.risk, l)
    PROVE  LET u == [s EXCEPT !.risk = observe_equity(@, Equity(s))]
           IN  /\ Account(u, l) /\ Streak(u.risk, l)
               /\ u.position = s.position /\ u.pending = s.pending /\ u.kill = s.kill
               /\ u.raised = s.raised
<1> DEFINE q == observe_equity(s.risk, Equity(s))
           u == [s EXCEPT !.risk = q]
<1>0. s \in States /\ l \in Trades /\ s.risk \in Risks
  BY DEF Account, States
<1>1. q = s.risk \/ (s.risk.mode = "DEFENSIVE" /\ q = NormalRisk /\ Equity(s) >= s.risk.target)
  BY DEF observe_equity
<1>2. q \in Risks /\ Checked(q) /\ Streak(q, l)
  <2> HIDE DEF q
  <2> QED BY <1>0, <1>1, FreshRisk DEF Account
<1> HIDE DEF q
<1>3. /\ u \in States /\ u.risk = q /\ u.position = s.position /\ u.wallet = s.wallet
      /\ u.pending = s.pending /\ u.kill = s.kill /\ u.raised = s.raised
  BY <1>0, <1>2 DEF States
<1> HIDE DEF u
<1>4. CASE q = s.risk
  <2>1. Account(u, l)
    BY <1>3, <1>4, SameAccount
  <2> QED BY <2>1, <1>2, <1>3 DEF u, q
<1>5. CASE s.risk.mode = "DEFENSIVE" /\ q = NormalRisk /\ Equity(s) >= s.risk.target
  <2>1. Booked(u, l)
    BY <1>3 DEF Account, Booked, Held, Open
  <2>2. Targeted(u.risk, l)
    BY <1>3, <1>5, FreshRisk DEF Targeted
  <2>3. Open(u) <=> Open(s)
    BY <1>3 DEF Open
  <2>4. Open(s) => s.position.mode # "NORMAL"
    BY <1>5 DEF Account, Followed
  <2>5. ASSUME ~ Open(s), NEW m \in 1 .. 3, Trailing(l, m) PROVE FALSE
    <3>1. Trailing(l, 1)
      BY <1>0, <2>5, TrailingLast
    <3>2. Realized(l)[Len(l)] < s.risk.target
      BY <1>5, <2>5, <3>1 DEF Account, Followed
    <3>3. s.wallet = Realized(l)[Len(l)] + 0 /\ Equity(s) = s.wallet
      BY <2>5 DEF Account, Booked, Held, Equity
    <3>4. Realized(l)[Len(l)] \in Int /\ s.risk.target \in Int
      BY <1>0, RealizedInt, TradesType DEF Risks, Equities, None
    <3> QED BY <1>5, <3>2, <3>3, <3>4
  <2>6. Followed(u, l)
    BY <1>3, <1>5, <2>3, <2>4, <2>5, FreshRisk DEF Followed, Mode
  <2> QED BY <1>0, <1>2, <1>3, <2>1, <2>2, <2>6 DEF Account, u, q
<1> QED BY <1>1, <1>4, <1>5

LEMMA TradeType ==
    ASSUME NEW p \in Positions, NEW reference \in Int, NEW reason
    PROVE  /\ Net(p, reference, reason) \in Int
           /\ \A l \in Trades : Append(l, TradeOf(p, reference, reason)) \in Trades
<1> DEFINE a   == Sign(p.side) * (Exit(p, reference) - p.entry)
           b   == a * p.quantity
           fee == Fee * p.quantity
           lf  == LiquidationFee * p.quantity
           net == Net(p, reference, reason)
<1>1. /\ p.quantity \in Int /\ p.entry \in Int /\ p.fee \in Int /\ p.funding \in Int
      /\ p.mode \in Modes
  BY DEF Positions
<1>2. a \in Int
  <2>1. Exit(p, reference) = reference - Cost \/ Exit(p, reference) = reference - -1 * Cost
    BY Amounts, SignType DEF Exit
  <2>2. Exit(p, reference) - p.entry \in Int
    BY <1>1, <2>1, Amounts
  <2> DEFINE d == Exit(p, reference) - p.entry
  <2> HIDE DEF d
  <2>3. Sign(p.side) * d \in Int
    BY <2>2, SignType DEF d
  <2> QED BY <2>3 DEF d
<1>3. b \in Int
  <2> HIDE DEF a
  <2> QED BY <1>1, <1>2
<1>4. fee \in Int /\ lf \in Int
  BY <1>1, Amounts
<1>5. net = b - p.fee - fee + p.funding - IF reason = "LIQUIDATION" THEN lf ELSE 0
  BY DEF Net
<1> HIDE DEF b, fee, lf, net
<1>6. net \in Int
  BY <1>1, <1>3, <1>4, <1>5
<1>7. ASSUME NEW l \in Trades PROVE Append(l, TradeOf(p, reference, reason)) \in Trades
  <2> DEFINE R == [structural : BOOLEAN, liquidated : BOOLEAN, net : Int, mode : Modes]
             t == TradeOf(p, reference, reason)
  <2>1. t \in R
    BY <1>1, <1>6 DEF TradeOf, net
  <2>2. l \in Seq(R)
    BY DEF Trades
  <2> HIDE DEF R, t
  <2>3. Append(l, t) \in Seq(R)
    BY <2>1, <2>2
  <2> QED BY <2>3 DEF R, t, Trades
<1> QED BY <1>6, <1>7 DEF net

\* What the log explains stays explained while the target is not back.
LEMMA ExplainsCarried ==
    ASSUME NEW l \in Trades, NEW t, t.net \in Int, NEW r, NEW q, q.target = r.target,
           NEW k \in DOMAIN l, Explains(k, r, l),
           Realized(Append(l, t))[Len(l) + 1] < r.target
    PROVE  k \in DOMAIN Append(l, t) /\ Explains(k, q, Append(l, t))
<1> DEFINE m == Append(l, t)
           S(x) == {j \in k .. Len(x) : x[j].structural /\ x[j].net < 0}
<1>1. /\ Len(l) \in Nat /\ DOMAIN l = 1 .. Len(l) /\ DOMAIN m = 1 .. Len(l) + 1
      /\ Len(m) = Len(l) + 1 /\ \A i \in 1 .. Len(l) : m[i] = l[i]
  BY TradesType, TradeAppended
<1>2. \A i \in 0 .. Len(l) : Realized(m)[i] = Realized(l)[i]
  BY RealizedAppended
<1> HIDE DEF m
<1>3. k \in 1 .. Len(l) /\ k - 1 \in 0 .. Len(l) /\ k \in 1 .. Len(l) + 1
  BY <1>1
<1>4. m[k].net < 0 /\ Realized(m)[k - 1] = q.target
  BY <1>1, <1>2, <1>3 DEF Explains
<1>5. \A j \in k .. Len(m) : Realized(m)[j] < q.target
  <2> TAKE j \in k .. Len(m)
  <2>1. CASE j = Len(l) + 1
    BY <2>1 DEF m
  <2>2. CASE j # Len(l) + 1
    <3>1. j \in k .. Len(l) /\ j \in 0 .. Len(l)
      BY <1>1, <1>3, <2>2
    <3> QED BY <1>2, <3>1 DEF Explains
  <2> QED BY <2>1, <2>2
<1>6. ASSUME Cardinality(S(l)) >= 3 PROVE Cardinality(S(m)) >= 3
  <2>1. S(l) \subseteq S(m)
    BY <1>1, <1>3
  <2>2. IsFiniteSet(k .. Len(m))
    BY <1>1, <1>3, FS_Interval
  <2>3. S(m) \subseteq k .. Len(m)
    OBVIOUS
  <2> DEFINE small == S(l)
             big   == S(m)
             range == k .. Len(m)
  <2> HIDE DEF S
  <2>4. IsFiniteSet(S(m))
    <3>1. big \subseteq range /\ IsFiniteSet(range)
      BY <2>2, <2>3
    <3> HIDE DEF big, range
    <3>2. IsFiniteSet(big)
      BY <3>1, FS_Subset
    <3> QED BY <3>2 DEF big
  <2>5. Cardinality(small) <= Cardinality(big) /\ IsFiniteSet(small)
    <3>1. small \subseteq big /\ IsFiniteSet(big)
      BY <2>1, <2>4
    <3> HIDE DEF big, small
    <3> QED BY <3>1, FS_Subset
  <2>6. Cardinality(small) \in Nat /\ Cardinality(big) \in Nat
    BY <2>4, <2>5, FS_CardinalityType
  <2>7. Cardinality(small) >= 3
    BY <1>6
  <2> HIDE DEF small, big
  <2>8. Cardinality(big) >= 3
    BY <2>5, <2>6, <2>7
  <2> QED BY <2>8 DEF big
<1>7. (\E j \in k .. Len(l) : l[j].liquidated) => \E j \in k .. Len(m) : m[j].liquidated
  BY <1>1, <1>3
<1>8. \/ Cardinality(S(m)) >= 3
      \/ \E j \in k .. Len(m) : m[j].liquidated
  BY <1>6, <1>7 DEF Explains
<1>9. Explains(k, q, m)
  BY <1>4, <1>5, <1>8 DEF Explains
<1> QED BY <1>1, <1>3, <1>9 DEF m

\* The equity before the losses that end the log, none or more.
LEMMA StreakFacts ==
    ASSUME NEW l \in Trades, NEW r \in Risks, Checked(r), Streak(r, l), r.mode = "NORMAL",
           NEW before, before = Realized(l)[Len(l)]
    PROVE  LET g == IF r.start = None THEN before ELSE r.start
           IN  /\ g \in Int /\ r.losses \in 0 .. 2 /\ r.losses <= Len(l)
               /\ g = Realized(l)[Len(l) - r.losses] /\ before <= g /\ before \in Int
               /\ \A j \in Len(l) - r.losses + 1 .. Len(l) :
                     l[j].structural /\ l[j].net < 0 /\ Realized(l)[j] < g
<1> DEFINE g == IF r.start = None THEN before ELSE r.start
<1>1. Len(l) \in Nat /\ r.losses \in 0 .. 2 /\ r.losses <= Len(l) /\ r.target = None
  BY TradesType DEF Checked, Risks, Streak
<1>2. before \in Int /\ g \in Int
  BY <1>1, RealizedInt DEF Risks, Equities, None
<1>3. CASE r.losses = 0
  <2>1. r.start = None
    BY <1>3 DEF Streak
  <2>2. Len(l) - r.losses = Len(l) /\ Len(l) - r.losses + 1 .. Len(l) = {}
    BY <1>1, <1>3
  <2>3. before <= g
    BY <1>2, <2>1
  <2> QED BY <1>1, <1>2, <2>1, <2>2, <2>3
<1>4. CASE r.losses # 0
  <2>1. r.start # None /\ r.losses > 0
    BY <1>1, <1>4 DEF Streak
  <2>2. g = r.start
    BY <2>1
  <2>3. Len(l) \in Len(l) - r.losses + 1 .. Len(l)
    BY <1>1, <2>1
  <2>4. before < g
    BY <2>2, <2>3 DEF Streak
  <2>5. g = Realized(l)[Len(l) - r.losses]
    BY <2>1, <2>2 DEF Streak
  <2>6. \A j \in Len(l) - r.losses + 1 .. Len(l) :
           l[j].structural /\ l[j].net < 0 /\ Realized(l)[j] < g
    BY <2>2 DEF Streak
  <2> HIDE DEF g
  <2>7. before <= g
    BY <1>2, <2>4
  <2> QED BY <1>1, <1>2, <2>5, <2>6, <2>7 DEF g
<1> QED BY <1>3, <1>4

\* What a trade leaves in the risk state q, of a log m that ends with it and an equity
\* `after`: the machine's checks, the streak, the reduction and the target.
Left(q, m, after) ==
    /\ q \in Risks /\ Checked(q) /\ Targeted(q, m)
    /\ config.defensive /\ q.mode = "NORMAL" =>
          \A n \in 1 .. 3 : Trailing(m, n) => q.losses >= n
    /\ q.mode = "DEFENSIVE" /\ Trailing(m, 1) => after < q.target

\* The trade t of a position entered in mode `mode` ends a log.
Ends(l, t, e) ==
    LET m == Append(l, t)
    IN  /\ l \in Trades /\ m \in Trades /\ t.net \in Int
        /\ e = Realized(l)[Len(l)] /\ e \in Int /\ e > 0

LEMMA EndFacts ==
    ASSUME NEW l, NEW t, NEW e, Ends(l, t, e)
    PROVE  LET m == Append(l, t)
           IN  /\ Len(l) \in Nat /\ Len(m) = Len(l) + 1 /\ m[Len(l) + 1] = t /\ m[Len(m)] = t
               /\ DOMAIN l = 1 .. Len(l) /\ DOMAIN m = 1 .. Len(l) + 1
               /\ \A i \in 1 .. Len(l) : m[i] = l[i]
               /\ \A i \in 0 .. Len(l) : Realized(m)[i] = Realized(l)[i]
               /\ Realized(m)[Len(l) + 1] = e + t.net
<1>1. l \in Trades /\ t.net \in Int /\ e = Realized(l)[Len(l)]
  BY DEF Ends
<1> QED BY <1>1, TradesType, TradeAppended, RealizedAppended

\* A trade that is no loss, no structural exit or not at full risk ends what trails.
LEMMA TrailEnded ==
    ASSUME NEW l, NEW t, NEW e, Ends(l, t, e),
           ~ (t.structural /\ t.net < 0 /\ t.mode = "NORMAL")
    PROVE  \A n \in 1 .. 3 : ~ Trailing(Append(l, t), n)
<1> SUFFICES ASSUME NEW n \in 1 .. 3, Trailing(Append(l, t), n) PROVE FALSE
  OBVIOUS
<1>1. Append(l, t) \in Trades /\ Append(l, t)[Len(Append(l, t))] = t
  BY EndFacts DEF Ends
<1> QED BY <1>1, TrailingLast

\* A liquidation at full risk.
LEMMA LiquidationLeft ==
    ASSUME NEW l, NEW t, NEW e, Ends(l, t, e), t.liquidated, ~ t.structural,
           NEW r \in Risks, Checked(r), Targeted(r, l), Streak(r, l),
           NEW d, NEW after
    PROVE  LET q == record_trade(r, d, "LIQUIDATION", t.net, e, after)
           IN  Left(q, Append(l, t), after) /\ Streak(q, Append(l, t))
<1> DEFINE q == record_trade(r, d, "LIQUIDATION", t.net, e, after)
           m == Append(l, t)
           g == IF r.start = None THEN e ELSE r.start
<1>1. q \in Risks /\ q.mode = "DEFENSIVE" /\ q.target = q.start /\ q.target = g
  <2>1. e \in Int /\ e > 0
    BY DEF Ends
  <2> QED BY <2>1, LiquidationRecorded
<1> HIDE DEF q
<1>2. /\ Len(l) \in Nat /\ Len(m) = Len(l) + 1 /\ m[Len(l) + 1] = t /\ m[Len(m)] = t
      /\ DOMAIN l = 1 .. Len(l) /\ DOMAIN m = 1 .. Len(l) + 1
      /\ \A i \in 1 .. Len(l) : m[i] = l[i]
      /\ \A i \in 0 .. Len(l) : Realized(m)[i] = Realized(l)[i]
      /\ Realized(m)[Len(l) + 1] = e + t.net
      /\ l \in Trades /\ e \in Int /\ e > 0 /\ e = Realized(l)[Len(l)] /\ t.net \in Int
  BY EndFacts DEF Ends
<1>3. q.target # None /\ Checked(q)
  <2>1. g # None
    BY <1>2 DEF None
  <2> QED BY <1>1, <2>1 DEF Checked
<1>4. \A n \in 1 .. 3 : ~ Trailing(m, n)
  BY TrailEnded
<1>5. ASSUME \A i \in DOMAIN m : m[i].liquidated => m[i].net < 0
      PROVE  \E k \in DOMAIN m : Explains(k, q, m)
  <2>1. t.net < 0
    BY <1>2, <1>5
  <2>2. \A i \in DOMAIN l : l[i].liquidated => l[i].net < 0
    BY <1>2, <1>5
  <2>3. CASE r.mode = "DEFENSIVE"
    <3>1. PICK k \in DOMAIN l : Explains(k, r, l)
      BY <2>2, <2>3 DEF Targeted
    <3>2. q.target = r.target /\ r.target \in Int
      BY <1>1, <2>3 DEF Checked, Risks, Equities, None
    <3>3. Len(l) \in k .. Len(l)
      BY <1>2
    <3>4. e < r.target
      BY <1>2, <3>1, <3>3 DEF Explains
    <3>5. Realized(m)[Len(l) + 1] < r.target
      BY <1>2, <2>1, <3>2, <3>4
    <3>6. k \in DOMAIN m /\ Explains(k, q, m)
      BY <1>2, <3>1, <3>2, <3>5, ExplainsCarried
    <3> QED BY <3>6
  <2>4. CASE r.mode = "NORMAL"
    <3> DEFINE n == r.losses
               k == Len(l) - n + 1
    <3>1. /\ g \in Int /\ n \in 0 .. 2 /\ n <= Len(l) /\ g = Realized(l)[Len(l) - n] /\ e <= g
          /\ \A j \in Len(l) - n + 1 .. Len(l) :
                l[j].structural /\ l[j].net < 0 /\ Realized(l)[j] < g
      BY <1>2, <2>4, StreakFacts
    <3> HIDE DEF n
    <3>2. k \in 1 .. Len(l) + 1 /\ k - 1 = Len(l) - n /\ k - 1 \in 0 .. Len(l)
      BY <1>2, <3>1
    <3>3. Realized(m)[k - 1] = q.target
      BY <1>1, <1>2, <3>1, <3>2
    <3> HIDE DEF g
    <3>4. \A j \in k .. Len(m) : m[j].net < 0 /\ Realized(m)[j] < g
      <4> TAKE j \in k .. Len(m)
      <4>1. CASE j = Len(l) + 1
        BY <1>2, <2>1, <3>1, <4>1
      <4>2. CASE j # Len(l) + 1
        <5>1. j \in Len(l) - n + 1 .. Len(l) /\ j \in 1 .. Len(l) /\ j \in 0 .. Len(l)
          BY <1>2, <3>1, <3>2, <4>2
        <5> QED BY <1>2, <3>1, <5>1
      <4> QED BY <4>1, <4>2
    <3>5. k \in k .. Len(m) /\ Len(m) \in k .. Len(m)
      BY <1>2, <3>2
    <3>6. \E j \in k .. Len(m) : m[j].liquidated
      BY <1>2, <3>5
    <3>7. Explains(k, q, m)
      <4> HIDE DEF k, m
      <4> QED BY <1>1, <3>3, <3>4, <3>5, <3>6 DEF Explains
    <3>8. k \in DOMAIN m
      BY <1>2, <3>2
    <3> HIDE DEF k
    <3> QED BY <3>7, <3>8
  <2> QED BY <2>3, <2>4 DEF Risks, Modes
<1>6. Left(q, m, after)
  BY <1>1, <1>3, <1>4, <1>5 DEF Left, Targeted
<1>7. Streak(q, m)
  BY <1>1 DEF Streak
<1> QED BY <1>6, <1>7 DEF q

\* Another trade in the defensive mode.
LEMMA DefensiveLeft ==
    ASSUME NEW l, NEW t, NEW e, Ends(l, t, e), t.mode # "NORMAL",
           NEW r \in Risks, Checked(r), r.mode = "DEFENSIVE", Targeted(r, l),
           NEW d \in BOOLEAN, NEW reason, reason # "LIQUIDATION",
           NEW after, after = e + t.net
    PROVE  LET q == record_trade(r, d, reason, t.net, e, after)
           IN  Left(q, Append(l, t), after) /\ Streak(q, Append(l, t))
<1> DEFINE q == record_trade(r, d, reason, t.net, e, after)
           m == Append(l, t)
<1>1. /\ Len(l) \in Nat /\ m \in Trades /\ Realized(m)[Len(l) + 1] = after
      /\ DOMAIN l = 1 .. Len(l) /\ DOMAIN m = 1 .. Len(l) + 1
      /\ \A i \in 1 .. Len(l) : m[i] = l[i]
      /\ e \in Int /\ t.net \in Int /\ after \in Int /\ l \in Trades
  BY EndFacts DEF Ends
<1>2. /\ q \in Risks
      /\ after >= r.target => q = NormalRisk
      /\ after < r.target => q.mode = "DEFENSIVE" /\ q.target = r.target /\ q.start = r.start
  <2>1. e \in Int /\ t.net \in Int /\ after \in Int
    BY <1>1
  <2> QED BY <2>1, DefensiveRecorded
<1>3. r.target \in Int
  BY DEF Risks, Equities, None
<1>4. \A n \in 1 .. 3 : ~ Trailing(m, n)
  BY TrailEnded
<1> HIDE DEF q, m
<1>5. CASE after >= r.target
  <2>1. q = NormalRisk
    BY <1>2, <1>5
  <2> QED BY <1>1, <1>4, <2>1, FreshRisk DEF Left, Targeted, q, m
<1>6. CASE after < r.target
  <2>1. q.mode = "DEFENSIVE" /\ q.target = r.target /\ q.start = r.start
    BY <1>2, <1>6
  <2>2. Checked(q)
    BY <2>1 DEF Checked
  <2>3. ASSUME \A i \in DOMAIN m : m[i].liquidated => m[i].net < 0
        PROVE  \E k \in DOMAIN m : Explains(k, q, m)
    <3>1. \A i \in DOMAIN l : l[i].liquidated => l[i].net < 0
      BY <1>1, <2>3
    <3>2. PICK k \in DOMAIN l : Explains(k, r, l)
      BY <3>1 DEF Targeted
    <3>3. k \in DOMAIN m /\ Explains(k, q, m)
      BY <1>1, <1>6, <2>1, <3>2, ExplainsCarried DEF m
    <3> QED BY <3>3
  <2>4. Left(q, m, after)
    BY <1>2, <1>4, <2>1, <2>2, <2>3 DEF Left, Targeted
  <2>5. Streak(q, m)
    BY <2>1 DEF Streak
  <2> QED BY <2>4, <2>5 DEF q, m
<1>7. after >= r.target \/ after < r.target
  BY <1>1, <1>3
<1> QED BY <1>5, <1>6, <1>7

\* A structural loss at full risk, under the defensive policy.
LEMMA LossLeft ==
    ASSUME NEW l, NEW t, NEW e, Ends(l, t, e), t.structural, t.net < 0, config.defensive, config.defensive \in BOOLEAN,
           NEW r \in Risks, Checked(r), r.mode = "NORMAL", Streak(r, l),
           t.mode = "NORMAL" => \A n \in 1 .. 3 : Trailing(l, n) => r.losses >= n,
           NEW reason \in Structural, NEW after, after = e + t.net
    PROVE  LET q == record_trade(r, config.defensive, reason, t.net, e, after)
           IN  Left(q, Append(l, t), after) /\ Streak(q, Append(l, t))
<1> DEFINE q == record_trade(r, config.defensive, reason, t.net, e, after)
           m == Append(l, t)
           g == IF r.start = None THEN e ELSE r.start
           n == r.losses
<1>1. /\ Len(l) \in Nat /\ m \in Trades /\ Len(m) = Len(l) + 1 /\ m[Len(l) + 1] = t
      /\ DOMAIN l = 1 .. Len(l) /\ DOMAIN m = 1 .. Len(l) + 1
      /\ \A i \in 1 .. Len(l) : m[i] = l[i]
      /\ \A i \in 0 .. Len(l) : Realized(m)[i] = Realized(l)[i]
      /\ Realized(m)[Len(l) + 1] = after
      /\ e \in Int /\ e > 0 /\ t.net \in Int /\ after \in Int /\ l \in Trades
      /\ e = Realized(l)[Len(l)]
  BY EndFacts DEF Ends
<1>2. /\ g \in Int /\ n \in 0 .. 2 /\ n <= Len(l) /\ g = Realized(l)[Len(l) - n] /\ e <= g
      /\ \A j \in Len(l) - n + 1 .. Len(l) :
            l[j].structural /\ l[j].net < 0 /\ Realized(l)[j] < g
  BY <1>1, StreakFacts
<1>3. after < g
  <2> HIDE DEF g
  <2> QED BY <1>1, <1>2
<1>4. /\ q \in Risks
      /\ n < 2 => q.mode = "NORMAL" /\ q.losses = n + 1 /\ q.target = None /\ q.start = g
      /\ n = 2 => q.mode = "DEFENSIVE" /\ q.target = g /\ q.start = g
  <2>1. e \in Int /\ e > 0 /\ t.net \in Int /\ after \in Int
    BY <1>1
  <2>2. Lengthened(r, q, e, after)
    BY <2>1, LossRecorded
  <2>3. SequenceStart(r, e) = g
    BY DEF SequenceStart
  <2> HIDE DEF q, g
  <2> QED BY <1>2, <1>3, <2>2, <2>3 DEF Lengthened
<1>5. g # None
  <2>1. e # None
    BY <1>1 DEF None
  <2> QED BY <2>1
<1>6. \A j \in Len(m) - (n + 1) + 1 .. Len(m) :
         m[j].structural /\ m[j].net < 0 /\ Realized(m)[j] < g
  <2> HIDE DEF m, g, n
  <2> TAKE j \in Len(m) - (n + 1) + 1 .. Len(m)
  <2>1. CASE j = Len(l) + 1
    BY <1>1, <1>3, <2>1
  <2>2. CASE j # Len(l) + 1
    <3>1. j \in Len(l) - n + 1 .. Len(l) /\ j \in 1 .. Len(l) /\ j \in 0 .. Len(l)
      BY <1>1, <1>2, <2>2
    <3> QED BY <1>1, <1>2, <3>1
  <2> QED BY <2>1, <2>2
<1>7. Realized(m)[Len(m) - (n + 1)] = g
  <2> HIDE DEF m, g, n
  <2>1. Len(m) - (n + 1) = Len(l) - n /\ Len(l) - n \in 0 .. Len(l)
    BY <1>1, <1>2
  <2> QED BY <1>1, <1>2, <2>1
<1> HIDE DEF q, m, g, n
<1>8. CASE n < 2
  <2>1. q.mode = "NORMAL" /\ q.losses = n + 1 /\ q.target = None /\ q.start = g
    BY <1>4, <1>8
  <2>2. Checked(q)
    BY <1>2, <1>8, <2>1 DEF Checked
  <2>3. Targeted(q, m)
    BY <2>1 DEF Targeted
  <2>4. ASSUME NEW i \in 1 .. 3, Trailing(m, i) PROVE q.losses >= i
    <3>1. t.mode = "NORMAL"
      BY <1>1, <2>4, TrailingLast
    <3>2. CASE i = 1
      BY <1>2, <2>1, <3>2
    <3>3. CASE i # 1
      <4>1. i <= Len(m) /\ i - 1 \in 1 .. 3 /\ i - 1 <= Len(l)
        BY <1>1, <2>4, <3>3 DEF Trailing
      <4>2. ASSUME NEW j \in Len(l) - (i - 1) + 1 .. Len(l)
            PROVE  l[j].structural /\ l[j].net < 0 /\ l[j].mode = "NORMAL"
        <5>1. j \in 1 .. Len(l) /\ j \in Len(m) - i + 1 .. Len(m)
          BY <1>1, <4>1
        <5> QED BY <1>1, <2>4, <5>1 DEF Trailing
      <4>3. Trailing(l, i - 1)
        BY <4>1, <4>2 DEF Trailing
      <4>4. n >= i - 1
        BY <3>1, <4>1, <4>3 DEF n
      <4> QED BY <1>2, <2>1, <4>1, <4>4
    <3> QED BY <3>2, <3>3
  <2>5. Left(q, m, after)
    BY <1>4, <2>1, <2>2, <2>3, <2>4 DEF Left
  <2>6. Streak(q, m)
    <3>1. n + 1 <= Len(m) /\ n + 1 > 0
      BY <1>1, <1>2
    <3> QED BY <1>2, <1>5, <1>6, <1>7, <2>1, <3>1 DEF Streak
  <2> QED BY <2>5, <2>6 DEF q, m
<1>9. CASE n = 2
  <2>1. q.mode = "DEFENSIVE" /\ q.target = g /\ q.start = g
    BY <1>4, <1>9
  <2>2. Checked(q)
    BY <1>5, <2>1 DEF Checked
  <2> DEFINE k == Len(m) - 2
             S == {j \in k .. Len(m) : m[j].structural /\ m[j].net < 0}
  <2>3. k \in 1 .. Len(m) /\ Len(m) \in Nat /\ Len(m) - (n + 1) + 1 = k /\ Len(m) - (n + 1) = k - 1
    BY <1>1, <1>2, <1>9
  <2>4. S = k .. Len(m)
    BY <1>6, <2>3
  <2>5. Cardinality(k .. Len(m)) = 3
    <3>1. Cardinality(k .. Len(m)) = Len(m) - k + 1
      <4> HIDE DEF k
      <4>1. k \in Int /\ Len(m) \in Int /\ k <= Len(m)
        BY <2>3
      <4> QED BY <4>1, FS_Interval
    <3> QED BY <2>3, <3>1
  <2>6. Cardinality(S) >= 3
    <3> HIDE DEF S, k
    <3> QED BY <2>4, <2>5
  <2>7. m[k].net < 0 /\ Realized(m)[k - 1] = q.target
    <3>1. k \in Len(m) - (n + 1) + 1 .. Len(m)
      BY <2>3
    <3> QED BY <1>6, <1>7, <2>1, <2>3, <3>1
  <2>8. \A j \in k .. Len(m) : Realized(m)[j] < q.target
    BY <1>6, <2>1, <2>3
  <2>9. Explains(k, q, m)
    <3>1. Cardinality({j \in k .. Len(m) : m[j].structural /\ m[j].net < 0}) >= 3
      BY <2>6
    <3> HIDE DEF k
    <3> QED BY <2>7, <2>8, <3>1 DEF Explains
  <2>10. k \in DOMAIN m
    BY <1>1, <2>3
  <2>11. Targeted(q, m)
    <3> HIDE DEF k
    <3> QED BY <2>9, <2>10 DEF Targeted
  <2>12. Left(q, m, after)
    BY <1>3, <1>4, <2>1, <2>2, <2>11 DEF Left
  <2>13. Streak(q, m)
    BY <2>1 DEF Streak
  <2> QED BY <2>12, <2>13 DEF q, m
<1>10. n < 2 \/ n = 2
  BY <1>2
<1> QED BY <1>8, <1>9, <1>10

\* Any other trade at full risk.
LEMMA OtherLeft ==
    ASSUME NEW l, NEW t, NEW e, Ends(l, t, e), config.defensive \in BOOLEAN,
           NEW r \in Risks, Checked(r), r.mode = "NORMAL", Streak(r, l),
           NEW reason \in Structural \cup {"FORCED_END"}, t.structural <=> reason \in Structural,
           ~ (config.defensive /\ t.structural /\ t.net < 0),
           NEW after, after = e + t.net
    PROVE  LET q == record_trade(r, config.defensive, reason, t.net, e, after)
           IN  /\ Left(q, Append(l, t), after)
               /\ reason \in Structural => Streak(q, Append(l, t))
<1> DEFINE q == record_trade(r, config.defensive, reason, t.net, e, after)
           m == Append(l, t)
<1>1. /\ e \in Int /\ t.net \in Int /\ after \in Int /\ m \in Trades
      /\ Len(l) \in Nat /\ Len(m) = Len(l) + 1
  BY EndFacts DEF Ends
<1>2. /\ reason \in Structural /\ config.defensive => q = Ended(r)
      /\ ~ (reason \in Structural /\ config.defensive) => q = r
  <2>1. reason # "LIQUIDATION" /\ reason \in Structural \cup Excluded
    BY DEF Structural, Excluded
  <2>2. ~ (config.defensive /\ reason \in Structural /\ t.net < 0)
    OBVIOUS
  <2>3. e \in Int /\ t.net \in Int /\ after \in Int
    BY <1>1
  <2> QED BY <2>1, <2>2, <2>3, OtherRecorded
<1> HIDE DEF q, m
<1>3. ASSUME reason \in Structural, config.defensive
      PROVE  Left(q, m, after) /\ Streak(q, m)
  <2> DEFINE zero == 0
             none == None
  <2>1. q = [r EXCEPT !.losses = zero, !.start = none]
    BY <1>2, <1>3 DEF Ended
  <2>2. zero \in Nat /\ zero = 0 /\ none \in Equities /\ none = None
    BY DEF Equities
  <2> HIDE DEF zero, none
  <2>3. q \in Risks /\ q.mode = "NORMAL" /\ q.losses = 0 /\ q.start = None /\ q.target = r.target
    BY <2>1, <2>2 DEF Risks
  <2>4. Checked(q)
    BY <2>3 DEF Checked
  <2>5. \A n \in 1 .. 3 : ~ Trailing(m, n)
    <3>1. ~ (t.structural /\ t.net < 0 /\ t.mode = "NORMAL")
      BY <1>3
    <3> QED BY <3>1, TrailEnded DEF m
  <2>6. Streak(q, m)
    BY <1>1, <2>3 DEF Streak
  <2> QED BY <2>3, <2>4, <2>5, <2>6 DEF Left, Targeted
<1>4. ASSUME ~ (reason \in Structural /\ config.defensive)
      PROVE  Left(q, m, after) /\ (reason \in Structural => Streak(q, m))
  <2>1. q = r
    BY <1>2, <1>4
  <2>2. ASSUME config.defensive PROVE \A n \in 1 .. 3 : ~ Trailing(m, n)
    <3>1. ~ t.structural
      BY <1>4, <2>2
    <3> QED BY <3>1, TrailEnded DEF m
  <2>3. Left(q, m, after)
    BY <2>1, <2>2 DEF Left, Targeted
  <2>4. ASSUME reason \in Structural PROVE Streak(q, m)
    <3>1. r.losses = 0 /\ r.start = None
      BY <1>4, <2>4 DEF Streak
    <3> QED BY <1>1, <1>4, <2>1, <3>1 DEF Streak
  <2> QED BY <2>3, <2>4
<1> QED BY <1>3, <1>4 DEF q, m

\* The account after a position is closed: the run has raised and nothing else changed, or
\* the trade is booked.
LEMMA ClosingBooked ==
    ASSUME NEW s, NEW l, Account(s, l), Streak(s.risk, l), config \in Configs,
           Open(s), ~ s.raised, NEW reference \in Int,
           NEW reason \in Structural \cup {"LIQUIDATION", "FORCED_END"}
    PROVE  LET c == Closed(s, reference, reason)
               m == Append(l, TradeOf(s.position, reference, reason))
           IN  /\ c.pending = s.pending /\ c.kill = s.kill
               /\ Open(c) => /\ c.raised /\ c.position = s.position /\ c.risk = s.risk
                             /\ Account(c, l)
               /\ ~ Open(c) => /\ ~ c.raised /\ Account(c, m)
                               /\ reason # "FORCED_END" => Streak(c.risk, m)
<1> DEFINE p     == s.position
           net   == Net(p, reference, reason)
           after == s.wallet + net + p.fee - p.funding
                    + IF Futures THEN 0 ELSE p.entry * p.quantity
           e     == Realized(l)[Len(l)]
           t     == TradeOf(p, reference, reason)
           m     == Append(l, t)
           q     == record_trade(s.risk, config.defensive, reason, net, p.before, after)
           c     == Closed(s, reference, reason)
<1>0. s \in States /\ l \in Trades /\ p \in Positions /\ s.risk \in Risks
  <2>1. s \in States /\ l \in Trades
    BY DEF Account
  <2> QED BY <2>1, Positioned DEF States
<1>1. net \in Int /\ m \in Trades /\ e \in Int
  <2>1. net \in Int /\ m \in Trades
    BY <1>0, TradeType
  <2>2. e \in Int
    BY <1>0, RealizedInt, TradesType
  <2> QED BY <2>1, <2>2
<1>2. after = e + net /\ p.before = e /\ e > 0
  <2> DEFINE fee == p.fee
             fund == p.funding
             cost == p.entry * p.quantity
  <2>1. fee \in Int /\ fund \in Int /\ cost \in Int /\ p.before \in Int /\ p.before > 0
    BY <1>0 DEF Positions
  <2>2. s.wallet = e + (fund - fee - IF Futures THEN 0 ELSE cost)
    BY DEF Account, Booked, Held
  <2>3. p.before = e
    BY DEF Account, Booked
  <2>4. after = s.wallet + net + fee - fund + IF Futures THEN 0 ELSE cost
    OBVIOUS
  <2>5. s.wallet \in Int
    BY <1>0 DEF States
  <2> HIDE DEF fee, fund, cost, after, e, net, p
  <2>6. after = e + net
    BY <1>1, <2>1, <2>2, <2>4, <2>5
  <2> QED BY <2>1, <2>3, <2>6
<1>3. /\ t.net = net /\ t.mode = p.mode /\ t.structural = (reason \in Structural)
      /\ t.liquidated = (reason = "LIQUIDATION")
  BY DEF TradeOf
<1>4. Ends(l, t, e)
  BY <1>0, <1>1, <1>2, <1>3 DEF Ends
<1>5. Checked(s.risk) /\ Targeted(s.risk, l) /\ config.defensive \in BOOLEAN
  BY ConfigType DEF Account
<1>6. (p.mode = "NORMAL" => s.risk.mode = "NORMAL") /\ p.mode \in Modes
  BY <1>0 DEF Account, Followed, Positions
<1>7. c = IF after < 0 THEN [s EXCEPT !.raised = TRUE]
          ELSE [s EXCEPT !.wallet = after, !.position = Flat, !.risk = q]
  BY DEF Closed
<1>8. Left(q, m, after) /\ (reason # "FORCED_END" => Streak(q, m))
  <2> DEFINE r == s.risk
             d == config.defensive
  <2>1. q = record_trade(r, d, reason, t.net, e, after) /\ after = e + t.net
    BY <1>2, <1>3
  <2>2. r \in Risks /\ Checked(r) /\ Streak(r, l) /\ Targeted(r, l) /\ d \in BOOLEAN
    BY <1>0, <1>5
  <2>3. r.mode = "NORMAL" \/ r.mode = "DEFENSIVE"
    BY <1>0 DEF Risks, Modes
  <2>4. CASE reason = "LIQUIDATION"
    <3>1. t.liquidated /\ ~ t.structural
      BY <1>3, <2>4 DEF Structural
    <3> HIDE DEF t, e, q, after, r, d
    <3> QED BY <1>4, <2>1, <2>2, <2>4, <3>1, LiquidationLeft DEF m
  <2>5. CASE reason # "LIQUIDATION" /\ r.mode = "DEFENSIVE"
    <3>1. t.mode # "NORMAL"
      BY <1>3, <1>6, <2>5
    <3> HIDE DEF t, e, q, after, r, d
    <3> QED BY <1>4, <2>1, <2>2, <2>5, <3>1, DefensiveLeft DEF m
  <2>6. CASE r.mode = "NORMAL" /\ d /\ reason \in Structural /\ net < 0
    <3>1. t.structural /\ t.net < 0
      BY <1>3, <2>6
    <3>2. t.mode = "NORMAL" => \A n \in 1 .. 3 : Trailing(l, n) => r.losses >= n
      BY <1>3, <2>6 DEF Account, Followed, Mode
    <3>3. /\ q = record_trade(r, config.defensive, reason, t.net, e, after)
          /\ config.defensive /\ config.defensive \in BOOLEAN
      BY <1>5, <2>1, <2>6
    <3> HIDE DEF t, e, q, after, r, d
    <3> QED BY <1>4, <2>1, <2>2, <2>6, <3>1, <3>2, <3>3, LossLeft DEF m
  <2>7. CASE /\ reason # "LIQUIDATION" /\ r.mode = "NORMAL"
             /\ ~ (d /\ reason \in Structural /\ net < 0)
    <3>1. /\ reason \in Structural \cup {"FORCED_END"} /\ (t.structural <=> reason \in Structural)
          /\ ~ (config.defensive /\ t.structural /\ t.net < 0)
      BY <1>3, <2>7
    <3>2. /\ q = record_trade(r, config.defensive, reason, t.net, e, after)
          /\ config.defensive \in BOOLEAN
      BY <1>5, <2>1
    <3>3. reason # "FORCED_END" => reason \in Structural
      BY <2>7
    <3> HIDE DEF t, e, q, after, r, d
    <3> QED BY <1>4, <2>1, <2>2, <2>7, <3>1, <3>2, <3>3, OtherLeft DEF m
  <2> QED BY <2>3, <2>4, <2>5, <2>6, <2>7
<1>9. CASE after < 0
  <2> HIDE DEF after, c
  <2>1. c = [s EXCEPT !.raised = TRUE]
    BY <1>7, <1>9
  <2>2. /\ c \in States /\ c.raised /\ c.position = s.position /\ c.risk = s.risk
        /\ c.pending = s.pending /\ c.kill = s.kill
    BY <2>1, <1>0 DEF States
  <2>3. Account(c, l) /\ Open(c)
    BY <2>2, SameAccount DEF Open
  <2> QED BY <2>2, <2>3 DEF c
<1>10. CASE ~ (after < 0)
  <2>1. after \in Int
    BY <1>1, <1>2
  <2>2. Len(m) = Len(l) + 1 /\ Realized(m)[Len(l) + 1] = e + t.net
    <3> HIDE DEF t, e
    <3> QED BY <1>4, EndFacts
  <2> HIDE DEF after, c, q, m, e, t, net
  <2>3. c = [s EXCEPT !.wallet = after, !.position = Flat, !.risk = q]
    BY <1>7, <1>10
  <2>4. q \in Risks
    BY <1>8 DEF Left
  <2>5. /\ c \in States /\ c.wallet = after /\ c.position = Flat /\ c.risk = q
        /\ c.pending = s.pending /\ c.kill = s.kill /\ c.raised = s.raised
    BY <2>1, <2>3, <2>4, <1>0 DEF States
  <2>6. ~ Open(c)
    BY <2>5 DEF Open
  <2>7. Realized(m)[Len(m)] = after
    BY <1>2, <1>3, <2>2
  <2>8. Booked(c, m)
    BY <2>1, <2>5, <2>6, <2>7 DEF Booked, Held
  <2>9. Followed(c, m)
    BY <1>8, <2>5, <2>6, <2>7 DEF Followed, Mode, Left
  <2>10. Account(c, m)
    BY <1>1, <1>8, <2>5, <2>8, <2>9 DEF Account, Left
  <2> QED BY <1>8, <2>5, <2>6, <2>10 DEF c, m, t
<1> QED BY <1>9, <1>10

-----------------------------------------------------------------------------
(* The steps of an hour *)

LEMMA PendingSet ==
    ASSUME NEW s \in States, NEW x \in Pendings \cup {Idle}
    PROVE  LET u == [s EXCEPT !.pending = x]
           IN  /\ u \in States /\ u.pending = x /\ u.position = s.position /\ u.risk = s.risk
               /\ u.raised = s.raised /\ u.wallet = s.wallet /\ u.kill = s.kill
               /\ Open(u) <=> Open(s)
  BY DEF States, Open

LEMMA DayLost ==
    ASSUME NEW s \in States, NEW u, NEW k \in Nat, u = [s EXCEPT !.pending = Idle, !.kill = k]
    PROVE  /\ u \in States /\ u.pending = Idle /\ u.position = s.position /\ u.risk = s.risk
           /\ u.raised = s.raised /\ u.wallet = s.wallet
           /\ Open(u) <=> Open(s)
<1>1. /\ u \in States /\ u.pending = Idle /\ u.position = s.position /\ u.risk = s.risk
      /\ u.raised = s.raised /\ u.wallet = s.wallet
  BY DEF States
<1> QED BY <1>1 DEF Open

LEMMA PendingType ==
    /\ \A x \in Pendings : x # Idle /\ x.decided \in Nat /\ x.action \in {"EXIT", "ENTRY"}
    /\ \A x \in Pendings : x.action = "EXIT" => x.reason \in Structural
    /\ \A x \in Pendings : x.action = "ENTRY" => x.side \in Sides /\ x.stop \in Int
    /\ Idle.action = "NONE"
<1>1. /\ \A x \in Pendings : x.decided \in Nat /\ x.action \in {"EXIT", "ENTRY"}
      /\ \A x \in Pendings : x.action = "EXIT" => x.reason \in Structural
      /\ \A x \in Pendings : x.action = "ENTRY" => x.side \in Sides /\ x.stop \in Int
  BY DEF Pendings
<1>2. Idle.action = "NONE"
  BY DEF Idle
<1> QED BY <1>1, <1>2

\* Funding keeps the days of a position.
LEMMA FundingTimely ==
    ASSUME NEW s, NEW l, Account(s, l), Timely(s), NEW rate \in Rates
    PROVE  Timely(Funded(s, rate))
  BY FundingBooked DEF Timely

\* A liquidation.
LEMMA SeizureBooked ==
    ASSUME NEW s, NEW l, Account(s, l), Streak(s.risk, l), Timely(s), config \in Configs,
           day \in Nat, Open(s), ~ s.raised, NEW reference \in Int
    PROVE  LET u == Seized(s, reference)
               m == Append(l, TradeOf(s.position, reference, "LIQUIDATION"))
           IN  /\ Timely(u)
               /\ Open(u) => Account(u, l) /\ Streak(u.risk, l)
               /\ ~ Open(u) => Account(u, m) /\ Streak(u.risk, m)
<1> DEFINE c == Closed(s, reference, "LIQUIDATION")
           u == Seized(s, reference)
           m == Append(l, TradeOf(s.position, reference, "LIQUIDATION"))
<1>1. /\ c.pending = s.pending /\ c.kill = s.kill
      /\ Open(c) => /\ c.raised /\ c.position = s.position /\ c.risk = s.risk /\ Account(c, l)
      /\ ~ Open(c) => /\ ~ c.raised /\ Account(c, m)
                      /\ "LIQUIDATION" # "FORCED_END" => Streak(c.risk, m)
  BY ClosingBooked
<1>2. u = [c EXCEPT !.pending = Idle, !.kill = day]
  BY DEF Seized
<1> HIDE DEF c, m, u
<1>3. c \in States
  BY <1>1 DEF Account
<1>4. /\ u \in States /\ u.pending = Idle /\ u.position = c.position /\ u.risk = c.risk
      /\ u.raised = c.raised /\ u.wallet = c.wallet /\ (Open(u) <=> Open(c))
  BY <1>2, <1>3, DayLost
<1>5. ASSUME Open(u)
      PROVE  Account(u, l) /\ Streak(u.risk, l) /\ u.position = s.position
  BY <1>1, <1>4, <1>5, SameAccount
<1>6. ASSUME ~ Open(u)
      PROVE  Account(u, m) /\ Streak(u.risk, m)
  BY <1>1, <1>4, <1>6, SameAccount
<1>7. Timely(u)
  BY <1>4, <1>5 DEF Timely
<1> QED BY <1>5, <1>6, <1>7 DEF u, m

\* The action that waits.
LEMMA ExecutionBooked ==
    ASSUME NEW s, NEW l, Account(s, l), Streak(s.risk, l), Timely(s), config \in Configs,
           day \in Nat, ~ s.raised, NEW open \in Price
    PROVE  LET u == Executed(s, open)
               m == Append(l, TradeOf(s.position, open, s.pending.reason))
           IN  /\ Timely(u)
               /\ Open(s) /\ ~ Open(u) => /\ s.pending # Idle /\ s.pending.reason \in Structural
                                          /\ Account(u, m) /\ Streak(u.risk, m)
               /\ ~ (Open(s) /\ ~ Open(u)) => Account(u, l) /\ Streak(u.risk, l)
<1> DEFINE u == Executed(s, open)
           m == Append(l, TradeOf(s.position, open, s.pending.reason))
<1>0. s \in States /\ s.pending \in Pendings \cup {Idle} /\ open \in Int
  BY Amounts DEF Account, States
<1>1. CASE ~ Due(s)
  BY <1>1 DEF Executed
<1>2. CASE Due(s)
  <2>1. s.pending # Idle /\ s.pending \in Pendings /\ s.pending.decided + 1 = day
    BY <1>0, <1>2 DEF Due
  <2>2. CASE s.pending.action = "EXIT" /\ Open(s)
    <3> DEFINE reason == s.pending.reason
               c      == Closed(s, open, reason)
    <3>1. reason \in Structural
      BY <2>1, <2>2, PendingType
    <3>2. u = [c EXCEPT !.pending = Idle]
      BY <1>2, <2>2 DEF Executed
    <3>3. reason \in Structural \cup {"LIQUIDATION", "FORCED_END"} /\ reason # "FORCED_END"
      BY <3>1 DEF Structural
    <3> HIDE DEF reason
    <3>4. /\ Open(c) => /\ c.raised /\ c.position = s.position /\ c.risk = s.risk /\ Account(c, l)
          /\ ~ Open(c) => /\ ~ c.raised /\ Account(c, m) /\ Streak(c.risk, m)
      BY <1>0, <2>2, <3>3, ClosingBooked DEF reason
    <3> HIDE DEF c, m, u
    <3>5. c \in States
      BY <3>4 DEF Account
    <3>6. /\ u \in States /\ u.pending = Idle /\ u.position = c.position /\ u.risk = c.risk
          /\ u.raised = c.raised /\ u.wallet = c.wallet /\ (Open(u) <=> Open(c))
      BY <3>2, <3>5, PendingSet
    <3>7. ASSUME Open(u) PROVE Account(u, l) /\ Streak(u.risk, l) /\ u.position = s.position
      BY <3>4, <3>6, <3>7, SameAccount
    <3>8. ASSUME ~ Open(u) PROVE Account(u, m) /\ Streak(u.risk, m)
      BY <3>4, <3>6, <3>8, SameAccount
    <3>9. Timely(u)
      BY <2>2, <3>6, <3>7 DEF Timely
    <3> QED BY <2>1, <2>2, <3>1, <3>7, <3>8, <3>9 DEF u, m, reason
  <2>3. CASE s.pending.action = "ENTRY" /\ ~ Open(s) /\ s.kill # day
    <3> DEFINE side == s.pending.side
               stop == s.pending.stop
               w    == Entered(s, side, stop, open)
    <3>1. side \in Sides /\ stop \in Int /\ s.pending.decided \in Nat /\ side \in config.sides
      BY <2>1, <2>3, PendingType DEF Timely
    <3>2. u = [w EXCEPT !.pending = Idle]
      BY <1>2, <2>3 DEF Executed
    <3>3. /\ Account(w, l) /\ w.risk = s.risk
          /\ Open(w) => /\ w.position.side = side /\ w.position.opened = day
                        /\ w.position.decided = s.pending.decided
      <4> HIDE DEF side, stop
      <4> QED BY <2>3, <3>1, EntryBooked
    <3> HIDE DEF w, u, side
    <3>4. w \in States
      BY <3>3 DEF Account
    <3>5. /\ u \in States /\ u.pending = Idle /\ u.position = w.position /\ u.risk = w.risk
          /\ u.raised = w.raised /\ u.wallet = w.wallet /\ (Open(u) <=> Open(w))
      BY <3>2, <3>4, PendingSet
    <3>6. Account(u, l) /\ Streak(u.risk, l)
      BY <3>3, <3>5, SameAccount
    <3>7. Timely(u)
      BY <2>1, <3>1, <3>3, <3>5 DEF Timely
    <3> QED BY <2>3, <3>6, <3>7 DEF u
  <2>4. CASE /\ ~ (s.pending.action = "EXIT" /\ Open(s))
             /\ ~ (s.pending.action = "ENTRY" /\ ~ Open(s) /\ s.kill # day)
    <3>1. u = [s EXCEPT !.pending = Idle]
      BY <1>2, <2>4 DEF Executed
    <3> HIDE DEF u
    <3>2. /\ u \in States /\ u.pending = Idle /\ u.position = s.position /\ u.risk = s.risk
          /\ u.raised = s.raised /\ u.wallet = s.wallet /\ (Open(u) <=> Open(s))
      BY <1>0, <3>1, PendingSet
    <3>3. Account(u, l) /\ Streak(u.risk, l)
      BY <3>2, SameAccount
    <3>4. Timely(u)
      BY <3>2 DEF Timely
    <3> QED BY <3>2, <3>3, <3>4 DEF u
  <2> QED BY <2>2, <2>3, <2>4
<1> QED BY <1>1, <1>2

-----------------------------------------------------------------------------
(* The invariant *)

\* The configuration is fixed, so what holds of the new locals holds after the step.
LEMMA Transferred ==
    ASSUME config' = config
    PROVE  /\ Account(state', log') => Account(state, log)'
           /\ Streak(state'.risk, log') => Streak(state.risk, log)'
           /\ day' = day /\ Timely(state') => Timely(state)'
<1>1. Account(state', log') => Account(state, log)'
  BY DEF Account, Booked, Followed, Targeted, Held, Mode, Futures
<1>2. Streak(state'.risk, log') => Streak(state.risk, log)'
  BY DEF Streak
<1>3. day' = day /\ Timely(state') => Timely(state)'
  BY DEF Timely
<1> QED BY <1>1, <1>2, <1>3

LEMMA InitTrend == Init => TrendInv
<1> SUFFICES ASSUME Init PROVE TrendInv
  OBVIOUS
<1>1. Ranges
  BY Amounts DEF Init, Ranges
<1>2. /\ state.wallet = Capital /\ state.position = Flat /\ state.pending = Idle
      /\ state.risk = NormalRisk /\ state.raised = FALSE
      /\ state \in States /\ log = <<>> /\ ~ Open(state)
  <2>1. state = [wallet |-> Capital, position |-> Flat, pending |-> Idle, risk |-> NormalRisk,
                 kill |-> 0, raised |-> FALSE]
    BY DEF Init
  <2>2. Capital \in Int
    BY Amounts
  <2> QED BY <2>1, <2>2, FreshRisk DEF Init, States, Open
<1>3. log \in Trades /\ Len(log) = 0
  BY <1>2 DEF Trades
<1>4. Realized(log)[Len(log)] = Capital
  <2>1. Realized(log) = [n \in 0 .. Len(log) |->
                            IF n = 0 THEN Capital ELSE Realized(log)[n-1] + log[n].net]
    BY <1>3, RealizedDef
  <2> QED BY <1>3, <2>1
<1>5. Booked(state, log)
  BY <1>2, <1>4, Amounts DEF Booked, Held
<1>6. ASSUME NEW m \in 1 .. 3, Trailing(log, m) PROVE FALSE
  BY <1>3, <1>6 DEF Trailing
<1>7. Followed(state, log)
  BY <1>2, <1>6, FreshRisk DEF Followed, Mode
<1>8. Targeted(state.risk, log)
  BY <1>2, FreshRisk DEF Targeted
<1>9. Account(state, log) /\ Streak(state.risk, log)
  BY <1>2, <1>3, <1>5, <1>7, <1>8, FreshRisk DEF Account
<1>10. Timely(state)
  BY <1>2 DEF Timely
<1> QED BY <1>1, <1>9, <1>10 DEF TrendInv

LEMMA Begun ==
    ASSUME TrendInv, Running
    PROVE  /\ Account(state, log) /\ Streak(state.risk, log) /\ Timely(state) /\ Ranges
           /\ config \in Configs /\ day \in Nat /\ day \in 1 .. Days /\ hour \in 0 .. Hours
           /\ ~ state.raised /\ state \in States /\ log \in Trades
<1>1. day \in 1 .. Days
  BY Amounts DEF TrendInv, Ranges, Running
<1> QED BY <1>1, Amounts DEF TrendInv, Ranges, Running, Account

LEMMA FundedStart ==
    ASSUME TrendInv, Running, NEW rate \in Rates
    PROVE  LET f == Funded(state, rate)
           IN  /\ Account(f, log) /\ Streak(f.risk, log) /\ Timely(f) /\ ~ f.raised
               /\ f.pending = state.pending
  BY Begun, FundingBooked, FundingTimely

\* After a step of an hour everything is as it should be.
LEMMA HourEnds ==
    ASSUME TrendInv, Running, hour < Hours, hour' = hour + 1, price' \in Price,
           UNCHANGED <<config, day>>,
           Account(state', log'), Streak(state'.risk, log'), Timely(state')
    PROVE  TrendInv'
<1>1. Ranges'
  BY Begun, Amounts DEF Ranges
<1>2. Account(state, log)' /\ Streak(state.risk, log)' /\ Timely(state)'
  BY Transferred
<1> QED BY <1>1, <1>2 DEF TrendInv

LEMMA LiquidateAtOpenTrend ==
    ASSUME TrendInv, NEW open \in Price, NEW atOpen \in Rates, LiquidateAtOpen(open, atOpen)
    PROVE  TrendInv'
<1> DEFINE f == Funded(state, atOpen)
           u == Seized(f, open)
           m == Append(log, TradeOf(f.position, open, "LIQUIDATION"))
<1>0. Running /\ hour < Hours /\ Open(f) /\ open \in Int
  BY Amounts DEF LiquidateAtOpen, Reached
<1>1. /\ Account(f, log) /\ Streak(f.risk, log) /\ Timely(f) /\ ~ f.raised
  BY <1>0, FundedStart
<1>2. /\ Timely(u)
      /\ Open(u) => Account(u, log) /\ Streak(u.risk, log)
      /\ ~ Open(u) => Account(u, m) /\ Streak(u.risk, m)
  <2> HIDE DEF f
  <2> QED BY <1>0, <1>1, Begun, SeizureBooked
<1>3. state' = u /\ log' = IF Open(u) THEN log ELSE m
  BY <1>0 DEF LiquidateAtOpen, Report, TradeOf
<1>4. Account(state', log') /\ Streak(state'.risk, log') /\ Timely(state')
  <2> HIDE DEF u, m
  <2> QED BY <1>2, <1>3
<1> QED BY <1>0, <1>4, HourEnds DEF LiquidateAtOpen

LEMMA HourTrend ==
    ASSUME TrendInv, NEW open \in Price, NEW close \in Price, NEW spike \in Spikes,
           NEW atOpen \in Rates, NEW inside \in Rates, Hour(open, close, spike, atOpen, inside)
    PROVE  TrendInv'
<1> DEFINE f        == Funded(state, atOpen)
           x        == Executed(f, open)
           held     == Funded(x, inside)
           low      == Lower(open, close) - spike
           high     == Higher(open, close) + spike
           trigger  == IF held.position.side = "LONG" THEN Lower(open, held.position.liquidation)
                       ELSE Higher(open, held.position.liquidation)
           u        == Seized(held, trigger)
           reason   == f.pending.reason
           exited   == Append(log, TradeOf(f.position, open, reason))
           seized   == Append(log, TradeOf(held.position, trigger, "LIQUIDATION"))
           l        == IF Open(f) /\ ~ Open(x) THEN exited ELSE log
<1>0. Running /\ hour < Hours /\ price' \in Price /\ hour' = hour + 1 /\ UNCHANGED <<config, day>>
  BY DEF Hour
<1>1. Account(f, log) /\ Streak(f.risk, log) /\ Timely(f) /\ ~ f.raised
  BY <1>0, FundedStart
<1>2. Timely(x) /\ Account(x, l) /\ Streak(x.risk, l)
  <2>1. /\ Timely(x)
        /\ Open(f) /\ ~ Open(x) => Account(x, exited) /\ Streak(x.risk, exited)
        /\ ~ (Open(f) /\ ~ Open(x)) => Account(x, log) /\ Streak(x.risk, log)
    <3> HIDE DEF f
    <3> QED BY <1>0, <1>1, Begun, ExecutionBooked
  <2> HIDE DEF x, exited, f
  <2> QED BY <2>1
<1>3. /\ Account(held, l) /\ Streak(held.risk, l) /\ Timely(held)
      /\ held.raised = x.raised /\ (Open(held) <=> Open(x))
  <2> HIDE DEF x, l
  <2> QED BY <1>2, FundingBooked, FundingTimely
<1>4. CASE ~ held.raised /\ Reached(held, low, high)
  <2>1. state' = u /\ Report(held, state', trigger, "LIQUIDATION")
    BY <1>4 DEF Hour
  <2>2. Open(held) /\ l = log
    <3>1. Open(held)
      BY <1>4 DEF Reached
    <3> HIDE DEF held, f, x, exited
    <3> QED BY <1>3, <3>1
  <2>3. held.position.liquidation \in Int
    <3> HIDE DEF held
    <3>1. held.position \in Positions
      BY <1>3, <2>2, Positioned DEF Account
    <3> QED BY <3>1 DEF Positions
  <2>4. trigger \in Int
    <3> HIDE DEF held
    <3> QED BY <2>3, Amounts DEF Lower, Higher
  <2>5. log' = IF Open(u) THEN log ELSE seized
    <3> HIDE DEF held, trigger, u
    <3> QED BY <2>1, <2>2 DEF Report, TradeOf
  <2>6. /\ Timely(u)
        /\ Open(u) => Account(u, log) /\ Streak(u.risk, log)
        /\ ~ Open(u) => Account(u, seized) /\ Streak(u.risk, seized)
    <3> HIDE DEF held, trigger, l
    <3> QED BY <1>0, <1>3, <1>4, <2>2, <2>4, Begun, SeizureBooked
  <2>7. Account(state', log') /\ Streak(state'.risk, log') /\ Timely(state')
    <3> HIDE DEF u, seized
    <3> QED BY <2>1, <2>5, <2>6
  <2> QED BY <1>0, <2>7, HourEnds
<1>5. CASE ~ (~ held.raised /\ Reached(held, low, high))
  <2>1. state' = held /\ Report(f, x, open, reason)
    BY <1>5 DEF Hour
  <2>2. log' = l
    <3> HIDE DEF f, x, reason
    <3> QED BY <2>1 DEF Report, TradeOf
  <2>3. Account(state', log') /\ Streak(state'.risk, log') /\ Timely(state')
    <3> HIDE DEF held, l
    <3> QED BY <1>3, <2>1, <2>2
  <2> QED BY <1>0, <2>3, HourEnds
<1> QED BY <1>4, <1>5

\* A decision that waits is of the day before: at the end of a day none is left.
LEMMA FreshEnd ==
    ASSUME TrendInv, Running
    PROVE  LET f == Expired(state)
           IN  /\ f.pending = Idle /\ f.position = state.position /\ f.raised = FALSE
               /\ Account(f, log) /\ Streak(f.risk, log)
<1> DEFINE f == Expired(state)
<1>1. /\ Account(state, log) /\ Streak(state.risk, log) /\ Timely(state) /\ ~ state.raised
      /\ state \in States /\ day \in Nat
  BY Begun
<1>2. CASE state.pending = Idle
  <2>1. f = state
    BY <1>2 DEF Expired
  <2> QED BY <1>1, <1>2, <2>1 DEF States
<1>3. CASE state.pending # Idle
  <2>1. state.pending \in Pendings /\ state.pending.decided \in Nat
    BY <1>1, <1>3, PendingType DEF States
  <2>2. state.pending.decided < day
    BY <1>1, <1>3, <2>1 DEF Timely
  <2>3. f = [state EXCEPT !.pending = Idle]
    BY <1>3, <2>2 DEF Expired
  <2> HIDE DEF f
  <2>4. /\ f \in States /\ f.pending = Idle /\ f.position = state.position /\ f.risk = state.risk
        /\ f.raised = state.raised /\ f.wallet = state.wallet
    BY <1>1, <2>3, PendingSet
  <2>5. Account(f, log) /\ Streak(f.risk, log)
    BY <1>1, <2>4, SameAccount
  <2> QED BY <1>1, <2>4, <2>5 DEF f, States
<1> QED BY <1>2, <1>3

LEMMA DecisionType ==
    ASSUME TrendInv, Running, NEW s, NEW x \in Decisions(s)
    PROVE  /\ x \in Pendings \cup {Idle}
           /\ x # Idle => x.decided = day /\ (x.action = "ENTRY" => x.side \in config.sides)
<1>1. day \in Nat /\ price \in Int /\ config.sides \subseteq Sides
  BY Begun, Amounts, ConfigType DEF Ranges
<1>2. CASE x = Idle
  BY <1>2
<1>3. ASSUME NEW r \in Structural, x = [action |-> "EXIT", reason |-> r, decided |-> day]
      PROVE  x \in Pendings /\ x.decided = day /\ x.action # "ENTRY"
  BY <1>1, <1>3 DEF Pendings
<1>4. ASSUME NEW side \in config.sides, NEW d \in Stops,
             x = [action |-> "ENTRY", side |-> side, stop |-> price - Sign(side) * d, decided |-> day]
      PROVE  x \in Pendings /\ x.decided = day /\ x.side \in config.sides
  <2> DEFINE stop == price - Sign(side) * d
  <2>1. stop \in Int
    BY <1>1, Amounts, SignType
  <2>2. x = [action |-> "ENTRY", side |-> side, stop |-> stop, decided |-> day]
    BY <1>4
  <2> HIDE DEF stop
  <2> QED BY <1>1, <2>1, <2>2 DEF Pendings
<1> QED BY <1>2, <1>3, <1>4 DEF Decisions

LEMMA CloseTrend ==
    ASSUME TrendInv, NEW daily \in BOOLEAN, Close(daily)
    PROVE  TrendInv'
<1> DEFINE fresh    == Expired(state)
           seen     == [fresh EXCEPT !.risk = observe_equity(@, Equity(fresh))]
           observed == IF Equity(fresh) < 0 THEN [fresh EXCEPT !.raised = TRUE] ELSE seen
           base     == IF daily THEN observed ELSE fresh
<1>0. /\ Running /\ day' = day + 1 /\ hour' = 0 /\ UNCHANGED <<config, price>>
      /\ day \in 1 .. Days /\ Days \in Nat /\ Hours \in Nat /\ config \in Configs /\ Ranges
  <2>1. /\ Running /\ day' = day + 1 /\ hour' = 0 /\ UNCHANGED <<config, price>>
    BY DEF Close
  <2> QED BY <2>1, Begun, Amounts
<1>1. /\ fresh.pending = Idle /\ fresh.position = state.position /\ fresh.raised = FALSE
      /\ Account(fresh, log) /\ Streak(fresh.risk, log)
  BY <1>0, FreshEnd
<1>2. /\ Account(base, log) /\ Streak(base.risk, log) /\ base.position = state.position
      /\ base.pending = Idle
  <2>1. /\ Account(seen, log) /\ Streak(seen.risk, log)
        /\ seen.position = fresh.position /\ seen.pending = fresh.pending
    <3> HIDE DEF fresh
    <3> QED BY <1>1, ObservationBooked
  <2> DEFINE lost == [fresh EXCEPT !.raised = TRUE]
  <2>2. /\ Account(lost, log) /\ Streak(lost.risk, log)
        /\ lost.position = fresh.position /\ lost.pending = fresh.pending
    <3> HIDE DEF fresh
    <3>1. fresh \in States
      BY <1>1 DEF Account
    <3>2. /\ lost \in States /\ lost.raised /\ lost.position = fresh.position
          /\ lost.risk = fresh.risk /\ lost.pending = fresh.pending
      BY <3>1 DEF States
    <3> HIDE DEF lost
    <3> QED BY <1>1, <3>2, SameAccount
  <2> HIDE DEF lost, seen, fresh
  <2>3. base = lost \/ base = seen \/ base = fresh
    BY DEF lost
  <2> QED BY <1>1, <2>1, <2>2, <2>3
<1>3. PICK decision \in IF daily THEN Decisions(fresh) ELSE {fresh.pending} :
         LET u == [base EXCEPT !.pending = decision]
         IN  IF day = Days /\ Open(u) /\ ~ u.raised
             THEN /\ state' = [Closed(u, FinalPrice, "FORCED_END") EXCEPT !.pending = Idle]
                  /\ Report(u, state', FinalPrice, "FORCED_END")
             ELSE state' = u /\ UNCHANGED <<log, last>>
  BY DEF Close
<1>4. /\ decision \in Pendings \cup {Idle}
      /\ decision # Idle => decision.decided = day
                            /\ (decision.action = "ENTRY" => decision.side \in config.sides)
  BY <1>0, <1>1, <1>3, DecisionType
<1> DEFINE u == [base EXCEPT !.pending = decision]
           c == Closed(u, FinalPrice, "FORCED_END")
           m == Append(log, TradeOf(u.position, FinalPrice, "FORCED_END"))
<1> HIDE DEF base
<1>5. /\ u \in States /\ u.pending = decision /\ u.position = state.position /\ u.risk = base.risk
      /\ u.raised = base.raised /\ u.wallet = base.wallet /\ (Open(u) <=> Open(state))
  <2>1. base \in States
    BY <1>2 DEF Account
  <2>2. /\ u \in States /\ u.pending = decision /\ u.position = base.position /\ u.risk = base.risk
        /\ u.raised = base.raised /\ u.wallet = base.wallet
    BY <1>4, <2>1, PendingSet
  <2> HIDE DEF u
  <2> QED BY <1>2, <2>2 DEF Open
<1>6. Account(u, log) /\ Streak(u.risk, log)
  <2> HIDE DEF u
  <2> QED BY <1>2, <1>5, SameAccount
<1>7. Open(state) => state.position.side \in config.sides
                     /\ state.position.opened = state.position.decided + 1
  BY DEF TrendInv, Timely
<1>8. Ranges'
  BY <1>0 DEF Ranges
<1>9. CASE day = Days /\ Open(u) /\ ~ u.raised
  <2>1. state' = [c EXCEPT !.pending = Idle] /\ Report(u, state', FinalPrice, "FORCED_END")
    <3> HIDE DEF u
    <3> QED BY <1>3, <1>9 DEF u
  <2>2. /\ Open(c) => /\ c.raised /\ c.position = u.position /\ c.risk = u.risk /\ Account(c, log)
        /\ ~ Open(c) => /\ ~ c.raised /\ Account(c, m)
    <3>1. FinalPrice \in Int
      <4>1. price \in Int /\ Cost \in Int
        BY <1>0, Amounts DEF Ranges
      <4>2. u.position \in Positions /\ u.position = state.position
        <5> HIDE DEF u
        <5> QED BY <1>5, <1>9 DEF States, Open
      <4> HIDE DEF u
      <4>3. state.position.entry \in Int /\ Sign(state.position.side) \in {1, -1}
        BY <4>2 DEF Positions, Sign
      <4> QED BY <4>1, <4>3 DEF FinalPrice
    <3> HIDE DEF u
    <3> QED BY <1>0, <1>6, <1>9, <3>1, ClosingBooked
  <2> HIDE DEF c, m, u
  <2>3. c \in States
    BY <2>2 DEF Account
  <2>4. /\ state' \in States /\ state'.pending = Idle /\ state'.position = c.position
        /\ state'.risk = c.risk /\ state'.raised = c.raised /\ state'.wallet = c.wallet
        /\ (Open(state') <=> Open(c))
    BY <2>1, <2>3, PendingSet
  <2>5. log' = IF Open(c) THEN log ELSE m
    BY <1>9, <2>1, <2>4 DEF Report, TradeOf, m
  <2>6. Account(state', log')
    BY <2>2, <2>4, <2>5, SameAccount
  <2>7. Account(state, log)'
    BY <1>0, <2>6, Transferred
  <2>8. Timely(state)'
    <3>1. Open(state') => state'.position = state.position /\ Open(state)
      BY <1>5, <1>9, <2>2, <2>4
    <3>2. Open(state)' = Open(state')
      BY DEF Open
    <3> QED BY <1>0, <1>7, <2>4, <3>1, <3>2 DEF Timely
  <2>9. ~ (day' <= Days)
    BY <1>0, <1>9
  <2> QED BY <1>8, <2>7, <2>8, <2>9 DEF TrendInv
<1>10. CASE ~ (day = Days /\ Open(u) /\ ~ u.raised)
  <2>1. state' = u /\ log' = log
    <3> HIDE DEF u
    <3> QED BY <1>3, <1>10 DEF u
  <2> HIDE DEF u
  <2>2. Account(state', log') /\ Streak(state'.risk, log')
    BY <1>6, <2>1
  <2>3. Account(state, log)' /\ Streak(state.risk, log)'
    BY <1>0, <2>2, Transferred
  <2>4. Timely(state)'
    <3>1. Open(state)' => Open(state)
      BY <1>5, <2>1 DEF Open
    <3>2. state'.position = state.position /\ state'.pending = decision
      BY <1>5, <2>1
    <3> QED BY <1>0, <1>4, <1>7, <3>1, <3>2 DEF Timely
  <2> QED BY <1>8, <2>3, <2>4 DEF TrendInv
<1> QED BY <1>9, <1>10

LEMMA NextTrend == TrendInv /\ [Next]_vars => TrendInv'
<1> SUFFICES ASSUME TrendInv, [Next]_vars PROVE TrendInv'
  OBVIOUS
<1>1. ASSUME NEW open \in Price, NEW atOpen \in Rates, LiquidateAtOpen(open, atOpen)
      PROVE  TrendInv'
  BY <1>1, LiquidateAtOpenTrend
<1>2. ASSUME NEW open \in Price, NEW close \in Price, NEW spike \in Spikes,
             NEW atOpen \in Rates, NEW inside \in Rates, Hour(open, close, spike, atOpen, inside)
      PROVE  TrendInv'
  BY <1>2, HourTrend
<1>3. ASSUME NEW daily \in BOOLEAN, Close(daily) PROVE TrendInv'
  BY <1>3, CloseTrend
<1>4. CASE UNCHANGED vars
  <2>1. /\ UNCHANGED <<config, day, hour, price, state, log>>
    BY <1>4 DEF vars
  <2>2. /\ Account(state, log)' <=> Account(state, log)
        /\ Streak(state.risk, log)' <=> Streak(state.risk, log)
        /\ Timely(state)' <=> Timely(state)
    BY <2>1 DEF Account, Booked, Followed, Targeted, Held, Mode, Futures, Streak, Timely
  <2> QED BY <2>1, <2>2 DEF TrendInv, Ranges
<1> QED BY <1>1, <1>2, <1>3, <1>4 DEF Next

\* The books, the machine of the risk and the days hold at every step.
LEMMA TrendInvariance == Spec => []TrendInv
  BY InitTrend, NextTrend, PTL DEF Spec

-----------------------------------------------------------------------------
(* What it says *)

LEMMA BooksFollow == TrendInv => BooksReconcile
<1> SUFFICES ASSUME TrendInv PROVE BooksReconcile
  OBVIOUS
<1>1. Account(state, log) /\ Ranges /\ Timely(state) /\ state \in States /\ state.risk \in Risks
  BY DEF TrendInv, Account, States
<1>2. TypeOK
  <2>1. Open(state) => state.position.quantity > 0
    BY <1>1, Positioned DEF Positions
  <2> QED BY <1>1, <2>1 DEF TypeOK, Ranges, Timely, States, Risks, Modes
<1>3. RiskConsistent
  BY <1>1 DEF Account, Checked, RiskConsistent
<1>4. WalletReconciles
  BY <1>1 DEF Account, Booked, Held, WalletReconciles
<1> QED BY <1>2, <1>3, <1>4 DEF BooksReconcile

\* The wallet is the capital, every net result and what the open position cost, and the
\* risk state passes its own checks, for any prices, costs, funding and stops.
THEOREM TrendBooksReconcile == Spec => []BooksReconcile
  BY TrendInvariance, BooksFollow, PTL

LEMMA ReductionFollows == TrendInv => StreakReduces
<1> SUFFICES ASSUME TrendInv, config.defensive, Open(state), Len(log) >= 3,
                    \A i \in Len(log) - 2 .. Len(log) :
                       log[i].structural /\ log[i].net < 0 /\ log[i].mode = "NORMAL"
             PROVE  state.position.mode = "DEFENSIVE"
  BY DEF StreakReduces
<1>1. Account(state, log) /\ state \in States /\ state.risk \in Risks /\ log \in Trades
  BY DEF TrendInv, Account, States
<1>2. Len(log) \in Nat /\ Len(log) - 3 + 1 = Len(log) - 2
  BY <1>1, TradesType
<1>3. Trailing(log, 3)
  BY <1>2 DEF Trailing
<1>4. state.position.mode \in Modes
  BY <1>1, Positioned DEF Positions
<1>5. ASSUME state.position.mode = "NORMAL" PROVE FALSE
  <2>1. state.risk.mode = "NORMAL" /\ state.risk.losses >= 3
    BY <1>1, <1>3, <1>5 DEF Account, Followed, Mode
  <2>2. state.risk.losses < 3 /\ state.risk.losses \in Nat
    BY <1>1, <2>1 DEF Account, Checked, Risks
  <2> QED BY <2>1, <2>2
<1> QED BY <1>4, <1>5 DEF Modes

\* Under the defensive policy no position is entered at full risk after three structural
\* losses at full risk, for any prices, costs, funding and stops.
THEOREM StreaksReduceRisk == Spec => []StreakReduces
  BY TrendInvariance, ReductionFollows, PTL

LEMMA TargetFollows == TrendInv => (LiquidationsLose => RiskFollowsTheLog)
<1> SUFFICES ASSUME TrendInv, LiquidationsLose PROVE RiskFollowsTheLog
  OBVIOUS
<1>1. StreakReduces
  BY ReductionFollows
<1>2. ASSUME state.risk.mode = "DEFENSIVE"
      PROVE  \E k \in DOMAIN log : Explains(k, state.risk, log)
  BY <1>2 DEF TrendInv, Account, Targeted, LiquidationsLose
<1>3. TargetIsStreakStart
  BY <1>2 DEF TargetIsStreakStart, Explains, Before, After
<1> QED BY <1>1, <1>3 DEF RiskFollowsTheLog

\* As long as no liquidation makes money, the defensive mode is what the log says: it began
\* with the third loss of a streak or a liquidation, aims at the equity before the streak
\* and lasts until it is back.
THEOREM RiskIsTheLog == Spec => [](LiquidationsLose => RiskFollowsTheLog)
  BY TrendInvariance, TargetFollows, PTL

-----------------------------------------------------------------------------
(* The days: what was executed last. *)

DayInv == TrendInv /\ DayIsHonest

LEMMA InitDay == Init => DayInv
<1> SUFFICES ASSUME Init PROVE DayInv
  OBVIOUS
<1>1. TrendInv /\ ~ last.structural /\ state.position = Flat /\ state.pending = Idle
  BY InitTrend DEF Init
<1> QED BY <1>1 DEF DayInv, DayIsHonest, NextDayOnly, LiquidationFirst, Open

\* What is said of the last trade.
Honest(x) ==
    x.structural => /\ x.day = x.pending.decided + 1
                    /\ Futures => IF x.side = "LONG" THEN x.exit > x.liquidation
                                  ELSE x.exit < x.liquidation

LEMMA DayFollows ==
    ASSUME TrendInv, Honest(last)
    PROVE  DayIsHonest
<1>1. Timely(state)
  BY DEF TrendInv
<1> QED BY <1>1 DEF Timely, Honest, DayIsHonest, NextDayOnly, LiquidationFirst

\* A close for a reason that is not structural leaves a last exit that is not one.
LEMMA Reported ==
    ASSUME NEW before, NEW after, NEW reference, NEW reason, reason \notin Structural,
           Report(before, after, reference, reason)
    PROVE  last' = last \/ last'.structural = FALSE
<1> DEFINE p == before.position
           b == reason \in Structural
           y == [structural |-> b, side |-> p.side, exit |-> reference,
                 liquidation |-> p.liquidation, day |-> day, pending |-> before.pending]
<1>1. last' = last \/ last' = y
  BY Zenon DEF Report
<1>2. b = FALSE
  OBVIOUS
<1>3. y.structural = b
  <2> HIDE DEF p, b
  <2> QED OBVIOUS
<1> HIDE DEF y, b
<1> QED BY <1>1, <1>2, <1>3

LEMMA HourHonest ==
    ASSUME TrendInv, Honest(last), NEW open \in Price, NEW close \in Price, NEW spike \in Spikes,
           NEW atOpen \in Rates, NEW inside \in Rates, Hour(open, close, spike, atOpen, inside)
    PROVE  Honest(last')
<1> DEFINE f      == Funded(state, atOpen)
           x      == Executed(f, open)
           held   == Funded(x, inside)
           reason == f.pending.reason
<1>0. Running /\ ~ Reached(f, open, open) /\ open \in Int
  BY Amounts DEF Hour
<1>1. /\ Account(f, log) /\ Streak(f.risk, log) /\ Timely(f) /\ ~ f.raised
      /\ f.pending = state.pending
  BY <1>0, FundedStart
<1>2. \/ last' = last
      \/ last'.structural = FALSE
      \/ /\ Open(f) /\ ~ Open(x)
         /\ last' = [structural |-> reason \in Structural, side |-> f.position.side,
                     exit |-> open, liquidation |-> f.position.liquidation, day |-> day,
                     pending |-> f.pending]
  <2> DEFINE trigger == IF held.position.side = "LONG"
                        THEN Lower(open, held.position.liquidation)
                        ELSE Higher(open, held.position.liquidation)
  <2>1. \/ Report(held, state', trigger, "LIQUIDATION")
        \/ Report(f, x, open, reason)
    BY DEF Hour
  <2>2. ("LIQUIDATION" \in Structural) = FALSE
    BY DEF Structural
  <2> HIDE DEF held, f, x, reason, trigger
  <2>3. ASSUME Report(held, state', trigger, "LIQUIDATION")
        PROVE  last' = last \/ last'.structural = FALSE
    <3>1. "LIQUIDATION" \notin Structural
      BY <2>2
    <3> QED BY <2>3, <3>1, Reported
  <2>4. ASSUME Report(f, x, open, reason)
        PROVE  \/ last' = last
               \/ /\ Open(f) /\ ~ Open(x)
                  /\ last' = [structural |-> reason \in Structural, side |-> f.position.side,
                              exit |-> open, liquidation |-> f.position.liquidation, day |-> day,
                              pending |-> f.pending]
    BY <2>4 DEF Report
  <2> QED BY <2>1, <2>3, <2>4
<1>3. ASSUME Open(f), ~ Open(x),
             last' = [structural |-> reason \in Structural, side |-> f.position.side,
                      exit |-> open, liquidation |-> f.position.liquidation, day |-> day,
                      pending |-> f.pending]
      PROVE  Honest(last')
  <2>1. f.pending # Idle
    <3> HIDE DEF f
    <3> QED BY <1>0, <1>1, <1>3, Begun, ExecutionBooked
  <2>2. f.pending.decided + 1 = day
    BY <1>1, <2>1 DEF Timely
  <2>3. f.position.liquidation \in Int
    <3> HIDE DEF f
    <3>1. f.position \in Positions
      BY <1>1, <1>3, Positioned DEF Account
    <3> QED BY <3>1 DEF Positions
  <2>4. Futures => IF f.position.side = "LONG" THEN open > f.position.liquidation
                   ELSE open < f.position.liquidation
    <3> HIDE DEF f
    <3> QED BY <1>0, <1>3, <2>3 DEF Reached
  <2> DEFINE y == last'
  <2>5. /\ y.side = f.position.side /\ y.exit = open /\ y.day = day /\ y.pending = f.pending
        /\ y.liquidation = f.position.liquidation
    <3> HIDE DEF f, x, reason
    <3> QED BY <1>3
  <2> HIDE DEF f, y
  <2>6. Honest(y)
    BY <2>2, <2>4, <2>5 DEF Honest
  <2> QED BY <2>6 DEF y
<1>4. Honest(last') \/ last'.structural # FALSE
  BY DEF Honest
<1> QED BY <1>2, <1>3, <1>4

LEMMA NextDay == DayInv /\ [Next]_vars => DayInv'
<1> SUFFICES ASSUME DayInv, [Next]_vars PROVE DayInv'
  OBVIOUS
<1>1. TrendInv /\ TrendInv' /\ Honest(last)
  BY NextTrend DEF DayInv, DayIsHonest, NextDayOnly, LiquidationFirst, Honest
<1>2. UNCHANGED config
  BY DEF Next, LiquidateAtOpen, Hour, Close, vars
<1>3. Honest(last')
  <2>1. ASSUME NEW open \in Price, NEW atOpen \in Rates, LiquidateAtOpen(open, atOpen)
        PROVE  Honest(last')
    <3> DEFINE f == Funded(state, atOpen)
    <3>1. Report(f, state', open, "LIQUIDATION") /\ "LIQUIDATION" \notin Structural
      BY <2>1 DEF LiquidateAtOpen, Structural
    <3> HIDE DEF f
    <3>2. last' = last \/ last'.structural = FALSE
      BY <3>1, Reported
    <3> QED BY <1>1, <3>2 DEF Honest
  <2>2. ASSUME NEW open \in Price, NEW close \in Price, NEW spike \in Spikes,
               NEW atOpen \in Rates, NEW inside \in Rates, Hour(open, close, spike, atOpen, inside)
        PROVE  Honest(last')
    BY <1>1, <2>2, HourHonest
  <2>3. ASSUME NEW daily \in BOOLEAN, Close(daily)
        PROVE  Honest(last')
    <3>1. last' = last \/ \E u : Report(u, state', FinalPrice, "FORCED_END")
      BY <2>3, Zenon DEF Close
    <3>2. "FORCED_END" \notin Structural
      BY DEF Structural
    <3>3. last' = last \/ last'.structural = FALSE
      BY <3>1, <3>2, Reported
    <3> QED BY <1>1, <3>3 DEF Honest
  <2>4. CASE UNCHANGED vars
    BY <1>1, <2>4 DEF vars, Honest
  <2> QED BY <2>1, <2>2, <2>3, <2>4 DEF Next
<1>4. Honest(last)'
  BY <1>2, <1>3 DEF Honest, Futures
<1>5. DayIsHonest'
  <2>1. Timely(state)'
    BY <1>1 DEF TrendInv
  <2> QED BY <1>4, <2>1 DEF Timely, Honest, DayIsHonest, NextDayOnly, LiquidationFirst
<1> QED BY <1>1, <1>5 DEF DayInv

\* A decision is executed on the next day or never, and no scheduled exit saves a position
\* whose mark is beyond its liquidation price, for any prices, funding and missing hours.
THEOREM DaysAreHonest == Spec => []DayIsHonest
<1>1. DayInv => DayIsHonest
  BY DEF DayInv
<1> QED BY <1>1, InitDay, NextDay, PTL DEF Spec

=============================================================================
