---------------------------- MODULE TrendFollowing ----------------------------
(***************************************************************************)
(* TrendFollowingEngine (research/trend_following_engine.py) with the      *)
(* decisions of strategy/trend_following.py: hours settle funding,         *)
(* liquidation and the action that waits, the close of the day decides.    *)
(*                                                                         *)
(* Prices, quantities and money are integers.  A candle and its mark price *)
(* open and close alike; the mark has extremes of its own.  The indicators *)
(* are abstracted to the decisions they allow, after the warmup.  Spot has *)
(* neither mark nor funding, and only long positions.  Hours may be        *)
(* missing, at the end of a day, and a day that misses hours may have no   *)
(* daily candle.                                                           *)
(***************************************************************************)
EXTENDS DefensiveRisk, Sequences, FiniteSets

CONSTANTS
    Configs,        \* records [market, sides, defensive]
    Price, Spikes,  \* of open and close; how far the mark exceeds them
    Rates,          \* funding per unit of quantity
    Stops,          \* distances of the exit channel from the close
    Days, Hours,    \* days of the evaluation, hours of a day
    Capital,
    LiquidationFee, Maintenance     \* per unit of quantity

ASSUME TrendAssumption ==
    /\ Configs \subseteq [market : {"spot", "futures"}, sides : SUBSET {"LONG", "SHORT"},
                          defensive : BOOLEAN]
    /\ \A c \in Configs : c.market = "spot" => c.sides = {"LONG"}
    /\ Price \subseteq Nat \ {0} /\ Rates \subseteq Int
    /\ \A p \in Price : Cost < p    \* spread and slippage stay below 10000 bps
    /\ {Days, Hours, Capital} \subseteq Nat \ {0}
    /\ {LiquidationFee, Maintenance} \cup Spikes \cup Stops \subseteq Nat

VARIABLES
    config,
    day, hour,  \* the hours of the day before `hour` are done
    price,      \* last_mark, and the close of the last hour
    state,      \* the locals of run
    log,        \* trades, as [structural, liquidated, net, mode]
    last        \* history: the last trade in full

vars == <<config, day, hour, price, state, log, last>>

Flat == [side |-> "NONE"]
Idle == [action |-> "NONE"]

Open(s) == s.position # Flat

Sign(side) == IF side = "LONG" THEN 1 ELSE -1

Higher(a, b) == IF a >= b THEN a ELSE b

-----------------------------------------------------------------------------
(* Steps of an hour *)

Futures == config.market = "futures"

\* Mutant of Funded: the position does not learn of its funding.
FundedAside(s, rate) ==
    LET flow == - Sign(s.position.side) * rate * s.position.quantity
    IN  IF Futures /\ Open(s) THEN [s EXCEPT !.wallet = @ + flow] ELSE s

\* _apply_funding; a long pays a positive rate
Paid(p, flow) == [p EXCEPT !.funding = @ + flow]

Funded(s, rate) ==
    LET flow == - Sign(s.position.side) * rate * s.position.quantity
    IN  IF Futures /\ Open(s)
        THEN [s EXCEPT !.wallet = @ + flow, !.position = Paid(@, flow)] ELSE s

liquidation_price(side, entry) ==
    IF side = "LONG" THEN Maintenance ELSE 2 * entry - Maintenance

\* _liquidated_at_open with the opening mark, _liquidated_intrahour with its extremes
Reached(s, low, high) ==
    /\ Futures /\ Open(s)
    /\ IF s.position.side = "LONG" THEN low <= s.position.liquidation
       ELSE high >= s.position.liquidation

\* _open_position; without equity the request for a size raises.
Entered(s, side, stop, open) ==
    LET entry == open + Sign(side) * Cost
        q     == size_position(config.market, side, s.wallet, risk_percent(s.risk), entry, stop)
    IN  IF s.wallet <= 0 THEN [s EXCEPT !.raised = TRUE]
        ELSE IF q = 0 THEN s
        ELSE [s EXCEPT
                 !.wallet = @ - Fee * q - IF Futures THEN 0 ELSE entry * q,
                 !.position = [side |-> side, quantity |-> q, entry |-> entry, fee |-> Fee * q,
                               before |-> s.wallet, mode |-> s.risk.mode, funding |-> 0,
                               liquidation |-> liquidation_price(side, entry),
                               opened |-> day, decided |-> s.pending.decided]]

\* What closing the position at a reference price brings: the exit, and the result
Exit(p, reference) == reference - Sign(p.side) * Cost

Net(p, reference, reason) ==
    Sign(p.side) * (Exit(p, reference) - p.entry) * p.quantity - p.fee - Fee * p.quantity
    + p.funding - IF reason = "LIQUIDATION" THEN LiquidationFee * p.quantity ELSE 0

\* _close_position; a negative equity raises when the machine records the trade.
Closed(s, reference, reason) ==
    LET p     == s.position
        net   == Net(p, reference, reason)
        after == s.wallet + net + p.fee - p.funding
                 + IF Futures THEN 0 ELSE p.entry * p.quantity
    IN  IF after < 0 THEN [s EXCEPT !.raised = TRUE]
        ELSE [s EXCEPT !.wallet = after, !.position = Flat,
                       !.risk = record_trade(@, config.defensive, reason, net, p.before, after)]

\* A liquidation cancels what waits, and nothing is entered on its day.
Seized(s, reference) ==
    [Closed(s, reference, "LIQUIDATION") EXCEPT !.pending = Idle, !.kill = day]

Due(s) == hour = 0 /\ s.pending # Idle /\ s.pending.decided + 1 = day

Executed(s, open) ==
    IF ~ Due(s) THEN s
    ELSE IF s.pending.action = "EXIT" /\ Open(s)
    THEN [Closed(s, open, s.pending.reason) EXCEPT !.pending = Idle]
    ELSE IF s.pending.action = "ENTRY" /\ ~ Open(s) /\ s.kill # day
    THEN [Entered(s, s.pending.side, s.pending.stop, open) EXCEPT !.pending = Idle]
    ELSE [s EXCEPT !.pending = Idle]

\* What a close of the position adds to the trades.
Report(before, after, reference, reason) ==
    IF Open(before) /\ ~ Open(after)
    THEN LET p == before.position
         IN  /\ log' = Append(log, [structural |-> reason \in Structural,
                                    liquidated |-> reason = "LIQUIDATION",
                                    net |-> Net(p, reference, reason), mode |-> p.mode])
             /\ last' = [structural |-> reason \in Structural, side |-> p.side,
                         exit |-> reference, liquidation |-> p.liquidation, day |-> day,
                         pending |-> before.pending]
    ELSE UNCHANGED <<log, last>>

-----------------------------------------------------------------------------
Init ==
    /\ config \in Configs
    /\ day = 1 /\ hour = 0 /\ price \in Price
    /\ state = [wallet |-> Capital, position |-> Flat, pending |-> Idle, risk |-> NormalRisk,
                kill |-> 0, raised |-> FALSE]
    /\ log = <<>> /\ last = [structural |-> FALSE]

Running == day <= Days /\ ~ state.raised

\* An hour that begins with a mark beyond the liquidation price: after the
\* position is gone the rest of the hour finds nothing to do.
LiquidateAtOpen(open, atOpen) ==
    LET funded == Funded(state, atOpen)
    IN  /\ Running /\ hour < Hours /\ Reached(funded, open, open)
        /\ state' = Seized(funded, open)
        /\ Report(funded, state', open, "LIQUIDATION")
        /\ hour' = hour + 1 /\ price' \in Price
        /\ UNCHANGED <<config, day>>

\* Any other hour, in which at most one position is closed: an exit leaves no
\* position to liquidate, and an entry found none to close.
Hour(open, close, spike, atOpen, inside) ==
    LET funded   == Funded(state, atOpen)
        executed == Executed(funded, open)
        held     == Funded(executed, inside)
        low      == Lower(open, close) - spike
        high     == Higher(open, close) + spike
        trigger  == IF held.position.side = "LONG" THEN Lower(open, held.position.liquidation)
                    ELSE Higher(open, held.position.liquidation)
    IN  /\ Running /\ hour < Hours /\ ~ Reached(funded, open, open)
        /\ IF ~ held.raised /\ Reached(held, low, high)
           THEN /\ state' = Seized(held, trigger)
                /\ Report(held, state', trigger, "LIQUIDATION")
           ELSE /\ state' = held
                /\ Report(funded, executed, open, funded.pending.reason)
        /\ hour' = hour + 1 /\ price' = close
        /\ UNCHANGED <<config, day>>

\* The decision at the close of day: an exit when the macro filter or the
\* channel says so, the macro filter first; an entry beyond the channel, with the
\* stop of the exit channel frozen in it.
Decisions(s) ==
    {Idle} \cup
    IF Open(s) THEN {[action |-> "EXIT", reason |-> r, decided |-> day] : r \in Structural}
    ELSE {[action |-> "ENTRY", side |-> side, stop |-> price - Sign(side) * d,
           decided |-> day] : side \in config.sides, d \in Stops}

Equity(s) ==
    IF ~ Open(s) THEN s.wallet
    ELSE s.wallet + IF Futures
                    THEN Sign(s.position.side) * (price - s.position.entry) * s.position.quantity
                    ELSE price * s.position.quantity

\* Mutant of Expired: what waits is kept until there are candles again.
ExpiredNever(s) == s

\* An action that found no candle of its day is dropped.
Expired(s) ==
    IF s.pending # Idle /\ s.pending.decided < day THEN [s EXCEPT !.pending = Idle] ELSE s

\* What the last day closes a position at: the price the day ended with, or, when the
\* day had no candles at all, the price the position was entered at.
FinalPrice ==
    IF hour > 0 THEN price ELSE state.position.entry - Sign(state.position.side) * Cost

\* The end of a day.  A negative equity raises when the machine observes it; a
\* position still open at the end of the last day is closed.
Close(daily) ==
    LET fresh    == Expired(state)
        observed == IF Equity(fresh) < 0 THEN [fresh EXCEPT !.raised = TRUE]
                    ELSE [fresh EXCEPT !.risk = observe_equity(@, Equity(fresh))]
    IN  /\ Running
        /\ daily => hour > 0
        /\ hour = Hours => daily
        /\ \E decision \in IF daily THEN Decisions(fresh) ELSE {fresh.pending} :
              LET seen == [IF daily THEN observed ELSE fresh EXCEPT !.pending = decision]
              IN  IF day = Days /\ Open(seen) /\ ~ seen.raised
                  THEN /\ state' = [Closed(seen, FinalPrice, "FORCED_END") EXCEPT !.pending = Idle]
                       /\ Report(seen, state', FinalPrice, "FORCED_END")
                  ELSE state' = seen /\ UNCHANGED <<log, last>>
        /\ day' = day + 1 /\ hour' = 0
        /\ UNCHANGED <<config, price>>

Next ==
    \/ \E open \in Price, atOpen \in Rates : LiquidateAtOpen(open, atOpen)
    \/ \E open, close \in Price, spike \in Spikes, atOpen, inside \in Rates :
          Hour(open, close, spike, atOpen, inside)
    \/ \E daily \in BOOLEAN : Close(daily)

Spec == Init /\ [][Next]_vars

-----------------------------------------------------------------------------
(* Correctness *)

\* The equity after the first n trades, for each n.
Realized(trades) ==
    LET e[n \in 0 .. Len(trades)] == IF n = 0 THEN Capital ELSE e[n - 1] + trades[n].net IN e

\* The equity before trade i, and after it.
Before(i) == Realized(log)[i - 1]
After(i)  == Realized(log)[i]

\* Every field keeps its type.
TypeOK ==
    /\ config \in Configs /\ day \in 1 .. Days + 1 /\ hour \in 0 .. Hours
    /\ state.wallet \in Int /\ state.raised \in BOOLEAN
    /\ Open(state) => state.position.quantity > 0 /\ state.position.side \in config.sides
    /\ state.risk.mode \in {"NORMAL", "DEFENSIVE"} /\ state.risk.losses \in Nat

\* The checks of RiskState never raise: a target exists exactly in DEFENSIVE mode,
\* there it is the start of the sequence, and NORMAL mode means under three losses.
RiskConsistent ==
    LET r == state.risk
    IN  /\ r.mode = "NORMAL" => r.target = None /\ r.losses < 3
        /\ r.mode = "DEFENSIVE" => r.target # None /\ r.target = r.start

\* The wallet is the capital, the net result of every trade, and what the open
\* position cost and was paid: funding, fees and liquidations are booked once.
WalletReconciles ==
    LET p    == state.position
        held == IF Open(state) THEN p.funding - p.fee - IF Futures THEN 0 ELSE p.entry * p.quantity
                ELSE 0
    IN  ~ state.raised => state.wallet = Realized(log)[Len(log)] + held

\* docs/TREND_FOLLOWING_METHODOLOGY.md:209: the recovery target is the equity before
\* the first trade of the losing sequence, which holds three structural losses or a
\* liquidation, and no trade since brought it back.
TargetIsStreakStart ==
    state.risk.mode = "DEFENSIVE" /\ ~ state.raised =>
        \E k \in DOMAIN log :
            /\ log[k].net < 0 /\ Before(k) = state.risk.target
            /\ \/ Cardinality({j \in k .. Len(log) : log[j].structural /\ log[j].net < 0}) >= 3
               \/ \E j \in k .. Len(log) : log[j].liquidated
            /\ \A j \in k .. Len(log) : After(j) < state.risk.target

\* docs/TREND_FOLLOWING_METHODOLOGY.md:205: under the defensive policy the trade that
\* follows three structural losses at full risk is entered at the reduced risk.
StreakReduces ==
    config.defensive /\ Open(state) /\ Len(log) >= 3
    /\ (\A i \in Len(log) - 2 .. Len(log) :
          log[i].structural /\ log[i].net < 0 /\ log[i].mode = "NORMAL")
    => state.position.mode = "DEFENSIVE"

\* docs/TREND_FOLLOWING_METHODOLOGY.md:125: what the close of a day decides is executed
\* on the next day or never, also when hours or days of candles are missing.
NextDayOnly ==
    /\ Open(state) => state.position.opened = state.position.decided + 1
    /\ last.structural => last.day = last.pending.decided + 1
    /\ state.pending # Idle => state.pending.decided + 1 = day

\* docs/TREND_FOLLOWING_METHODOLOGY.md:160: a position whose mark is beyond the
\* liquidation price is liquidated, also when an exit is scheduled for that hour.
LiquidationFirst ==
    Futures /\ last.structural =>
        IF last.side = "LONG" THEN last.exit > last.liquidation
        ELSE last.exit < last.liquidation

\* After every trade the account adds up and the risk state passes its own checks.
BooksReconcile == TypeOK /\ RiskConsistent /\ WalletReconciles

\* The defensive mode is what the log of trades says: it starts with the third loss of
\* a streak or a liquidation, and lasts until the equity before the streak is back.
RiskFollowsTheLog == TargetIsStreakStart /\ StreakReduces

\* The steps inside a day favour nobody: no decision is executed late or early, and no
\* scheduled exit saves a position that was liquidated.
DayIsHonest == NextDayOnly /\ LiquidationFirst
=============================================================================
