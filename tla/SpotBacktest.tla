----------------------------- MODULE SpotBacktest -----------------------------
(***************************************************************************)
(* BacktestEngine (backtest/engine.py) with DefaultRiskManager             *)
(* (risk/manager.py) and BacktestOrderExecutor (execution/backtest.py):    *)
(* one action per candle, one operator per step taken in it.               *)
(*                                                                         *)
(* Prices, quantities and money are integers; Cost (spread and slippage)   *)
(* and Fee are amounts per unit of quantity; the ATR is the distance       *)
(* Trail.  The gates of the risk manager that depend on the configuration  *)
(* alone are open.  Of a decision trace its execution status is kept, and  *)
(* apart from it the row of a candle at which an order waited.             *)
(***************************************************************************)
EXTENDS Integers, FiniteSets, Functions

CONSTANTS
    Price, Spikes,      \* open and close, and how far high and low exceed them
    Candles, CandlesPerDay,
    Latency,            \* latency_candles
    TimeExit,           \* time_exit_candles, or Never
    Configs,            \* [partial, exit]: partial take profit, strategy exit
    PartialPercent, PartialR, BreakEvenR, Trail,
    MaxEntries, DailyLossPercent, PositionPercent, MinReward,
    Capital,
    Cost, Fee,
    Stops, TargetR      \* the strategy's stops and its target in multiples

Never == -1

ASSUME SpotAssumption ==
    /\ Price \subseteq Nat \ {0}
    /\ {Candles, CandlesPerDay, Latency, MaxEntries, Capital} \subseteq Nat \ {0}
    /\ Configs \subseteq [partial : BOOLEAN, exit : BOOLEAN]
    /\ TimeExit \in Nat \cup {Never} /\ PartialPercent \in 1 .. 100
    /\ {Cost, Fee, Trail, PartialR, BreakEvenR, MinReward, TargetR,
        DailyLossPercent, PositionPercent} \cup Stops \cup Spikes \subseteq Nat

VARIABLES
    config,
    index,
    state,      \* the locals of run: cash, position, counters of the day, trades
    pending,
    trace,      \* what became of the decision of each candle
    executed    \* history: the decisions whose order was filled

vars == <<config, index, state, pending, trace, executed>>

Flat == [quantity |-> 0]
NoPending == [direction |-> "NONE"]
NoTrade == [reason |-> "NONE"]

Low(a, b) == IF a <= b THEN a ELSE b
High(a, b) == IF a >= b THEN a ELSE b

Day(i) == i \div CandlesPerDay

Open(s) == s.position # Flat

Equity(s, price) == s.cash + s.position.quantity * price

-----------------------------------------------------------------------------
(* Steps of one candle *)

Rolled(s) ==
    IF s.day = Day(index) THEN s
    ELSE [s EXCEPT !.day = Day(index), !.entries = 0, !.dayStart = Equity(s, s.close)]

\* A pending purchase at the open
Affordable(s, buy, open) == (open + Cost + Fee) * buy.quantity <= s.cash

Bought(s, buy, open) ==
    [s EXCEPT !.cash = @ - (open + Cost + Fee) * buy.quantity,
              !.entries = @ + 1,
              !.held = @ + buy.quantity,
              !.position = [quantity |-> buy.quantity, entry |-> open + Cost,
                            fee |-> Fee * buy.quantity, stop |-> buy.stop,
                            target |-> buy.target, risk |-> open + Cost - buy.stop,
                            partial |-> FALSE, opened |-> index, decided |-> buy.at]]

\* An order that sells `quantity` of a position that carries `fee`
Sold(s, quantity, fee, reference, reason) ==
    [s EXCEPT !.cash = @ + (reference - Cost - Fee) * quantity,
              !.held = @ - quantity,
              !.net = @ + (reference - Cost - s.position.entry) * quantity
                        - fee - Fee * quantity,
              !.last = [reason |-> reason, at |-> index, stop |-> s.position.stop]]

\* An exit sells what its intent asks for, and the position is gone.
Left(s, quantity, reference, reason) ==
    [Sold(s, quantity, s.position.fee, reference, reason) EXCEPT !.position = Flat]

\* Mutant of Trimmed: both exits charge the whole fee of the entry.
TrimmedKeepingFee(s, candle) ==
    LET p      == s.position
        target == p.entry + p.risk * PartialR
        part   == (p.quantity * PartialPercent) \div 100
    IN  IF ~ config.partial \/ ~ Open(s) THEN s
        ELSE IF p.partial \/ candle.low <= p.stop \/ candle.high < target THEN s
        ELSE IF part = 0 \/ part = p.quantity THEN [s EXCEPT !.position.partial = TRUE]
        ELSE [Sold(s, part, p.fee, target, "PARTIAL_TAKE_PROFIT") EXCEPT
                 !.position.quantity = @ - part, !.position.partial = TRUE]

\* _manage_position_extensions
Trimmed(s, candle) ==
    LET p      == s.position
        target == p.entry + p.risk * PartialR
        part   == (p.quantity * PartialPercent) \div 100
        fee    == (p.fee * part) \div p.quantity
    IN  IF \/ ~ config.partial \/ ~ Open(s)
        THEN s
        ELSE IF p.partial \/ candle.low <= p.stop \/ candle.high < target THEN s
        ELSE IF part = 0 \/ part = p.quantity THEN [s EXCEPT !.position.partial = TRUE]
        ELSE [Sold(s, part, fee, target, "PARTIAL_TAKE_PROFIT") EXCEPT
                 !.position.quantity = @ - part, !.position.fee = @ - fee,
                 !.position.partial = TRUE]

\* _exit_trigger, and the time exit when nothing else wants to leave
Protected(s, candle, leaving) ==
    LET p == s.position
    IN  IF ~ Open(s) THEN s
        ELSE IF candle.low <= p.stop THEN Left(s, p.quantity, p.stop, "STOP_LOSS")
        ELSE IF candle.high >= p.target THEN Left(s, p.quantity, p.target, "TAKE_PROFIT")
        ELSE IF ~ leaving /\ TimeExit # Never /\ index - p.opened >= TimeExit
             THEN Left(s, p.quantity, candle.close, "TIME_EXIT")
        ELSE s

\* _update_position_protection, after the close
Raised(s, close) ==
    LET p        == s.position
        trailing == High(p.stop, close - Trail)
    IN  IF ~ Open(s) THEN s
        ELSE [s EXCEPT !.position.stop =
                 IF close >= p.entry + p.risk * BreakEvenR THEN High(trailing, p.entry)
                 ELSE trailing]

-----------------------------------------------------------------------------
(* The decision at the close, with the risk manager's gates *)

Suggested(s, close) == (s.cash * PositionPercent) \div (100 * close)

\* Mutant of BuyApproved: the limits of the day are not asked for.
BuyApprovedAllDay(s, close, buy) ==
    /\ 100 * buy.quantity * close <= PositionPercent * Equity(s, close)
    /\ buy.quantity * close <= s.cash
    /\ buy.stop < close
    /\ buy.target - close >= MinReward * (close - buy.stop)

BuyApproved(s, close, buy) ==
    LET loss == High(0, s.dayStart - Equity(s, close))
    IN  /\ s.entries < MaxEntries
        /\ 100 * loss < s.dayStart * DailyLossPercent
        /\ 100 * buy.quantity * close <= PositionPercent * Equity(s, close)
        /\ buy.quantity * close <= s.cash
        /\ buy.stop < close
        /\ buy.target - close >= MinReward * (close - buy.stop)

Buys(s, close) ==
    {buy \in {[direction |-> "BUY", quantity |-> Suggested(s, close), stop |-> close - d,
               target |-> close + TargetR * d, at |-> index, execute |-> index + Latency] :
                 d \in Stops} : buy.quantity > 0 /\ BuyApproved(s, close, buy)}

Exits(s) ==
    IF config.exit THEN {[direction |-> "SELL", quantity |-> s.position.quantity,
                          at |-> index, execute |-> index + Latency]}
    ELSE {}

\* Mutant of Orders: a waiting order is replaced by a newer one.
OrdersAlways(s, waiting, close) ==
    IF index = Candles - 1 THEN {} ELSE IF Open(s) THEN Exits(s) ELSE Buys(s, close)

\* No order is decided while one waits, nor at the last candle.
Orders(s, waiting, close) ==
    IF waiting # NoPending \/ index = Candles - 1 THEN {}
    ELSE IF Open(s) THEN Exits(s) ELSE Buys(s, close)

-----------------------------------------------------------------------------

Init ==
    /\ config \in Configs
    /\ index = 0
    /\ state = [cash |-> Capital, position |-> Flat, entries |-> 0, day |-> 0,
                dayStart |-> Capital, close |-> 0, net |-> 0, held |-> 0, last |-> NoTrade]
    /\ pending = NoPending
    /\ trace = <<>>
    /\ executed = {}

Bar(open, close, down, up) ==
    [open |-> open, close |-> close,
     low |-> Low(open, close) - down, high |-> High(open, close) + up]

Due == pending # NoPending /\ index >= pending.execute

\* A row of the trace, for the decision of this candle
Row(rows, status) == [i \in DOMAIN rows \cup {index} |-> IF i = index THEN status ELSE rows[i]]

\* A decision without an order.  While an order waits the row says PENDING, for the reason
\* PENDING_ORDER, and says so for good: no intent leads to it.
NoOrder(s, waiting) ==
    CASE Open(s) -> "SKIPPED"
      [] ~ Open(s) /\ waiting # NoPending -> "PENDING_ORDER"
      [] OTHER -> "NOT_EXECUTED"

Marked(at, status) == IF at \in DOMAIN trace THEN [trace EXCEPT ![at] = status] ELSE trace

\* One round of the loop.  An executed exit is marked only once: _update_trace
\* forgets the intent, and so the second mark of a position now gone is void.
Candle(candle) ==
    LET buying  == Due /\ pending.direction = "BUY"
        leaving == Due /\ pending.direction = "SELL"
        rolled  == Rolled(state)
        fills   == buying /\ Affordable(rolled, pending, candle.open)
                          /\ candle.open + Cost > pending.stop
        entered == IF fills THEN Bought(rolled, pending, candle.open) ELSE rolled
        guarded == Protected(Trimmed(entered, candle), candle, leaving)
        exits   == leaving /\ Open(guarded)
        left    == IF exits THEN Left(guarded, pending.quantity, candle.open, "STRATEGY_EXIT")
                   ELSE guarded
        after   == [Raised(left, candle.close) EXCEPT !.close = candle.close]
        waiting == IF Due THEN NoPending ELSE pending
        marked  == IF Due THEN Marked(pending.at, IF fills \/ exits THEN "EXECUTED" ELSE "REJECTED")
                   ELSE trace
    IN  /\ index < Candles
        /\ state' = after
        /\ executed' = IF fills \/ exits THEN executed \cup {pending.at} ELSE executed
        /\ \/ /\ pending' = waiting
              /\ trace' = IF index = Candles - 1 THEN marked
                          ELSE Row(marked, NoOrder(after, waiting))
           \/ \E order \in Orders(after, waiting, candle.close) :
                 pending' = order /\ trace' = Row(marked, "PENDING")
        /\ index' = index + 1
        /\ UNCHANGED config

\* force_close_at_end, at the close of the last candle
End ==
    /\ index = Candles
    /\ state' = IF Open(state)
                THEN Left(state, state.position.quantity, state.close, "FORCED_END") ELSE state
    /\ index' = index + 1
    /\ UNCHANGED <<config, pending, trace, executed>>

Next ==
    \/ \E open, close \in Price, down, up \in Spikes : Candle(Bar(open, close, down, up))
    \/ End

Spec == Init /\ [][Next]_vars

-----------------------------------------------------------------------------
(* Correctness *)

\* The rows of the decisions that became an order
Ordered == {"PENDING", "EXECUTED", "REJECTED"}

\* Every field keeps its type.
TypeOK ==
    /\ config \in Configs /\ index \in 0 .. Candles + 1
    /\ {state.cash, state.net, state.held} \subseteq Int
    /\ state.entries \in Nat /\ state.position.quantity \in Nat
    /\ \A i \in DOMAIN trace : trace[i] \in Ordered \cup {"SKIPPED", "PENDING_ORDER", "NOT_EXECUTED"}
    /\ executed \subseteq DOMAIN trace

\* risk/manager.py:52-58: what was sold of a position never exceeds it; bought
\* less sold is what the position holds, over partial exits and strategy exits.
HoldingsReconcile == state.held = state.position.quantity

\* The cash is the capital, the net result of the trades and the cost of the open
\* position, whatever share of its fee the partial exits took with them.
CashReconciles ==
    state.cash = Capital + state.net
                 - IF Open(state) THEN state.position.entry * state.position.quantity
                                       + state.position.fee
                   ELSE 0

\* docs/BACKTEST_ASSUMPTIONS.md:23: the cash never becomes negative, although a
\* purchase is sized at the close and paid at a later open.
CashNeverNegative == state.cash >= 0

\* Every candle but the last has its row.  The row of an order tells what became of it,
\* and of these only that of the order that waits is pending.  A row PENDING_ORDER, which is
\* published as pending and never settled, is of a candle at which an earlier order waited:
\* one decided less than the latency before.  With a latency of one there is none.
TraceTellsTheFill ==
    /\ DOMAIN trace = 0 .. Low(index, Candles - 1) - 1
    /\ {i \in DOMAIN trace : trace[i] = "EXECUTED"} = executed
    /\ {i \in DOMAIN trace : trace[i] = "PENDING"} =
           IF pending = NoPending THEN {} ELSE {pending.at}
    /\ \A i \in DOMAIN trace : trace[i] = "PENDING_ORDER" =>
           \E j \in DOMAIN trace : j < i /\ i < j + Latency /\ trace[j] \in Ordered

\* docs/BACKTEST_ASSUMPTIONS.md:16: a decision is executed `latency` candles later.
NoLookahead == Open(state) => state.position.opened = state.position.decided + Latency

\* docs/BACKTEST_ASSUMPTIONS.md:29: trailing and break-even only ever raise the stop,
\* and act from the next candle on: an exit of this candle used the old stop.
StopNeverLowered ==
    [][/\ Open(state) /\ Open(state') /\ state'.position.opened = state.position.opened
          => state'.position.stop >= state.position.stop
       /\ Open(state) /\ ~ Open(state') => state'.last.stop = state.position.stop]_vars

\* A day starts no entry decided beyond its limit or after its loss limit.
DayLimits ==
    [][pending' # pending /\ pending' # NoPending /\ pending'.direction = "BUY"
       => /\ state'.entries < MaxEntries
          /\ 100 * (state'.dayStart - Equity(state', state'.close))
                < DailyLossPercent * state'.dayStart]_vars

\* Between any two candles the account adds up: cash, holdings and trades agree over
\* partial exits, and the cash never becomes negative.
BooksReconcile == TypeOK /\ HoldingsReconcile /\ CashReconciles /\ CashNeverNegative

\* The rows published as executed are those that were, every other row says what became of
\* its decision but for those that only waited, and none was executed at a price it knew.
TraceIsHonest == TraceTellsTheFill /\ NoLookahead

\* No path of orders, candles and losses lowers a stop or enters beyond a day's limits.
ProtectionHolds == StopNeverLowered /\ DayLimits
=============================================================================
