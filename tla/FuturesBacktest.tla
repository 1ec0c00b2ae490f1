--------------------------- MODULE FuturesBacktest ---------------------------
(***************************************************************************)
(* FuturesBacktestEngine (futures/engine.py) with FuturesRiskManager       *)
(* (futures/risk.py) and the formulas of futures/accounting.py: one action *)
(* per candle, one operator per step the engine takes in it, in the order  *)
(* the engine takes them.                                                  *)
(*                                                                         *)
(* Prices, quantities and money are integers.  Rates are amounts per unit  *)
(* of quantity: Cost (spread and slippage), Fee, LiquidationFee and        *)
(* Maintenance.  The list of trades is kept as its sums and its last       *)
(* trade.  What the analyzer returns is chosen freely among the signals it *)
(* can form from the candle and the open position.                         *)
(***************************************************************************)
EXTENDS Integers, FiniteSets

CONSTANTS
    Price,          \* the prices of open and close
    Spikes,         \* how far high and low exceed the body of a candle
    Candles,        \* evaluated candles
    CandlesPerDay,
    Latency,        \* latency_candles
    TimeExit,       \* time_exit_candles, or Never
    Cooldown,       \* post_liquidation_cooldown_candles
    MaxEntries,     \* maximum_entries_per_day
    Wallet,         \* initial_balance
    MinWallet,      \* minimum_wallet_balance
    Leverage,
    RiskPercent, NotionalPercent, BufferPercent, DailyLossPercent,
    Cost, Fee, LiquidationFee, Maintenance,
    Rates,          \* funding per unit of quantity
    Stops           \* distances of a stop from the close

Never == -1

ASSUME FuturesAssumption ==
    /\ Price \subseteq Nat \ {0}
    /\ {Candles, CandlesPerDay, Latency, MaxEntries, Wallet, Leverage} \subseteq Nat \ {0}
    /\ Leverage <= 3 /\ NotionalPercent \in 1 .. 100
    /\ TimeExit \in Nat \cup {Never}
    /\ 0 \notin Stops /\ Rates \subseteq Int
    /\ {Cooldown, MinWallet, RiskPercent, BufferPercent, DailyLossPercent,
        Cost, Fee, LiquidationFee, Maintenance} \cup Spikes \cup Stops \subseteq Nat
    \* in the code a cost is a fraction of the price
    /\ \A p \in Price : Cost < p

VARIABLES
    index,
    state,      \* _State
    pending,    \* _PendingSignal
    seen        \* history: the mark price of the candle handled last

vars == <<index, state, pending, seen>>

Sides == {"LONG", "SHORT"}
Flat == [side |-> "NONE"]
Hold == [direction |-> "HOLD"]
NoTrade == [reason |-> "NONE"]
NoPending == [execute |-> Never, signal |-> Hold]

Low(a, b) == IF a <= b THEN a ELSE b
High(a, b) == IF a >= b THEN a ELSE b
Sign(side) == IF side = "LONG" THEN 1 ELSE -1

Day(i) == i \div CandlesPerDay

Open(s) == s.position # Flat

-----------------------------------------------------------------------------
(* futures/accounting.py *)

unrealized_pnl(side, entry, mark, quantity) == Sign(side) * (mark - entry) * quantity

approximate_liquidation_price(side, entry) ==
    IF side = "LONG" THEN High(0, entry - entry \div Leverage + Maintenance)
                     ELSE entry + entry \div Leverage - Maintenance

execution_price(reference, side, opening) ==
    IF (side = "LONG") = opening THEN reference + Cost ELSE reference - Cost

-----------------------------------------------------------------------------
(* FuturesRiskManager.evaluate for a signal to enter *)

quantity(s, signal, price) ==
    LET distance == High(price - signal.stop, signal.stop - price)
    IN  Low((s.wallet * RiskPercent) \div (100 * distance),
            (s.wallet * NotionalPercent * Leverage) \div (100 * price))

\* Mutant of approved: a liquidation has no consequence.
approvedAfterLiquidation(s, signal, price) ==
    LET q      == quantity(s, signal, price)
        margin == (price * q) \div Leverage
        loss   == High(0, s.dayStart - s.wallet)
    IN  /\ ~ s.bankrupt /\ s.wallet >= MinWallet
        /\ ~ Open(s)
        /\ IF signal.side = "LONG" THEN signal.stop < price /\ price < signal.target
                                   ELSE signal.target < price /\ price < signal.stop
        /\ s.dayStart > 0 => loss * 100 < DailyLossPercent * s.dayStart
        /\ s.entries < MaxEntries
        /\ q > 0
        /\ 100 * (margin + Fee * q) + margin * BufferPercent <= 100 * s.wallet
        /\ Maintenance * q < margin

approved(s, signal, price) ==
    LET q      == quantity(s, signal, price)
        margin == (price * q) \div Leverage
        loss   == High(0, s.dayStart - s.wallet)
    IN  /\ ~ s.bankrupt /\ s.wallet >= MinWallet
        /\ ~ Open(s)
        /\ IF signal.side = "LONG" THEN signal.stop < price /\ price < signal.target
                                   ELSE signal.target < price /\ price < signal.stop
        /\ s.dayStart > 0 => loss * 100 < DailyLossPercent * s.dayStart
        /\ s.entries < MaxEntries
        /\ ~ s.liquidatedToday /\ (s.cooldown = Never \/ s.cooldown >= Cooldown)
        /\ q > 0
        /\ 100 * (margin + Fee * q) + margin * BufferPercent <= 100 * s.wallet
        /\ Maintenance * q < margin

-----------------------------------------------------------------------------
(* The steps of one candle *)

Rolled(s) ==
    IF s.day = Day(index) THEN s
    ELSE [s EXCEPT !.day = Day(index), !.entries = 0, !.liquidatedToday = FALSE,
                   !.dayStart = s.wallet]

\* The count is kept below Cooldown + 1, beyond which nothing tells values apart.
Cooled(s) ==
    IF s.cooldown = Never THEN s ELSE [s EXCEPT !.cooldown = Low(@ + 1, Cooldown + 1)]

\* _apply_funding of one event; a long pays a positive rate.
Funded(s, rate) ==
    LET flow == - Sign(s.position.side) * rate * s.position.quantity
    IN  IF ~ Open(s) THEN s
        ELSE [s EXCEPT !.wallet = @ + flow, !.position.funding = @ + flow,
                       !.paid = @ + High(0, -flow), !.received = @ + High(0, flow)]

\* Mutant of Entered: the fee of the entry is not taken.
EnteredFree(s, signal, open) ==
    LET price == execution_price(open, signal.side, TRUE)
        q     == quantity(s, signal, price)
    IN  IF ~ approved(s, signal, price) THEN s ELSE [s EXCEPT
            !.entries = @ + 1,
            !.position = [side |-> signal.side, quantity |-> q, entry |-> price,
                          stop |-> signal.stop, target |-> signal.target,
                          liquidation |-> approximate_liquidation_price(signal.side, price),
                          funding |-> 0, fee |-> Fee * q, opened |-> index,
                          signalled |-> signal.at, held |-> 0]]

\* _execute_pending of an entry, with _open_position
Entered(s, signal, open) ==
    LET price == execution_price(open, signal.side, TRUE)
        q     == quantity(s, signal, price)
    IN  IF ~ approved(s, signal, price) THEN s
        ELSE [s EXCEPT
                 !.wallet = @ - Fee * q,
                 !.entries = @ + 1,
                 !.position = [side |-> signal.side, quantity |-> q, entry |-> price,
                               stop |-> signal.stop, target |-> signal.target,
                               liquidation |-> approximate_liquidation_price(signal.side, price),
                               funding |-> 0, fee |-> Fee * q, opened |-> index,
                               signalled |-> signal.at, held |-> 0]]

\* _close_position
Closed(s, reference, reason) ==
    LET p    == s.position
        exit == IF reason = "LIQUIDATION" THEN reference
                ELSE execution_price(reference, p.side, FALSE)
        fees == (IF reason = "LIQUIDATION" THEN LiquidationFee ELSE Fee) * p.quantity
        gross == unrealized_pnl(p.side, p.entry, exit, p.quantity)
        after == s.wallet + gross - fees
    IN  [s EXCEPT
            !.wallet = High(0, after),
            !.bankrupt = @ \/ after < 0 \/ (reason = "LIQUIDATION" /\ after = 0),
            !.net = @ + gross - p.fee - fees + p.funding,
            !.funding = @ + p.funding,
            !.last = [reason |-> reason, side |-> p.side, opened |-> p.opened,
                      closed |-> index, stop |-> p.stop, liquidation |-> p.liquidation],
            !.liquidatedToday = @ \/ reason = "LIQUIDATION",
            !.cooldown = IF reason = "LIQUIDATION" THEN 0 ELSE @,
            !.position = Flat]

\* Whether a long, or a short, reaches a price of its exit.
Reaches(p, long, short) == IF p.side = "LONG" THEN long ELSE short

\* Mutant of Trigger: the stop is looked at before the liquidation.
TriggerStopFirst(p, candle, mark) ==
    IF Reaches(p, candle.low <= p.stop, candle.high >= p.stop)
    THEN <<"STOP_LOSS", p.stop>>
    ELSE IF Reaches(p, mark.low <= p.liquidation, mark.high >= p.liquidation)
    THEN <<"LIQUIDATION", p.liquidation>>
    ELSE IF Reaches(p, candle.high >= p.target, candle.low <= p.target)
    THEN <<"TAKE_PROFIT", p.target>>
    ELSE <<"NONE", 0>>

\* _exit_trigger: what the candle and the mark price reach, the worst first
Trigger(p, candle, mark) ==
    IF Reaches(p, mark.low <= p.liquidation, mark.high >= p.liquidation)
    THEN <<"LIQUIDATION", p.liquidation>>
    ELSE IF Reaches(p, candle.low <= p.stop, candle.high >= p.stop)
    THEN <<"STOP_LOSS", p.stop>>
    ELSE IF Reaches(p, candle.high >= p.target, candle.low <= p.target)
    THEN <<"TAKE_PROFIT", p.target>>
    ELSE <<"NONE", 0>>

Protected(s, candle, mark, leaving) ==
    LET held    == [s EXCEPT !.position.held = @ + 1]
        trigger == Trigger(s.position, candle, mark)
    IN  IF ~ Open(s) THEN s
        ELSE IF trigger[1] # "NONE" THEN Closed(held, trigger[2], trigger[1])
        ELSE IF ~ leaving /\ TimeExit # Never /\ held.position.held >= TimeExit
             THEN Closed(held, candle.close, "TIME_EXIT")
        ELSE held

\* _execute_pending of an exit: a position the protections closed is gone.
Left(s, signal, open) ==
    IF Open(s) /\ s.position.side = signal.side THEN Closed(s, open, "REGIME_LOSS_EXIT")
    ELSE s

\* One slot: a newer signal takes the place of one that still waits.
Due == IF pending.execute = index THEN pending.signal ELSE Hold

Scheduled(signal) ==
    IF signal # Hold /\ index + Latency < Candles
    THEN [execute |-> index + Latency, signal |-> signal]
    ELSE IF pending.execute = index THEN NoPending ELSE pending

Signals(s, close) ==
    {Hold} \cup
    IF Open(s) THEN {[direction |-> "EXIT", side |-> s.position.side, at |-> index]}
    ELSE {[direction |-> "ENTER", side |-> side, at |-> index,
           stop |-> close - Sign(side) * d, target |-> close + Sign(side) * d] :
             side \in Sides, d \in Stops}

-----------------------------------------------------------------------------

Init ==
    /\ index = 0
    /\ state = [wallet |-> Wallet, position |-> Flat, entries |-> 0, dayStart |-> Wallet,
                day |-> Never, liquidatedToday |-> FALSE, cooldown |-> Never,
                bankrupt |-> FALSE, paid |-> 0, received |-> 0,
                net |-> 0, funding |-> 0, last |-> NoTrade]
    /\ pending = NoPending
    /\ seen = [low |-> 0, high |-> 0]

Bar(open, close, spike) ==
    [open |-> open, close |-> close,
     low |-> Low(open, close) - spike, high |-> High(open, close) + spike]

\* One round of the loop.  The mark price opens and closes with the candle but
\* has extremes of its own.
Candle(candle, mark, atOpen, inside) ==
    LET due     == Due
        opening == Funded(Cooled(Rolled(state)), atOpen)
        entered == IF due.direction = "ENTER" THEN Entered(opening, due, candle.open)
                   ELSE opening
        guarded == Protected(Funded(entered, inside), candle, mark, due.direction = "EXIT")
        left    == IF due.direction = "EXIT" THEN Left(guarded, due, candle.open) ELSE guarded
    IN  /\ index < Candles
        /\ state' = left
        /\ \E signal \in Signals(left, candle.close) : pending' = Scheduled(signal)
        /\ index' = index + 1
        /\ seen' = [low |-> mark.low, high |-> mark.high]

\* After the last candle: force_close_at_end at its close.
End(close) ==
    /\ index = Candles
    /\ state' = IF Open(state) THEN Closed(state, close, "FORCED_END") ELSE state
    /\ index' = index + 1
    /\ UNCHANGED <<pending, seen>>

Next ==
    \/ \E open, close \in Price, spike, markSpike \in Spikes, atOpen, inside \in Rates :
          Candle(Bar(open, close, spike), Bar(open, close, markSpike), atOpen, inside)
    \/ \E close \in Price : End(close)

Spec == Init /\ [][Next]_vars

-----------------------------------------------------------------------------
(* Correctness *)

\* Every field keeps its type.
TypeOK ==
    /\ index \in 0 .. Candles + 1
    /\ {state.wallet, state.net, state.funding} \subseteq Int
    /\ {state.paid, state.received, state.entries} \subseteq Nat
    /\ state.cooldown \in Never .. Cooldown + 1
    /\ Open(state) => state.position.side \in Sides /\ state.position.quantity > 0

\* The wallet is the initial balance, the net result of every trade and what the
\* open position has paid and received so far: nothing is booked twice or lost
\* between the funding, the entry and the exit.  Only bankruptcy cuts it off.
WalletReconciles ==
    LET open == IF Open(state) THEN state.position.funding - state.position.fee ELSE 0
    IN  ~ state.bankrupt => state.wallet = Wallet + state.net + open

\* The funding of the trades is the funding the account paid and received.
FundingReconciles ==
    state.received - state.paid =
        state.funding + IF Open(state) THEN state.position.funding ELSE 0

\* docs/BACKTEST_ASSUMPTIONS.md:16: what a candle decides is executed `latency`
\* candles later, never in a candle whose close it used.
NoLookahead == Open(state) => state.position.opened = state.position.signalled + Latency

\* docs/FUTURES_RESEARCH_METHODOLOGY.md:88: when a candle reaches both, the
\* position is liquidated and not stopped out at a better price.
LiquidationFirst ==
    state.last.reason \in {"STOP_LOSS", "TAKE_PROFIT"} /\ state.last.closed = index - 1
    => IF state.last.side = "LONG" THEN seen.low > state.last.liquidation
       ELSE seen.high < state.last.liquidation

\* After a liquidation the engine enters nothing on that day, nor within the
\* cooldown, nor ever when it is bankrupt.
LiquidationPauses ==
    [][Open(state') /\ (~ Open(state) \/ state'.position.opened # state.position.opened)
       /\ state.last.reason = "LIQUIDATION"
       => /\ ~ state.bankrupt
          /\ Day(index) # Day(state.last.closed)
          /\ index - state.last.closed >= Cooldown]_vars

\* A day has at most its limit of entries, and none after its loss limit.
DayLimits ==
    [][Open(state') /\ state'.position.opened = index
       => /\ state'.entries <= MaxEntries
          /\ 100 * (state'.dayStart - state'.wallet - state'.position.fee + state'.position.funding)
                < DailyLossPercent * state'.dayStart]_vars

\* Between any two candles the account adds up: wallet, trades and funding agree, from
\* the entry over funding and partial days to the exit or the bankruptcy.
BooksReconcile == TypeOK /\ WalletReconciles /\ FundingReconciles

\* The order of the steps inside a candle favours nobody: nothing is executed at a
\* price its decision knew, and no stop saves a position that was liquidated.
CandleIsHonest == NoLookahead /\ LiquidationFirst

\* No path of orders, candles and losses enters beyond the limits of the risk manager.
EntriesRespectRisk == LiquidationPauses /\ DayLimits
=============================================================================
