------------------------- MODULE FuturesBacktestProofs -------------------------
(* Theorems about FuturesBacktest, for every value of its constants.        *)
EXTENDS FuturesBacktest, TLAPS

Exits == {"LIQUIDATION", "STOP_LOSS", "TAKE_PROFIT", "TIME_EXIT", "REGIME_LOSS_EXIT", "FORCED_END"}

PositionType ==
    [side : Sides, quantity : Nat \ {0}, entry : Int, stop : Int, target : Int,
     liquidation : Int, funding : Int, fee : Int, opened : Int, signalled : Int, held : Nat]

TradeType ==
    [reason : Exits, side : Sides, opened : Int, closed : Nat, stop : Int, liquidation : Int]

StateType ==
    [wallet : Int, position : PositionType \cup {Flat}, entries : Nat, dayStart : Int,
     day : Int, liquidatedToday : BOOLEAN, cooldown : Never .. Cooldown + 1,
     bankrupt : BOOLEAN, paid : Nat, received : Nat, net : Int, funding : Int,
     last : TradeType \cup {NoTrade}]

\* What the open position was paid so far, without its result.
Running(s) == IF Open(s) THEN s.position.funding - s.position.fee ELSE 0

Books(s) ==
    /\ ~ s.bankrupt => s.wallet = Wallet + s.net + Running(s)
    /\ s.received - s.paid = s.funding + IF Open(s) THEN s.position.funding ELSE 0

-----------------------------------------------------------------------------
(* The arithmetic *)

LEMMA ConstantsAreNat ==
    /\ {Candles, CandlesPerDay, Latency, MaxEntries, Wallet, Leverage} \subseteq Nat \ {0}
    /\ {Cooldown, MinWallet, RiskPercent, BufferPercent, DailyLossPercent,
        Cost, Fee, LiquidationFee, Maintenance} \subseteq Nat
    /\ Price \subseteq Nat \ {0} /\ Spikes \subseteq Nat /\ Stops \subseteq Nat \ {0}
    /\ Rates \subseteq Int /\ NotionalPercent \in 1 .. 100
  BY FuturesAssumption

LEMMA ProductInt == \A a, b \in Int : a * b \in Int
  OBVIOUS

LEMMA ProductNat == \A a, b \in Nat : a * b \in Nat
  OBVIOUS

LEMMA LowHigh ==
    ASSUME NEW a \in Int, NEW b \in Int
    PROVE  /\ Low(a, b) \in {a, b} /\ Low(a, b) <= a /\ Low(a, b) <= b
           /\ High(a, b) \in {a, b} /\ High(a, b) >= a /\ High(a, b) >= b
  BY DEF Low, High

LEMMA DivInt == \A a \in Int, b \in Nat \ {0} : a \div b \in Int
  OBVIOUS

LEMMA OpenIsPosition ==
    ASSUME NEW s \in StateType
    PROVE  /\ Open(s) => s.position \in PositionType
           /\ ~ Open(s) => s.position = Flat
           /\ Flat \notin PositionType
<1>1. Flat \notin PositionType
  <2>1. \A p \in PositionType : p.side \in Sides
    BY DEF PositionType
  <2>2. Flat.side \notin Sides
    BY DEF Flat, Sides
  <2> QED BY <2>1, <2>2
<1> QED BY <1>1 DEF Open, StateType

-----------------------------------------------------------------------------
(* One step of a candle after the other *)

LEMMA RolledStep ==
    ASSUME NEW s \in StateType, index \in Nat
    PROVE  /\ Rolled(s) \in StateType
           /\ Rolled(s).position = s.position /\ Rolled(s).last = s.last
           /\ Rolled(s).wallet = s.wallet /\ Rolled(s).bankrupt = s.bankrupt
           /\ Rolled(s).cooldown = s.cooldown
           /\ Books(s) => Books(Rolled(s))
<1>1. Day(index) \in Int
  BY ConstantsAreNat, DivInt DEF Day
<1>2. Rolled(s) \in StateType
  BY <1>1 DEF Rolled, StateType
<1>3. /\ Rolled(s).position = s.position /\ Rolled(s).last = s.last
      /\ Rolled(s).wallet = s.wallet /\ Rolled(s).bankrupt = s.bankrupt
      /\ Rolled(s).cooldown = s.cooldown
      /\ Rolled(s).net = s.net /\ Rolled(s).funding = s.funding
      /\ Rolled(s).paid = s.paid /\ Rolled(s).received = s.received
  BY DEF Rolled, StateType
<1> QED BY <1>2, <1>3 DEF Books, Running, Open

LEMMA CooledStep ==
    ASSUME NEW s \in StateType
    PROVE  /\ Cooled(s) \in StateType
           /\ Cooled(s) = [s EXCEPT !.cooldown = Cooled(s).cooldown]
           /\ s.cooldown = Never => Cooled(s).cooldown = Never
           /\ s.cooldown # Never => Cooled(s).cooldown \in 0 .. s.cooldown + 1
           /\ Books(s) => Books(Cooled(s))
<1>1. Cooldown \in Nat /\ s.cooldown \in Never .. Cooldown + 1
  BY ConstantsAreNat DEF StateType
<1>2. CASE s.cooldown = Never
  <2>1. Cooled(s) = s
    BY <1>2 DEF Cooled
  <2> QED BY <2>1, <1>2 DEF StateType
<1>3. CASE s.cooldown # Never
  <2> DEFINE count == Low(s.cooldown + 1, Cooldown + 1)
  <2>1. Cooled(s) = [s EXCEPT !.cooldown = count]
    BY <1>3 DEF Cooled
  <2>2. s.cooldown \in Nat
    BY <1>1, <1>3 DEF Never
  <2>3. count \in 0 .. s.cooldown + 1 /\ count <= Cooldown + 1
    BY <1>1, <2>2 DEF Low
  <2>4. count \in Never .. Cooldown + 1
    BY <1>1, <2>2, <2>3 DEF Never
  <2> HIDE DEF count
  <2>5. Cooled(s) \in StateType /\ Cooled(s).cooldown = count
    BY <2>1, <2>4 DEF StateType
  <2>6. Books(s) => Books(Cooled(s))
    BY <2>1 DEF StateType, Books, Running, Open
  <2> QED BY <1>3, <2>1, <2>3, <2>5, <2>6
<1> QED BY <1>2, <1>3

\* Funding moves the same amount in the account, in the position and in the totals.
LEMMA FundedStep ==
    ASSUME NEW s \in StateType, NEW rate \in Rates
    PROVE  /\ Funded(s, rate) \in StateType
           /\ ~ Open(s) => Funded(s, rate) = s
           /\ Open(s) => Open(Funded(s, rate))
           /\ Open(s) => \E flow \in Int : Funded(s, rate) =
                  [s EXCEPT !.wallet = @ + flow, !.position.funding = @ + flow,
                            !.paid = Funded(s, rate).paid, !.received = Funded(s, rate).received]
           /\ Books(s) => Books(Funded(s, rate))
<1>1. CASE ~ Open(s)
  BY <1>1 DEF Funded
<1>2. CASE Open(s)
  <2> DEFINE flow == - Sign(s.position.side) * rate * s.position.quantity
             out  == High(0, -flow)
             in   == High(0, flow)
  <2>1. s.position \in PositionType
    BY <1>2, OpenIsPosition
  <2>2. flow \in Int
    <3>1. rate \in Int /\ Sign(s.position.side) \in Int /\ s.position.quantity \in Int
      BY <2>1, ConstantsAreNat DEF Sign, PositionType
    <3>2. (- Sign(s.position.side)) * rate \in Int
      BY <3>1, ProductInt
    <3> QED BY <3>1, <3>2, ProductInt
  <2>3. Funded(s, rate) = [s EXCEPT !.wallet = @ + flow, !.position.funding = @ + flow,
                                    !.paid = @ + out, !.received = @ + in]
    BY <1>2 DEF Funded
  <2> HIDE DEF flow
  <2>4. out \in Nat /\ in \in Nat /\ in - out = flow
    BY <2>2 DEF High
  <2> HIDE DEF in, out
  <2> DEFINE t == [s EXCEPT !.wallet = @ + flow, !.position.funding = @ + flow,
                            !.paid = @ + out, !.received = @ + in]
  <2>5. [s.position EXCEPT !.funding = @ + flow] \in PositionType
    BY <2>1, <2>2 DEF PositionType
  <2>6. /\ t.position = [s.position EXCEPT !.funding = @ + flow]
        /\ t.wallet = s.wallet + flow /\ t.paid = s.paid + out /\ t.received = s.received + in
        /\ t.net = s.net /\ t.funding = s.funding /\ t.bankrupt = s.bankrupt
    BY DEF StateType
  <2>7. t \in StateType
    <3>1. /\ s.wallet + flow \in Int
          /\ s.paid + out \in Nat /\ s.received + in \in Nat
      BY <2>2, <2>4 DEF StateType
    <3>2. ASSUME NEW w \in Int, NEW p \in PositionType, NEW a \in Nat, NEW b \in Nat
          PROVE  [s EXCEPT !.wallet = w, !.position = p, !.paid = a, !.received = b] \in StateType
      BY DEF StateType
    <3>3. t = [s EXCEPT !.wallet = s.wallet + flow,
                        !.position = [s.position EXCEPT !.funding = @ + flow],
                        !.paid = s.paid + out, !.received = s.received + in]
      BY DEF StateType
    <3> HIDE DEF t
    <3> QED BY <2>5, <3>1, <3>2, <3>3
  <2>8. Open(t)
    BY <2>5, <2>6, <2>7, OpenIsPosition DEF Open
  <2>9. t = [s EXCEPT !.wallet = @ + flow, !.position.funding = @ + flow,
                      !.paid = t.paid, !.received = t.received]
    BY <2>6
  <2>10. Books(s) => Books(t)
    <3>1. t.position.funding = s.position.funding + flow /\ t.position.fee = s.position.fee
      BY <2>6, <2>1 DEF PositionType
    <3>2. /\ {s.wallet, s.net, s.funding, s.paid, s.received} \subseteq Int
          /\ s.position.funding \in Int /\ s.position.fee \in Int /\ Wallet \in Int
          /\ out \in Int /\ in \in Int
      BY <2>1, <2>4, ConstantsAreNat DEF StateType, PositionType
    <3> HIDE DEF t
    <3> QED BY <1>2, <2>2, <2>4, <2>6, <2>8, <3>1, <3>2 DEF Books, Running
  <2> HIDE DEF t
  <2>11. Funded(s, rate) = t
    BY <2>3 DEF t
  <2> QED BY <1>2, <2>2, <2>7, <2>8, <2>9, <2>10, <2>11
<1> QED BY <1>1, <1>2

-----------------------------------------------------------------------------
(* Entries and exits *)

EntryType ==
    [direction : {"ENTER"}, side : Sides, at : Nat, stop : Int, target : Int]

\* What an approved entry is: its price and quantity are real, and the account can bear
\* it.
LEMMA ApprovedEntry ==
    ASSUME NEW s \in StateType, NEW signal \in EntryType, NEW open \in Price,
           approved(s, signal, execution_price(open, signal.side, TRUE))
    PROVE  /\ execution_price(open, signal.side, TRUE) \in Nat \ {0}
           /\ quantity(s, signal, execution_price(open, signal.side, TRUE)) \in Nat \ {0}
           /\ ~ Open(s) /\ ~ s.bankrupt /\ s.wallet > 0
           /\ s.entries < MaxEntries
           /\ s.dayStart > 0 => High(0, s.dayStart - s.wallet) * 100 < DailyLossPercent * s.dayStart
           /\ ~ s.liquidatedToday /\ (s.cooldown = Never \/ s.cooldown >= Cooldown)
<1> DEFINE price == execution_price(open, signal.side, TRUE)
           q      == quantity(s, signal, price)
           margin == (price * q) \div Leverage
<1>1. /\ open \in Nat \ {0} /\ Cost \in Nat /\ Cost < open
      /\ Leverage \in Nat \ {0} /\ {Fee, Maintenance, BufferPercent, RiskPercent} \subseteq Nat
      /\ NotionalPercent \in Nat
  BY FuturesAssumption
<1>2. price \in Nat \ {0}
  BY <1>1 DEF execution_price
<1>3. signal.stop \in Int /\ signal.stop # price /\ signal.side \in Sides
  <2> HIDE DEF price
  <2>1. /\ signal.stop \in Int /\ signal.target \in Int /\ signal.side \in Sides
        /\ IF signal.side = "LONG" THEN signal.stop < price /\ price < signal.target
                                   ELSE signal.target < price /\ price < signal.stop
    BY DEF approved, EntryType, price
  <2> QED BY <1>2, <2>1
<1>4. q \in Nat \ {0} /\ q > 0
  <2> DEFINE distance == High(price - signal.stop, signal.stop - price)
             byRisk == (s.wallet * RiskPercent) \div (100 * distance)
             byCap  == (s.wallet * NotionalPercent * Leverage) \div (100 * price)
  <2> HIDE DEF price
  <2>1. distance \in Nat \ {0}
    BY <1>2, <1>3 DEF High
  <2> HIDE DEF distance
  <2>2. s.wallet \in Int
    BY DEF StateType
  <2>3. 100 * distance \in Nat \ {0} /\ 100 * price \in Nat \ {0}
    BY <2>1, <1>2
  <2>4. s.wallet * RiskPercent \in Int
    BY <2>2, <1>1, ProductInt
  <2>5. s.wallet * NotionalPercent * Leverage \in Int
    <3>1. s.wallet * NotionalPercent \in Int
      BY <2>2, <1>1, ProductInt
    <3> QED BY <3>1, <1>1, ProductInt
  <2>6. byRisk \in Int /\ byCap \in Int
    BY <2>3, <2>4, <2>5, DivInt
  <2>7. q = Low(byRisk, byCap)
    BY DEF quantity, distance, price
  <2> HIDE DEF byRisk, byCap
  <2>8. q \in Int
    BY <2>6, <2>7, LowHigh
  <2>9. q > 0
    BY DEF approved, price
  <2> HIDE DEF q
  <2> QED BY <2>8, <2>9
<1>5. ~ Open(s) /\ ~ s.bankrupt /\ s.entries < MaxEntries
  BY DEF approved
<1>6. s.dayStart > 0 => High(0, s.dayStart - s.wallet) * 100 < DailyLossPercent * s.dayStart
  BY DEF approved
<1>7. ~ s.liquidatedToday /\ (s.cooldown = Never \/ s.cooldown >= Cooldown)
  BY DEF approved
<1>8. s.wallet > 0
  <2>1. /\ 100 * (margin + Fee * q) + margin * BufferPercent <= 100 * s.wallet
        /\ Maintenance * q < margin
    BY DEF approved, price
  <2> HIDE DEF price
  <2>2. price * q \in Int /\ Maintenance * q \in Nat /\ Fee * q \in Nat
    BY <1>1, <1>2, <1>4, ProductNat
  <2>3. margin \in Int
    BY <2>2, <1>1, DivInt
  <2> HIDE DEF margin, q
  <2>4. margin \in Nat \ {0}
    BY <2>1, <2>2, <2>3
  <2>5. margin * BufferPercent \in Nat
    BY <2>4, <1>1, ProductNat
  <2>6. s.wallet \in Int
    BY DEF StateType
  <2> QED BY <2>1, <2>2, <2>4, <2>5, <2>6
<1> HIDE DEF price, q
<1> QED BY <1>2, <1>4, <1>5, <1>6, <1>7, <1>8 DEF price, q

LEMMA EnteredStep ==
    ASSUME NEW s \in StateType, NEW signal \in EntryType, NEW open \in Price, index \in Nat
    PROVE  /\ Entered(s, signal, open) \in StateType
           /\ Books(s) => Books(Entered(s, signal, open))
           /\ ~ approved(s, signal, execution_price(open, signal.side, TRUE))
                  => Entered(s, signal, open) = s
           /\ approved(s, signal, execution_price(open, signal.side, TRUE))
                  => \E p \in PositionType :
                         /\ Entered(s, signal, open) =
                                [s EXCEPT !.wallet = @ - p.fee, !.entries = @ + 1, !.position = p]
                         /\ p.opened = index /\ p.signalled = signal.at /\ p.funding = 0
<1> DEFINE price == execution_price(open, signal.side, TRUE)
           q     == quantity(s, signal, price)
           p     == [side |-> signal.side, quantity |-> q, entry |-> price,
                     stop |-> signal.stop, target |-> signal.target,
                     liquidation |-> approximate_liquidation_price(signal.side, price),
                     funding |-> 0, fee |-> Fee * q, opened |-> index,
                     signalled |-> signal.at, held |-> 0]
           t     == [s EXCEPT !.wallet = @ - p.fee, !.entries = @ + 1, !.position = p]
<1>1. CASE ~ approved(s, signal, price)
  BY <1>1 DEF Entered
<1>2. CASE approved(s, signal, price)
  <2>1. price \in Nat \ {0} /\ q \in Nat \ {0} /\ ~ Open(s)
    BY <1>2, ApprovedEntry
  <2>2. Entered(s, signal, open) = t
    BY <1>2 DEF Entered
  <2>3. p \in PositionType
    <3>1. /\ signal.side \in Sides /\ signal.stop \in Int /\ signal.target \in Int
          /\ signal.at \in Nat
      BY DEF EntryType
    <3>2. Fee * q \in Int
      <4>1. Fee \in Nat
        BY ConstantsAreNat
      <4> HIDE DEF q
      <4> QED BY <2>1, <4>1
    <3>3. approximate_liquidation_price(signal.side, price) \in Int
      <4> HIDE DEF price
      <4>1. price \div Leverage \in Int /\ Maintenance \in Int
        BY <2>1, ConstantsAreNat, DivInt
      <4> QED BY <2>1, <4>1 DEF approximate_liquidation_price, High
    <3> HIDE DEF q, price
    <3> QED BY <2>1, <3>1, <3>2, <3>3 DEF PositionType
  <2>4. p.opened = index /\ p.signalled = signal.at /\ p.funding = 0
    OBVIOUS
  <2> HIDE DEF p
  <2>5. t \in StateType
    <3>1. s.wallet - p.fee \in Int /\ s.entries + 1 \in Nat
      BY <2>3 DEF StateType, PositionType
    <3> QED BY <2>3, <3>1 DEF StateType
  <2>6. Books(s) => Books(t)
    <3>1. /\ t.position = p /\ t.wallet = s.wallet - p.fee /\ t.paid = s.paid
          /\ t.received = s.received /\ t.net = s.net /\ t.funding = s.funding
          /\ t.bankrupt = s.bankrupt
      BY DEF StateType
    <3>2. Open(t)
      BY <3>1, <2>3, OpenIsPosition DEF Open
    <3>3. {s.wallet, s.net, s.funding, s.paid, s.received, p.fee, Wallet} \subseteq Int
      BY <2>3, ConstantsAreNat DEF StateType, PositionType
    <3> HIDE DEF t
    <3> QED BY <2>1, <2>4, <3>1, <3>2, <3>3 DEF Books, Running
  <2> HIDE DEF t
  <2>7. \E r \in PositionType :
            /\ t = [s EXCEPT !.wallet = @ - r.fee, !.entries = @ + 1, !.position = r]
            /\ r.opened = index /\ r.signalled = signal.at /\ r.funding = 0
    BY <2>3, <2>4 DEF t
  <2> QED BY <1>2, <2>2, <2>5, <2>6, <2>7
<1> QED BY <1>1, <1>2

\* A closed position leaves the account flat and its result, fees and funding in the
\* trades.
LEMMA ClosedStep ==
    ASSUME NEW s \in StateType, Open(s), index \in Nat,
           NEW reference \in Int, NEW reason \in Exits
    PROVE  /\ Closed(s, reference, reason) \in StateType
           /\ ~ Open(Closed(s, reference, reason))
           /\ Closed(s, reference, reason).day = s.day
           /\ Closed(s, reference, reason).last =
                  [reason |-> reason, side |-> s.position.side, opened |-> s.position.opened,
                   closed |-> index, stop |-> s.position.stop,
                   liquidation |-> s.position.liquidation]
           /\ reason = "LIQUIDATION" => /\ Closed(s, reference, reason).liquidatedToday
                                        /\ Closed(s, reference, reason).cooldown = 0
           /\ Books(s) => Books(Closed(s, reference, reason))
<1> DEFINE p     == s.position
           exit  == IF reason = "LIQUIDATION" THEN reference
                    ELSE execution_price(reference, p.side, FALSE)
           fees  == (IF reason = "LIQUIDATION" THEN LiquidationFee ELSE Fee) * p.quantity
           gross == unrealized_pnl(p.side, p.entry, exit, p.quantity)
           after == s.wallet + gross - fees
           trade == [reason |-> reason, side |-> p.side, opened |-> p.opened,
                     closed |-> index, stop |-> p.stop, liquidation |-> p.liquidation]
           broke == s.bankrupt \/ after < 0 \/ (reason = "LIQUIDATION" /\ after = 0)
           struck == s.liquidatedToday \/ reason = "LIQUIDATION"
           count == IF reason = "LIQUIDATION" THEN 0 ELSE s.cooldown
           net   == s.net + gross - p.fee - fees + p.funding
           kept  == High(0, after)
           moved == s.funding + p.funding
           t     == [s EXCEPT !.wallet = kept, !.bankrupt = broke, !.net = net,
                              !.funding = moved, !.last = trade,
                              !.liquidatedToday = struck, !.cooldown = count,
                              !.position = Flat]
<1>1. p \in PositionType
  BY OpenIsPosition
<1>2. /\ Cost \in Nat /\ Fee \in Nat /\ LiquidationFee \in Nat /\ Cooldown \in Nat
      /\ Wallet \in Nat
  BY ConstantsAreNat
<1>3. exit \in Int
  BY <1>2 DEF execution_price
<1>4. fees \in Int
  <2>1. (IF reason = "LIQUIDATION" THEN LiquidationFee ELSE Fee) \in Int /\ p.quantity \in Int
    BY <1>1, <1>2 DEF PositionType
  <2> QED BY <2>1, ProductInt
<1>5. gross \in Int
  <2> HIDE DEF exit
  <2>1. Sign(p.side) \in Int /\ exit - p.entry \in Int /\ p.quantity \in Int
    BY <1>1, <1>3 DEF Sign, PositionType
  <2>2. Sign(p.side) * (exit - p.entry) \in Int
    BY <2>1, ProductInt
  <2> QED BY <2>1, <2>2, ProductInt DEF unrealized_pnl
<1> HIDE DEF exit, fees, gross
<1>6. /\ p.fee \in Int /\ p.funding \in Int /\ s.wallet \in Int /\ s.net \in Int
      /\ s.funding \in Int /\ s.paid \in Int /\ s.received \in Int
  BY <1>1 DEF PositionType, StateType
<1>7. after \in Int /\ kept \in Int /\ net \in Int /\ moved \in Int
  BY <1>4, <1>5, <1>6 DEF High
<1>8. trade \in TradeType
  BY <1>1 DEF PositionType, TradeType
<1>9. broke \in BOOLEAN /\ struck \in BOOLEAN
  OBVIOUS
<1>10. count \in Never .. Cooldown + 1
  BY <1>2 DEF StateType, Never
<1>11. Closed(s, reference, reason) = t
  BY DEF Closed, exit, fees, gross
<1>12. t \in StateType
  <2> HIDE DEF kept, trade, broke, struck, count, net, moved
  <2> QED BY <1>7, <1>8, <1>9, <1>10 DEF StateType
<1>13. /\ t.position = Flat /\ t.day = s.day /\ t.last = trade /\ t.net = net
       /\ t.wallet = High(0, after) /\ t.funding = s.funding + p.funding
       /\ t.paid = s.paid /\ t.received = s.received /\ t.cooldown = count
  BY DEF StateType
<1>14. (t.bankrupt <=> broke) /\ (t.liquidatedToday <=> struck)
  BY DEF StateType
<1>15. Books(s) => Books(t)
  <2>1. SUFFICES ASSUME Books(s) PROVE Books(t)
    OBVIOUS
  <2>2. ~ Open(t) /\ Running(t) = 0
    BY <1>13 DEF Open, Running
  <2>3. t.received - t.paid = t.funding
    <3>1. s.received - s.paid = s.funding + p.funding
      BY <2>1 DEF Books
    <3> HIDE DEF t
    <3> QED BY <3>1, <1>13, <1>6
  <2>4. ASSUME ~ t.bankrupt
        PROVE  t.wallet = Wallet + t.net
    <3>1. ~ s.bankrupt /\ ~ (after < 0)
      BY <1>14, <2>4 DEF broke
    <3>2. s.wallet = Wallet + s.net + (p.funding - p.fee)
      BY <2>1, <3>1 DEF Books, Running
    <3>3. High(0, after) = after
      BY <3>1, <1>7 DEF High
    <3> HIDE DEF t
    <3> QED BY <3>2, <3>3, <1>2, <1>4, <1>5, <1>6, <1>13
  <2> HIDE DEF t
  <2>5. t.funding \in Int /\ Wallet + t.net \in Int
    BY <1>2, <1>12 DEF StateType
  <2> QED BY <2>2, <2>3, <2>4, <2>5 DEF Books
<1>16. ~ Open(t)
  BY <1>13 DEF Open
<1>17. reason = "LIQUIDATION" => t.liquidatedToday /\ t.cooldown = 0
  BY <1>13, <1>14
<1> HIDE DEF t
<1> QED BY <1>11, <1>12, <1>13, <1>15, <1>16, <1>17

BarType == [open : Price, close : Price, low : Int, high : Int]

LEMMA BarTyped ==
    ASSUME NEW open \in Price, NEW close \in Price, NEW spike \in Spikes
    PROVE  Bar(open, close, spike) \in BarType
<1>1. open \in Int /\ close \in Int /\ spike \in Int
  BY ConstantsAreNat
<1> QED BY <1>1 DEF Bar, BarType, Low, High

\* A candle more in the position.
Held(s) == [s EXCEPT !.position.held = @ + 1]

LEMMA HeldStep ==
    ASSUME NEW s \in StateType, Open(s)
    PROVE  /\ Held(s) \in StateType /\ Open(Held(s))
           /\ Held(s).position = [s.position EXCEPT !.held = @ + 1]
           /\ s.position \in PositionType
           /\ Books(s) => Books(Held(s))
<1> DEFINE p == [s.position EXCEPT !.held = @ + 1]
<1>1. s.position \in PositionType
  BY OpenIsPosition
<1>2. p \in PositionType
  BY <1>1 DEF PositionType
<1>3. p.fee = s.position.fee /\ p.funding = s.position.funding
  BY <1>1 DEF PositionType
<1> HIDE DEF p
<1>4. Held(s) = [s EXCEPT !.position = p]
  BY DEF Held, p
<1>5. Held(s) \in StateType /\ Held(s).position = p
  BY <1>2, <1>4 DEF StateType
<1>6. Open(Held(s))
  BY <1>2, <1>5, OpenIsPosition DEF Open
<1>7. /\ Held(s).wallet = s.wallet /\ Held(s).net = s.net /\ Held(s).funding = s.funding
      /\ Held(s).paid = s.paid /\ Held(s).received = s.received
      /\ Held(s).bankrupt = s.bankrupt
  BY <1>4 DEF StateType
<1>8. Books(s) => Books(Held(s))
  BY <1>3, <1>5, <1>6, <1>7 DEF Books, Running
<1> QED BY <1>1, <1>5, <1>6, <1>8 DEF p

\* Whether the mark price reached the liquidation price of a position.
Liquidated(p, mark) ==
    Reaches(p, mark.low <= p.liquidation, mark.high >= p.liquidation)

LEMMA TriggerCases ==
    ASSUME NEW p \in PositionType, NEW candle \in BarType, NEW mark \in BarType
    PROVE  \/ Trigger(p, candle, mark)[1] = "NONE"
           \/ /\ Trigger(p, candle, mark)[1] \in Exits
              /\ Trigger(p, candle, mark)[2] \in Int
              /\ Trigger(p, candle, mark)[1] \in {"STOP_LOSS", "TAKE_PROFIT"}
                     => ~ Liquidated(p, mark)
<1>1. p.stop \in Int /\ p.target \in Int /\ p.liquidation \in Int
  BY DEF PositionType
<1>2. CASE Liquidated(p, mark)
  <2>1. Trigger(p, candle, mark) = <<"LIQUIDATION", p.liquidation>>
    BY <1>2 DEF Trigger, Liquidated
  <2>2. Trigger(p, candle, mark)[1] = "LIQUIDATION" /\ Trigger(p, candle, mark)[2] \in Int
    BY <2>1, <1>1
  <2>3. "LIQUIDATION" \in Exits \ {"STOP_LOSS", "TAKE_PROFIT"}
    BY DEF Exits
  <2> QED BY <2>2, <2>3
<1>3. CASE ~ Liquidated(p, mark)
  <2>1. \/ Trigger(p, candle, mark) = <<"STOP_LOSS", p.stop>>
        \/ Trigger(p, candle, mark) = <<"TAKE_PROFIT", p.target>>
        \/ Trigger(p, candle, mark) = <<"NONE", 0>>
    BY <1>3 DEF Trigger, Liquidated
  <2> QED BY <2>1, <1>1, <1>3 DEF Exits
<1> QED BY <1>2, <1>3

\* What the protections make of an account: nothing without a position, else a candle
\* more in it, or its exit.
LEMMA ProtectedCases ==
    ASSUME NEW s \in StateType, NEW candle \in BarType, NEW mark \in BarType, NEW leaving
    PROVE  \/ ~ Open(s) /\ Protected(s, candle, mark, leaving) = s
           \/ Open(s) /\ Protected(s, candle, mark, leaving) = Held(s)
           \/ /\ Open(s)
              /\ \E reason \in Exits, reference \in Int :
                     /\ Protected(s, candle, mark, leaving) = Closed(Held(s), reference, reason)
                     /\ reason \in {"STOP_LOSS", "TAKE_PROFIT"} => ~ Liquidated(s.position, mark)
<1>1. CASE ~ Open(s)
  BY <1>1 DEF Protected
<1>2. CASE Open(s)
  <2> DEFINE trigger == Trigger(s.position, candle, mark)
  <2>1. s.position \in PositionType /\ candle.close \in Int
    <3>1. candle.close \in Price
      BY DEF BarType
    <3>2. \A x \in Price : x \in Int
      BY ConstantsAreNat
    <3> QED BY <3>1, <3>2, <1>2, OpenIsPosition
  <2>2. Protected(s, candle, mark, leaving) =
            IF trigger[1] # "NONE" THEN Closed(Held(s), trigger[2], trigger[1])
            ELSE IF ~ leaving /\ TimeExit # Never /\ Held(s).position.held >= TimeExit
                 THEN Closed(Held(s), candle.close, "TIME_EXIT")
            ELSE Held(s)
    BY <1>2 DEF Protected, Held
  <2>3. \/ trigger[1] = "NONE"
        \/ /\ trigger[1] \in Exits /\ trigger[2] \in Int
           /\ trigger[1] \in {"STOP_LOSS", "TAKE_PROFIT"} => ~ Liquidated(s.position, mark)
    BY <2>1, TriggerCases
  <2> HIDE DEF trigger
  <2>4. CASE trigger[1] # "NONE"
    <3>1. Protected(s, candle, mark, leaving) = Closed(Held(s), trigger[2], trigger[1])
      BY <2>2, <2>4
    <3> QED BY <1>2, <2>3, <2>4, <3>1
  <2>5. CASE trigger[1] = "NONE"
    <3>1. \/ Protected(s, candle, mark, leaving) = Closed(Held(s), candle.close, "TIME_EXIT")
          \/ Protected(s, candle, mark, leaving) = Held(s)
      BY <2>2, <2>5
    <3>2. "TIME_EXIT" \in Exits /\ "TIME_EXIT" \notin {"STOP_LOSS", "TAKE_PROFIT"}
      BY DEF Exits
    <3> QED BY <1>2, <2>1, <3>1, <3>2
  <2> QED BY <2>4, <2>5
<1> QED BY <1>1, <1>2

-----------------------------------------------------------------------------
(* The invariant *)

ExitType == [direction : {"EXIT"}, side : Sides, at : Nat]

\* A signal waits from the candle that gave it for the latency.
PendingOK ==
    \/ pending = NoPending
    \/ /\ pending \in [execute : Nat, signal : EntryType \cup ExitType]
       /\ pending.execute = pending.signal.at + Latency

\* What is true of an account within the candle of index i, and from then to the next.
AccountOK(s, i) ==
    /\ s \in StateType /\ Books(s)
    /\ s.day = Day(i)
    /\ Open(s) => /\ s.position.opened = s.position.signalled + Latency
                  /\ s.position.opened <= i
    /\ s.last # NoTrade => s.last.closed <= i
    /\ s.last.reason = "LIQUIDATION" =>
           /\ s.last.closed <= i
           /\ s.last \in TradeType
           /\ Day(s.last.closed) = Day(i) => s.liquidatedToday
           /\ s.cooldown # Never /\ s.cooldown <= i - s.last.closed

IInv ==
    /\ index \in 0 .. Candles + 1
    /\ index = 0 => state.day = Never /\ state.last = NoTrade /\ ~ Open(state)
    /\ index = 0 => state \in StateType /\ Books(state)
    /\ index \in 1 .. Candles => AccountOK(state, index - 1)
    /\ index = Candles + 1 => state \in StateType /\ Books(state) /\ ~ Open(state)
    /\ index = Candles + 1 => (state.last # NoTrade => state.last.closed <= index - 1)
    /\ PendingOK
    /\ seen \in [low : Int, high : Int]
    /\ LiquidationFirst

\* Days follow one another.
LEMMA DayMonotone == \A i, j \in Nat : i <= j => Day(i) <= Day(j) /\ Day(i) \in Nat
<1>1. SUFFICES ASSUME NEW i \in Nat, NEW j \in Nat, i <= j
               PROVE  Day(i) <= Day(j) /\ Day(i) \in Nat
  OBVIOUS
<1> DEFINE c == CandlesPerDay
<1>2. c \in Nat \ {0}
  BY ConstantsAreNat
<1> DEFINE a == i \div c
           b == j \div c
<1> HIDE DEF c
<1>3. /\ a \in Int /\ c * a <= i /\ i < c * a + c
      /\ b \in Int /\ c * b <= j /\ j < c * b + c
  BY <1>2
<1>4. Day(i) = a /\ Day(j) = b
  BY DEF Day, c
<1> HIDE DEF a, b
<1>5. a <= b
  <2>1. SUFFICES ASSUME a >= b + 1 PROVE FALSE
    BY <1>3
  <2>2. c * a >= c * (b + 1)
    BY <2>1, <1>2, <1>3
  <2>3. c * (b + 1) = c * b + c
    BY <1>2, <1>3
  <2> QED BY <2>2, <2>3, <1>1, <1>2, <1>3
<1>6. a >= 0
  <2>1. SUFFICES ASSUME a + 1 <= 0 PROVE FALSE
    BY <1>3
  <2>2. c * (a + 1) <= 0
    BY <2>1, <1>2, <1>3
  <2>3. c * (a + 1) = c * a + c
    BY <1>2, <1>3
  <2>4. c * a \in Int
    BY <1>2, <1>3
  <2> QED BY <2>2, <2>3, <2>4, <1>1, <1>2, <1>3
<1> QED BY <1>3, <1>4, <1>5, <1>6

\* What funding leaves alone.
LEMMA FundedSame ==
    ASSUME NEW s \in StateType, NEW rate \in Rates
    PROVE  /\ Funded(s, rate).day = s.day /\ Funded(s, rate).last = s.last
           /\ Funded(s, rate).liquidatedToday = s.liquidatedToday
           /\ Funded(s, rate).cooldown = s.cooldown
           /\ Funded(s, rate).bankrupt = s.bankrupt
           /\ Funded(s, rate).entries = s.entries /\ Funded(s, rate).dayStart = s.dayStart
           /\ Open(Funded(s, rate)) <=> Open(s)
           /\ Open(s) => \E flow \in Int :
                  /\ Funded(s, rate).wallet = s.wallet + flow
                  /\ Funded(s, rate).position = [s.position EXCEPT !.funding = @ + flow]
<1>1. CASE ~ Open(s)
  BY <1>1, FundedStep
<1>2. CASE Open(s)
  <2>1. PICK flow \in Int : Funded(s, rate) =
            [s EXCEPT !.wallet = @ + flow, !.position.funding = @ + flow,
                      !.paid = Funded(s, rate).paid, !.received = Funded(s, rate).received]
    BY <1>2, FundedStep
  <2>2. /\ Funded(s, rate).day = s.day /\ Funded(s, rate).last = s.last
        /\ Funded(s, rate).liquidatedToday = s.liquidatedToday
        /\ Funded(s, rate).cooldown = s.cooldown
        /\ Funded(s, rate).bankrupt = s.bankrupt
        /\ Funded(s, rate).entries = s.entries /\ Funded(s, rate).dayStart = s.dayStart
    BY <2>1 DEF StateType
  <2>3. /\ Funded(s, rate).wallet = s.wallet + flow
        /\ Funded(s, rate).position = [s.position EXCEPT !.funding = @ + flow]
    BY <2>1 DEF StateType
  <2>4. Open(Funded(s, rate))
    BY <1>2, FundedStep
  <2> QED BY <1>2, <2>2, <2>3, <2>4
<1> QED BY <1>1, <1>2

LEMMA FundedAccount ==
    ASSUME NEW s, NEW i, AccountOK(s, i), NEW rate \in Rates
    PROVE  AccountOK(Funded(s, rate), i)
<1> DEFINE t == Funded(s, rate)
<1>1. s \in StateType /\ Books(s)
  BY DEF AccountOK
<1>2. t \in StateType /\ Books(t)
  BY <1>1, FundedStep
<1>3. /\ t.day = s.day /\ t.last = s.last /\ t.liquidatedToday = s.liquidatedToday
      /\ t.cooldown = s.cooldown /\ (Open(t) <=> Open(s))
  BY <1>1, FundedSame
<1>4. Open(s) => t.position.opened = s.position.opened /\ t.position.signalled = s.position.signalled
  <2>1. SUFFICES ASSUME Open(s)
                 PROVE  t.position.opened = s.position.opened
                        /\ t.position.signalled = s.position.signalled
    OBVIOUS
  <2>2. PICK flow \in Int : t.position = [s.position EXCEPT !.funding = @ + flow]
    BY <2>1, <1>1, FundedSame
  <2>3. s.position \in PositionType
    BY <2>1, <1>1, OpenIsPosition
  <2> QED BY <2>2, <2>3 DEF PositionType
<1> HIDE DEF t
<1> QED BY <1>2, <1>3, <1>4 DEF AccountOK, t

\* The account when a pending signal is looked at: of the new day, a candle later.
LEMMA OpeningStep ==
    ASSUME IInv, index < Candles, NEW rate \in Rates
    PROVE  LET opening == Funded(Cooled(Rolled(state)), rate)
           IN  /\ AccountOK(opening, index)
               /\ opening.last = state.last /\ opening.bankrupt = state.bankrupt
               /\ state.last # NoTrade => state.last.closed <= index - 1
               /\ Open(opening) <=> Open(state)
               /\ Open(state) => /\ opening.position.opened = state.position.opened
                                 /\ opening.position.opened <= index - 1
<1> DEFINE rolled == Rolled(state)
           cooled == Cooled(rolled)
           opening == Funded(cooled, rate)
<1>1. index \in Nat /\ Candles \in Nat
  BY ConstantsAreNat DEF IInv
<1>2. state \in StateType /\ Books(state)
  BY <1>1, ConstantsAreNat DEF IInv, AccountOK
<1>3. /\ rolled \in StateType /\ Books(rolled)
      /\ rolled.position = state.position /\ rolled.last = state.last
      /\ rolled.bankrupt = state.bankrupt /\ rolled.cooldown = state.cooldown
  BY <1>1, <1>2, RolledStep
<1>4. rolled.day = Day(index)
  BY <1>2 DEF Rolled, StateType
<1>5. Day(index) = state.day => rolled = state
  BY DEF Rolled
<1> HIDE DEF rolled
<1>6. /\ cooled \in StateType /\ Books(cooled)
      /\ cooled = [rolled EXCEPT !.cooldown = cooled.cooldown]
      /\ rolled.cooldown # Never => cooled.cooldown \in 0 .. rolled.cooldown + 1
  BY <1>3, CooledStep
<1>7. /\ cooled.position = rolled.position /\ cooled.last = rolled.last
      /\ cooled.bankrupt = rolled.bankrupt /\ cooled.day = rolled.day
      /\ cooled.liquidatedToday = rolled.liquidatedToday
  BY <1>3, <1>6 DEF StateType
<1>8. AccountOK(cooled, index)
  <2>1. CASE index = 0
    <3>1. cooled.last = NoTrade /\ ~ Open(cooled)
      BY <2>1, <1>3, <1>7 DEF IInv, Open
    <3>2. NoTrade.reason # "LIQUIDATION"
      BY DEF NoTrade
    <3> QED BY <3>1, <3>2, <1>4, <1>6, <1>7 DEF AccountOK
  <2>2. CASE index > 0
    <3>1. AccountOK(state, index - 1)
      BY <2>2, <1>1 DEF IInv
    <3>2. Open(cooled) <=> Open(state)
      BY <1>3, <1>7 DEF Open
    <3>3. Open(cooled) => /\ cooled.position.opened = cooled.position.signalled + Latency
                          /\ cooled.position.opened <= index
      <4>1. Open(state) => state.position \in PositionType
        BY <1>2, OpenIsPosition
      <4>2. Open(state) => state.position.opened \in Int
        BY <4>1 DEF PositionType
      <4> QED BY <3>1, <3>2, <4>2, <1>1, <1>3, <1>7 DEF AccountOK
    <3>4. cooled.last # NoTrade => cooled.last.closed <= index
      <4>1. SUFFICES ASSUME state.last # NoTrade PROVE state.last.closed <= index
        BY <1>3, <1>7
      <4>2. state.last.closed \in Int /\ state.last.closed <= index - 1
        BY <4>1, <3>1, <1>2 DEF AccountOK, StateType, TradeType
      <4> QED BY <4>2, <1>1
    <3>5. ASSUME cooled.last.reason = "LIQUIDATION"
          PROVE  /\ cooled.last.closed <= index
                 /\ cooled.last \in TradeType
                 /\ Day(cooled.last.closed) = Day(index) => cooled.liquidatedToday
                 /\ cooled.cooldown # Never /\ cooled.cooldown <= index - cooled.last.closed
      <4>1. cooled.last = state.last
        BY <1>3, <1>7
      <4>2. /\ state.last \in TradeType /\ state.last.closed <= index - 1
            /\ Day(state.last.closed) = Day(index - 1) => state.liquidatedToday
            /\ state.cooldown # Never /\ state.cooldown <= index - 1 - state.last.closed
            /\ state.day = Day(index - 1)
        BY <3>1, <3>5, <4>1 DEF AccountOK
      <4>3. state.last.closed \in Nat
        BY <4>2 DEF TradeType
      <4>4. cooled.cooldown # Never /\ cooled.cooldown <= index - cooled.last.closed
        <5>1. state.cooldown \in Nat
          BY <1>2, <4>2, ConstantsAreNat DEF StateType, Never
        <5>2. cooled.cooldown \in 0 .. state.cooldown + 1
          BY <1>3, <1>6, <4>2
        <5> QED BY <5>1, <5>2, <4>1, <4>2, <4>3, <1>1 DEF Never
      <4>5. Day(state.last.closed) = Day(index) => cooled.liquidatedToday
        <5>1. SUFFICES ASSUME Day(state.last.closed) = Day(index) PROVE cooled.liquidatedToday
          OBVIOUS
        <5>2. /\ Day(state.last.closed) <= Day(index - 1) /\ Day(index - 1) <= Day(index)
              /\ Day(index - 1) \in Nat /\ Day(index) \in Nat /\ Day(state.last.closed) \in Nat
          BY <1>1, <2>2, <4>2, <4>3, DayMonotone
        <5>3. Day(index) = state.day /\ state.liquidatedToday
          BY <5>1, <5>2, <4>2
        <5> QED BY <5>3, <1>5, <1>7
      <4> QED BY <4>1, <4>2, <4>3, <4>4, <4>5, <1>1
    <3> HIDE DEF cooled
    <3> QED BY <3>3, <3>4, <3>5, <1>4, <1>6, <1>7 DEF AccountOK
  <2> QED BY <2>1, <2>2, <1>1
<1>9. AccountOK(opening, index)
  BY <1>8, FundedAccount
<1>10. opening.last = state.last /\ opening.bankrupt = state.bankrupt
  BY <1>3, <1>6, <1>7, FundedSame
<1>11. state.last # NoTrade => state.last.closed <= index - 1
  BY <1>1 DEF IInv, AccountOK
<1>12. Open(opening) <=> Open(state)
  <2>1. Open(cooled) <=> Open(state)
    BY <1>3, <1>7 DEF Open
  <2> QED BY <2>1, <1>6, FundedSame
<1>13. ASSUME Open(state)
       PROVE  /\ opening.position.opened = state.position.opened
              /\ opening.position.opened <= index - 1
  <2>1. cooled.position = state.position /\ Open(cooled)
    BY <1>3, <1>7, <1>13 DEF Open
  <2>2. PICK flow \in Int : opening.position = [cooled.position EXCEPT !.funding = @ + flow]
    BY <2>1, <1>6, FundedSame
  <2>3. state.position \in PositionType
    BY <1>2, <1>13, OpenIsPosition
  <2>4. state.position.opened <= index - 1
    BY <1>1, <1>13 DEF IInv, AccountOK
  <2> HIDE DEF opening, cooled
  <2> QED BY <2>1, <2>2, <2>3, <2>4 DEF PositionType
<1> HIDE DEF opening
<1> QED BY <1>9, <1>10, <1>11, <1>12, <1>13 DEF opening, cooled, rolled

LEMMA EnteredAccount ==
    ASSUME NEW s, AccountOK(s, index), index \in Nat, NEW signal \in EntryType,
           signal.at + Latency = index, NEW open \in Price
    PROVE  /\ AccountOK(Entered(s, signal, open), index)
           /\ Entered(s, signal, open).last = s.last
<1> DEFINE t == Entered(s, signal, open)
           price == execution_price(open, signal.side, TRUE)
<1>1. s \in StateType
  BY DEF AccountOK
<1>2. CASE ~ approved(s, signal, price)
  BY <1>1, <1>2, EnteredStep
<1>3. CASE approved(s, signal, price)
  <2>1. t \in StateType /\ Books(t)
    BY <1>1, EnteredStep DEF AccountOK
  <2>2. PICK p \in PositionType :
            /\ t = [s EXCEPT !.wallet = @ - p.fee, !.entries = @ + 1, !.position = p]
            /\ p.opened = index /\ p.signalled = signal.at /\ p.funding = 0
    BY <1>1, <1>3, EnteredStep
  <2>3. /\ t.position = p /\ t.last = s.last /\ t.day = s.day
        /\ t.liquidatedToday = s.liquidatedToday /\ t.cooldown = s.cooldown
    BY <1>1, <2>2 DEF StateType
  <2>4. p.opened = p.signalled + Latency /\ p.opened <= index
    BY <2>2
  <2> HIDE DEF t
  <2> QED BY <2>1, <2>3, <2>4 DEF AccountOK, t
<1> QED BY <1>2, <1>3

LEMMA HeldAccount ==
    ASSUME NEW s, AccountOK(s, index), index \in Nat, Open(s)
    PROVE  AccountOK(Held(s), index)
<1>1. s \in StateType /\ Books(s)
  BY DEF AccountOK
<1>2. /\ Held(s) \in StateType /\ Books(Held(s)) /\ Open(Held(s))
      /\ Held(s).position = [s.position EXCEPT !.held = @ + 1]
      /\ s.position \in PositionType
  BY <1>1, HeldStep
<1>3. /\ Held(s).last = s.last /\ Held(s).day = s.day
      /\ Held(s).liquidatedToday = s.liquidatedToday /\ Held(s).cooldown = s.cooldown
  BY <1>1 DEF Held, StateType
<1>4. /\ Held(s).position.opened = s.position.opened
      /\ Held(s).position.signalled = s.position.signalled
  BY <1>2 DEF PositionType
<1> QED BY <1>2, <1>3, <1>4 DEF AccountOK

LEMMA ClosedAccount ==
    ASSUME NEW s, AccountOK(s, index), index \in Nat, Open(s),
           NEW reference \in Int, NEW reason \in Exits
    PROVE  /\ AccountOK(Closed(s, reference, reason), index)
           /\ ~ Open(Closed(s, reference, reason))
           /\ Closed(s, reference, reason).last =
                  [reason |-> reason, side |-> s.position.side, opened |-> s.position.opened,
                   closed |-> index, stop |-> s.position.stop,
                   liquidation |-> s.position.liquidation]
<1> DEFINE t == Closed(s, reference, reason)
<1>1. s \in StateType /\ Books(s)
  BY DEF AccountOK
<1>2. /\ t \in StateType /\ ~ Open(t) /\ t.day = s.day /\ Books(t)
      /\ t.last = [reason |-> reason, side |-> s.position.side, opened |-> s.position.opened,
                   closed |-> index, stop |-> s.position.stop,
                   liquidation |-> s.position.liquidation]
      /\ reason = "LIQUIDATION" => t.liquidatedToday /\ t.cooldown = 0
  BY <1>1, ClosedStep
<1>3. t.last.closed = index /\ t.last.reason = reason
  BY <1>2
<1>4. t.last \in TradeType
  <2>1. t.last \in TradeType \cup {NoTrade}
    BY <1>2 DEF StateType
  <2>2. NoTrade.reason \notin Exits
    BY DEF NoTrade, Exits
  <2> QED BY <2>1, <2>2, <1>3
<1> HIDE DEF t
<1>5. AccountOK(t, index)
  BY <1>2, <1>3, <1>4 DEF AccountOK, Never
<1> QED BY <1>2, <1>5 DEF t

\* After the protections: the trade that closed in this candle was not closed at its
\* stop or target when the mark price had reached the liquidation.
Honest(s, mark, i) ==
    s.last.reason \in {"STOP_LOSS", "TAKE_PROFIT"} /\ s.last.closed = i
    => ~ Reaches(s.last, mark.low <= s.last.liquidation, mark.high >= s.last.liquidation)

LEMMA ProtectedAccount ==
    ASSUME NEW s, AccountOK(s, index), index \in Nat, NEW candle \in BarType,
           NEW mark \in BarType, NEW leaving, s.last # NoTrade => s.last.closed <= index - 1
    PROVE  LET t == Protected(s, candle, mark, leaving)
           IN  /\ AccountOK(t, index) /\ Honest(t, mark, index)
               /\ Open(t) => Open(s) /\ t = Held(s)
               /\ ~ Open(s) => t = s
<1> DEFINE t == Protected(s, candle, mark, leaving)
<1>1. s \in StateType
  BY DEF AccountOK
<1>2. ASSUME NEW u, u.last = s.last
      PROVE  Honest(u, mark, index)
  <2>1. NoTrade.reason \notin {"STOP_LOSS", "TAKE_PROFIT"}
    BY DEF NoTrade
  <2>2. s.last # NoTrade => s.last.closed \in Int
    BY <1>1 DEF StateType, TradeType
  <2> QED BY <1>2, <2>1, <2>2 DEF Honest
<1>3. CASE ~ Open(s) /\ t = s
  BY <1>2, <1>3
<1>4. CASE Open(s) /\ t = Held(s)
  <2>1. Held(s).last = s.last
    BY <1>1 DEF Held, StateType
  <2> HIDE DEF t
  <2> QED BY <1>2, <1>4, <2>1, HeldAccount DEF t
<1>5. ASSUME Open(s), NEW reason \in Exits, NEW reference \in Int,
             t = Closed(Held(s), reference, reason),
             reason \in {"STOP_LOSS", "TAKE_PROFIT"} => ~ Liquidated(s.position, mark)
      PROVE  AccountOK(t, index) /\ Honest(t, mark, index) /\ ~ Open(t)
  <2>1. AccountOK(Held(s), index) /\ Open(Held(s))
    BY <1>1, <1>5, HeldAccount, HeldStep
  <2>2. /\ Held(s).position.side = s.position.side
        /\ Held(s).position.liquidation = s.position.liquidation
    BY <1>1, <1>5, HeldStep DEF PositionType
  <2>3. /\ AccountOK(t, index) /\ ~ Open(t)
        /\ t.last = [reason |-> reason, side |-> Held(s).position.side,
                     opened |-> Held(s).position.opened, closed |-> index,
                     stop |-> Held(s).position.stop,
                     liquidation |-> Held(s).position.liquidation]
    BY <1>5, <2>1, ClosedAccount
  <2>4. t.last.reason = reason /\ t.last.side = s.position.side
        /\ t.last.liquidation = s.position.liquidation
    BY <2>2, <2>3
  <2> HIDE DEF t
  <2> QED BY <1>5, <2>3, <2>4 DEF Honest, Liquidated, Reaches
<1>6. \/ ~ Open(s) /\ t = s
      \/ Open(s) /\ t = Held(s)
      \/ Open(s) /\ \E reason \in Exits, reference \in Int :
             /\ t = Closed(Held(s), reference, reason)
             /\ reason \in {"STOP_LOSS", "TAKE_PROFIT"} => ~ Liquidated(s.position, mark)
  BY <1>1, ProtectedCases
<1> HIDE DEF t
<1> QED BY <1>3, <1>4, <1>5, <1>6 DEF t

LEMMA LeftAccount ==
    ASSUME NEW s, AccountOK(s, index), index \in Nat, NEW signal \in ExitType,
           NEW open \in Price, NEW mark, Honest(s, mark, index)
    PROVE  LET t == Left(s, signal, open)
           IN  /\ AccountOK(t, index) /\ Honest(t, mark, index)
               /\ Open(t) => t = s
<1>1. CASE Open(s) /\ s.position.side = signal.side
  <2> DEFINE t == Closed(s, open, "REGIME_LOSS_EXIT")
  <2>1. Left(s, signal, open) = t
    BY <1>1 DEF Left
  <2>2. "REGIME_LOSS_EXIT" \in Exits /\ open \in Int
    BY ConstantsAreNat DEF Exits
  <2>3. /\ AccountOK(t, index) /\ ~ Open(t)
        /\ t.last = [reason |-> "REGIME_LOSS_EXIT", side |-> s.position.side,
                     opened |-> s.position.opened, closed |-> index,
                     stop |-> s.position.stop, liquidation |-> s.position.liquidation]
    BY <1>1, <2>2, ClosedAccount
  <2>4. t.last.reason = "REGIME_LOSS_EXIT"
    BY <2>3
  <2> HIDE DEF t
  <2> QED BY <2>1, <2>3, <2>4 DEF Honest
<1>2. CASE ~ (Open(s) /\ s.position.side = signal.side)
  BY <1>2 DEF Left
<1> QED BY <1>1, <1>2

-----------------------------------------------------------------------------
(* A whole candle *)

LEMMA DueTyped ==
    ASSUME PendingOK, index \in Nat
    PROVE  /\ Due.direction = "ENTER" => Due \in EntryType /\ Due.at + Latency = index
           /\ Due.direction = "EXIT" => Due \in ExitType /\ Due.at + Latency = index
<1>1. CASE pending.execute = index
  <2>1. Due = pending.signal
    BY <1>1 DEF Due
  <2>2. pending # NoPending
    BY <1>1 DEF NoPending, Never
  <2>3. /\ pending.signal \in EntryType \cup ExitType
        /\ index = pending.signal.at + Latency
    BY <1>1, <2>2 DEF PendingOK
  <2>4. /\ \A d \in EntryType : d.direction = "ENTER"
        /\ \A d \in ExitType : d.direction = "EXIT"
    BY DEF EntryType, ExitType
  <2> QED BY <2>1, <2>3, <2>4
<1>2. CASE pending.execute # index
  <2>1. Due = Hold
    BY <1>2 DEF Due
  <2> QED BY <2>1 DEF Hold
<1> QED BY <1>1, <1>2

LEMMA ScheduledOK ==
    ASSUME PendingOK, index \in Nat, NEW s \in StateType, NEW close \in Price,
           NEW signal \in Signals(s, close), pending' = Scheduled(signal)
    PROVE  PendingOK'
<1>1. Latency \in Nat /\ Stops \subseteq Nat /\ close \in Int
  BY ConstantsAreNat
<1>2. \/ signal = Hold
      \/ signal \in EntryType \cup ExitType /\ signal.at = index
  <2>1. CASE Open(s)
    <3>1. s.position.side \in Sides
      BY <2>1, OpenIsPosition DEF PositionType
    <3> QED BY <2>1, <3>1 DEF Signals, ExitType
  <2>2. CASE ~ Open(s)
    <3>1. signal = Hold \/ \E side \in Sides, d \in Stops :
              signal = [direction |-> "ENTER", side |-> side, at |-> index,
                        stop |-> close - Sign(side) * d, target |-> close + Sign(side) * d]
      BY <2>2 DEF Signals
    <3>2. CASE signal # Hold
      <4>1. PICK side \in Sides, d \in Stops :
                signal = [direction |-> "ENTER", side |-> side, at |-> index,
                          stop |-> close - Sign(side) * d, target |-> close + Sign(side) * d]
        BY <3>1, <3>2
      <4>2. Sign(side) * d \in Int
        BY <1>1, ProductInt DEF Sign
      <4> QED BY <4>1, <4>2, <1>1 DEF EntryType
    <3> QED BY <3>2
  <2> QED BY <2>1, <2>2
<1>3. \/ signal # Hold /\ pending' = [execute |-> index + Latency, signal |-> signal]
      \/ pending' = NoPending
      \/ pending' = pending
  BY DEF Scheduled
<1>4. CASE signal # Hold /\ pending' = [execute |-> index + Latency, signal |-> signal]
  BY <1>1, <1>2, <1>4 DEF PendingOK
<1>5. CASE pending' = NoPending
  BY <1>5 DEF PendingOK
<1>6. CASE pending' = pending
  BY <1>6 DEF PendingOK
<1> QED BY <1>3, <1>4, <1>5, <1>6

\* One candle: the account and what is pending, and where an open position comes from.
LEMMA CandleStep ==
    ASSUME IInv, NEW candle \in BarType, NEW mark \in BarType,
           NEW atOpen \in Rates, NEW inside \in Rates, Candle(candle, mark, atOpen, inside)
    PROVE  LET opening == Funded(Cooled(Rolled(state)), atOpen)
               entered == IF Due.direction = "ENTER" THEN Entered(opening, Due, candle.open)
                          ELSE opening
           IN  /\ index < Candles /\ index \in Nat /\ index' = index + 1
               /\ AccountOK(state', index) /\ Honest(state', mark, index) /\ PendingOK'
               /\ seen' = [low |-> mark.low, high |-> mark.high]
               /\ AccountOK(opening, index) /\ AccountOK(entered, index)
               /\ Open(state') => Open(entered) /\ state' = Held(Funded(entered, inside))
<1> DEFINE opening == Funded(Cooled(Rolled(state)), atOpen)
           entered == IF Due.direction = "ENTER" THEN Entered(opening, Due, candle.open)
                      ELSE opening
           funded  == Funded(entered, inside)
           guarded == Protected(funded, candle, mark, Due.direction = "EXIT")
           left    == IF Due.direction = "EXIT" THEN Left(guarded, Due, candle.open) ELSE guarded
<1>1. /\ index < Candles /\ index \in Nat /\ index' = index + 1
      /\ seen' = [low |-> mark.low, high |-> mark.high]
      /\ candle.open \in Price /\ candle.close \in Price
  BY ConstantsAreNat DEF Candle, IInv, BarType
<1>2. /\ state' = left
      /\ \E signal \in Signals(left, candle.close) : pending' = Scheduled(signal)
  BY DEF Candle
<1>3. PendingOK
  BY DEF IInv
<1>4. /\ AccountOK(opening, index) /\ opening.last = state.last
      /\ state.last # NoTrade => state.last.closed <= index - 1
  BY <1>1, OpeningStep
<1> HIDE DEF opening
<1>5. AccountOK(entered, index) /\ entered.last = state.last
  <2>1. CASE Due.direction = "ENTER"
    <3>1. Due \in EntryType /\ Due.at + Latency = index
      BY <2>1, <1>1, <1>3, DueTyped
    <3>2. /\ AccountOK(Entered(opening, Due, candle.open), index)
          /\ Entered(opening, Due, candle.open).last = opening.last
      BY <3>1, <1>1, <1>4, EnteredAccount
    <3> QED BY <2>1, <3>2, <1>4
  <2>2. CASE Due.direction # "ENTER"
    BY <2>2, <1>4
  <2> QED BY <2>1, <2>2
<1> HIDE DEF entered
<1>6. /\ AccountOK(funded, index) /\ funded.last = state.last
      /\ Open(funded) <=> Open(entered)
  BY <1>5, FundedAccount, FundedSame DEF AccountOK
<1> HIDE DEF funded
<1>7. /\ AccountOK(guarded, index) /\ Honest(guarded, mark, index)
      /\ Open(guarded) => Open(funded) /\ guarded = Held(funded)
  <2>1. funded.last # NoTrade => funded.last.closed <= index - 1
    BY <1>4, <1>6
  <2> QED BY <2>1, <1>1, <1>6, ProtectedAccount
<1> HIDE DEF guarded
<1>8. /\ AccountOK(left, index) /\ Honest(left, mark, index)
      /\ Open(left) => left = guarded
  <2>1. CASE Due.direction = "EXIT"
    <3>1. Due \in ExitType
      BY <2>1, <1>1, <1>3, DueTyped
    <3>2. LET t == Left(guarded, Due, candle.open)
          IN  AccountOK(t, index) /\ Honest(t, mark, index) /\ (Open(t) => t = guarded)
      BY <3>1, <1>1, <1>7, LeftAccount
    <3> QED BY <2>1, <3>2
  <2>2. CASE Due.direction # "EXIT"
    BY <2>2, <1>7
  <2> QED BY <2>1, <2>2
<1> HIDE DEF left
<1>9. PendingOK'
  <2>1. PICK signal \in Signals(left, candle.close) : pending' = Scheduled(signal)
    BY <1>2
  <2>2. left \in StateType
    BY <1>8 DEF AccountOK
  <2> QED BY <2>1, <2>2, <1>1, <1>3, ScheduledOK
<1>10. Open(state') => Open(entered) /\ state' = Held(funded)
  BY <1>2, <1>6, <1>7, <1>8
<1> QED BY <1>1, <1>2, <1>4, <1>5, <1>8, <1>9, <1>10 DEF opening, entered, funded

LEMMA InitIInv == Init => IInv
<1>1. SUFFICES ASSUME Init PROVE IInv
  OBVIOUS
<1>2. /\ Candles \in Nat \ {0} /\ Wallet \in Nat \ {0} /\ Cooldown \in Nat
  BY ConstantsAreNat
<1>3. index = 0 /\ pending = NoPending /\ seen \in [low : Int, high : Int]
  BY <1>1 DEF Init
<1>4. state \in StateType
  BY <1>1, <1>2 DEF Init, StateType, Never
<1>5. ~ Open(state) /\ state.last = NoTrade /\ state.day = Never
  BY <1>1 DEF Init, Open
<1>6. Books(state)
  BY <1>1, <1>2, <1>5 DEF Init, Books, Running
<1>7. LiquidationFirst
  BY <1>5 DEF LiquidationFirst, NoTrade
<1> QED BY <1>2, <1>3, <1>4, <1>5, <1>6, <1>7 DEF IInv, PendingOK

LEMMA CandleIInv ==
    ASSUME IInv, NEW candle \in BarType, NEW mark \in BarType,
           NEW atOpen \in Rates, NEW inside \in Rates, Candle(candle, mark, atOpen, inside)
    PROVE  IInv'
<1>1. /\ index < Candles /\ index \in Nat /\ index' = index + 1
      /\ AccountOK(state', index) /\ Honest(state', mark, index) /\ PendingOK'
      /\ seen' = [low |-> mark.low, high |-> mark.high]
  BY CandleStep
<1>2. Candles \in Nat /\ mark.low \in Int /\ mark.high \in Int
  BY ConstantsAreNat DEF BarType
<1>3. index' - 1 = index /\ index' \in 1 .. Candles
  BY <1>1, <1>2
<1>4. AccountOK(state', index' - 1)
  BY <1>1, <1>3
<1>5. LiquidationFirst'
  <2>1. SUFFICES ASSUME state'.last.reason \in {"STOP_LOSS", "TAKE_PROFIT"},
                        state'.last.closed = index
                 PROVE  IF state'.last.side = "LONG"
                        THEN mark.low > state'.last.liquidation
                        ELSE mark.high < state'.last.liquidation
    BY <1>1, <1>3 DEF LiquidationFirst
  <2>2. ~ Reaches(state'.last, mark.low <= state'.last.liquidation,
                  mark.high >= state'.last.liquidation)
    BY <1>1, <2>1 DEF Honest
  <2>3. state'.last \in TradeType
    <3>1. state'.last \in TradeType \cup {NoTrade}
      BY <1>1 DEF AccountOK, StateType
    <3>2. NoTrade.reason \notin {"STOP_LOSS", "TAKE_PROFIT"}
      BY DEF NoTrade
    <3> QED BY <2>1, <3>1, <3>2
  <2>4. state'.last.liquidation \in Int
    BY <2>3 DEF TradeType
  <2> QED BY <2>2, <2>4, <1>2 DEF Reaches
<1>6. seen' \in [low : Int, high : Int]
  BY <1>1, <1>2
<1>7. index' \in 0 .. Candles + 1 /\ index' # 0 /\ index' # Candles + 1
  BY <1>2, <1>3
<1> QED BY <1>1, <1>4, <1>5, <1>6, <1>7 DEF IInv

LEMMA EndIInv ==
    ASSUME IInv, NEW close \in Price, End(close)
    PROVE  IInv' /\ ~ Open(state')
<1>1. /\ index = Candles /\ index' = Candles + 1 /\ UNCHANGED <<pending, seen>>
      /\ state' = IF Open(state) THEN Closed(state, close, "FORCED_END") ELSE state
  BY DEF End
<1>2. /\ Candles \in Nat \ {0} /\ close \in Int
  BY ConstantsAreNat
<1>3. AccountOK(state, index - 1) /\ index \in Nat
  BY <1>1, <1>2 DEF IInv
<1>4. state \in StateType /\ Books(state)
  BY <1>3 DEF AccountOK
<1>5. /\ state' \in StateType /\ Books(state') /\ ~ Open(state')
      /\ state'.last # NoTrade => state'.last.closed <= index' - 1
      /\ LiquidationFirst'
  <2>1. CASE Open(state)
    <3> DEFINE t == Closed(state, close, "FORCED_END")
    <3>1. "FORCED_END" \in Exits
      BY DEF Exits
    <3>2. /\ t \in StateType /\ Books(t) /\ ~ Open(t)
          /\ t.last = [reason |-> "FORCED_END", side |-> state.position.side,
                       opened |-> state.position.opened, closed |-> index,
                       stop |-> state.position.stop, liquidation |-> state.position.liquidation]
      BY <2>1, <1>2, <1>3, <1>4, <3>1, ClosedStep
    <3>3. t.last.reason = "FORCED_END" /\ t.last.closed = index
      BY <3>2
    <3>4. state' = t
      BY <1>1, <2>1
    <3> HIDE DEF t
    <3> QED BY <3>2, <3>3, <3>4, <1>1, <1>2 DEF LiquidationFirst
  <2>2. CASE ~ Open(state)
    <3>1. state' = state
      BY <1>1, <2>2
    <3>2. state.last # NoTrade => state.last.closed \in Int /\ state.last.closed <= index - 1
      BY <1>3, <1>4 DEF AccountOK, StateType, TradeType
    <3>3. NoTrade.reason \notin {"STOP_LOSS", "TAKE_PROFIT"}
      BY DEF NoTrade
    <3> QED BY <2>2, <3>1, <3>2, <3>3, <1>1, <1>2, <1>4 DEF LiquidationFirst
  <2> QED BY <2>1, <2>2
<1>6. PendingOK' /\ seen' \in [low : Int, high : Int]
  BY <1>1 DEF IInv, PendingOK
<1>7. index' \in 0 .. Candles + 1 /\ index' # 0 /\ index' \notin 1 .. Candles
  BY <1>1, <1>2
<1> QED BY <1>5, <1>6, <1>7 DEF IInv

\* What a step is: a candle of typed bars, or the end.
LEMMA NextCases ==
    ASSUME Next
    PROVE  \/ \E candle, mark \in BarType, atOpen, inside \in Rates :
                  Candle(candle, mark, atOpen, inside)
           \/ \E close \in Price : End(close)
  BY BarTyped DEF Next

LEMMA NextIInv == IInv /\ [Next]_vars => IInv'
<1>1. SUFFICES ASSUME IInv, [Next]_vars PROVE IInv'
  OBVIOUS
<1>2. CASE UNCHANGED vars
  BY <1>1, <1>2 DEF vars, IInv, PendingOK, LiquidationFirst
<1>3. CASE Next
  BY <1>1, <1>3, NextCases, CandleIInv, EndIInv
<1> QED BY <1>1, <1>2, <1>3

\* For every market, parameter and strategy, the wallet is the initial balance with the
\* net results of the trades and what the open position was paid, and the funding of the
\* account is that of its trades; no amount is booked twice or lost.
THEOREM BooksAreReconciled == Spec => []BooksReconcile
<1>1. IInv => BooksReconcile
  <2>1. SUFFICES ASSUME IInv PROVE BooksReconcile
    OBVIOUS
  <2>2. state \in StateType /\ Books(state)
    BY <2>1, ConstantsAreNat DEF IInv, AccountOK
  <2>3. Open(state) => state.position.side \in Sides /\ state.position.quantity > 0
    BY <2>2, OpenIsPosition DEF PositionType
  <2>4. TypeOK
    BY <2>1, <2>2, <2>3 DEF TypeOK, IInv, StateType
  <2>5. WalletReconciles /\ FundingReconciles
    BY <2>2 DEF Books, Running, WalletReconciles, FundingReconciles
  <2> QED BY <2>4, <2>5 DEF BooksReconcile
<1> QED BY <1>1, InitIInv, NextIInv, PTL DEF Spec

\* Nothing is executed at a price its decision knew, and no stop or target saves a
\* position that the same candle liquidates.
THEOREM CandlesAreHonest == Spec => []CandleIsHonest
<1>1. IInv => CandleIsHonest
  <2>1. SUFFICES ASSUME IInv PROVE CandleIsHonest
    OBVIOUS
  <2>2. NoLookahead
    BY <2>1, ConstantsAreNat DEF IInv, AccountOK, NoLookahead
  <2> QED BY <2>1, <2>2 DEF IInv, CandleIsHonest
<1> QED BY <1>1, InitIInv, NextIInv, PTL DEF Spec

-----------------------------------------------------------------------------
(* Entries *)

\* A position that was not there before is an entry the risk manager approved in this
\* candle, on the account of its opening.
LEMMA NewPosition ==
    ASSUME IInv, NEW candle \in BarType, NEW mark \in BarType,
           NEW atOpen \in Rates, NEW inside \in Rates, Candle(candle, mark, atOpen, inside),
           Open(state'),
           \/ ~ Open(state) \/ state'.position.opened # state.position.opened
           \/ state'.position.opened = index
    PROVE  LET opening == Funded(Cooled(Rolled(state)), atOpen)
           IN  /\ Due \in EntryType
               /\ AccountOK(opening, index) /\ index \in Nat
               /\ opening.last = state.last /\ opening.bankrupt = state.bankrupt
               /\ approved(opening, Due, execution_price(candle.open, Due.side, TRUE))
               /\ state' = Held(Funded(Entered(opening, Due, candle.open), inside))
<1> DEFINE opening == Funded(Cooled(Rolled(state)), atOpen)
           entered == IF Due.direction = "ENTER" THEN Entered(opening, Due, candle.open)
                      ELSE opening
           funded  == Funded(entered, inside)
<1>1. /\ index < Candles /\ index \in Nat
      /\ AccountOK(opening, index) /\ AccountOK(entered, index)
      /\ Open(entered) /\ state' = Held(funded)
  BY CandleStep
<1>2. PendingOK /\ candle.open \in Price
  BY DEF IInv, BarType
<1>3. /\ opening.last = state.last /\ opening.bankrupt = state.bankrupt
      /\ Open(opening) <=> Open(state)
      /\ Open(state) => /\ opening.position.opened = state.position.opened
                        /\ opening.position.opened <= index - 1
  BY <1>1, OpeningStep
<1> HIDE DEF opening
<1>4. opening \in StateType /\ entered \in StateType
  BY <1>1 DEF AccountOK
<1>5. entered # opening
  <2>1. SUFFICES ASSUME entered = opening PROVE FALSE
    OBVIOUS
  <2> HIDE DEF entered
  <2>2. PICK flow \in Int : funded.position = [entered.position EXCEPT !.funding = @ + flow]
    BY <1>1, <1>4, FundedSame
  <2>3. funded \in StateType /\ Open(funded)
    BY <1>1, <1>4, FundedStep
  <2> HIDE DEF funded
  <2>4. /\ entered.position \in PositionType /\ funded.position \in PositionType
        /\ state'.position = [funded.position EXCEPT !.held = @ + 1]
    BY <1>1, <1>4, <2>3, OpenIsPosition, HeldStep
  <2>5. state'.position.opened = opening.position.opened /\ Open(opening)
    BY <2>1, <2>2, <2>4, <1>1 DEF PositionType
  <2>6. opening.position.opened \in Int
    BY <2>1, <2>4 DEF PositionType
  <2> QED BY <2>5, <2>6, <1>1, <1>3
<1>6. Due.direction = "ENTER" /\ entered = Entered(opening, Due, candle.open)
  BY <1>5
<1>7. Due \in EntryType
  BY <1>1, <1>2, <1>6, DueTyped
<1>8. approved(opening, Due, execution_price(candle.open, Due.side, TRUE))
  BY <1>1, <1>2, <1>4, <1>5, <1>6, <1>7, EnteredStep, ZenonT(60)
<1> HIDE DEF entered
<1> QED BY <1>1, <1>3, <1>6, <1>7, <1>8 DEF opening, funded

\* The limits of a day, at the end of the candle of an entry.
LEMMA DayLimitsStep ==
    ASSUME IInv, NEW candle \in BarType, NEW mark \in BarType,
           NEW atOpen \in Rates, NEW inside \in Rates, Candle(candle, mark, atOpen, inside),
           Open(state'), state'.position.opened = index, DailyLossPercent <= 100
    PROVE  /\ state'.entries <= MaxEntries
           /\ 100 * (state'.dayStart - state'.wallet - state'.position.fee
                        + state'.position.funding) < DailyLossPercent * state'.dayStart
<1> DEFINE opening == Funded(Cooled(Rolled(state)), atOpen)
           price   == execution_price(candle.open, Due.side, TRUE)
           entered == Entered(opening, Due, candle.open)
           funded  == Funded(entered, inside)
<1>1. /\ Due \in EntryType /\ AccountOK(opening, index) /\ index \in Nat
      /\ approved(opening, Due, price) /\ state' = Held(funded) /\ candle.open \in Price
  BY NewPosition DEF BarType
<1>2. opening \in StateType
  BY <1>1 DEF AccountOK
<1> HIDE DEF opening
<1>3. /\ opening.wallet > 0 /\ opening.entries < MaxEntries
      /\ opening.dayStart > 0 => High(0, opening.dayStart - opening.wallet) * 100
                                     < DailyLossPercent * opening.dayStart
  BY <1>1, <1>2, ApprovedEntry
<1>4. PICK p \in PositionType :
          /\ entered = [opening EXCEPT !.wallet = @ - p.fee, !.entries = @ + 1, !.position = p]
          /\ p.opened = index /\ p.signalled = Due.at /\ p.funding = 0
  BY <1>1, <1>2, EnteredStep
<1>5. /\ entered.wallet = opening.wallet - p.fee /\ entered.entries = opening.entries + 1
      /\ entered.position = p /\ entered.dayStart = opening.dayStart
  BY <1>2, <1>4 DEF StateType
<1>6. entered \in StateType
  BY <1>1, <1>2, EnteredStep
<1> HIDE DEF entered
<1>7. Open(entered)
  BY <1>5, <1>6, OpenIsPosition DEF Open
<1>8. PICK flow \in Int : /\ funded.wallet = entered.wallet + flow
                          /\ funded.position = [p EXCEPT !.funding = @ + flow]
  BY <1>5, <1>6, <1>7, FundedSame
<1>9. /\ funded.entries = entered.entries /\ funded.dayStart = entered.dayStart
      /\ funded \in StateType /\ Open(funded)
  BY <1>6, <1>7, FundedSame, FundedStep
<1> HIDE DEF funded
<1>10. /\ state'.wallet = funded.wallet /\ state'.entries = funded.entries
       /\ state'.dayStart = funded.dayStart
       /\ state'.position = [funded.position EXCEPT !.held = @ + 1]
  <2>1. Held(funded).position = [funded.position EXCEPT !.held = @ + 1]
    BY <1>9, HeldStep
  <2> QED BY <1>1, <1>9, <2>1 DEF Held, StateType
<1>11. state'.position.fee = p.fee /\ state'.position.funding = flow
  <2>1. funded.position.fee = p.fee /\ funded.position.funding = p.funding + flow
        /\ funded.position \in PositionType
    BY <1>8, <1>9, OpenIsPosition DEF PositionType
  <2>2. p.funding + flow = flow
    BY <1>4
  <2> QED BY <1>10, <2>1, <2>2 DEF PositionType
<1>12. /\ opening.wallet \in Int /\ opening.dayStart \in Int /\ opening.entries \in Int
       /\ p.fee \in Int /\ MaxEntries \in Int /\ DailyLossPercent \in Nat
  BY <1>2, ConstantsAreNat DEF StateType, PositionType
<1>13. state'.entries <= MaxEntries
  BY <1>3, <1>5, <1>9, <1>10, <1>12
<1>14. state'.dayStart - state'.wallet - state'.position.fee + state'.position.funding
           = opening.dayStart - opening.wallet
  BY <1>5, <1>8, <1>9, <1>10, <1>11, <1>12
<1>15. 100 * (opening.dayStart - opening.wallet) < DailyLossPercent * opening.dayStart
  <2> DEFINE start == opening.dayStart
             loss  == opening.dayStart - opening.wallet
  <2>1. start \in Int /\ loss \in Int /\ loss < start
    BY <1>3, <1>12
  <2>2. CASE start > 0
    <3>1. High(0, loss) >= loss /\ High(0, loss) \in Int
      BY <2>1 DEF High
    <3>2. High(0, loss) * 100 < DailyLossPercent * start
      BY <2>2, <1>3
    <3>3. DailyLossPercent * start \in Int
      BY <2>1, <1>12, ProductInt
    <3> HIDE DEF loss, start
    <3> QED BY <2>1, <3>1, <3>2, <3>3 DEF loss, start
  <2>3. CASE start <= 0
    <3> HIDE DEF loss, start
    <3>1. DailyLossPercent * start >= 100 * start
      <4>1. (100 - DailyLossPercent) * start <= 0
        BY <2>1, <2>3, <1>12
      <4>2. (100 - DailyLossPercent) * start = 100 * start - DailyLossPercent * start
        BY <2>1, <1>12
      <4>3. DailyLossPercent * start \in Int
        BY <2>1, <1>12, ProductInt
      <4> QED BY <4>1, <4>2, <4>3, <2>1
    <3>2. DailyLossPercent * start \in Int
      BY <2>1, <1>12, ProductInt
    <3> QED BY <3>1, <3>2, <2>1 DEF loss, start
  <2> QED BY <2>1, <2>2, <2>3
<1>16. DailyLossPercent * state'.dayStart = DailyLossPercent * opening.dayStart
  BY <1>5, <1>9, <1>10
<1> QED BY <1>13, <1>14, <1>15, <1>16

\* No path of orders, candles and losses enters beyond the limits: after a liquidation
\* not on that day nor within the cooldown, never when bankrupt, and on a day at most
\* maximum_entries_per_day times and within its loss limit, which is a percentage.
THEOREM EntriesRespectLimits == Spec /\ DailyLossPercent <= 100 => EntriesRespectRisk
<1> DEFINE Pauses == Open(state') /\ (~ Open(state) \/ state'.position.opened # state.position.opened)
                     /\ state.last.reason = "LIQUIDATION"
                     => /\ ~ state.bankrupt
                        /\ Day(index) # Day(state.last.closed)
                        /\ index - state.last.closed >= Cooldown
           Limits == Open(state') /\ state'.position.opened = index
                     => /\ state'.entries <= MaxEntries
                        /\ 100 * (state'.dayStart - state'.wallet - state'.position.fee
                                     + state'.position.funding) < DailyLossPercent * state'.dayStart
<1> SUFFICES ASSUME DailyLossPercent <= 100
             PROVE  Spec => EntriesRespectRisk
  OBVIOUS
<1>1. ASSUME IInv, NEW candle \in BarType, NEW mark \in BarType,
             NEW atOpen \in Rates, NEW inside \in Rates, Candle(candle, mark, atOpen, inside)
      PROVE  Pauses
  <2>1. SUFFICES ASSUME Open(state'),
                        ~ Open(state) \/ state'.position.opened # state.position.opened,
                        state.last.reason = "LIQUIDATION"
                 PROVE  /\ ~ state.bankrupt
                        /\ Day(index) # Day(state.last.closed)
                        /\ index - state.last.closed >= Cooldown
    OBVIOUS
  <2> DEFINE opening == Funded(Cooled(Rolled(state)), atOpen)
             price   == execution_price(candle.open, Due.side, TRUE)
  <2>2. /\ Due \in EntryType /\ AccountOK(opening, index) /\ index \in Nat
        /\ opening.last = state.last /\ opening.bankrupt = state.bankrupt
        /\ approved(opening, Due, price) /\ candle.open \in Price
    BY <1>1, <2>1, NewPosition DEF BarType
  <2> HIDE DEF opening
  <2>3. opening \in StateType
    BY <2>2 DEF AccountOK
  <2>4. /\ ~ opening.bankrupt /\ ~ opening.liquidatedToday
        /\ opening.cooldown = Never \/ opening.cooldown >= Cooldown
    BY <2>2, <2>3, ApprovedEntry
  <2>5. /\ state.last \in TradeType
        /\ Day(state.last.closed) = Day(index) => opening.liquidatedToday
        /\ opening.cooldown # Never /\ opening.cooldown <= index - state.last.closed
    BY <2>1, <2>2 DEF AccountOK
  <2>6. opening.cooldown \in Int /\ state.last.closed \in Int /\ Cooldown \in Int
    BY <2>3, <2>5, ConstantsAreNat DEF StateType, TradeType, Never
  <2> QED BY <2>2, <2>4, <2>5, <2>6
<1>2. IInv /\ [Next]_vars => [Pauses]_vars /\ [Limits]_vars
  <2>1. SUFFICES ASSUME IInv, Next PROVE Pauses /\ Limits
    OBVIOUS
  <2>2. CASE \E candle, mark \in BarType, atOpen, inside \in Rates :
                 Candle(candle, mark, atOpen, inside)
    <3>1. PICK candle \in BarType, mark \in BarType, atOpen \in Rates, inside \in Rates :
              Candle(candle, mark, atOpen, inside)
      BY <2>2
    <3>2. Pauses
      BY <2>1, <3>1, <1>1
    <3>3. Limits
      BY <2>1, <3>1, DayLimitsStep
    <3> QED BY <3>2, <3>3
  <2>3. CASE \E close \in Price : End(close)
    BY <2>1, <2>3, EndIInv
  <2> QED BY <2>1, <2>2, <2>3, NextCases
<1>3. EntriesRespectRisk <=> [][Pauses]_vars /\ [][Limits]_vars
  BY DEF EntriesRespectRisk, LiquidationPauses, DayLimits
<1> QED BY <1>2, <1>3, InitIInv, NextIInv, PTL DEF Spec
=============================================================================
