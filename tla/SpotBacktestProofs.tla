--------------------------- MODULE SpotBacktestProofs ---------------------------
(* Theorems about SpotBacktest, for every value of its constants.           *)
EXTENDS SpotBacktest, TLAPS

Reasons ==
    {"PARTIAL_TAKE_PROFIT", "STOP_LOSS", "TAKE_PROFIT", "TIME_EXIT", "STRATEGY_EXIT", "FORCED_END"}

PositionType ==
    [quantity : Nat \ {0}, entry : Int, fee : Int, stop : Int, target : Int, risk : Nat,
     partial : BOOLEAN, opened : Int, decided : Int]

TradeType == [reason : Reasons, at : Nat, stop : Int]

StateType ==
    [cash : Int, position : PositionType \cup {Flat}, entries : Nat, day : Int,
     dayStart : Int, close : Int, net : Int, held : Int, last : TradeType \cup {NoTrade}]

BuyType ==
    [direction : {"BUY"}, quantity : Nat \ {0}, stop : Int, target : Int, at : Nat, execute : Nat]

SellType == [direction : {"SELL"}, quantity : Nat, at : Nat, execute : Nat]

Statuses == Ordered \cup {"SKIPPED", "PENDING_ORDER", "NOT_EXECUTED"}

\* What the open position cost and is not yet in the net result.
Owed(s) == IF Open(s) THEN s.position.entry * s.position.quantity + s.position.fee ELSE 0

Account(s) ==
    /\ s.held = s.position.quantity
    /\ s.cash = Capital + s.net - Owed(s)

\* The configurations either take a partial profit or exit by the strategy.
OneWayOut == \A c \in Configs : ~ (c.partial /\ c.exit)

\* A sale brings in at least what it costs, also at the lowest stop.
Covered(price) == Cost + Fee <= price

CostsAreCovered == \A p \in Price, d \in Stops \cup {0} : Covered(p - d)

Solvent(s) ==
    /\ s.cash >= 0
    /\ Open(s) => /\ Covered(s.position.entry)
                  /\ Covered(s.position.stop) /\ Covered(s.position.target)

\* The order that waits: it is due, once, at its candle; a purchase waits without a
\* position, and a sale for the whole position, unless partial exits share in it.
WaitingOK ==
    /\ pending \in BuyType \cup SellType \cup {NoPending}
    /\ pending # NoPending => /\ pending.execute = pending.at + Latency
                             /\ (index <= Candles => index <= pending.execute)
    /\ pending.direction = "BUY" =>
           /\ ~ Open(state)
           /\ CostsAreCovered => Covered(pending.stop) /\ Covered(pending.target)
    /\ pending.direction = "SELL" /\ Open(state) =>
           /\ config.exit
           /\ ~ config.partial => pending.quantity = state.position.quantity

TraceOK ==
    /\ \A i \in DOMAIN trace : i \in 0 .. index - 1 /\ trace[i] \in Statuses
    /\ TraceTellsTheFill

\* The inductive invariant.
IInv ==
    /\ config \in Configs /\ index \in 0 .. Candles + 1
    /\ state \in StateType
    /\ IF index = 0 THEN ~ Open(state) ELSE state.close \in Price
    /\ WaitingOK /\ TraceOK /\ NoLookahead
    /\ ~ (config.partial /\ config.exit) => Account(state)
    /\ CostsAreCovered => Solvent(state)

-----------------------------------------------------------------------------
(* The arithmetic *)

LEMMA ConstantsAreNat ==
    /\ Price \subseteq Nat \ {0}
    /\ Candles \in Nat \ {0} /\ CandlesPerDay \in Nat \ {0} /\ Latency \in Nat \ {0}
    /\ Capital \in Nat \ {0} /\ PartialPercent \in 1 .. 100
    /\ Cost \in Nat /\ Fee \in Nat /\ Trail \in Nat /\ PartialR \in Nat /\ BreakEvenR \in Nat
    /\ PositionPercent \in Nat /\ TargetR \in Nat /\ DailyLossPercent \in Nat
    /\ Stops \subseteq Nat /\ Spikes \subseteq Nat
  BY SpotAssumption

LEMMA ProductInt == \A a, b \in Int : a * b \in Int
  OBVIOUS

LEMMA ProductNat == \A a, b \in Nat : a * b \in Nat
  OBVIOUS

LEMMA DivInt == \A a \in Int, b \in Nat \ {0} : a \div b \in Int
  OBVIOUS

LEMMA LowHigh ==
    ASSUME NEW a \in Int, NEW b \in Int
    PROVE  /\ Low(a, b) \in {a, b} /\ Low(a, b) <= a /\ Low(a, b) <= b
           /\ High(a, b) \in {a, b} /\ High(a, b) >= a /\ High(a, b) >= b
  BY DEF Low, High

\* A percentage of a quantity is a part of it.
LEMMA ShareFits ==
    ASSUME NEW a \in Nat, NEW b \in 1 .. 100
    PROVE  (a * b) \div 100 \in 0 .. a
<1> DEFINE m == a * b
<1>1. m \in Nat /\ a * (100 - b) \in Nat
  BY ProductNat
<1>2. a * (100 - b) = 100 * a - m
  OBVIOUS
<1> HIDE DEF m
<1>3. m \in 0 .. 100 * a
  BY <1>1, <1>2
<1>4. m \div 100 \in 0 .. a
  BY <1>3
<1> QED BY <1>4 DEF m

LEMMA OpenIsPosition ==
    ASSUME NEW s \in StateType
    PROVE  /\ Open(s) => s.position \in PositionType
           /\ ~ Open(s) => s.position = Flat
           /\ s.position.quantity \in Nat
           /\ Flat \notin PositionType
<1>1. \A p \in PositionType : p.quantity \in Nat /\ p.quantity # 0
  BY DEF PositionType
<1>2. Flat.quantity = 0
  BY DEF Flat
<1> QED BY <1>1, <1>2 DEF Open, StateType

\* Proceeds of a sale that pays its costs.
LEMMA Proceeds ==
    ASSUME NEW reference \in Int, NEW q \in Nat, Covered(reference)
    PROVE  (reference - Cost - Fee) * q \in Nat
<1>1. Cost \in Nat /\ Fee \in Nat
  BY ConstantsAreNat
<1>2. reference - Cost - Fee \in Nat
  BY <1>1 DEF Covered
<1> QED BY <1>2, ProductNat

-----------------------------------------------------------------------------
(* One step of a candle after the other *)

\* What a step of a candle does to the position: a position is never opened, and one
\* that stays keeps its origin and its stop; one that goes leaves at its stop's value.
Keeps(s, t) ==
    IF Open(s)
    THEN IF Open(t)
         THEN /\ t.position.opened = s.position.opened
              /\ t.position.decided = s.position.decided
              /\ t.position.stop = s.position.stop
         ELSE t.last.stop = s.position.stop
    ELSE t.position = Flat /\ t.last = s.last

LEMMA KeepsTransitive ==
    ASSUME NEW s, NEW t, NEW u, Keeps(s, t), Keeps(t, u)
    PROVE  Keeps(s, u)
  BY DEF Keeps, Open

\* What is in order stays in order.
Sound(s, t) ==
    /\ t \in StateType /\ t.close = s.close
    /\ CostsAreCovered /\ Solvent(s) => Solvent(t)

LEMMA SoundTransitive ==
    ASSUME NEW s, NEW t, NEW u, Sound(s, t), Sound(t, u)
    PROVE  Sound(s, u)
  BY DEF Sound

LEMMA RolledStep ==
    ASSUME NEW s \in StateType, index \in Nat
    PROVE  /\ Sound(s, Rolled(s)) /\ Keeps(s, Rolled(s))
           /\ Rolled(s).position = s.position
           /\ Account(s) => Account(Rolled(s))
<1> DEFINE t == Rolled(s)
<1>1. Day(index) \in Int
  BY ConstantsAreNat, DivInt DEF Day
<1>2. Equity(s, s.close) \in Int
  <2>1. s.cash \in Int /\ s.close \in Int /\ s.position.quantity \in Int
    BY OpenIsPosition DEF StateType
  <2>2. s.position.quantity * s.close \in Int
    BY <2>1, ProductInt
  <2> QED BY <2>1, <2>2 DEF Equity
<1>3. t \in StateType
  BY <1>1, <1>2 DEF Rolled, StateType
<1>4. /\ t.position = s.position /\ t.last = s.last /\ t.close = s.close
      /\ t.cash = s.cash /\ t.net = s.net /\ t.held = s.held
  BY DEF Rolled, StateType
<1> HIDE DEF t
<1>5. ~ Open(s) => t.position = Flat
  BY <1>4 DEF Open
<1>6. Keeps(s, t)
  BY <1>4, <1>5 DEF Keeps, Open
<1> QED BY <1>3, <1>4, <1>6 DEF Sound, Solvent, Account, Owed, Open, t

\* A purchase the cash pays for.
LEMMA BoughtStep ==
    ASSUME NEW s \in StateType, ~ Open(s), index \in Nat, NEW buy \in BuyType,
           NEW open \in Price, Affordable(s, buy, open), open + Cost > buy.stop,
           CostsAreCovered => Covered(buy.stop) /\ Covered(buy.target)
    PROVE  /\ Sound(s, Bought(s, buy, open)) /\ Open(Bought(s, buy, open))
           /\ Bought(s, buy, open).position.opened = index
           /\ Bought(s, buy, open).position.decided = buy.at
           /\ Account(s) => Account(Bought(s, buy, open))
<1> DEFINE q == buy.quantity
           p == [quantity |-> q, entry |-> open + Cost, fee |-> Fee * q, stop |-> buy.stop,
                 target |-> buy.target, risk |-> open + Cost - buy.stop, partial |-> FALSE,
                 opened |-> index, decided |-> buy.at]
           price == (open + Cost + Fee) * q
           t == Bought(s, buy, open)
<1>1. /\ open \in Nat \ {0} /\ Cost \in Nat /\ Fee \in Nat /\ Capital \in Nat
      /\ q \in Nat \ {0} /\ buy.stop \in Int /\ buy.target \in Int /\ buy.at \in Nat
  BY ConstantsAreNat DEF BuyType
<1>2. s.position = Flat /\ s.position.quantity = 0
  BY OpenIsPosition DEF Flat
<1>3. Fee * q \in Int /\ price \in Int /\ (open + Cost) * q \in Int
  BY <1>1, ProductInt
<1>4. p \in PositionType
  BY <1>1, <1>3 DEF PositionType
<1>5. /\ p.entry = open + Cost /\ p.fee = Fee * q /\ p.quantity = q /\ p.stop = buy.stop
      /\ p.target = buy.target /\ p.opened = index /\ p.decided = buy.at
  OBVIOUS
<1>6. /\ t.position = p /\ t.cash = s.cash - price /\ t.held = s.held + q /\ t.net = s.net
      /\ t.close = s.close
  BY DEF Bought, StateType
<1>7. s.cash - price \in Int /\ s.entries + 1 \in Nat /\ s.held + q \in Int
  BY <1>1, <1>3 DEF StateType
<1>8. t = [s EXCEPT !.cash = s.cash - price, !.entries = s.entries + 1, !.held = s.held + q,
                    !.position = p]
  BY DEF Bought, StateType
<1>9. price <= s.cash
  BY DEF Affordable
<1> HIDE DEF p, t, q, price
<1>10. t \in StateType
  BY <1>4, <1>7, <1>8 DEF StateType
<1>11. Open(t)
  BY <1>4, <1>6, <1>10, OpenIsPosition DEF Open
<1>12. CostsAreCovered /\ Solvent(s) => Solvent(t)
  <2>1. s.cash \in Int
    BY DEF StateType
  <2>2. CostsAreCovered => Covered(p.stop) /\ Covered(p.target) /\ Covered(p.entry)
    BY <1>1, <1>5 DEF Covered
  <2>3. t.cash >= 0
    BY <1>3, <1>6, <1>9, <2>1
  <2> QED BY <1>6, <2>2, <2>3 DEF Solvent
<1>13. Account(s) => Account(t)
  <2>1. SUFFICES ASSUME Account(s) PROVE Account(t)
    OBVIOUS
  <2>2. s.held = 0 /\ s.cash = Capital + s.net
    BY <1>1, <1>2, <2>1 DEF Account, Owed, StateType
  <2>3. t.held = t.position.quantity
    BY <1>1, <1>5, <1>6, <2>2
  <2>4. price = (open + Cost) * q + Fee * q
    BY <1>1 DEF price
  <2>5. Owed(t) = (open + Cost) * q + Fee * q
    BY <1>5, <1>6, <1>11 DEF Owed
  <2>6. t.cash = Capital + t.net - Owed(t)
    <3>1. s.net \in Int
      BY DEF StateType
    <3> QED BY <1>1, <1>3, <1>6, <2>2, <2>4, <2>5, <3>1
  <2> QED BY <2>3, <2>6 DEF Account
<1> QED BY <1>5, <1>6, <1>10, <1>11, <1>12, <1>13 DEF Sound, t

LEMMA SoldStep ==
    ASSUME NEW s \in StateType, Open(s), index \in Nat, NEW q \in Nat, NEW fee \in Int,
           NEW reference \in Int, NEW reason \in Reasons
    PROVE  LET t == Sold(s, q, fee, reference, reason)
           IN  /\ t \in StateType
               /\ t.position = s.position /\ t.close = s.close
               /\ t.cash = s.cash + (reference - Cost - Fee) * q
               /\ t.held = s.held - q
               /\ t.net = s.net + (reference - Cost - s.position.entry) * q - fee - Fee * q
               /\ t.last.stop = s.position.stop
<1> DEFINE p     == s.position
           cash  == s.cash + (reference - Cost - Fee) * q
           net   == s.net + (reference - Cost - p.entry) * q - fee - Fee * q
           trade == [reason |-> reason, at |-> index, stop |-> p.stop]
           t     == Sold(s, q, fee, reference, reason)
<1>1. p \in PositionType
  BY OpenIsPosition
<1>2. /\ Cost \in Nat /\ Fee \in Nat /\ p.entry \in Int /\ p.stop \in Int
      /\ s.cash \in Int /\ s.net \in Int /\ s.held \in Int
  BY <1>1, ConstantsAreNat DEF PositionType, StateType
<1>3. /\ (reference - Cost - Fee) * q \in Int /\ (reference - Cost - p.entry) * q \in Int
      /\ Fee * q \in Int
  BY <1>2, ProductInt
<1>4. cash \in Int /\ net \in Int /\ s.held - q \in Int
  BY <1>2, <1>3
<1>5. trade \in TradeType /\ trade.stop = p.stop
  BY <1>2 DEF TradeType
<1>6. t = [s EXCEPT !.cash = cash, !.held = s.held - q, !.net = net, !.last = trade]
  BY DEF Sold, StateType
<1> HIDE DEF cash, net, trade
<1>7. t \in StateType
  BY <1>4, <1>5, <1>6 DEF StateType
<1>8. /\ t.position = p /\ t.close = s.close /\ t.cash = cash /\ t.held = s.held - q
      /\ t.net = net /\ t.last = trade
  BY <1>6 DEF StateType
<1> HIDE DEF t
<1>9. t.last.stop = p.stop
  BY <1>5, <1>8
<1> QED BY <1>7, <1>8, <1>9, Zenon DEF t, cash, net

\* An exit leaves nothing behind; of the whole position, it settles the account.
LEMMA LeftStep ==
    ASSUME NEW s \in StateType, Open(s), index \in Nat, NEW q \in Nat,
           NEW reference \in Int, NEW reason \in Reasons,
           CostsAreCovered /\ Solvent(s) => Covered(reference)
    PROVE  LET t == Left(s, q, reference, reason)
           IN  /\ Sound(s, t) /\ Keeps(s, t) /\ ~ Open(t)
               /\ q = s.position.quantity /\ Account(s) => Account(t)
<1> DEFINE p == s.position
           u == Sold(s, q, p.fee, reference, reason)
           t == Left(s, q, reference, reason)
<1>1. p \in PositionType
  BY OpenIsPosition
<1>2. /\ Cost \in Nat /\ Fee \in Nat /\ Capital \in Nat
      /\ p.entry \in Int /\ p.fee \in Int /\ s.cash \in Int /\ s.net \in Int
  BY <1>1, ConstantsAreNat DEF PositionType, StateType
<1>3. /\ u \in StateType /\ u.close = s.close
      /\ u.cash = s.cash + (reference - Cost - Fee) * q
      /\ u.held = s.held - q
      /\ u.net = s.net + (reference - Cost - p.entry) * q - p.fee - Fee * q
      /\ u.last.stop = p.stop
  <2> HIDE DEF p
  <2>1. p.fee \in Int
    BY <1>2
  <2>2. LET v == Sold(s, q, p.fee, reference, reason)
        IN  /\ v \in StateType
            /\ v.position = s.position /\ v.close = s.close
            /\ v.cash = s.cash + (reference - Cost - Fee) * q
            /\ v.held = s.held - q
            /\ v.net = s.net + (reference - Cost - s.position.entry) * q - p.fee - Fee * q
            /\ v.last.stop = s.position.stop
    BY <2>1, SoldStep
  <2> QED BY <2>2, Zenon DEF p
<1> HIDE DEF u
<1>4. t = [u EXCEPT !.position = Flat]
  BY DEF Left, u
<1>5. /\ t \in StateType /\ t.position = Flat /\ t.close = u.close /\ t.cash = u.cash
      /\ t.held = u.held /\ t.net = u.net /\ t.last = u.last
  BY <1>3, <1>4 DEF StateType
<1> HIDE DEF t
<1>6. ~ Open(t) /\ t.position.quantity = 0
  BY <1>5 DEF Open, Flat
<1>7. Keeps(s, t)
  BY <1>3, <1>5, <1>6 DEF Keeps
<1>8. CostsAreCovered /\ Solvent(s) => Solvent(t)
  <2>1. SUFFICES ASSUME CostsAreCovered, Solvent(s) PROVE Solvent(t)
    OBVIOUS
  <2>2. (reference - Cost - Fee) * q \in Nat
    BY <2>1, Proceeds
  <2>3. t.cash >= 0
    BY <1>2, <1>3, <1>5, <2>1, <2>2 DEF Solvent
  <2> QED BY <1>6, <2>3 DEF Solvent
<1>9. ASSUME q = p.quantity, Account(s) PROVE Account(t)
  <2>1. s.held = q /\ s.cash = Capital + s.net - (p.entry * q + p.fee)
    BY <1>9 DEF Account, Owed
  <2>2. t.held = 0
    BY <1>3, <1>5, <2>1
  <2>3. (reference - Cost - Fee) * q
           = (reference - Cost - p.entry) * q + p.entry * q - Fee * q
    BY <1>2
  <2>4. /\ (reference - Cost - p.entry) * q \in Int /\ p.entry * q \in Int /\ Fee * q \in Int
    BY <1>2, ProductInt
  <2>5. t.cash = Capital + t.net
    BY <1>2, <1>3, <1>5, <2>1, <2>3, <2>4
  <2>6. Owed(t) = 0
    BY <1>6 DEF Owed
  <2>7. t.net \in Int
    BY <1>5 DEF StateType
  <2> QED BY <1>2, <1>6, <2>2, <2>5, <2>6, <2>7 DEF Account
<1> QED BY <1>3, <1>5, <1>6, <1>7, <1>8, <1>9 DEF Sound, t

\* A partial take profit sells a part and its share of the fee of the entry.
LEMMA PartStep ==
    ASSUME NEW s \in StateType, Open(s), index \in Nat, NEW part \in 1 .. s.position.quantity - 1,
           NEW fee \in Int, NEW reference \in Int, NEW reason \in Reasons,
           CostsAreCovered /\ Solvent(s) => Covered(reference)
    PROVE  LET t == [Sold(s, part, fee, reference, reason) EXCEPT
                        !.position.quantity = @ - part, !.position.fee = @ - fee,
                        !.position.partial = TRUE]
           IN  /\ Sound(s, t) /\ Keeps(s, t) /\ Open(t)
               /\ Account(s) => Account(t)
<1> DEFINE p == s.position
           q == p.quantity
           u == Sold(s, part, fee, reference, reason)
           r == [p EXCEPT !.quantity = q - part, !.fee = p.fee - fee, !.partial = TRUE]
           t == [u EXCEPT !.position.quantity = @ - part, !.position.fee = @ - fee,
                          !.position.partial = TRUE]
<1>1. p \in PositionType
  BY OpenIsPosition
<1>2. /\ Cost \in Nat /\ Fee \in Nat /\ Capital \in Nat /\ q \in Nat \ {0}
      /\ p.entry \in Int /\ p.fee \in Int /\ s.cash \in Int /\ s.net \in Int /\ s.held \in Int
  BY <1>1, ConstantsAreNat DEF PositionType, StateType
<1>3. part \in Nat \ {0} /\ q - part \in Nat \ {0}
  BY <1>2
<1>4. /\ u \in StateType /\ u.position = p /\ u.close = s.close
      /\ u.cash = s.cash + (reference - Cost - Fee) * part
      /\ u.held = s.held - part
      /\ u.net = s.net + (reference - Cost - p.entry) * part - fee - Fee * part
      /\ u.last.stop = p.stop
  <2>1. LET v == Sold(s, part, fee, reference, reason)
        IN  /\ v \in StateType
            /\ v.position = s.position /\ v.close = s.close
            /\ v.cash = s.cash + (reference - Cost - Fee) * part
            /\ v.held = s.held - part
            /\ v.net = s.net + (reference - Cost - s.position.entry) * part - fee - Fee * part
            /\ v.last.stop = s.position.stop
    <3>1. part \in Nat
      BY <1>3
    <3> QED BY <3>1, SoldStep, ZenonT(60)
  <2> QED BY <2>1, Zenon
<1> HIDE DEF u
<1>5. /\ r \in PositionType /\ r.quantity = q - part /\ r.fee = p.fee - fee
      /\ r.entry = p.entry /\ r.stop = p.stop /\ r.target = p.target
      /\ r.opened = p.opened /\ r.decided = p.decided
  <2>1. p.fee - fee \in Int
    BY <1>2
  <2> HIDE DEF q
  <2> QED BY <1>1, <1>3, <2>1 DEF PositionType
<1>6. t = [u EXCEPT !.position = r]
  BY <1>1, <1>4 DEF StateType, PositionType
<1> HIDE DEF r, t
<1>7. /\ t \in StateType /\ t.position = r /\ t.close = u.close /\ t.cash = u.cash
      /\ t.held = u.held /\ t.net = u.net /\ t.last = u.last
  BY <1>4, <1>5, <1>6 DEF StateType
<1>8. Open(t)
  BY <1>5, <1>7, OpenIsPosition DEF Open
<1>9. Keeps(s, t)
  BY <1>5, <1>7, <1>8 DEF Keeps
<1>10. CostsAreCovered /\ Solvent(s) => Solvent(t)
  <2>1. SUFFICES ASSUME CostsAreCovered, Solvent(s) PROVE Solvent(t)
    OBVIOUS
  <2>2. (reference - Cost - Fee) * part \in Nat
    BY <1>3, <2>1, Proceeds
  <2>3. t.cash >= 0
    BY <1>2, <1>4, <1>7, <2>1, <2>2 DEF Solvent
  <2> QED BY <1>5, <1>7, <2>1, <2>3 DEF Solvent
<1>11. ASSUME Account(s) PROVE Account(t)
  <2>1. s.held = q /\ s.cash = Capital + s.net - (p.entry * q + p.fee)
    BY <1>11 DEF Account, Owed
  <2>2. t.held = t.position.quantity
    BY <1>2, <1>3, <1>4, <1>5, <1>7, <2>1
  <2>3. (reference - Cost - Fee) * part
           = (reference - Cost - p.entry) * part + p.entry * part - Fee * part
    BY <1>2, <1>3
  <2>4. p.entry * (q - part) = p.entry * q - p.entry * part
    BY <1>2, <1>3
  <2>5. /\ (reference - Cost - p.entry) * part \in Int /\ p.entry * q \in Int
        /\ p.entry * part \in Int /\ Fee * part \in Int
    BY <1>2, <1>3, ProductInt
  <2>6. Owed(t) = p.entry * (q - part) + (p.fee - fee)
    BY <1>5, <1>7, <1>8 DEF Owed
  <2>7. t.cash = Capital + t.net - Owed(t)
    <3> DEFINE sale   == (reference - Cost - Fee) * part
               result == (reference - Cost - p.entry) * part
               whole  == p.entry * q
               half   == p.entry * part
               charge == Fee * part
               rest   == p.entry * (q - part)
    <3>1. /\ sale = result + half - charge /\ rest = whole - half
          /\ result \in Int /\ whole \in Int /\ half \in Int /\ charge \in Int
          /\ t.cash = s.cash + sale /\ t.net = s.net + result - fee - charge
          /\ s.cash = Capital + s.net - (whole + p.fee) /\ Owed(t) = rest + (p.fee - fee)
      BY <1>4, <1>7, <2>1, <2>3, <2>4, <2>5, <2>6
    <3> HIDE DEF sale, result, whole, half, charge, rest
    <3> QED BY <1>2, <3>1
  <2> QED BY <2>2, <2>7 DEF Account
<1> QED BY <1>4, <1>7, <1>8, <1>9, <1>10, <1>11, Zenon DEF Sound, t, u

LEMMA SameStep ==
    ASSUME NEW s \in StateType
    PROVE  Sound(s, s) /\ Keeps(s, s)
  BY OpenIsPosition DEF Sound, Keeps

BarType == [open : Price, close : Price, low : Int, high : Int]

LEMMA TrimmedStep ==
    ASSUME NEW s \in StateType, NEW candle \in BarType, index \in Nat
    PROVE  LET t == Trimmed(s, candle)
           IN  /\ Sound(s, t) /\ Keeps(s, t) /\ (Open(t) <=> Open(s))
               /\ Account(s) => Account(t)
               /\ ~ config.partial => t = s
<1> DEFINE p      == s.position
           target == p.entry + p.risk * PartialR
           part   == (p.quantity * PartialPercent) \div 100
           fee    == (p.fee * part) \div p.quantity
           flag   == [s EXCEPT !.position.partial = TRUE]
           sold   == [Sold(s, part, fee, target, "PARTIAL_TAKE_PROFIT") EXCEPT
                         !.position.quantity = @ - part, !.position.fee = @ - fee,
                         !.position.partial = TRUE]
           t      == Trimmed(s, candle)
<1>1. ASSUME t = s
      PROVE  Sound(s, t) /\ Keeps(s, t) /\ (Open(t) <=> Open(s)) /\ (Account(s) => Account(t))
  BY <1>1, SameStep
<1>2. ASSUME Open(s), config.partial, t = flag
      PROVE  Sound(s, t) /\ Keeps(s, t) /\ Open(t) /\ (Account(s) => Account(t))
  <2> DEFINE r == [p EXCEPT !.partial = TRUE]
  <2>1. /\ r \in PositionType /\ p \in PositionType /\ r.quantity = p.quantity
        /\ r.fee = p.fee /\ r.entry = p.entry /\ r.stop = p.stop /\ r.target = p.target
        /\ r.opened = p.opened /\ r.decided = p.decided
    BY <1>2, OpenIsPosition DEF PositionType
  <2>2. flag = [s EXCEPT !.position = r]
    BY DEF StateType
  <2> HIDE DEF r
  <2>3. /\ flag \in StateType /\ flag.position = r /\ flag.close = s.close
        /\ flag.cash = s.cash /\ flag.held = s.held /\ flag.net = s.net /\ flag.last = s.last
    BY <2>1, <2>2 DEF StateType
  <2> HIDE DEF flag, t
  <2>4. Open(flag)
    BY <2>1, <2>3, OpenIsPosition DEF Open
  <2>5. Sound(s, flag) /\ Keeps(s, flag) /\ (Account(s) => Account(flag))
    BY <1>2, <2>1, <2>3, <2>4 DEF Sound, Solvent, Keeps, Account, Owed
  <2> QED BY <1>2, <2>4, <2>5
<1>3. ASSUME Open(s), config.partial, part # 0, part # p.quantity, t = sold
      PROVE  Sound(s, t) /\ Keeps(s, t) /\ Open(t) /\ (Account(s) => Account(t))
  <2>1. p \in PositionType
    BY <1>3, OpenIsPosition
  <2>2. /\ p.quantity \in Nat \ {0} /\ p.fee \in Int /\ p.entry \in Int /\ p.risk \in Nat
        /\ PartialPercent \in 1 .. 100 /\ PartialR \in Nat /\ Cost \in Nat /\ Fee \in Nat
    BY <2>1, ConstantsAreNat DEF PositionType
  <2>3. part \in 1 .. p.quantity - 1
    <3>1. part \in 0 .. p.quantity
      BY <2>2, ShareFits
    <3> HIDE DEF part
    <3> QED BY <1>3, <2>2, <3>1
  <2> HIDE DEF part
  <2>4. fee \in Int
    <3>1. p.fee * part \in Int
      BY <2>2, <2>3, ProductInt
    <3> QED BY <2>2, <3>1, DivInt
  <2>5. target \in Int /\ target >= p.entry
    <3>1. p.risk * PartialR \in Nat
      BY <2>2, ProductNat
    <3> QED BY <2>2, <3>1
  <2> HIDE DEF fee, target
  <2>6. CostsAreCovered /\ Solvent(s) => Covered(target)
    BY <1>3, <2>2, <2>5 DEF Solvent, Covered
  <2>7. "PARTIAL_TAKE_PROFIT" \in Reasons
    BY DEF Reasons
  <2>8. LET v == [Sold(s, part, fee, target, "PARTIAL_TAKE_PROFIT") EXCEPT
                        !.position.quantity = @ - part, !.position.fee = @ - fee,
                        !.position.partial = TRUE]
        IN  /\ Sound(s, v) /\ Keeps(s, v) /\ Open(v)
            /\ Account(s) => Account(v)
    BY <1>3, <2>3, <2>4, <2>5, <2>6, <2>7, PartStep
  <2> HIDE DEF t
  <2> QED BY <1>3, <2>8
<1>4. \/ t = s
      \/ Open(s) /\ config.partial /\ t = flag
      \/ Open(s) /\ config.partial /\ part # 0 /\ part # p.quantity /\ t = sold
  BY Zenon DEF Trimmed
<1>5. ~ config.partial => t = s
  BY DEF Trimmed
<1> HIDE DEF t
<1>6. Sound(s, t) /\ Keeps(s, t) /\ (Open(t) <=> Open(s)) /\ (Account(s) => Account(t))
  <2>1. CASE t = s
    BY <2>1, <1>1
  <2>2. CASE Open(s) /\ config.partial /\ t = flag
    BY <2>2, <1>2, Zenon
  <2>3. CASE Open(s) /\ config.partial /\ part # 0 /\ part # p.quantity /\ t = sold
    BY <2>3, <1>3, Zenon
  <2> QED BY <1>4, <2>1, <2>2, <2>3
<1> QED BY <1>5, <1>6 DEF t

LEMMA ProtectedStep ==
    ASSUME NEW s \in StateType, NEW candle \in BarType, NEW leaving, index \in Nat
    PROVE  LET t == Protected(s, candle, leaving)
           IN  /\ Sound(s, t) /\ Keeps(s, t)
               /\ Open(t) => t = s
               /\ Account(s) => Account(t)
<1> DEFINE p == s.position
           t == Protected(s, candle, leaving)
<1> SUFFICES Sound(s, t) /\ Keeps(s, t) /\ (Open(t) => t = s) /\ (Account(s) => Account(t))
  OBVIOUS
<1>1. CASE t = s
  BY <1>1, SameStep
<1>2. ASSUME Open(s), NEW reference \in Int, NEW reason \in Reasons,
             CostsAreCovered /\ Solvent(s) => Covered(reference),
             t = Left(s, p.quantity, reference, reason)
      PROVE  Sound(s, t) /\ Keeps(s, t) /\ ~ Open(t) /\ (Account(s) => Account(t))
  <2>1. p.quantity \in Nat
    BY OpenIsPosition
  <2>2. LET v == Left(s, p.quantity, reference, reason)
        IN  /\ Sound(s, v) /\ Keeps(s, v) /\ ~ Open(v)
            /\ p.quantity = s.position.quantity /\ Account(s) => Account(v)
    BY <1>2, <2>1, LeftStep
  <2> HIDE DEF t
  <2> QED BY <1>2, <2>2
<1>3. \/ t = s
      \/ Open(s) /\ t = Left(s, p.quantity, p.stop, "STOP_LOSS")
      \/ Open(s) /\ t = Left(s, p.quantity, p.target, "TAKE_PROFIT")
      \/ Open(s) /\ t = Left(s, p.quantity, candle.close, "TIME_EXIT")
  BY Zenon DEF Protected
<1>4. {"STOP_LOSS", "TAKE_PROFIT", "TIME_EXIT"} \subseteq Reasons
  BY DEF Reasons
<1>5. Open(s) => p.stop \in Int /\ p.target \in Int
  BY OpenIsPosition DEF PositionType
<1>6. candle.close \in Int /\ (CostsAreCovered => Covered(candle.close))
  <2>1. candle.close \in Price /\ candle.close \in Nat
    BY ConstantsAreNat DEF BarType
  <2>2. CostsAreCovered => Covered(candle.close - 0)
    BY <2>1 DEF CostsAreCovered
  <2> QED BY <2>1, <2>2
<1> HIDE DEF t
<1>7. CASE Open(s) /\ t = Left(s, p.quantity, p.stop, "STOP_LOSS")
  BY <1>2, <1>4, <1>5, <1>7 DEF Solvent
<1>8. CASE Open(s) /\ t = Left(s, p.quantity, p.target, "TAKE_PROFIT")
  BY <1>2, <1>4, <1>5, <1>8 DEF Solvent
<1>9. CASE Open(s) /\ t = Left(s, p.quantity, candle.close, "TIME_EXIT")
  BY <1>2, <1>4, <1>6, <1>9 DEF Solvent
<1> QED BY <1>1, <1>3, <1>7, <1>8, <1>9

\* After the close the stop may only be raised.
LEMMA RaisedStep ==
    ASSUME NEW s \in StateType, NEW close \in Price
    PROVE  LET t == Raised(s, close)
           IN  /\ Sound(s, t) /\ (Open(t) <=> Open(s)) /\ t.last = s.last
               /\ Open(s) => /\ t.position.opened = s.position.opened
                             /\ t.position.decided = s.position.decided
                             /\ t.position.quantity = s.position.quantity
                             /\ t.position.stop >= s.position.stop
               /\ ~ Open(s) => t.position = Flat
               /\ Account(s) => Account(t)
<1> DEFINE p        == s.position
           trailing == High(p.stop, close - Trail)
           stop     == IF close >= p.entry + p.risk * BreakEvenR THEN High(trailing, p.entry)
                       ELSE trailing
           t        == Raised(s, close)
<1>1. CASE ~ Open(s)
  <2>1. t = s
    BY <1>1 DEF Raised
  <2> HIDE DEF t
  <2> QED BY <1>1, <2>1, SameStep, OpenIsPosition DEF t
<1>2. CASE Open(s)
  <2>1. p \in PositionType
    BY <1>2, OpenIsPosition
  <2>2. /\ p.stop \in Int /\ p.entry \in Int /\ close \in Int /\ Trail \in Int
        /\ Cost \in Int /\ Fee \in Int
    BY <2>1, ConstantsAreNat DEF PositionType
  <2>3. trailing \in Int /\ trailing >= p.stop
    BY <2>2, LowHigh
  <2> HIDE DEF trailing
  <2>4. stop \in Int /\ stop >= p.stop
    BY <2>2, <2>3, LowHigh
  <2>5. t = [s EXCEPT !.position.stop = stop]
    BY <1>2 DEF Raised, trailing
  <2> HIDE DEF stop
  <2> DEFINE r == [p EXCEPT !.stop = stop]
  <2>6. /\ r \in PositionType /\ r.quantity = p.quantity /\ r.fee = p.fee
        /\ r.entry = p.entry /\ r.stop = stop /\ r.target = p.target
        /\ r.opened = p.opened /\ r.decided = p.decided
    BY <2>1, <2>4 DEF PositionType
  <2>7. t = [s EXCEPT !.position = r]
    BY <2>5 DEF StateType
  <2> HIDE DEF r, t
  <2>8. /\ t \in StateType /\ t.position = r /\ t.close = s.close
        /\ t.cash = s.cash /\ t.held = s.held /\ t.net = s.net /\ t.last = s.last
    BY <2>6, <2>7 DEF StateType
  <2>9. Open(t)
    BY <2>6, <2>8, OpenIsPosition DEF Open
  <2>10. Solvent(s) => Solvent(t)
    BY <1>2, <2>2, <2>4, <2>6, <2>8 DEF Solvent, Covered
  <2>11. Account(s) => Account(t)
    BY <1>2, <2>6, <2>8, <2>9 DEF Account, Owed
  <2>12. Sound(s, t)
    BY <2>8, <2>10 DEF Sound
  <2> QED BY <1>2, <2>4, <2>6, <2>8, <2>9, <2>11, <2>12 DEF t
<1> QED BY <1>1, <1>2

-----------------------------------------------------------------------------
(* Orders *)

LEMMA OrdersFacts ==
    ASSUME NEW s \in StateType, NEW waiting, NEW close \in Price, index \in Nat,
           NEW order \in Orders(s, waiting, close)
    PROVE  /\ waiting = NoPending
           /\ order.at = index /\ order.execute = index + Latency
           /\ \/ /\ order \in BuyType /\ ~ Open(s) /\ BuyApproved(s, close, order)
                 /\ CostsAreCovered => Covered(order.stop) /\ Covered(order.target)
              \/ /\ order \in SellType /\ Open(s) /\ config.exit
                 /\ order.quantity = s.position.quantity
<1>1. waiting = NoPending /\ order \in IF Open(s) THEN Exits(s) ELSE Buys(s, close)
  BY DEF Orders
<1>2. /\ Latency \in Nat /\ PositionPercent \in Nat /\ TargetR \in Nat /\ Stops \subseteq Nat
      /\ close \in Nat \ {0} /\ Cost \in Nat /\ Fee \in Nat
  BY ConstantsAreNat
<1>3. CASE Open(s)
  <2>1. /\ config.exit
        /\ order = [direction |-> "SELL", quantity |-> s.position.quantity,
                    at |-> index, execute |-> index + Latency]
    BY <1>1, <1>3 DEF Exits
  <2>2. s.position.quantity \in Nat
    BY OpenIsPosition
  <2> QED BY <1>1, <1>2, <1>3, <2>1, <2>2 DEF SellType
<1>4. CASE ~ Open(s)
  <2>1. PICK d \in Stops :
            order = [direction |-> "BUY", quantity |-> Suggested(s, close), stop |-> close - d,
                     target |-> close + TargetR * d, at |-> index, execute |-> index + Latency]
    BY <1>1, <1>4 DEF Buys
  <2>2. order.quantity > 0 /\ BuyApproved(s, close, order)
    BY <1>1, <1>4 DEF Buys
  <2>3. Suggested(s, close) \in Int
    <3>1. s.cash * PositionPercent \in Int
      BY <1>2, ProductInt DEF StateType
    <3>2. 100 * close \in Nat \ {0}
      BY <1>2
    <3> QED BY <3>1, <3>2, DivInt DEF Suggested
  <2> DEFINE target == close + TargetR * d
  <2>4. target \in Int /\ target >= close
    <3>1. TargetR * d \in Nat
      BY <1>2, ProductNat
    <3> QED BY <1>2, <3>1
  <2> HIDE DEF target
  <2>5. /\ order.quantity = Suggested(s, close) /\ order.stop = close - d
        /\ order.target = target /\ order.at = index /\ order.execute = index + Latency
    BY <2>1 DEF target
  <2>6. order \in BuyType
    <3>1. Suggested(s, close) \in Nat \ {0}
      BY <2>2, <2>3, <2>5
    <3>2. order = [direction |-> "BUY", quantity |-> Suggested(s, close), stop |-> close - d,
                   target |-> target, at |-> index, execute |-> index + Latency]
      BY <2>1 DEF target
    <3> QED BY <1>2, <2>4, <3>1, <3>2 DEF BuyType
  <2>7. ASSUME CostsAreCovered PROVE Covered(order.stop) /\ Covered(order.target)
    <3>1. Covered(close - d)
      BY <2>7 DEF CostsAreCovered
    <3>2. d \in Nat /\ Cost + Fee <= target
      BY <1>2, <2>4, <3>1 DEF Covered
    <3> QED BY <2>5, <3>1, <3>2 DEF Covered
  <2> QED BY <1>1, <1>4, <2>2, <2>5, <2>6, <2>7
<1> QED BY <1>3, <1>4

\* What the statuses tell of the executed decisions and the order that waits.
Told(statuses, done, waiting) ==
    /\ {i \in DOMAIN statuses : statuses[i] = "EXECUTED"} = done
    /\ {i \in DOMAIN statuses : statuses[i] = "PENDING"} =
           IF waiting = NoPending THEN {} ELSE {waiting.at}

\* What they tell of the candles at which an earlier order waited.
Waited(statuses) ==
    \A i \in DOMAIN statuses : statuses[i] = "PENDING_ORDER" =>
       \E j \in DOMAIN statuses : j < i /\ i < j + Latency /\ statuses[j] \in Ordered

LEMMA ToldMarked ==
    ASSUME Told(trace, executed, pending), pending # NoPending,
           NEW filled \in BOOLEAN
    PROVE  LET f == Marked(pending.at, IF filled THEN "EXECUTED" ELSE "REJECTED")
           IN  /\ Told(f, IF filled THEN executed \cup {pending.at} ELSE executed, NoPending)
               /\ DOMAIN f = DOMAIN trace
               /\ \A i \in DOMAIN f : trace[i] \in Statuses => f[i] \in Statuses
               /\ Waited(trace) => Waited(f)
<1> DEFINE at == pending.at
           status == IF filled THEN "EXECUTED" ELSE "REJECTED"
           f == [trace EXCEPT ![at] = status]
<1>1. at \in DOMAIN trace /\ trace[at] = "PENDING"
  BY DEF Told
<1>2. Marked(at, status) = f
  BY <1>1 DEF Marked
<1>3. /\ DOMAIN f = DOMAIN trace /\ f[at] = status
      /\ \A i \in DOMAIN trace : i # at => f[i] = trace[i]
  BY <1>1
<1> HIDE DEF f
<1>4. /\ status \notin {"PENDING", "PENDING_ORDER"} /\ status \in Ordered /\ status \in Statuses
      /\ status = "EXECUTED" <=> filled
  BY DEF Statuses, Ordered
<1> HIDE DEF status
<1>5. \A i \in DOMAIN trace : trace[i] = "PENDING" <=> i = at
  BY <1>1 DEF Told
<1>6. {i \in DOMAIN f : f[i] = "PENDING"} = {}
  BY <1>3, <1>4, <1>5
<1>7. {i \in DOMAIN f : f[i] = "EXECUTED"} = IF filled THEN executed \cup {at} ELSE executed
  <2>1. executed = {i \in DOMAIN trace : trace[i] = "EXECUTED"}
    BY DEF Told
  <2>2. trace[at] # "EXECUTED"
    BY <1>1
  <2> QED BY <1>1, <1>3, <1>4, <2>1, <2>2
<1>8. Told(f, IF filled THEN executed \cup {at} ELSE executed, NoPending)
  BY <1>6, <1>7 DEF Told
<1>9. \A i \in DOMAIN f : trace[i] \in Statuses => f[i] \in Statuses
  BY <1>3, <1>4
<1>10. ASSUME Waited(trace) PROVE Waited(f)
  <2>1. SUFFICES ASSUME NEW i \in DOMAIN f, f[i] = "PENDING_ORDER"
                 PROVE  \E j \in DOMAIN f : j < i /\ i < j + Latency /\ f[j] \in Ordered
    BY DEF Waited
  <2>2. i \in DOMAIN trace /\ trace[i] = "PENDING_ORDER"
    BY <1>3, <1>4, <2>1
  <2>3. PICK j \in DOMAIN trace : j < i /\ i < j + Latency /\ trace[j] \in Ordered
    BY <1>10, <2>2 DEF Waited
  <2>4. f[j] \in Ordered
    BY <1>3, <1>4, <2>3
  <2> QED BY <1>3, <2>3, <2>4
<1> QED BY <1>2, <1>3, <1>8, <1>9, <1>10 DEF status

\* A row is added, for an order or without one.
LEMMA ToldRow ==
    ASSUME NEW f, NEW done, NEW was, NEW waiting, NEW status \in Statuses, Told(f, done, was), Waited(f),
           index \notin DOMAIN f, status # "EXECUTED",
           \/ status # "PENDING" /\ waiting = was
           \/ status = "PENDING" /\ was = NoPending /\ waiting # NoPending /\ waiting.at = index,
           status = "PENDING_ORDER" =>
              \E j \in DOMAIN f : j < index /\ index < j + Latency /\ f[j] \in Ordered
    PROVE  LET g == Row(f, status)
           IN  /\ DOMAIN g = DOMAIN f \cup {index} /\ Told(g, done, waiting) /\ Waited(g)
               /\ (\A i \in DOMAIN f : f[i] \in Statuses) => \A i \in DOMAIN g : g[i] \in Statuses
<1> DEFINE g == Row(f, status)
<1>1. /\ DOMAIN g = DOMAIN f \cup {index} /\ g[index] = status
      /\ \A i \in DOMAIN f : g[i] = f[i]
  BY DEF Row
<1> HIDE DEF g
<1>2. {i \in DOMAIN g : g[i] = "EXECUTED"} = done
  BY <1>1 DEF Told
<1>3. {i \in DOMAIN g : g[i] = "PENDING"} = IF waiting = NoPending THEN {} ELSE {waiting.at}
  <2>1. {i \in DOMAIN f : f[i] = "PENDING"} = IF was = NoPending THEN {} ELSE {was.at}
    BY DEF Told
  <2>2. CASE status # "PENDING" /\ waiting = was
    BY <1>1, <2>1, <2>2
  <2>3. CASE status = "PENDING" /\ was = NoPending /\ waiting # NoPending /\ waiting.at = index
    BY <1>1, <2>1, <2>3
  <2> QED BY <2>2, <2>3
<1>4. Waited(g)
  <2>1. SUFFICES ASSUME NEW i \in DOMAIN g, g[i] = "PENDING_ORDER"
                 PROVE  \E j \in DOMAIN f : j < i /\ i < j + Latency /\ f[j] \in Ordered
    BY <1>1 DEF Waited
  <2>2. CASE i = index
    BY <1>1, <2>1, <2>2
  <2>3. CASE i # index
    BY <1>1, <2>1, <2>3 DEF Waited
  <2> QED BY <2>2, <2>3
<1> QED BY <1>1, <1>2, <1>3, <1>4 DEF Told, g

-----------------------------------------------------------------------------
(* A whole candle *)

\* What a candle does to the account and the position.
LEMMA CandleStep ==
    ASSUME IInv, NEW candle \in BarType, Candle(candle)
    PROVE  LET buying  == Due /\ pending.direction = "BUY"
               leaving == Due /\ pending.direction = "SELL"
               rolled  == Rolled(state)
               fills   == buying /\ Affordable(rolled, pending, candle.open)
                                 /\ candle.open + Cost > pending.stop
           IN  /\ index \in Nat /\ index < Candles
               /\ Due => index = pending.at + Latency
               /\ state' \in StateType /\ state'.close = candle.close /\ candle.close \in Price
               /\ CostsAreCovered => Solvent(state')
               /\ ~ (config.partial /\ config.exit) => Account(state')
               /\ Open(state') => /\ Open(state) \/ fills
                                  /\ state'.position.opened = state'.position.decided + Latency
               /\ Open(state) => IF Open(state')
                                 THEN state'.position.stop >= state.position.stop
                                 ELSE state'.last.stop = state.position.stop
               /\ Open(state) /\ Open(state') /\ ~ config.partial
                      => state'.position.quantity = state.position.quantity
<1> DEFINE buying  == Due /\ pending.direction = "BUY"
           leaving == Due /\ pending.direction = "SELL"
           rolled  == Rolled(state)
           fills   == buying /\ Affordable(rolled, pending, candle.open)
                             /\ candle.open + Cost > pending.stop
           entered == IF fills THEN Bought(rolled, pending, candle.open) ELSE rolled
           trimmed == Trimmed(entered, candle)
           guarded == Protected(trimmed, candle, leaving)
           exits   == leaving /\ Open(guarded)
           left    == IF exits THEN Left(guarded, pending.quantity, candle.open, "STRATEGY_EXIT")
                      ELSE guarded
           raised  == Raised(left, candle.close)
           after   == [raised EXCEPT !.close = candle.close]
           whole   == ~ (config.partial /\ config.exit)
<1>1. /\ index \in Nat /\ index < Candles /\ Candles \in Nat /\ Latency \in Nat \ {0}
      /\ candle.open \in Price /\ candle.close \in Price /\ Price \subseteq Int
  BY ConstantsAreNat DEF IInv, Candle, BarType
<1>2. state' = after
  BY DEF Candle
<1>3. /\ state \in StateType /\ WaitingOK /\ NoLookahead
      /\ whole => Account(state)
      /\ CostsAreCovered => Solvent(state)
  BY DEF IInv
<1>4. CostsAreCovered => Covered(candle.open)
  <2>1. CostsAreCovered => Covered(candle.open - 0)
    BY <1>1 DEF CostsAreCovered
  <2>2. candle.open - 0 = candle.open
    <3>1. candle.open \in Int
      BY <1>1
    <3>2. \A n \in Int : n - 0 = n
      OBVIOUS
    <3> QED BY <3>1, <3>2
  <2> QED BY <2>1, <2>2
<1>5. Due => index = pending.at + Latency /\ pending \in BuyType \cup SellType
  <2>1. SUFFICES ASSUME Due PROVE index = pending.at + Latency /\ pending \in BuyType \cup SellType
    OBVIOUS
  <2>2. pending # NoPending /\ index >= pending.execute
    BY <2>1 DEF Due
  <2>3. pending \in BuyType \cup SellType
    BY <1>3, <2>2 DEF WaitingOK
  <2>4. pending.execute = pending.at + Latency /\ index <= pending.execute
    BY <1>1, <1>3, <2>2 DEF WaitingOK
  <2>5. pending.execute \in Int
    BY <2>3 DEF BuyType, SellType
  <2> QED BY <1>1, <2>2, <2>3, <2>4, <2>5
<1>6. /\ Sound(state, rolled) /\ Keeps(state, rolled) /\ rolled.position = state.position
      /\ Account(state) => Account(rolled)
  BY <1>1, <1>3, RolledStep
<1> HIDE DEF rolled
<1>7. Open(rolled) <=> Open(state)
  BY <1>6 DEF Open
<1>8. fills => ~ Open(state) /\ pending \in BuyType /\ pending.direction = "BUY"
  <2>1. \A o \in SellType : o.direction # "BUY"
    BY DEF SellType
  <2> QED BY <1>3, <1>5, <2>1 DEF WaitingOK
<1>9. /\ Sound(state, entered)
      /\ whole => Account(entered)
      /\ fills => /\ Open(entered) /\ entered.position.opened = index
                  /\ entered.position.decided = pending.at
      /\ ~ fills => entered = rolled
  <2>1. CASE fills
    <3>1. /\ ~ Open(rolled) /\ rolled \in StateType /\ pending \in BuyType
          /\ Affordable(rolled, pending, candle.open) /\ candle.open + Cost > pending.stop
          /\ CostsAreCovered => Covered(pending.stop) /\ Covered(pending.target)
      BY <1>3, <1>6, <1>7, <1>8, <2>1 DEF Sound, WaitingOK
    <3> DEFINE bought == Bought(rolled, pending, candle.open)
    <3>2. /\ Sound(rolled, bought) /\ Open(bought)
          /\ bought.position.opened = index /\ bought.position.decided = pending.at
          /\ Account(rolled) => Account(bought)
      BY <1>1, <3>1, BoughtStep
    <3>3. entered = bought
      BY <2>1
    <3> HIDE DEF bought, entered, fills
    <3> QED BY <1>3, <1>6, <2>1, <3>2, <3>3, SoundTransitive
  <2>2. CASE ~ fills
    <3>1. entered = rolled
      BY <2>2
    <3> HIDE DEF entered, fills
    <3> QED BY <1>3, <1>6, <2>2, <3>1
  <2> QED BY <2>1, <2>2
<1>10. /\ ~ (leaving /\ fills)
       /\ fills => buying
  OBVIOUS
<1> HIDE DEF entered, fills
<1>11. /\ Sound(entered, trimmed) /\ Keeps(entered, trimmed) /\ (Open(trimmed) <=> Open(entered))
       /\ Account(entered) => Account(trimmed)
       /\ ~ config.partial => trimmed = entered
  BY <1>1, <1>9, TrimmedStep DEF Sound
<1> HIDE DEF trimmed
<1>12. /\ Sound(trimmed, guarded) /\ Keeps(trimmed, guarded)
       /\ Open(guarded) => guarded = trimmed
       /\ Account(trimmed) => Account(guarded)
  BY <1>1, <1>11, ProtectedStep DEF Sound
<1> HIDE DEF guarded
<1>13. /\ Sound(state, guarded) /\ Keeps(entered, guarded)
       /\ Open(guarded) => Open(entered)
       /\ Open(guarded) /\ ~ config.partial => guarded = entered
       /\ whole => Account(guarded)
  BY <1>9, <1>11, <1>12, SoundTransitive, KeepsTransitive
<1>14. /\ Sound(guarded, left) /\ Keeps(guarded, left)
       /\ Open(left) => left = guarded
       /\ whole => Account(left)
  <2>1. CASE exits
    <3>1. /\ pending \in SellType /\ guarded \in StateType /\ Open(guarded) /\ leaving
      <4>1. \A o \in BuyType : o.direction # "SELL"
        BY DEF BuyType
      <4> QED BY <1>5, <1>13, <2>1, <4>1 DEF Sound
    <3>2. pending.quantity \in Nat /\ candle.open \in Int /\ "STRATEGY_EXIT" \in Reasons
      BY <1>1, <3>1 DEF SellType, Reasons
    <3> DEFINE t == Left(guarded, pending.quantity, candle.open, "STRATEGY_EXIT")
    <3>3. /\ Sound(guarded, t) /\ Keeps(guarded, t) /\ ~ Open(t)
          /\ pending.quantity = guarded.position.quantity /\ Account(guarded) => Account(t)
      BY <1>1, <1>4, <3>1, <3>2, LeftStep
    <3>4. whole => pending.quantity = guarded.position.quantity
      <4>1. SUFFICES ASSUME whole PROVE pending.quantity = guarded.position.quantity
        OBVIOUS
      <4>2. ~ fills /\ entered = rolled
        BY <1>9, <1>10, <3>1
      <4>3. Open(state) /\ pending.direction = "SELL"
        BY <1>7, <1>13, <3>1, <4>2
      <4>4. config.exit /\ (~ config.partial => pending.quantity = state.position.quantity)
        BY <1>3, <4>3 DEF WaitingOK
      <4>5. ~ config.partial
        BY <4>1, <4>4
      <4> QED BY <1>6, <1>13, <3>1, <4>2, <4>4, <4>5
    <3>5. left = t
      BY <2>1
    <3> HIDE DEF t, left, exits, whole
    <3> QED BY <1>13, <3>3, <3>4, <3>5
  <2>2. CASE ~ exits
    <3>1. left = guarded /\ guarded \in StateType
      BY <1>13, <2>2 DEF Sound
    <3> HIDE DEF left, exits, whole
    <3> QED BY <1>13, <3>1, SameStep
  <2> QED BY <2>1, <2>2
<1> HIDE DEF left
<1>15. /\ Sound(state, left) /\ Keeps(entered, left) /\ left \in StateType
       /\ Open(left) => Open(entered)
       /\ Open(left) /\ ~ config.partial => left = entered
  BY <1>13, <1>14, SoundTransitive, KeepsTransitive DEF Sound
<1>16. /\ Sound(left, raised) /\ (Open(raised) <=> Open(left)) /\ raised.last = left.last
       /\ Open(left) => /\ raised.position.opened = left.position.opened
                        /\ raised.position.decided = left.position.decided
                        /\ raised.position.quantity = left.position.quantity
                        /\ raised.position.stop >= left.position.stop
       /\ Account(left) => Account(raised)
  BY <1>1, <1>15, RaisedStep
<1> HIDE DEF raised
<1>17. /\ Sound(state, raised) /\ raised \in StateType
       /\ CostsAreCovered => Solvent(raised)
       /\ whole => Account(raised)
  <2>1. Sound(state, raised)
    BY <1>15, <1>16, SoundTransitive
  <2> QED BY <1>3, <1>14, <1>16, <2>1 DEF Sound
<1>18. /\ after \in StateType /\ after.close = candle.close /\ after.position = raised.position
       /\ after.last = raised.last /\ after.cash = raised.cash /\ after.held = raised.held
       /\ after.net = raised.net
  BY <1>1, <1>17 DEF StateType
<1> HIDE DEF after
<1>19. /\ Open(after) <=> Open(left)
       /\ CostsAreCovered => Solvent(after)
       /\ whole => Account(after)
  <2>1. Open(after) <=> Open(raised)
    BY <1>18 DEF Open
  <2> HIDE DEF whole
  <2>2. Solvent(raised) => Solvent(after)
    BY <1>18, <2>1 DEF Solvent
  <2>3. Account(raised) => Account(after)
    BY <1>18, <2>1 DEF Account, Owed
  <2> QED BY <1>16, <1>17, <2>1, <2>2, <2>3
<1>20. Open(after) => /\ Open(state) \/ fills
                      /\ after.position.opened = after.position.decided + Latency
  <2>1. SUFFICES ASSUME Open(after)
                 PROVE  /\ Open(state) \/ fills
                        /\ after.position.opened = after.position.decided + Latency
    OBVIOUS
  <2>2. Open(left) /\ Open(entered)
    BY <1>15, <1>19, <2>1
  <2>3. /\ after.position.opened = entered.position.opened
        /\ after.position.decided = entered.position.decided
    BY <1>15, <1>16, <1>18, <2>2 DEF Keeps
  <2>4. CASE fills
    BY <1>1, <1>5, <1>9, <1>10, <2>3, <2>4
  <2>5. CASE ~ fills
    <3>1. Open(state) /\ entered.position = state.position
      BY <1>6, <1>7, <1>9, <2>2, <2>5
    <3> QED BY <1>3, <2>3, <3>1 DEF NoLookahead
  <2> QED BY <2>4, <2>5
<1>21. ASSUME Open(state)
       PROVE  /\ IF Open(after) THEN after.position.stop >= state.position.stop
                 ELSE after.last.stop = state.position.stop
              /\ Open(after) /\ ~ config.partial
                     => after.position.quantity = state.position.quantity
  <2>1. entered = rolled /\ Open(entered) /\ entered.position = state.position
    BY <1>6, <1>7, <1>8, <1>9, <1>21
  <2>2. CASE Open(after)
    <3>1. left.position.stop = state.position.stop
      BY <1>15, <1>19, <2>1, <2>2 DEF Keeps
    <3>2. ~ config.partial => left.position.quantity = state.position.quantity
      BY <1>15, <1>19, <2>1, <2>2
    <3> QED BY <1>16, <1>18, <1>19, <2>2, <3>1, <3>2
  <2>3. CASE ~ Open(after)
    <3>1. left.last.stop = state.position.stop
      BY <1>15, <1>19, <2>1, <2>3 DEF Keeps
    <3> QED BY <1>16, <1>18, <2>3, <3>1
  <2> QED BY <2>2, <2>3
<1>22. /\ index \in Nat /\ index < Candles
       /\ Due => index = pending.at + Latency
       /\ state' \in StateType /\ state'.close = candle.close /\ candle.close \in Price
       /\ CostsAreCovered => Solvent(state')
       /\ whole => Account(state')
       /\ Open(state') => /\ Open(state) \/ fills
                          /\ state'.position.opened = state'.position.decided + Latency
       /\ Open(state) => IF Open(state')
                         THEN state'.position.stop >= state.position.stop
                         ELSE state'.last.stop = state.position.stop
       /\ Open(state) /\ Open(state') /\ ~ config.partial
              => state'.position.quantity = state.position.quantity
  <2> HIDE DEF whole
  <2> QED BY <1>1, <1>2, <1>5, <1>18, <1>19, <1>20, <1>21
<1> QED BY <1>22, Zenon DEF fills, rolled

LEMMA BarTyped ==
    ASSUME NEW open \in Price, NEW close \in Price, NEW down \in Spikes, NEW up \in Spikes
    PROVE  Bar(open, close, down, up) \in BarType
<1>1. open \in Int /\ close \in Int /\ down \in Int /\ up \in Int
  BY ConstantsAreNat
<1> QED BY <1>1 DEF Bar, BarType, Low, High

\* What becomes of the order that waits, and the order a candle may add.
LEMMA CandlePending ==
    ASSUME IInv, NEW candle \in BarType, Candle(candle)
    PROVE  \E filled \in BOOLEAN :
             LET waiting == IF Due THEN NoPending ELSE pending
                 marked  == IF Due
                            THEN Marked(pending.at, IF filled THEN "EXECUTED" ELSE "REJECTED")
                            ELSE trace
             IN  /\ executed' = IF Due /\ filled THEN executed \cup {pending.at} ELSE executed
                 /\ \/ /\ pending' = waiting
                       /\ trace' = IF index = Candles - 1 THEN marked
                                   ELSE Row(marked, NoOrder(state', waiting))
                    \/ /\ pending' \in Orders(state', waiting, candle.close)
                       /\ trace' = Row(marked, "PENDING")
<1> DEFINE buying  == Due /\ pending.direction = "BUY"
           leaving == Due /\ pending.direction = "SELL"
           rolled  == Rolled(state)
           fills   == buying /\ Affordable(rolled, pending, candle.open)
                             /\ candle.open + Cost > pending.stop
           entered == IF fills THEN Bought(rolled, pending, candle.open) ELSE rolled
           guarded == Protected(Trimmed(entered, candle), candle, leaving)
           exits   == leaving /\ Open(guarded)
           left    == IF exits THEN Left(guarded, pending.quantity, candle.open, "STRATEGY_EXIT")
                      ELSE guarded
           after   == [Raised(left, candle.close) EXCEPT !.close = candle.close]
           waiting == IF Due THEN NoPending ELSE pending
           marked  == IF Due
                      THEN Marked(pending.at, IF fills \/ exits THEN "EXECUTED" ELSE "REJECTED")
                      ELSE trace
<1>1. /\ state' = after
      /\ executed' = IF fills \/ exits THEN executed \cup {pending.at} ELSE executed
      /\ \/ /\ pending' = waiting
            /\ trace' = IF index = Candles - 1 THEN marked
                        ELSE Row(marked, NoOrder(after, waiting))
         \/ \E order \in Orders(after, waiting, candle.close) :
               pending' = order /\ trace' = Row(marked, "PENDING")
  BY Zenon DEF Candle
<1>2. fills => Due
  OBVIOUS
<1>3. exits => Due
  OBVIOUS
<1> DEFINE filled == fills \/ exits
<1>4. filled \in BOOLEAN
  OBVIOUS
<1>5. marked = IF Due THEN Marked(pending.at, IF filled THEN "EXECUTED" ELSE "REJECTED")
               ELSE trace
  OBVIOUS
<1> HIDE DEF fills, exits, after
<1>6. executed' = IF Due /\ filled THEN executed \cup {pending.at} ELSE executed
  BY <1>1, <1>2, <1>3
<1> DEFINE shown == IF Due THEN Marked(pending.at, IF filled THEN "EXECUTED" ELSE "REJECTED")
                    ELSE trace
<1>7. \/ /\ pending' = waiting
         /\ trace' = IF index = Candles - 1 THEN shown ELSE Row(shown, NoOrder(state', waiting))
      \/ /\ pending' \in Orders(state', waiting, candle.close)
         /\ trace' = Row(shown, "PENDING")
  <2>1. marked = shown
    BY <1>5
  <2> HIDE DEF marked, waiting, shown
  <2> QED BY <1>1, <2>1, Zenon
<1> HIDE DEF filled
<1> USE <1>4
<1> WITNESS filled \in BOOLEAN
<1> QED BY <1>6, <1>7, Zenon

LEMMA CandleTrace ==
    ASSUME IInv, NEW candle \in BarType, Candle(candle)
    PROVE  TraceOK'
<1> DEFINE waiting == IF Due THEN NoPending ELSE pending
<1>1. /\ index \in Nat /\ index < Candles /\ index' = index + 1
      /\ state' \in StateType /\ candle.close \in Price /\ Candles \in Nat \ {0}
  BY CandleStep, ConstantsAreNat, Zenon DEF Candle, BarType
<1>2. /\ Told(trace, executed, pending) /\ Waited(trace)
      /\ \A i \in DOMAIN trace : trace[i] \in Statuses
      /\ DOMAIN trace = 0 .. index - 1
  <2>1. /\ Told(trace, executed, pending) /\ Waited(trace)
        /\ \A i \in DOMAIN trace : trace[i] \in Statuses
        /\ DOMAIN trace = 0 .. Low(index, Candles - 1) - 1
    BY DEF IInv, TraceOK, TraceTellsTheFill, Told, Waited
  <2>2. Low(index, Candles - 1) = index
    BY <1>1 DEF Low
  <2> QED BY <2>1, <2>2
<1>3. PICK filled \in BOOLEAN :
        LET marked  == IF Due
                       THEN Marked(pending.at, IF filled THEN "EXECUTED" ELSE "REJECTED")
                       ELSE trace
        IN  /\ executed' = IF Due /\ filled THEN executed \cup {pending.at} ELSE executed
            /\ \/ /\ pending' = waiting
                  /\ trace' = IF index = Candles - 1 THEN marked
                              ELSE Row(marked, NoOrder(state', waiting))
               \/ /\ pending' \in Orders(state', waiting, candle.close)
                  /\ trace' = Row(marked, "PENDING")
  BY CandlePending
<1> DEFINE marked  == IF Due
                      THEN Marked(pending.at, IF filled THEN "EXECUTED" ELSE "REJECTED")
                      ELSE trace
           done    == IF Due /\ filled THEN executed \cup {pending.at} ELSE executed
<1>4. /\ Told(marked, done, waiting) /\ DOMAIN marked = DOMAIN trace /\ Waited(marked)
      /\ \A i \in DOMAIN marked : marked[i] \in Statuses
  <2>1. CASE Due
    <3> DEFINE f == Marked(pending.at, IF filled THEN "EXECUTED" ELSE "REJECTED")
    <3>1. pending # NoPending
      BY <2>1 DEF Due
    <3>2. /\ Told(f, IF filled THEN executed \cup {pending.at} ELSE executed, NoPending)
          /\ DOMAIN f = DOMAIN trace
          /\ \A i \in DOMAIN f : trace[i] \in Statuses => f[i] \in Statuses
          /\ Waited(trace) => Waited(f)
      BY <1>2, <3>1, ToldMarked
    <3>3. marked = f /\ waiting = NoPending
          /\ done = IF filled THEN executed \cup {pending.at} ELSE executed
      BY <2>1
    <3> HIDE DEF f, marked, waiting, done
    <3> QED BY <1>2, <3>2, <3>3
  <2>2. CASE ~ Due
    BY <1>2, <2>2
  <2> QED BY <2>1, <2>2
<1>5. /\ executed' = done
      /\ \/ /\ pending' = waiting
            /\ trace' = IF index = Candles - 1 THEN marked
                        ELSE Row(marked, NoOrder(state', waiting))
         \/ /\ pending' \in Orders(state', waiting, candle.close)
            /\ trace' = Row(marked, "PENDING")
  BY <1>3
<1>6. waiting # NoPending => \E j \in DOMAIN marked : /\ j < index /\ index < j + Latency
                                                     /\ marked[j] \in Ordered
  <2>1. SUFFICES ASSUME waiting # NoPending
                 PROVE  /\ pending.at \in DOMAIN marked /\ pending.at < index
                        /\ index < pending.at + Latency /\ marked[pending.at] \in Ordered
    OBVIOUS
  <2>2. ~ Due /\ waiting = pending /\ pending # NoPending /\ marked = trace
    BY <2>1
  <2>3. pending.at \in DOMAIN trace /\ trace[pending.at] = "PENDING"
    BY <1>2, <2>2 DEF Told
  <2>4. pending.at \in Nat /\ pending.at < index
    BY <1>1, <1>2, <2>3
  <2>5. pending.execute = pending.at + Latency
    BY <2>2 DEF IInv, WaitingOK
  <2>6. pending.at + Latency \in Nat
    BY <2>4, ConstantsAreNat
  <2>7. index < pending.at + Latency
    BY <1>1, <2>2, <2>5, <2>6 DEF Due
  <2> HIDE DEF marked, waiting
  <2> QED BY <2>2, <2>3, <2>4, <2>7 DEF Ordered
<1>7. index \notin DOMAIN marked
  BY <1>1, <1>2, <1>4
<1> HIDE DEF marked, done, waiting
<1>8. /\ Told(trace', executed', pending') /\ Waited(trace')
      /\ \A i \in DOMAIN trace' : trace'[i] \in Statuses
      /\ DOMAIN trace' = IF index = Candles - 1 THEN 0 .. index - 1 ELSE (0 .. index - 1) \cup {index}
  <2>1. CASE index = Candles - 1 /\ pending' = waiting /\ trace' = marked
    BY <1>2, <1>4, <1>5, <2>1
  <2>2. CASE /\ index # Candles - 1 /\ pending' = waiting
             /\ trace' = Row(marked, NoOrder(state', waiting))
    <3> DEFINE status == NoOrder(state', waiting)
    <3>1. /\ status \in Statuses /\ status \notin {"PENDING", "EXECUTED"}
          /\ status = "PENDING_ORDER" => waiting # NoPending
      BY DEF NoOrder, Statuses
    <3> HIDE DEF status
    <3>2. trace' = Row(marked, status)
      BY <2>2 DEF status
    <3>3. /\ DOMAIN trace' = DOMAIN marked \cup {index} /\ Told(trace', done, waiting)
          /\ Waited(trace') /\ \A i \in DOMAIN trace' : trace'[i] \in Statuses
      <4>1. /\ Told(marked, done, waiting) /\ Waited(marked) /\ index \notin DOMAIN marked
            /\ status # "EXECUTED" /\ status # "PENDING"
            /\ \A i \in DOMAIN marked : marked[i] \in Statuses
        BY <1>4, <1>7, <3>1
      <4>2. status = "PENDING_ORDER" =>
               \E j \in DOMAIN marked : j < index /\ index < j + Latency /\ marked[j] \in Ordered
        BY <1>6, <3>1
      <4> DEFINE g == Row(marked, status)
      <4>3. /\ DOMAIN g = DOMAIN marked \cup {index} /\ Told(g, done, waiting) /\ Waited(g)
            /\ (\A i \in DOMAIN marked : marked[i] \in Statuses)
                  => \A i \in DOMAIN g : g[i] \in Statuses
        BY <3>1, <4>1, <4>2, ToldRow
      <4> HIDE DEF g
      <4>4. trace' = g
        BY <3>2 DEF g
      <4> QED BY <4>1, <4>3, <4>4
    <3> QED BY <1>2, <1>4, <1>5, <2>2, <3>3
  <2>3. CASE /\ pending' \in Orders(state', waiting, candle.close)
             /\ trace' = Row(marked, "PENDING")
    <3>1. waiting = NoPending /\ pending'.at = index /\ pending' \in BuyType \cup SellType
      BY <1>1, <2>3, OrdersFacts
    <3>2. pending' # NoPending
      <4>1. \A o \in BuyType \cup SellType : o.direction # "NONE"
        BY DEF BuyType, SellType
      <4> QED BY <3>1, <4>1 DEF NoPending
    <3>3. index # Candles - 1
      BY <2>3 DEF Orders
    <3>4. "PENDING" \in Statuses
      BY DEF Statuses, Ordered
    <3>5. /\ DOMAIN trace' = DOMAIN marked \cup {index} /\ Told(trace', done, pending')
          /\ Waited(trace') /\ \A i \in DOMAIN trace' : trace'[i] \in Statuses
      BY <1>4, <1>7, <2>3, <3>1, <3>2, <3>4, ToldRow
    <3> QED BY <1>2, <1>4, <1>5, <3>3, <3>5
  <2> QED BY <1>5, <2>1, <2>2, <2>3
<1>9. DOMAIN trace' = 0 .. Low(index', Candles - 1) - 1
  <2>1. CASE index = Candles - 1
    <3>1. Low(index', Candles - 1) = index
      BY <1>1, <2>1 DEF Low
    <3> QED BY <1>8, <2>1, <3>1
  <2>2. CASE index # Candles - 1
    <3>1. Low(index', Candles - 1) - 1 = index
      BY <1>1, <2>2 DEF Low
    <3>2. (0 .. index - 1) \cup {index} = 0 .. index
      BY <1>1
    <3> QED BY <1>8, <2>2, <3>1, <3>2
  <2> QED BY <2>1, <2>2
<1>10. \A i \in DOMAIN trace' : i \in 0 .. index' - 1
  BY <1>1, <1>8
<1> QED BY <1>8, <1>9, <1>10 DEF TraceOK, TraceTellsTheFill, Told, Waited

LEMMA CandleWaiting ==
    ASSUME IInv, NEW candle \in BarType, Candle(candle)
    PROVE  WaitingOK'
<1> DEFINE waiting == IF Due THEN NoPending ELSE pending
<1>1. /\ index \in Nat /\ index < Candles /\ index' = index + 1 /\ config' = config
      /\ state' \in StateType /\ candle.close \in Price
      /\ Candles \in Nat /\ Latency \in Nat \ {0}
  BY CandleStep, ConstantsAreNat, Zenon DEF Candle, BarType
<1>2. WaitingOK
  BY DEF IInv
<1>3. \/ pending' = waiting
      \/ pending' \in Orders(state', waiting, candle.close)
  BY CandlePending
<1>4. CASE pending' = NoPending
  <2>1. pending'.direction = "NONE"
    BY <1>4 DEF NoPending
  <2> QED BY <1>4, <2>1 DEF WaitingOK
<1>5. CASE ~ Due /\ pending # NoPending /\ pending' = pending
  <2>1. pending \in BuyType \cup SellType /\ pending.execute \in Int
    BY <1>2, <1>5 DEF WaitingOK, BuyType, SellType
  <2>2. index' <= pending.execute
    BY <1>1, <1>5, <2>1 DEF Due
  <2>3. pending.execute = pending.at + Latency
    BY <1>2, <1>5 DEF WaitingOK
  <2>4. /\ Open(state') => Open(state)
        /\ Open(state) /\ Open(state') /\ ~ config.partial
               => state'.position.quantity = state.position.quantity
    BY <1>5, CandleStep
  <2> QED BY <1>1, <1>2, <1>5, <2>1, <2>2, <2>3, <2>4 DEF WaitingOK
<1>6. CASE pending' \in Orders(state', waiting, candle.close)
  <2>1. /\ pending'.at = index /\ pending'.execute = index + Latency
        /\ \/ /\ pending' \in BuyType /\ ~ Open(state')
              /\ CostsAreCovered => Covered(pending'.stop) /\ Covered(pending'.target)
           \/ /\ pending' \in SellType /\ Open(state') /\ config.exit
              /\ pending'.quantity = state'.position.quantity
    BY <1>1, <1>6, OrdersFacts
  <2>2. index' <= pending'.execute /\ pending'.execute = pending'.at + Latency
    BY <1>1, <2>1
  <2>3. CASE /\ pending' \in BuyType /\ ~ Open(state')
             /\ CostsAreCovered => Covered(pending'.stop) /\ Covered(pending'.target)
    <3>1. pending'.direction = "BUY"
      BY <2>3 DEF BuyType
    <3> QED BY <2>2, <2>3, <3>1 DEF WaitingOK, CostsAreCovered, Covered
  <2>4. CASE /\ pending' \in SellType /\ Open(state') /\ config.exit
             /\ pending'.quantity = state'.position.quantity
    <3>1. pending'.direction = "SELL"
      BY <2>4 DEF SellType
    <3> QED BY <1>1, <2>2, <2>4, <3>1 DEF WaitingOK
  <2> QED BY <2>1, <2>3, <2>4
<1> QED BY <1>3, <1>4, <1>5, <1>6, Zenon

-----------------------------------------------------------------------------
(* The invariant *)

LEMMA InitIInv == Init => IInv
<1>1. SUFFICES ASSUME Init PROVE IInv
  OBVIOUS
<1>2. Candles \in Nat \ {0} /\ Capital \in Nat
  BY ConstantsAreNat
<1>3. /\ config \in Configs /\ index = 0 /\ pending = NoPending /\ trace = <<>> /\ executed = {}
      /\ state = [cash |-> Capital, position |-> Flat, entries |-> 0, day |-> 0,
                  dayStart |-> Capital, close |-> 0, net |-> 0, held |-> 0, last |-> NoTrade]
  BY <1>1 DEF Init
<1>4. /\ state.position = Flat /\ state.cash = Capital /\ state.net = 0 /\ state.held = 0
      /\ state \in StateType
  BY <1>2, <1>3 DEF StateType
<1>5. ~ Open(state) /\ state.position.quantity = 0
  BY <1>4 DEF Open, Flat
<1>6. Account(state) /\ Solvent(state) /\ NoLookahead
  BY <1>2, <1>4, <1>5 DEF Account, Owed, Solvent, NoLookahead
<1>7. WaitingOK
  BY <1>3 DEF WaitingOK, NoPending
<1>8. TraceOK
  <2>1. DOMAIN trace = {}
    BY <1>3
  <2>2. Low(index, Candles - 1) = 0 /\ 0 .. 0 - 1 = {}
    BY <1>2, <1>3 DEF Low
  <2> QED BY <1>3, <2>1, <2>2 DEF TraceOK, TraceTellsTheFill
<1> QED BY <1>2, <1>3, <1>4, <1>5, <1>6, <1>7, <1>8 DEF IInv

LEMMA CandleIInv ==
    ASSUME IInv, NEW candle \in BarType, Candle(candle)
    PROVE  IInv'
<1>1. /\ index \in Nat /\ index < Candles /\ index' = index + 1 /\ config' = config
      /\ Candles \in Nat /\ config \in Configs
  BY CandleStep, ConstantsAreNat, Zenon DEF Candle, IInv
<1>2. index' \in 0 .. Candles + 1 /\ index' # 0
  BY <1>1
<1>3. /\ state' \in StateType /\ state'.close \in Price
      /\ CostsAreCovered => Solvent(state')
      /\ ~ (config.partial /\ config.exit) => Account(state')
      /\ Open(state') => state'.position.opened = state'.position.decided + Latency
  BY CandleStep
<1>4. WaitingOK' /\ TraceOK'
  BY CandleWaiting, CandleTrace
<1>5. CostsAreCovered => Solvent(state)'
  BY <1>3 DEF Solvent, Open, Covered
<1>6. ~ (config'.partial /\ config'.exit) => Account(state')
  BY <1>1, <1>3
<1>7. NoLookahead'
  BY <1>3 DEF NoLookahead, Open
<1> QED BY <1>1, <1>2, <1>3, <1>4, <1>5, <1>6, <1>7, Zenon DEF IInv, CostsAreCovered, Covered

LEMMA EndIInv ==
    ASSUME IInv, End
    PROVE  /\ IInv' /\ ~ Open(state')
           /\ Open(state) => state'.last.stop = state.position.stop
<1>1. /\ index = Candles /\ index' = Candles + 1 /\ UNCHANGED <<config, pending, trace, executed>>
      /\ state' = IF Open(state)
                  THEN Left(state, state.position.quantity, state.close, "FORCED_END") ELSE state
  BY DEF End
<1>2. /\ Candles \in Nat \ {0} /\ Price \subseteq Nat
  BY ConstantsAreNat
<1>3. /\ state \in StateType /\ state.close \in Price /\ WaitingOK /\ TraceOK /\ NoLookahead
      /\ config \in Configs
      /\ ~ (config.partial /\ config.exit) => Account(state)
      /\ CostsAreCovered => Solvent(state)
  BY <1>1, <1>2 DEF IInv
<1>4. /\ state' \in StateType /\ state'.close \in Price /\ ~ Open(state')
      /\ Open(state) => state'.last.stop = state.position.stop
      /\ ~ (config.partial /\ config.exit) => Account(state')
      /\ CostsAreCovered => Solvent(state')
  <2>1. CASE Open(state)
    <3> DEFINE q == state.position.quantity
               t == Left(state, q, state.close, "FORCED_END")
    <3>1. q \in Nat /\ state.close \in Int /\ "FORCED_END" \in Reasons /\ index \in Nat
      <4>1. q \in Nat
        BY <1>3, OpenIsPosition
      <4>2. "FORCED_END" \in Reasons
        BY DEF Reasons
      <4>3. state.close \in Int
        <5>1. state.close \in Price
          BY <1>3
        <5>2. \A n \in Price : n \in Int
          BY <1>2
        <5> QED BY <5>1, <5>2
      <4>4. index \in Nat
        BY <1>1, <1>2
      <4> QED BY <4>1, <4>2, <4>3, <4>4
    <3>2. CostsAreCovered => Covered(state.close)
      <4>1. CostsAreCovered => Covered(state.close - 0)
        BY <1>3 DEF CostsAreCovered
      <4>2. state.close - 0 = state.close
        BY <3>1
      <4> QED BY <4>1, <4>2
    <3>3. /\ Sound(state, t) /\ Keeps(state, t) /\ ~ Open(t)
          /\ q = state.position.quantity /\ Account(state) => Account(t)
      <4> HIDE DEF q
      <4> QED BY <2>1, <1>3, <3>1, <3>2, LeftStep
    <3>4. state' = t
      BY <1>1, <2>1
    <3> HIDE DEF t
    <3> QED BY <1>3, <2>1, <3>3, <3>4 DEF Sound, Keeps
  <2>2. CASE ~ Open(state)
    BY <1>1, <1>3, <2>2
  <2> QED BY <2>1, <2>2
<1>5. WaitingOK'
  BY <1>1, <1>2, <1>3, <1>4 DEF WaitingOK, CostsAreCovered, Covered, Open
<1>6. TraceOK'
  <2>1. Low(index', Candles - 1) = Low(index, Candles - 1)
    BY <1>1, <1>2 DEF Low
  <2>2. \A i \in DOMAIN trace : i \in 0 .. index' - 1 /\ trace[i] \in Statuses
    BY <1>1, <1>2, <1>3 DEF TraceOK
  <2>3. /\ DOMAIN trace = 0 .. Low(index, Candles - 1) - 1
        /\ Told(trace, executed, pending) /\ Waited(trace)
    BY <1>3 DEF TraceOK, TraceTellsTheFill, Told, Waited
  <2> QED BY <1>1, <2>1, <2>2, <2>3 DEF TraceOK, TraceTellsTheFill, Told, Waited
<1>7. NoLookahead'
  BY <1>4 DEF NoLookahead, Open
<1>8. index' \in 0 .. Candles + 1 /\ index' # 0
  BY <1>1, <1>2
<1> QED BY <1>1, <1>3, <1>4, <1>5, <1>6, <1>7, <1>8 DEF IInv, CostsAreCovered, Covered

LEMMA NextIInv == IInv /\ [Next]_vars => IInv'
<1>1. SUFFICES ASSUME IInv, [Next]_vars PROVE IInv'
  OBVIOUS
<1>2. CASE UNCHANGED vars
  BY <1>1, <1>2
     DEF vars, IInv, WaitingOK, TraceOK, TraceTellsTheFill, NoLookahead, CostsAreCovered,
         Covered, Open, Account, Owed, Solvent
<1>3. CASE Next
  BY <1>1, <1>3, BarTyped, CandleIInv, EndIInv DEF Next
<1> QED BY <1>1, <1>2, <1>3

LEMMA Invariance == Spec => []IInv
  BY InitIInv, NextIInv, PTL DEF Spec

\* Every candle but the last has its row; the rows executed are the orders that were filled,
\* the order that waits is the only one pending, a row left pending for good is of a candle
\* at which an earlier order waited, and no order was executed at a price it knew: for all
\* markets, strategies, latencies and configurations.
THEOREM TracesAreHonest == Spec => []TraceIsHonest
<1>1. IInv => TraceIsHonest
  BY DEF IInv, TraceOK, TraceIsHonest
<1> QED BY <1>1, Invariance, PTL

\* Cash, holdings and trades agree between any two candles, and the cash never becomes
\* negative, when a strategy does not share a position with the partial profits and no
\* price is so low that its sale costs more than it brings in.
THEOREM BooksAreReconciled ==
    OneWayOut /\ CostsAreCovered => (Spec => []BooksReconcile)
<1> SUFFICES ASSUME OneWayOut, CostsAreCovered PROVE Spec => []BooksReconcile
  OBVIOUS
<1>1. IInv => BooksReconcile
  <2>1. SUFFICES ASSUME IInv PROVE BooksReconcile
    OBVIOUS
  <2>2. state \in StateType /\ config \in Configs /\ Account(state) /\ Solvent(state)
    BY <2>1 DEF IInv, OneWayOut
  <2>3. executed \subseteq DOMAIN trace
    BY <2>1 DEF IInv, TraceOK, TraceTellsTheFill
  <2>4. TypeOK
    BY <2>1, <2>2, <2>3, OpenIsPosition DEF TypeOK, IInv, StateType, TraceOK, Statuses
  <2>5. HoldingsReconcile /\ CashReconciles /\ CashNeverNegative
    BY <2>2 DEF Account, Owed, Solvent, HoldingsReconcile, CashReconciles, CashNeverNegative
  <2> QED BY <2>4, <2>5 DEF BooksReconcile
<1> QED BY <1>1, Invariance, PTL

\* The cash never becomes negative, also when partial profits and strategy exits share in
\* a position, although a purchase is sized at the close and paid at a later open.
THEOREM CashStaysPositive == CostsAreCovered => (Spec => []CashNeverNegative)
<1> SUFFICES ASSUME CostsAreCovered PROVE Spec => []CashNeverNegative
  OBVIOUS
<1>1. IInv => CashNeverNegative
  BY DEF IInv, Solvent, CashNeverNegative
<1> QED BY <1>1, Invariance, PTL

\* No path of orders, candles and losses lowers a stop, uses a stop that was raised in
\* the candle of the exit, or decides an entry beyond the limits of its day.
THEOREM ProtectionIsKept == Spec => ProtectionHolds
<1> DEFINE Guarded ==
             /\ Open(state) /\ Open(state') /\ state'.position.opened = state.position.opened
                   => state'.position.stop >= state.position.stop
             /\ Open(state) /\ ~ Open(state') => state'.last.stop = state.position.stop
           Limited ==
             pending' # pending /\ pending' # NoPending /\ pending'.direction = "BUY"
             => /\ state'.entries < MaxEntries
                /\ 100 * (state'.dayStart - Equity(state', state'.close))
                      < DailyLossPercent * state'.dayStart
<1>1. ASSUME IInv, NEW candle \in BarType, Candle(candle)
      PROVE  Guarded /\ Limited
  <2>1. Guarded
    BY <1>1, CandleStep
  <2>2. Limited
    <3>1. SUFFICES ASSUME pending' # pending, pending' # NoPending, pending'.direction = "BUY"
                   PROVE  /\ state'.entries < MaxEntries
                          /\ 100 * (state'.dayStart - Equity(state', state'.close))
                                < DailyLossPercent * state'.dayStart
      OBVIOUS
    <3> DEFINE waiting == IF Due THEN NoPending ELSE pending
    <3>2. /\ index \in Nat /\ state' \in StateType /\ candle.close \in Price
          /\ state'.close = candle.close
      BY <1>1, CandleStep
    <3>3. pending' \in Orders(state', waiting, candle.close)
      BY <1>1, <3>1, CandlePending
    <3>4. BuyApproved(state', candle.close, pending')
      <4>1. \A o \in SellType : o.direction # "BUY"
        BY DEF SellType
      <4> QED BY <3>1, <3>2, <3>3, <4>1, OrdersFacts
    <3> DEFINE gap == state'.dayStart - Equity(state', candle.close)
    <3>5. /\ state'.entries < MaxEntries
          /\ 100 * High(0, gap) < state'.dayStart * DailyLossPercent
      BY <3>4 DEF BuyApproved
    <3>6. gap \in Int /\ state'.dayStart \in Int /\ DailyLossPercent \in Int
      <4>1. /\ state'.cash \in Int /\ state'.dayStart \in Int
            /\ state'.position.quantity \in Int /\ candle.close \in Int
        BY <3>2, OpenIsPosition, ConstantsAreNat DEF StateType
      <4>2. state'.position.quantity * candle.close \in Int
        BY <4>1, ProductInt
      <4> QED BY <4>1, <4>2, ConstantsAreNat DEF Equity
    <3>7. High(0, gap) >= gap /\ High(0, gap) \in Int
      BY <3>6 DEF High
    <3>8. state'.dayStart * DailyLossPercent = DailyLossPercent * state'.dayStart
      BY <3>6
    <3>9. state'.dayStart * DailyLossPercent \in Int
      BY <3>6, ProductInt
    <3> HIDE DEF gap
    <3>10. 100 * gap < state'.dayStart * DailyLossPercent
      BY <3>5, <3>6, <3>7, <3>9
    <3> QED BY <3>2, <3>5, <3>8, <3>10 DEF gap
  <2> QED BY <2>1, <2>2
<1>2. IInv /\ [Next]_vars => [Guarded]_vars /\ [Limited]_vars
  <2>1. SUFFICES ASSUME IInv, Next PROVE Guarded /\ Limited
    OBVIOUS
  <2>2. CASE End
    BY <2>1, <2>2, EndIInv DEF End
  <2>3. ASSUME NEW open \in Price, NEW close \in Price, NEW down \in Spikes, NEW up \in Spikes,
               Candle(Bar(open, close, down, up))
        PROVE  Guarded /\ Limited
    BY <2>1, <2>3, <1>1, BarTyped
  <2> QED BY <2>1, <2>2, <2>3 DEF Next
<1>3. ProtectionHolds <=> [][Guarded]_vars /\ [][Limited]_vars
  BY DEF ProtectionHolds, StopNeverLowered, DayLimits
<1> QED BY <1>2, <1>3, Invariance, PTL DEF Spec
=============================================================================
