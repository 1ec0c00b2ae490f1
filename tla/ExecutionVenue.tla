--------------------------- MODULE ExecutionVenue ---------------------------
(***************************************************************************)
(* The simulated venue of execution/engine.py with the order lifecycle of  *)
(* models.py, the queue approximation of queue.py and the two ledgers of   *)
(* ledger.py, for one market and one symbol.                               *)
(*                                                                         *)
(* Data abstracted: prices.  The arrival book of an order is what the      *)
(* order can use of it: whether it crosses, the quantities of the levels   *)
(* inside its limit and slippage cap, and the quantity queued at its limit.*)
(* A unit of quantity costs one unit of cash, fees are left out.  An       *)
(* exception of a ledger leaves the venue as the code leaves it and ends   *)
(* the simulation: no caller catches it.                                   *)
(***************************************************************************)
EXTENDS Integers, Sequences, FiniteSets

CONSTANTS
    Configs,          \* the venues looked at: is the market Spot (otherwise USD-M
                      \* Futures), is remainder_policy REJECT_REMAINDER
    InitialCash,      \* Spot cash, in units of quantity it can pay for
    CancelLatency,    \* cancel outbound + processing latency
    MakerWait,        \* maker_wait_ms
    Effects,          \* the position effects the callers use
    Quantities,       \* bound: order quantities
    Expiries,         \* bound: expiry_ms of an order
    Books,            \* bound: arrival books
    Trades,           \* bound: aggressive trade quantities
    MaxOrders,        \* bound: orders submitted
    MaxTime           \* bound: the caller's clock

OrderType == {"MARKET", "LIMIT", "MARKETABLE_LIMIT"}
Terminal  == {"FILLED", "CANCELED", "EXPIRED", "REJECTED"}
OrderStatus == Terminal \cup {"WORKING", "PARTIALLY_FILLED", "CANCEL_PENDING"}
Opening == {"OPEN_LONG", "OPEN_SHORT"}
SideOf(effect) == IF effect \in {"OPEN_LONG", "CLOSE_LONG"} THEN "LONG" ELSE "SHORT"

NoTime == -1

\* No synchronized book at or after the arrival of the order.
NoBook == [crosses |-> FALSE, levels |-> <<>>, visible |-> -1]

ASSUME VenueAssumption ==
    /\ Configs \subseteq [spot : BOOLEAN, rejectRemainder : BOOLEAN]
    /\ {InitialCash, CancelLatency, MakerWait, MaxOrders, MaxTime} \subseteq Nat
    /\ Effects \subseteq {"OPEN_LONG", "CLOSE_LONG", "OPEN_SHORT", "CLOSE_SHORT"}
    /\ Quantities \subseteq Nat \ {0} /\ Expiries \subseteq Nat \ {0}
    /\ Trades \subseteq Nat
    /\ Books \subseteq [crosses : BOOLEAN, levels : Seq(Nat \ {0}), visible : Nat]

VARIABLES
    venue,  \* the SimulatedOrderBookVenue: see NewVenue
    now     \* the time of the caller's replay

vars == <<venue, now>>

NewVenue(config) ==
    [config   |-> config,
     orders   |-> <<>>,     \* _orders, in order of submission
     queue    |-> <<>>,     \* queue_states: order -> QueueState
     filled   |-> <<>>,     \* execution_ledger: quantity filled per order
     side     |-> "FLAT",   \* position_ledger: the net position
     quantity |-> 0,
     cash     |-> InitialCash,
     expiring |-> {},       \* _expiry_cancel
     raised   |-> FALSE]    \* a ledger raised ValueError

Ids(v) == DOMAIN v.orders
Live(order) == order.status \notin Terminal

Smaller(x, y) == IF x < y THEN x ELSE y

Push(queue, o, place) ==
    [x \in DOMAIN queue \cup {o} |-> IF x = o THEN place ELSE queue[x]]

Pop(queue, o) == [x \in DOMAIN queue \ {o} |-> queue[x]]

SetStatus(v, o, status) == [v EXCEPT !.orders[o].status = status]

-----------------------------------------------------------------------------
(* Ledgers *)

\* PositionLedger.apply_fill.  The Spot cash check comes after the position
\* was already enlarged.
Opened(v, side, q) ==
    IF v.side \notin {"FLAT", side}
    THEN [v EXCEPT !.raised = TRUE]
    ELSE LET w == [v EXCEPT !.side = side, !.quantity = @ + q]
         IN  IF ~ v.config.spot THEN w
             ELSE IF q > v.cash THEN [w EXCEPT !.raised = TRUE]
             ELSE [w EXCEPT !.cash = @ - q]

\* Mutant of Closed: a position that was closed keeps its side.
ClosedKeepingSide(v, side, q) ==
    IF v.side # side \/ q > v.quantity
    THEN [v EXCEPT !.raised = TRUE]
    ELSE [v EXCEPT !.quantity = @ - q,
                   !.cash     = IF v.config.spot THEN @ + q ELSE @]

Closed(v, side, q) ==
    IF v.side # side \/ q > v.quantity
    THEN [v EXCEPT !.raised = TRUE]
    ELSE [v EXCEPT !.quantity = @ - q,
                   !.side     = IF v.quantity = q THEN "FLAT" ELSE @,
                   !.cash     = IF v.config.spot THEN @ + q ELSE @]

ApplyFill(v, effect, q) ==
    IF effect \in Opening
    THEN Opened(v, SideOf(effect), q) ELSE Closed(v, SideOf(effect), q)

\* _record_filled_order: the fill and the order are recorded,
\* then the position; a filled order leaves its queue only if nothing raised.
FillAs(v, o, q, time, status) ==
    LET recorded == [v EXCEPT !.orders[o].remaining = @ - q,
                              !.orders[o].status    = status,
                              !.orders[o].lastFill  = time,
                              !.filled[o]           = @ + q]
        booked   == ApplyFill(recorded, v.orders[o].effect, q)
    IN  IF status = "FILLED" /\ ~ booked.raised
        THEN [booked EXCEPT !.queue = Pop(@, o)] ELSE booked

\* Mutant of Fill: a partial fill forgets the pending cancel.
FillForgettingCancel(v, o, q, time) ==
    FillAs(v, o, q, time,
           IF v.orders[o].remaining = q THEN "FILLED" ELSE "PARTIALLY_FILLED")

\* with_fill: the status the fill leaves the order in.
Fill(v, o, q, time) ==
    FillAs(v, o, q, time,
           CASE v.orders[o].remaining = q -> "FILLED"
             [] v.orders[o].remaining # q /\ v.orders[o].status = "CANCEL_PENDING" ->
                    "CANCEL_PENDING"
             [] OTHER -> "PARTIALLY_FILLED")

-----------------------------------------------------------------------------
(* Venue *)

RequestCancel(v, o, time, expired) ==
    IF v.orders[o].status \in Terminal \cup {"CANCEL_PENDING"}
    THEN v
    ELSE [v EXCEPT !.orders[o].status   = "CANCEL_PENDING",
                   !.orders[o].cancelAt = time + CancelLatency,
                   !.expiring           = IF expired THEN @ \cup {o} ELSE @]

\* Mutant of JoinQueue: the whole quantity is queued, not what remains.
JoinQueueWhole(v, o, book) ==
    LET own == v.orders[o].quantity
    IN  [v EXCEPT !.orders[o].status = "WORKING",
                  !.queue = Push(@, o, [ahead |-> book.visible, own |-> own,
                                        initial |-> book.visible, joined |-> own,
                                        traded |-> 0])]

JoinQueue(v, o, book) ==
    LET own == v.orders[o].remaining
    IN  [v EXCEPT !.orders[o].status = "WORKING",
                  !.queue = Push(@, o, [ahead |-> book.visible, own |-> own,
                                        initial |-> book.visible, joined |-> own,
                                        traded |-> 0])]

\* The walk over the levels of the arrival book; an exception ends it.
WalkStep(v, o, quantity, time) ==
    IF v.raised \/ v.orders[o].remaining = 0 THEN v
    ELSE Fill(v, o, Smaller(quantity, v.orders[o].remaining), time)

Walk(v, o, levels, time) ==
    LET after[i \in 0 .. Len(levels)] ==
            IF i = 0 THEN v ELSE WalkStep(after[i-1], o, levels[i], time)
    IN  after[Len(levels)]

Consume(v, o, book, bookTime) ==
    LET type == v.orders[o].type
        w    == Walk(v, o, book.levels, bookTime)
    IN  CASE w.raised                                       -> w
          [] ~ w.raised /\ book.levels = <<>>               ->
                IF type = "MARKET" THEN SetStatus(w, o, "REJECTED") ELSE JoinQueue(w, o, book)
          [] ~ w.raised /\ book.levels # <<>> /\ w.orders[o].remaining = 0 -> w
          [] OTHER                                          ->
                IF type = "MARKETABLE_LIMIT" /\ ~ v.config.rejectRemainder
                THEN JoinQueue(w, o, book)
                ELSE IF v.config.rejectRemainder THEN RequestCancel(w, o, bookTime, FALSE) ELSE w

\* submit: the order goes through CREATED, IN_TRANSIT and ACKNOWLEDGED within
\* the call.
Submit(v, type, effect, quantity, time, expiry, book, bookTime) ==
    LET o    == Len(v.orders) + 1
        sent == [v EXCEPT
                   !.orders = Append(@, [type |-> type, effect |-> effect,
                                         quantity |-> quantity, remaining |-> quantity,
                                         expiry |-> time + expiry, cancelAt |-> NoTime,
                                         lastFill |-> NoTime,
                                         status |-> "ACKNOWLEDGED"]),
                   !.filled = Append(@, 0)]
    IN  IF book = NoBook THEN SetStatus(sent, o, "REJECTED")
        ELSE IF type = "MARKET" \/ book.crosses
        THEN Consume(sent, o, book, bookTime)
        ELSE JoinQueue(sent, o, book)

\* QueueModel.aggressive_trade, then the fill of what reached the order.
AggressiveTrade(v, o, traded, time) ==
    LET s     == v.queue[o]
        ahead == Smaller(s.ahead, traded)
        own   == Smaller(s.own, traded - ahead)
        w     == [v EXCEPT !.queue[o] = [s EXCEPT !.ahead  = @ - ahead,
                                                  !.own    = @ - own,
                                                  !.traded = @ + traded]]
    IN  IF own = 0 THEN w ELSE Fill(w, o, own, time)

\* Mutant of AdvanceOrder: a partially filled order does not expire.
AdvanceOrderOnlyWorking(v, o, time) ==
    LET order == v.orders[o]
        w == IF order.status = "WORKING" /\ time >= order.expiry
             THEN RequestCancel(v, o, order.expiry, TRUE) ELSE v
    IN  IF w.orders[o].status = "CANCEL_PENDING" /\ time >= w.orders[o].cancelAt
        THEN [SetStatus(w, o, IF o \in w.expiring THEN "EXPIRED" ELSE "CANCELED")
                 EXCEPT !.queue = Pop(@, o)]
        ELSE w

\* advance, for one order: expiry asks for the delayed cancel, and a cancel
\* that became effective ends the order.
AdvanceOrder(v, o, time) ==
    LET order == v.orders[o]
        w == IF order.status \in {"WORKING", "PARTIALLY_FILLED"} /\ time >= order.expiry
             THEN RequestCancel(v, o, order.expiry, TRUE) ELSE v
    IN  IF w.orders[o].status = "CANCEL_PENDING" /\ time >= w.orders[o].cancelAt
        THEN [SetStatus(w, o, IF o \in w.expiring THEN "EXPIRED" ELSE "CANCELED")
                 EXCEPT !.queue = Pop(@, o)]
        ELSE w

Advance(v, time) ==
    LET after[o \in 0 .. Len(v.orders)] ==
            IF o = 0 THEN v ELSE AdvanceOrder(after[o-1], o, time)
    IN  after[Len(v.orders)]

\* execute_policy, maker first: a passive order, its cancel after the wait, and
\* a taker order for the remainder when `fallback` (the alpha still holds and
\* the intent is not passive).
CancelOf(v, o, time) ==
    LET order == v.orders[o]
        at    == Smaller(order.expiry, time + MakerWait)
    IN  RequestCancel(v, o, at, at >= order.expiry)

MakerThenTaker(v, effect, quantity, time, expiry, book, bookTime, fallback, book2) ==
    LET o       == Len(v.orders) + 1
        primary == Submit(v, "LIMIT", effect, quantity, time, expiry, book, bookTime)
        pending == CancelOf(primary, o, time)
        at      == pending.orders[o].cancelAt
        done    == Advance(pending, at)
        rest    == done.orders[o].remaining
    IN  IF primary.raised \/ ~ Live(primary.orders[o]) THEN primary
        ELSE IF rest = 0 \/ ~ fallback THEN done
        ELSE Submit(done, "MARKETABLE_LIMIT", effect, rest, at, expiry, book2, at)

-----------------------------------------------------------------------------
Init == venue \in {NewVenue(c) : c \in Configs} /\ now = 0

Running == ~ venue.raised

\* No order may open a Spot short.
Allowed == IF venue.config.spot THEN Effects \ {"OPEN_SHORT"} ELSE Effects

CallSubmit ==
    /\ Running
    /\ Len(venue.orders) < MaxOrders
    /\ \E type \in OrderType, effect \in Allowed, q \in Quantities, expiry \in Expiries,
          book \in Books \cup {NoBook}, bookTime \in now .. now + 1 :
          venue' = Submit(venue, type, effect, q, now, expiry, book, bookTime)
    /\ UNCHANGED now

CallExecutePolicy ==
    /\ Running
    /\ Len(venue.orders) + 1 < MaxOrders
    /\ \E effect \in Allowed, q \in Quantities, expiry \in Expiries,
          book, book2 \in Books \cup {NoBook}, fallback \in BOOLEAN :
          venue' = MakerThenTaker(venue, effect, q, now, expiry, book, now, fallback, book2)
    /\ UNCHANGED now

\* Trades that do not match the queue's price and side return unchanged.
CallAggressiveTrade ==
    /\ Running
    /\ \E o \in DOMAIN venue.queue, traded \in Trades :
          /\ Live(venue.orders[o])
          /\ venue' = AggressiveTrade(venue, o, traded, now)
    /\ UNCHANGED now

CallRequestCancel ==
    /\ Running
    /\ \E o \in Ids(venue) : venue' = RequestCancel(venue, o, now, FALSE)
    /\ UNCHANGED now

CallAdvance ==
    /\ Running
    /\ venue' = Advance(venue, now)
    /\ UNCHANGED now

Tick ==
    /\ Running
    /\ now < MaxTime
    /\ now' = now + 1
    /\ UNCHANGED venue

Next ==
    \/ CallSubmit
    \/ CallExecutePolicy
    \/ CallAggressiveTrade
    \/ CallRequestCancel
    \/ CallAdvance
    \/ Tick

Spec == Init /\ [][Next]_vars

-----------------------------------------------------------------------------
(* Correctness *)

\* Orders, queue states and the two ledgers keep their types.
TypeOK ==
    /\ now \in 0 .. MaxTime
    /\ \A o \in Ids(venue) :
          venue.orders[o] \in [type : OrderType, effect : Effects, quantity : Nat,
                               remaining : Nat, expiry : Nat, cancelAt : Int,
                               lastFill : Int, status : OrderStatus]
    /\ DOMAIN venue.queue \subseteq Ids(venue)
    /\ venue.side \in {"FLAT", "LONG", "SHORT"}
    /\ venue.quantity \in Nat /\ venue.cash \in Nat
    /\ venue.expiring \subseteq Ids(venue)

\* What an order still wants and what the execution ledger holds of it always
\* add up to what was asked: through partial fills, the cancel race, expiry,
\* fallback and a ledger that raised in the middle of a walk.
FillsReconcile ==
    \A o \in Ids(venue) :
        LET order == venue.orders[o]
        IN  /\ order.remaining + venue.filled[o] = order.quantity
            /\ order.status = "FILLED" <=> order.remaining = 0

\* The quantity an order has in the queue is what the order still wants, and
\* an ended order has none to fill.
QueueMatchesOrder ==
    \A o \in DOMAIN venue.queue :
        /\ venue.queue[o].own = venue.orders[o].remaining
        /\ ~ Live(venue.orders[o]) => venue.queue[o].own = 0

\* FIFO: a resting order is filled only by the volume that traded at its price
\* beyond the quantity that was ahead of it when it joined.
FilledOnlyBehindTheQueue ==
    \A o \in DOMAIN venue.queue :
        LET s == venue.queue[o]
        IN  \/ s.own = s.joined
            \/ s.ahead = 0 /\ s.joined - s.own <= s.traded - s.initial

\* What the orders of these effects have filled, together.
FilledBy(v, effects) ==
    LET part == [o \in Ids(v) |-> IF v.orders[o].effect \in effects THEN v.filled[o] ELSE 0]
        sum[n \in 0 .. Len(v.orders)] == IF n = 0 THEN 0 ELSE sum[n - 1] + part[n]
    IN  sum[Len(v.orders)]

\* As long as no ledger raised, the position is what the fills of the
\* execution ledger add up to, and Spot cash is what was not spent on it.
PositionMatchesFills ==
    ~ venue.raised =>
        /\ venue.quantity = FilledBy(venue, Opening) - FilledBy(venue, Effects \ Opening)
        /\ venue.side = "FLAT" <=> venue.quantity = 0
        /\ venue.config.spot => venue.cash + venue.quantity = InitialCash

\* No order is stuck: whatever happened to it, the advance at the latest instant
\* its expiry or its cancel can become effective ends it.
LastInstant(order) ==
    IF order.status = "CANCEL_PENDING" THEN order.cancelAt ELSE order.expiry + CancelLatency

EveryOrderEnds ==
    \A o \in Ids(venue) :
        Live(venue.orders[o]) =>
            ~ Live(AdvanceOrder(venue, o, LastInstant(venue.orders[o])).orders[o])

\* An ended order never changes again and gets no further fill, whichever of
\* fill, cancel and expiry won.
TerminalIsFinal ==
    [][\A o \in Ids(venue) :
          ~ Live(venue.orders[o]) =>
             /\ venue'.orders[o] = venue.orders[o]
             /\ venue'.filled[o] = venue.filled[o]]_vars

\* A requested cancel is never withdrawn or postponed: until the order ends it
\* keeps its effective time.
CancelIsKept ==
    [][\A o \in Ids(venue) :
          venue.orders[o].status = "CANCEL_PENDING" =>
             /\ venue'.orders[o].status \in Terminal \cup {"CANCEL_PENDING"}
             /\ venue'.orders[o].cancelAt = venue.orders[o].cancelAt]_vars

\* Order, execution ledger and queue tell one story: each asked quantity is still open
\* or filled, the queue holds what is open, and nobody is filled before his turn.
QuantitiesReconcile ==
    TypeOK /\ FillsReconcile /\ QueueMatchesOrder /\ FilledOnlyBehindTheQueue

\* Whatever races, an end is an end and a requested cancel stays requested.
EndsAreFinal == TerminalIsFinal /\ CancelIsKept

-----------------------------------------------------------------------------
(* What the documentation says and the venue does not do. *)

\* docs/INTRADAY_EXECUTION_SIMULATION.md:66-67: under PARTIAL_FILL the remainder
\* of an order with a limit goes on working passively at that limit, so it is
\* in the queue until a cancel is requested.
RemainderWorksAtLimit ==
    \A o \in Ids(venue) :
        /\ ~ venue.raised
        /\ venue.orders[o].type # "MARKET"
        /\ venue.orders[o].status \in {"WORKING", "PARTIALLY_FILLED"}
        => o \in DOMAIN venue.queue

\* docs/INTRADAY_EXECUTION_SIMULATION.md:92-96: an order with a pending cancel is
\* exposed to fills until the cancel becomes effective, not after.
NoFillAfterCancelEffective ==
    \A o \in Ids(venue) :
        venue.orders[o].cancelAt # NoTime
            => venue.orders[o].lastFill <= venue.orders[o].cancelAt
=============================================================================
