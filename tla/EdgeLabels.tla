------------------------------- MODULE EdgeLabels -------------------------------
(***************************************************************************)
(* The edge discovery: anchors sampled from a recorded session, what a     *)
(* round trip begun at an anchor would have come to (its label), what an   *)
(* elastic exit would have made of it, the partition of the anchors and    *)
(* the tables of labels.                                                   *)
(*   event  [at, synced, ready, bid, ask, size]                            *)
(* is a book update of the session: whether the local book is in place     *)
(* after it, whether it can be an anchor (both sides there, features warm) *)
(* and the best prices; behind each there is a second level, a tick worse  *)
(* and as large as the first.  A return is a difference of prices times a  *)
(* quantity, a fee a tick for each unit, on entry and exit, of a USD-M     *)
(* session; where a partly filled exit makes the code divide, both sides   *)
(* are multiplied instead.                                                 *)
(***************************************************************************)
EXTENDS ResearchStatistics, ElasticExit

AnchorInterval == 2
Latency        == 1
Horizons       == {1, 8}
LongestHorizon == 8     \* also how far the excursions look
TakerFee       == 1
ElasticCosts   == 2 * TakerFee
WidestSpread   == 3     \* beyond it an elastic exit gives up

(***************************************************************************)
(* Anchors.                                                                *)
(***************************************************************************)
\* Every update that leaves the book in place is a state; one state of an interval may
\* become an anchor, the first one: when it is not ready, the interval has none.
SampleStep(acc, e) ==
    LET slot == e.at \div AnchorInterval
        free == acc.slot # <<slot>>
    IN IF ~e.synced THEN acc
       ELSE [states  |-> Append(acc.states, e), slot |-> <<slot>>,
             anchors |-> IF free /\ e.ready THEN Append(acc.anchors, e) ELSE acc.anchors]

BuildSession(events) ==
    FoldLeft(SampleStep, [states |-> <<>>, slot |-> <<>>, anchors |-> <<>>], events)

(***************************************************************************)
(* Labels.                                                                 *)
(***************************************************************************)
NoResult == <<>>     \* a result is <<x>>

\* The first state not before t.
StateAt(states, t) ==
    LET found == {i \in DOMAIN states : states[i].at >= t}
    IN IF found = {} THEN 0 ELSE CHOOSE i \in found : \A j \in found : i <= j

Levels(state, buys) ==
    IF buys THEN <<state.ask, state.ask + 1>> ELSE <<state.bid, state.bid - 1>>

\* What q units bring or cost at the levels shown: the quantity filled and the sum of prices
\* (ExecutionSimulator.preview_taker).
PreviewTaker(state, buys, q) ==
    LET level  == Levels(state, buys)
        first  == IF q < state.size THEN q ELSE state.size
        second == IF q - first < state.size THEN q - first ELSE state.size
    IN [quantity |-> first + second, value |-> first * level[1] + second * level[2],
        best |-> level[1], twiceMid |-> state.bid + state.ask, fee |-> TakerFee * (first + second), at |-> state.at]

\* A leg decided at t is executed on the first state after its latency, or not at all.
Filled(leg) == IF leg.quantity = 0 THEN NoResult ELSE <<leg>>
ExecuteLeg(states, t, q, buys) ==
    LET i == StateAt(states, t + Latency)
    IN IF i = 0 THEN NoResult ELSE Filled(PreviewTaker(states[i], buys, q))

NotExecutable == [status |-> "NOT_EXECUTABLE", executable |-> FALSE, entry |-> NoResult, exit |-> NoResult,
                  net |-> NoResult, gross |-> NoResult]

\* What two legs come to; net is kept times the quantity entered.
Settled(entry, exit, q, long) ==
    LET filled == entry[1].quantity
        moved == exit[1].value * filled - entry[1].value * exit[1].quantity
        gross == IF long THEN moved ELSE -moved
        net   == gross - (entry[1].fee + exit[1].fee) * filled
    IN IF exit = NoResult THEN NotExecutable
       ELSE [status |-> IF net > 0 THEN "NET_POSITIVE" ELSE IF net = 0 THEN "NET_ZERO" ELSE "NET_NEGATIVE",
             executable |-> exit[1].quantity = q, entry |-> entry, exit |-> exit,
             net |-> <<net>>, gross |-> <<gross>>]

\* A round trip of q units, long or short.
RoundTrip(states, decision, horizon, q, long) ==
    LET entry == ExecuteLeg(states, decision, q, long)
    IN IF entry = NoResult THEN NotExecutable
       ELSE Settled(entry, ExecuteLeg(states, decision + horizon, entry[1].quantity, ~long), q, long)

\* The best and the worst that all that was entered could have been left for, at any state
\* from the decision to the longest horizon.  (mfe and mae are what these two come to: they
\* are chosen by price alone, for the code takes the same costs off every state.  It takes the
\* Futures fee on either market, and a short's profit by its exit, so neither is comparable
\* with the net of a label.)
Excursions(states, decision, q, long) ==
    LET entry  == ExecuteLeg(states, decision, q, long)
        filled == entry[1].quantity
        Leg(i) == PreviewTaker(states[i], ~long, filled)
        window == {i \in DOMAIN states : /\ decision <= states[i].at /\ states[i].at <= decision + LongestHorizon
                                         /\ Leg(i).quantity = filled}
        values == {Leg(i).value : i \in window}
        highest == CHOOSE n \in values : \A m \in values : m <= n
        lowest  == CHOOSE n \in values : \A m \in values : n <= m
    IN IF entry = NoResult THEN NoResult
       ELSE IF window = {} THEN NoResult
       ELSE IF long THEN <<highest, lowest>> ELSE <<lowest, highest>>

(***************************************************************************)
(* The elastic exit on recorded data, one unit at an anchor.               *)
(***************************************************************************)
ElasticObservation(state, previous, entryPrice, long) ==
    LET price == Levels(state, ~long)[1]
    IN [at |-> state.at, fills |-> TRUE,
        fault |-> IF state.ask - state.bid > WidestSpread THEN "liquidity" ELSE "none",
        net |-> (IF long THEN price - entryPrice ELSE entryPrice - price) - ElasticCosts,
        reversal |-> previous # NoResult /\ (IF long THEN price < previous[1] ELSE price > previous[1])]

\* What is remembered of the controller c when leaving at a price brings net.
Remembered(acc, c, price, net) ==
    LET imm == IF c.state = "ARMED" /\ acc.immediate = NoResult THEN net ELSE acc.immediate
    IN [c |-> c, previous |-> <<price>>, immediate |-> imm, elastic |-> net,
        maximum |-> IF imm = NoResult \/ net = NoResult THEN acc.maximum
                    ELSE IF acc.maximum = NoResult \/ net[1] > acc.maximum[1] THEN net ELSE acc.maximum]

ElasticStep(acc, state, entryPrice, long) ==
    LET o == ElasticObservation(state, acc.previous, entryPrice, long)
        c == ObserveElastic(acc.c, o)
    IN IF Ended(acc.c) THEN acc
       ELSE Remembered(acc, c, Levels(state, ~long)[1], IF c.state = "FAILSAFE" THEN NoResult ELSE <<o.net>>)

Around(states, decision) ==
    SelectSeq(states, LAMBDA s : decision <= s.at /\ s.at <= decision + LongestHorizon)

ElasticRun(states, decision, entryPrice, long) ==
    FoldLeft(LAMBDA acc, s : ElasticStep(acc, s, entryPrice, long),
             [c |-> ControllerStart, previous |-> NoResult, immediate |-> NoResult, elastic |-> NoResult, maximum |-> NoResult],
             Around(states, decision))

\* The row of an anchor, NoResult when it has no label or the exit was never armed.  A profit of
\* exactly nothing is taken for a missing one when what was given back is told.
Floored(n) == IF n > 0 THEN n ELSE 0
Told(run) ==
    LET start == run.immediate[1]
        told  == IF run.elastic \in {NoResult, <<0>>} THEN start ELSE run.elastic[1]
    IN IF run.immediate = NoResult THEN NoResult
       ELSE <<[immediate |-> start, elastic |-> run.elastic,
               increment |-> IF run.elastic = NoResult THEN NoResult ELSE <<run.elastic[1] - start>>,
               capture   |-> Floored(run.maximum[1] - start),
               giveback  |-> Floored(run.maximum[1] - told),
               reason    |-> IF Ended(run.c) THEN run.c.reason ELSE "CAPTURE_BOUNDARY"]>>

ElasticRow(states, decision, label, long) ==
    IF label.entry = NoResult THEN NoResult
    ELSE Told(ElasticRun(states, decision, label.entry[1].value, long))

MinimumRows == 2   \* 30 in the code
Known(values) == LET some == SelectSeq(values, LAMBDA v : v # NoResult) IN [i \in DOMAIN some |-> some[i][1]]

\* increments are those of the rows that have one; count is that of all rows.
ClassifyElastic(count, increments) ==
    LET Wins(s) == Add(s) > 0 /\ AtLeast(Count(s, LAMBDA x : x > 0), Len(s), 60)
    IN CASE count < MinimumRows -> "INSUFFICIENT_SAMPLE"
         [] count >= MinimumRows /\ Wins(increments) -> "EXTENSION_HELPFUL"
         [] count >= MinimumRows /\ Wins([i \in DOMAIN increments |-> -increments[i]]) -> "EXTENSION_HARMFUL"
         [] OTHER -> "MIXED"

\* The classification of one side asks for an increment besides.
ClassifyElasticSide(count, increments) ==
    IF increments = <<>> THEN "INSUFFICIENT_SAMPLE" ELSE ClassifyElastic(count, increments)

(***************************************************************************)
(* The partition of n anchors, and the tables.  An anchor of a table is    *)
(*   [at, spread, depth, vol, long, short]                                 *)
(* with the net result of its label on each side, NoResult when there is none. *)
(***************************************************************************)
DiscoveryEnd(n)    == (6 * n) \div 10
ConfirmationEnd(n) == (8 * n) \div 10

AnchorPartition(n, ready) ==
    IF ~ready THEN [discovery |-> {}, confirmation |-> {}, holdout |-> {}]
    ELSE [discovery |-> 1..DiscoveryEnd(n), confirmation |-> (DiscoveryEnd(n) + 1)..ConfirmationEnd(n),
          holdout |-> (ConfirmationEnd(n) + 1)..n]

\* What is labelled and put into tables, and what the cut points are taken from.
AnalysisAnchors(n, ready) == IF ready THEN ConfirmationEnd(n) ELSE n
CutPointAnchors(n, ready) == IF ready THEN DiscoveryEnd(n) ELSE n

\* The quantile k/d of values, times d: between its two neighbours.
QuantileTimes(values, k, d) ==
    LET s == Ranked(values)           \* descending
        n == Len(s)
        position == (n - 1) * k
        lower == s[n - position \div d]
        upper == s[n - (position + d - 1) \div d]
    IN IF n = 0 THEN 0 ELSE lower * d + (upper - lower) * (position % d)

FeatureBounds(values, d) == [k \in 1..(d - 1) |-> QuantileTimes(values, k, d)]
FeatureBin(value, bounds) ==
    1 + Count(bounds, LAMBDA cut : value * (Len(bounds) + 1) > cut)

LabelMetrics(nets) ==
    [samples |-> Len(nets), executed |-> Len(Known(nets)),
     positive |-> Count(Known(nets), LAMBDA x : x > 0), total |-> Add(Known(nets))]

\* Labels are put together by the key of their anchor: the results of one side under each key.
GroupLabels(anchors, keys, side) ==
    [key \in ToSet(keys) |->
        LET own == SelectSeq([i \in DOMAIN anchors |-> i], LAMBDA i : keys[i] = key)
        IN [k \in DOMAIN own |-> anchors[own[k]][side]]]

Univariate(anchors, cuts, side) ==
    LET bounds == FeatureBounds([i \in DOMAIN cuts |-> cuts[i].spread], 5)
    IN GroupLabels(anchors, [i \in DOMAIN anchors |-> FeatureBin(anchors[i].spread, bounds)], side)

Coarse(value, bounds) == CASE FeatureBin(value, bounds) = 1 -> "LOW"
                           [] FeatureBin(value, bounds) = 2 -> "MID"
                           [] FeatureBin(value, bounds) = 3 -> "HIGH"

Pairwise(anchors, cuts, side) ==
    LET spreads == FeatureBounds([i \in DOMAIN cuts |-> cuts[i].spread], 3)
        depths  == FeatureBounds([i \in DOMAIN cuts |-> cuts[i].depth], 3)
        Key(a)  == <<Coarse(a.spread, spreads), Coarse(a.depth, depths)>>
    IN GroupLabels(anchors, [i \in DOMAIN anchors |-> Key(anchors[i])], side)

LiquidityRegimes(anchors, cuts, side) ==
    LET spreads == FeatureBounds([i \in DOMAIN cuts |-> cuts[i].spread], 3)
        middle  == QuantileTimes([i \in DOMAIN cuts |-> cuts[i].depth], 1, 2)
        Key(a)  == <<IF 3 * a.spread <= spreads[2] THEN "TIGHT" ELSE "WIDE",
                     IF 2 * a.depth >= middle THEN "DEEP" ELSE "THIN">>
    IN GroupLabels(anchors, [i \in DOMAIN anchors |-> Key(anchors[i])], side)

VolatilityRegimes(anchors, cuts, side) ==
    LET bounds == FeatureBounds([i \in DOMAIN cuts |-> cuts[i].vol], 4)
        Key(a) == <<"LOW", "MEDIUM", "HIGH", "EXTREME">>[FeatureBin(a.vol, bounds)]
    IN GroupLabels(anchors, [i \in DOMAIN anchors |-> Key(anchors[i])], side)

TimeTable(anchors, block, side) ==
    GroupLabels(anchors, [i \in DOMAIN anchors |-> anchors[i].at \div block], side)

\* Resampling takes whole blocks of time, and at least two.
BlockBootstrap(anchors, block, side) ==
    LET known  == SelectSeq(anchors, LAMBDA a : a[side] # NoResult)
        blocks == TimeTable(known, block, side)
    IN [status |-> IF Cardinality(DOMAIN blocks) < 2 THEN "INSUFFICIENT_SAMPLE" ELSE "OK", blocks |-> blocks]

NoTradeContexts(anchors, cuts) ==
    LET spreads == FeatureBounds([i \in DOMAIN cuts |-> cuts[i].spread], 3)
        vols    == FeatureBounds([i \in DOMAIN cuts |-> cuts[i].vol], 3)
        context == [i \in DOMAIN anchors |-> <<Coarse(anchors[i].spread, spreads), Coarse(anchors[i].vol, vols)>>]
        longs   == GroupLabels(anchors, context, "long")
        shorts  == GroupLabels(anchors, context, "short")
        Weak(nets) == Known(nets) # <<>> /\ Add(Known(nets)) <= 0
    IN [c \in DOMAIN longs |-> Weak(longs[c]) /\ Weak(shorts[c])]

EdgeTables(anchors, ready, side) ==
    LET some == First(anchors, AnalysisAnchors(Len(anchors), ready))
        cuts == First(anchors, CutPointAnchors(Len(anchors), ready))
    IN [spread |-> Univariate(some, cuts, side), pairs |-> Pairwise(some, cuts, side),
        liquidity |-> LiquidityRegimes(some, cuts, side), volatility |-> VolatilityRegimes(some, cuts, side),
        hours |-> TimeTable(some, 4, side), bootstrap |-> BlockBootstrap(some, 2, side).blocks]

(***************************************************************************)
(* What the discovery promises.                                            *)
(***************************************************************************)
\* No two anchors share an interval, and the anchor of an interval is its first state
\* (MicrostructureAnchorSampler, "at most one eligible prefix-only snapshot").
AnchorsAreSpread(session) ==
    LET Slot(e) == e.at \div AnchorInterval
    IN \A i \in DOMAIN session.states :
          session.states[i] \in ToSet(session.anchors) <=>
             /\ session.states[i].ready
             /\ \A j \in 1..(i - 1) : Slot(session.states[j]) # Slot(session.states[i])

\* A label looks at the two states an order decided then would meet, the first ones after its
\* latency, and at nothing later; there is none if and only if the session ends before; long
\* and short never both win on the same market; a larger order never does better by the unit;
\* and what all of it was left for lies between the worst and the best there was to have.
LabelIsHonest(states, t, horizon, q, long) ==
    LET label == RoundTrip(states, t, horizon, q, long)
        other == RoundTrip(states, t, horizon, q, ~long)
        small == RoundTrip(states, t, horizon, 1, long)
        range == Excursions(states, t, q, long)
        paid  == label.exit[1].value
        Met(leg, from) == leg.at >= from + Latency /\ \A i \in DOMAIN states : ~(from + Latency <= states[i].at /\ states[i].at < leg.at)
    IN /\ label.status = "NOT_EXECUTABLE" <=> \A i \in DOMAIN states : states[i].at < t + horizon + Latency
       /\ label.status # "NOT_EXECUTABLE" =>
             /\ Met(label.entry[1], t) /\ Met(label.exit[1], t + horizon)
             /\ \A n \in DOMAIN states : label.exit[1].at <= states[n].at =>
                   label = RoundTrip(SubSeq(states, 1, n), t, horizon, q, long)
             /\ label.net[1] < label.gross[1] /\ label.net[1] + other.net[1] < 0
             /\ label.executable => label.net[1] <= q * q * small.net[1]
             /\ label.executable /\ label.exit[1].at <= t + LongestHorizon =>
                   IF long THEN range[2] <= paid /\ paid <= range[1]
                           ELSE range[1] <= paid /\ paid <= range[2]

LabelsAreHonest(events) ==
    LET session == BuildSession(events)
    IN /\ AnchorsAreSpread(session)
       /\ \A i \in DOMAIN session.anchors, horizon \in Horizons, q \in 1..3, long \in BOOLEAN :
             LabelIsHonest(session.states, session.anchors[i].at, horizon, q, long)

\* An anchor has an elastic row if and only if its label has both legs and leaving was at
\* some state worth extending; what the extension gained is what it caught less what it gave
\* back, unless it ended with nothing or unknown; and it is said to have met the end of the
\* recording if and only if the exit never ended.
ElasticRowHolds(row, label, window, long) ==
    LET Worth(s) == (IF long THEN s.bid - label.entry[1].value ELSE label.entry[1].value - s.ask) - ElasticCosts
        Wide(s)  == s.ask - s.bid > WidestSpread
    IN /\ row # NoResult <=>
             /\ label.status # "NOT_EXECUTABLE"
             /\ \E i \in DOMAIN window : Worth(window[i]) >= Activation /\ \A j \in 1..i : ~Wide(window[j])
       /\ row # NoResult =>
             LET r == row[1]
             IN /\ r.immediate >= Activation /\ r.capture >= 0
                /\ r.elastic = NoResult <=> r.reason = "LIQUIDITY_EXIT_FAILSAFE"
                /\ r.elastic \notin {NoResult, <<0>>} => r.increment = <<r.capture - r.giveback>>
                /\ r.elastic = <<0>> => r.giveback = r.capture /\ r.reason = "HARD_PROFIT_FLOOR"
                /\ r.reason = "CAPTURE_BOUNDARY" =>
                      r.elastic[1] > LockedProfit /\ r.giveback < PeakRetrace

ElasticRowsHold(events) ==
    LET session == BuildSession(events)
    IN \A i \in DOMAIN session.anchors, long \in BOOLEAN :
          LET t     == session.anchors[i].at
              label == RoundTrip(session.states, t, LongestHorizon, 1, long)
          IN ElasticRowHolds(ElasticRow(session.states, t, label, long), label, Around(session.states, t), long)

\* Extending cannot be called both helpful and harmful; whichever it is, the increments turned
\* around are the other; and a side on its own is judged like the whole.
ElasticVerdictsMirror(increments) ==
    LET verdict == ClassifyElastic(Len(increments), increments)
        mirror  == ClassifyElastic(Len(increments), [i \in DOMAIN increments |-> -increments[i]])
    IN /\ verdict = "EXTENSION_HELPFUL" <=> mirror = "EXTENSION_HARMFUL"
       /\ verdict = "EXTENSION_HELPFUL" => \E i \in DOMAIN increments : increments[i] > 0
       /\ increments # <<>> => ClassifyElasticSide(Len(increments), increments) = verdict

\* Discovery, confirmation and holdout follow each other and leave no anchor out; the holdout
\* is never empty.
PartitionIsChronological(n) ==
    LET p == AnchorPartition(n, TRUE)
    IN /\ p.discovery \cup p.confirmation \cup p.holdout = 1..n
       /\ \A i \in p.discovery, j \in p.confirmation \cup p.holdout : i < j
       /\ \A i \in p.confirmation, j \in p.holdout : i < j
       /\ n > 0 => p.holdout # {}

\* Every label is in exactly one group of every table; the cut points know nothing of the
\* confirmation: whatever it holds, a discovery anchor falls into the same bins; and no table
\* changes with the holdout (cut_point_anchors, "Quantile bounds are frozen from discovery").
TablesAddUp(anchors, ready) ==
    LET n       == Len(anchors)
        tables  == EdgeTables(anchors, ready, "long")
        some    == First(anchors, AnalysisAnchors(n, ready))
        p       == AnchorPartition(n, ready)
        Altered(part) == [i \in 1..n |-> IF i \in part THEN [anchors[i] EXCEPT !.spread = 9 - @, !.depth = 9 - @, !.vol = 9 - @]
                                        ELSE anchors[i]]
        Of(t, Field(_)) == FoldSet(LAMBDA key, acc : acc + Field(LabelMetrics(t[key])), 0, DOMAIN t)
        all == LabelMetrics([i \in DOMAIN some |-> some[i].long])
        Bounds(list) == LET cuts == First(list, CutPointAnchors(n, ready))
                        IN [d \in {3, 5} |-> FeatureBounds([i \in DOMAIN cuts |-> cuts[i].spread], d)]
    IN /\ PartitionIsChronological(n)
       /\ \A t \in DOMAIN tables \ {"bootstrap"} :
             /\ Of(tables[t], LAMBDA m : m.samples) = all.samples
             /\ Of(tables[t], LAMBDA m : m.positive) = all.positive
             /\ Of(tables[t], LAMBDA m : m.total) = all.total
       /\ Of(tables.bootstrap, LAMBDA m : m.total) = all.total
       /\ \A i, j \in 1..n : anchors[i].spread <= anchors[j].spread =>
             FeatureBin(anchors[i].spread, Bounds(anchors)[5]) <= FeatureBin(anchors[j].spread, Bounds(anchors)[5])
       /\ Bounds(anchors) = Bounds(Altered(p.confirmation))
       /\ tables = EdgeTables(Altered(p.holdout), ready, "long")
       /\ LET weak == NoTradeContexts(some, First(anchors, CutPointAnchors(n, ready)))
          IN (\A context \in DOMAIN weak : weak[context]) =>
                all.total <= 0 /\ Add(Known([i \in DOMAIN some |-> some[i].short])) <= 0
=============================================================================
