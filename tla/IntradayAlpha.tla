------------------------------ MODULE IntradayAlpha ------------------------------
(***************************************************************************)
(* Intraday features and the two alpha models.  The feature engine is fed  *)
(* trades and books as they are received and asked for the features of a   *)
(* moment; each model then takes a sample or rejects it, and signals after *)
(* it has taken every sample for long enough; a coordinator joins the two. *)
(*   trade  [kind, at, buy, size]                                          *)
(*   book   [kind, at, bid, ask, bidSize, askSize]                         *)
(*   gap    [kind]: the local book lost its place in the stream; it comes  *)
(*          back with the next book, and never forgets that it did         *)
(* Prices are ticks and a return is a difference of prices; what the code  *)
(* divides by a total is kept with it, as <<part, total>>.                 *)
(***************************************************************************)
EXTENDS ResearchStatistics

(***************************************************************************)
(* The feature engine.                                                     *)
(***************************************************************************)
Windows   == {1, 3}
Retention == 5       \* at least as long as the longest window
Warmup    == 1

EngineInit == [trades |-> <<>>, books |-> <<>>, ofi |-> <<>>, last |-> <<>>]

NotAfter(items, t)   == SelectSeq(items, LAMBDA x : x.at <= t)
Within(items, s, t)  == SelectSeq(items, LAMBDA x : s <= x.at /\ x.at <= t)
Since(items, t)      == SelectSeq(items, LAMBDA x : x.at >= t)
Placed(items, x)     == NotAfter(items, x.at) \o <<x>> \o Since(items, x.at + 1)
Newer(last, t)       == IF last = <<>> THEN <<t>> ELSE IF t > last[1] THEN <<t>> ELSE last

RecordEvent(engine, event, retention) ==
    [engine EXCEPT
        !.trades = IF event.kind = "trade" THEN Since(Placed(@, event), event.at - retention) ELSE @,
        !.last   = Newer(@, event.at)]

\* What a book adds to the flow of orders: better or equal bids and what left them, less the
\* same of the asks.
OfiIncrement(previous, current) ==
    LET If(condition, n) == IF condition THEN n ELSE 0
    IN If(current.bid >= previous.bid, current.bidSize) - If(current.bid <= previous.bid, previous.bidSize)
       - If(current.ask <= previous.ask, current.askSize) + If(current.ask >= previous.ask, previous.askSize)

RecordBook(engine, book, retention) ==
    LET follows == engine.books # <<>> /\ book.at >= Last(engine.books).at
        flow    == IF follows THEN <<[at |-> book.at, value |-> OfiIncrement(Last(engine.books), book)]>> ELSE <<>>
        cutoff  == book.at - retention
    IN [engine EXCEPT !.books = Since(Placed(@, book), cutoff),
                      !.ofi   = Since(@ \o flow, cutoff),
                      !.last  = Newer(@, book.at)]

TwiceMid(book) == book.bid + book.ask
Traded(trades) ==
    <<Add([i \in DOMAIN trades |-> IF trades[i].buy THEN trades[i].size ELSE -trades[i].size]),
      Add([i \in DOMAIN trades |-> trades[i].size])>>

MomentumOver(books, now, window) ==
    LET prior == NotAfter(books, now - window)
    IN IF prior = <<>> THEN 0 ELSE TwiceMid(Last(books)) - TwiceMid(Last(prior))

VolatilityOver(books, now, window) ==
    LET selected == Within(books, now - window, now)
        Moved(i) == TwiceMid(selected[i + 1]) - TwiceMid(selected[i])
    IN Add([i \in 1..(Len(selected) - 1) |-> Moved(i) * Moved(i)])

\* The features of now, with the book of now (MicrostructureFeatureEngine.snapshot).
FeatureSnapshot(engine, now, book) ==
    LET books  == NotAfter(engine.books, now)
        trades == NotAfter(engine.trades, now)
        times  == {books[i].at : i \in DOMAIN books} \cup {trades[i].at : i \in DOMAIN trades}
                      \cup {t \in ToSet(engine.last) : t <= now}
        newest == CHOOSE t \in times : \A u \in times : u <= t
    IN [at         |-> now,
        spread     |-> book.ask - book.bid,
        imbalance  |-> <<book.bidSize - book.askSize, book.bidSize + book.askSize>>,
        micro      |-> (book.ask - book.bid) * (book.bidSize - book.askSize),
        flow       |-> [w \in Windows |-> Traded(Within(trades, now - w, now))],
        ofi        |-> [w \in Windows |-> Add([i \in DOMAIN Within(engine.ofi, now - w, now) |->
                                                 Within(engine.ofi, now - w, now)[i].value])],
        momentum   |-> [w \in Windows |-> MomentumOver(books, now, w)],
        volatility |-> [w \in Windows |-> VolatilityOver(books, now, w)],
        age        |-> now - newest,
        tradeAge   |-> IF trades = <<>> THEN <<>> ELSE <<now - Last(trades).at>>,
        warm       |-> Len(books) >= 2 /\ trades # <<>> /\ books[1].at <= now - Warmup]

(***************************************************************************)
(* The gate and the models.                                                *)
(***************************************************************************)
MaximumSpread == 4
MaximumAge    == 2
MinimumSize   == 1
ModelWindow   == 1    \* the window the models look at

Smaller(m, n) == IF m < n THEN m ELSE n

\* Why a sample is not traded at all, or "NONE"; the first reason that applies.
GateReason(book, f, gap) ==
    IF gap THEN "EVENT_GAP"
    ELSE IF f.spread <= 0 \/ f.spread > MaximumSpread THEN "INVALID_SPREAD"
    ELSE IF f.age > MaximumAge THEN "MARKET_DATA_STALE"
    ELSE IF Smaller(book.bidSize, book.askSize) < MinimumSize THEN "DEPTH_INSUFFICIENT"
    ELSE IF ~f.warm THEN "FEATURE_WARMUP" ELSE "NONE"

\* The models have thresholds of their own and are no mirror images: the short one bears
\* a wider spread and a smaller imbalance.  Percent of a total; nothing is a share of zero.
LongSpread     == 2
ShortSpread    == 3
LongImbalance  == 5
ShortImbalance == -4

ShareFrom(share, percent) == share[2] > 0 /\ 100 * share[1] >= percent * share[2]
ShareTo(share, percent)   == share[2] > 0 /\ 100 * share[1] <= percent * share[2]

LongRejects(book, f) ==
    \/ f.spread > LongSpread \/ book.bidSize < MinimumSize
    \/ ~ShareFrom(f.imbalance, LongImbalance) \/ f.ofi[ModelWindow] < 0
    \/ ~ShareFrom(f.flow[ModelWindow], LongImbalance)
    \/ f.micro < 0 \/ f.momentum[ModelWindow] < 0

ShortRejects(book, f) ==
    \/ f.spread > ShortSpread \/ book.askSize < MinimumSize
    \/ ~ShareTo(f.imbalance, ShortImbalance) \/ f.ofi[ModelWindow] > 0
    \/ ~ShareTo(f.flow[ModelWindow], ShortImbalance)
    \/ f.micro > 0 \/ f.momentum[ModelWindow] > 0

\* A model is the time since which it takes every sample, <<>> when it does not.
Decision(status, reason, since) == [status |-> status, reason |-> reason, since |-> since]

EvaluateModel(since, signal, gateReason, rejects, at, persistence) ==
    LET start == IF since = <<>> THEN <<at>> ELSE since
    IN IF gateReason # "NONE" THEN Decision("NO_TRADE", gateReason, <<>>)
       ELSE IF rejects THEN Decision("HOLD", "REJECTED", <<>>)
       ELSE IF at - start[1] < persistence THEN Decision("HOLD", "PERSISTENCE", start)
       ELSE Decision(signal, "CONFIRMED", start)

EvaluateLong(since, book, f, gap, persistence) ==
    EvaluateModel(since, "LONG", GateReason(book, f, gap), LongRejects(book, f), f.at, persistence)

\* There is no short on the spot market, whatever the gate says.
EvaluateShort(since, book, f, gap, persistence, futures) ==
    IF ~futures THEN Decision("NO_TRADE", "NO_TRADE_ALLOWED", <<>>)
    ELSE EvaluateModel(since, "SHORT", GateReason(book, f, gap), ShortRejects(book, f), f.at, persistence)

Resolve(long, short) ==
    IF long.status = "LONG" /\ short.status = "SHORT"
    THEN Decision("NO_TRADE", "NO_TRADE_CONFLICT", <<>>)
    ELSE IF long.status = "LONG" THEN long
    ELSE IF short.status = "SHORT" THEN short
    ELSE IF long.status = "NO_TRADE" THEN long
    ELSE IF short.status = "NO_TRADE" THEN short ELSE long

(***************************************************************************)
(* One pass over a recorded session (MicrostructureFoundationService).     *)
(***************************************************************************)
DiagnoseStart == [engine |-> EngineInit, gap |-> FALSE, long |-> <<>>, short |-> <<>>, rows |-> <<>>]

DiagnoseEvent(acc, event, persistence, futures) ==
    LET engine == RecordBook(acc.engine, event, Retention)
        f      == FeatureSnapshot(engine, event.at, event)
        long   == EvaluateLong(acc.long, event, f, acc.gap, persistence[1])
        short  == EvaluateShort(acc.short, event, f, acc.gap, persistence[2], futures)
        joint  == Resolve(long, short)
    IN CASE event.kind = "gap"   -> [acc EXCEPT !.gap = TRUE]
         [] event.kind = "trade" -> [acc EXCEPT !.engine = RecordEvent(@, event, Retention)]
         [] event.kind = "book"  ->
               [engine |-> engine, gap |-> acc.gap, long |-> long.since, short |-> short.since,
                rows |-> Append(acc.rows, [at |-> event.at, features |-> f, long |-> long, short |-> short,
                                           status |-> joint.status, reason |-> joint.reason])]

DiagnoseSession(stream, persistence, futures) ==
    FoldLeft(LAMBDA acc, e : DiagnoseEvent(acc, e, persistence, futures), DiagnoseStart, stream).rows

\* How long each run of one and the same signal lasted (_signal_persistence_durations).
SignalDurations(rows) ==
    LET Signal(i) == rows[i].status \in {"LONG", "SHORT"}
        Starts == SelectSeq([i \in DOMAIN rows |-> i], LAMBDA i :
                      Signal(i) /\ (i = 1 \/ rows[IF i = 1 THEN 1 ELSE i - 1].status # rows[i].status))
        Ends   == SelectSeq([i \in DOMAIN rows |-> i], LAMBDA i :
                      Signal(i) /\ (i = Len(rows) \/ rows[IF i = Len(rows) THEN i ELSE i + 1].status # rows[i].status))
    IN [k \in DOMAIN Starts |-> rows[Ends[k]].at - rows[Starts[k]].at]

NoTradeKinds == [
    liquidity |-> {"BOOK_NOT_SYNCHRONIZED", "MARKET_DATA_STALE"},
    data      |-> {"EVENT_GAP", "RESYNC_IN_PROGRESS", "FEATURE_WARMUP", "NO_TRADE_ALLOWED",
                   "MARKET_STATE_UNKNOWN", "REPLAY_INCONSISTENT"},
    spread    |-> {"INVALID_SPREAD"},
    depth     |-> {"DEPTH_INSUFFICIENT"},
    conflict  |-> {"NO_TRADE_CONFLICT"}]

SummarizeFrequency(rows) ==
    LET Of(status) == Count(rows, LAMBDA r : r.status = status)
    IN [total |-> Len(rows), long |-> Of("LONG"), short |-> Of("SHORT"), hold |-> Of("HOLD"),
        idle |-> Of("NO_TRADE"), durations |-> SignalDurations(rows),
        elapsed |-> IF Len(rows) > 1 THEN Last(rows).at - rows[1].at ELSE 0,
        kinds |-> [k \in DOMAIN NoTradeKinds |->
                      Count(rows, LAMBDA r : r.status = "NO_TRADE" /\ r.reason \in NoTradeKinds[k])]]

(***************************************************************************)
(* What the diagnosis of a session promises.                               *)
(***************************************************************************)
BooksOf(stream, i) == SelectSeq(SubSeq(stream, 1, i), LAMBDA e : e.kind = "book")

\* The features of a moment are those of the events up to it: neither a trade stamped later
\* that came in before, nor what the engine has already forgotten, makes a difference
\* (features.snapshot, "Toda consulta filtra o prefixo timestamp <= now").  A trade stamped
\* ahead may make it forget early what is older than the retention; then what looks back
\* furthest is missing, never wrong.
FeaturesLookBack(stream) ==
    LET rows  == DiagnoseSession(stream, <<1, 1>>, TRUE)
        Keep(engine, e) == IF e.kind = "gap" THEN engine
                           ELSE IF e.kind = "book" THEN RecordBook(engine, e, 100) ELSE RecordEvent(engine, e, 100)
    IN \A i \in DOMAIN stream : stream[i].kind = "book" =>
          LET known == SelectSeq(SubSeq(stream, 1, i), LAMBDA e : e.kind # "gap" /\ e.at <= stream[i].at)
              exact == FeatureSnapshot(FoldLeft(Keep, EngineInit, known), stream[i].at, stream[i])
              found == rows[Len(BooksOf(stream, i))].features
          IN /\ \A k \in DOMAIN exact \ {"momentum", "tradeAge", "warm"} : found[k] = exact[k]
             /\ \A w \in Windows : found.momentum[w] \in {0, exact.momentum[w]}
             /\ found.tradeAge \in {<<>>, exact.tradeAge}
             /\ found.warm => exact.warm

\* A signal has been there in every sample for as long as its model asks, with no gap before;
\* on the spot market nothing is ever short; and though either model knows nothing of the
\* other, no sample ever counts for both, so the conflict that is provided for never arises.
RowsPersist(rows, stream, persistence, futures) ==
    LET Taken(d, side) == d.status = side \/ d.reason = "PERSISTENCE"
    IN \A i \in DOMAIN rows :
          /\ rows[i].long.since = <<>> \/ rows[i].short.since = <<>>
          /\ rows[i].reason # "NO_TRADE_CONFLICT"
          /\ rows[i].status = "LONG" =>
                \E j \in 1..i : /\ rows[i].at - rows[j].at >= persistence[1]
                                /\ \A k \in j..i : Taken(rows[k].long, "LONG")
          /\ rows[i].status = "SHORT" =>
                /\ futures
                /\ \E j \in 1..i : /\ rows[i].at - rows[j].at >= persistence[2]
                                   /\ \A k \in j..i : Taken(rows[k].short, "SHORT")
          /\ rows[i].status \in {"LONG", "SHORT"} =>
                \A n \in DOMAIN stream : stream[n].kind = "gap" => Len(BooksOf(stream, n)) >= i

SignalsPersist(stream, persistence, futures) ==
    RowsPersist(DiagnoseSession(stream, persistence, futures), stream, persistence, futures)

\* Every sample is counted once, every sample that is not traded under one heading, and the
\* signals last no longer than the session (summarize_alpha_frequency).
SummaryAddsUp(s, futures) ==
    /\ s.long + s.short + s.hold + s.idle = s.total
    /\ s.kinds.liquidity + s.kinds.data + s.kinds.spread + s.kinds.depth + s.kinds.conflict = s.idle
    /\ Add(s.durations) <= s.elapsed /\ Len(s.durations) <= s.long + s.short
    /\ (\A i \in DOMAIN s.durations : s.durations[i] >= 0)
    /\ ~futures => s.short = 0 /\ s.hold = 0

FrequencyAddsUp(stream, futures) ==
    SummaryAddsUp(SummarizeFrequency(DiagnoseSession(stream, <<1, 1>>, futures)), futures)
=============================================================================
