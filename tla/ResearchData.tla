------------------------------ MODULE ResearchData ------------------------------
(***************************************************************************)
(* What the experiments do with a history before they run anything on it:  *)
(* the validation of research/datasets.py and futures/datasets.py, the     *)
(* inspection of futures/integrity.py and the aggregation of               *)
(* research/daily_aggregation.py.                                          *)
(*                                                                         *)
(* A candle row is the hour it opens at and whether it is closed; a mark   *)
(* price and a funding event are their hour.  What an operator returns     *)
(* when the code raises is Rejected.  The operators are pure; their        *)
(* properties are about one history S, and a run examines every history of *)
(* Horizon hours.                                                          *)
(***************************************************************************)
EXTENDS Integers, SequencesExt

CONSTANTS
    Horizon,        \* bound: hours of a history
    FundingHours,   \* longest wait for a funding event (8 h and a minute)
    DayHours        \* expected_candles_per_day

ASSUME DataAssumption == {Horizon, FundingHours, DayHours} \subseteq Nat \ {0}

Hours    == 1..Horizon
Rejected == [rejected |-> TRUE]
Rows     == [open : Hours, closed : BOOLEAN]

Opens(rows)     == {rows[i].open : i \in DOMAIN rows}
Duplicates(rows) == Len(rows) - Cardinality(Opens(rows))
InOrder(rows)   == SortSeq(rows, LAMBDA a, b : a.open < b.open)
AllClosed(rows) == \A i \in DOMAIN rows : rows[i].closed

\* The hours of a set in order; Nth counts from 0.
Nth(S, n)        == CHOOSE h \in S : Cardinality({k \in S : k < h}) = n
Chronological(S) == [i \in 1..Cardinality(S) |-> Nth(S, i - 1)]

\* The places where a list of hours does not go on with the next hour.
Breaks(hours)   == {i \in 1..(Len(hours) - 1) : hours[i + 1] - hours[i] # 1}
MissingAt(hours, i) == Max({0, hours[i + 1] - hours[i] - 1})
MissingHours(hours) == MapThenSumSet(LAMBDA i : MissingAt(hours, i), Breaks(hours))
Listed(rows)    == [i \in DOMAIN rows |-> rows[i].open]

(***************************************************************************)
(* Validation.                                                             *)
(***************************************************************************)
\* The Spot dataset takes the rows as they come: any disorder is an error.
ValidateDataset(rows, gapPolicy) ==
    LET hours   == Listed(rows)
        breaks  == Breaks(hours)
        ordered == \A i \in 1..(Len(rows) - 1) : hours[i] < hours[i + 1]
    IN IF /\ rows # <<>> /\ AllClosed(rows) /\ ordered
          /\ gapPolicy = "FAIL" => breaks = {}
         THEN [opens |-> Opens(rows), gaps |-> Cardinality(breaks),
               missing |-> MissingHours(hours)]
         ELSE Rejected

Missing == 0

\* align_mark_prices: the mark of the hour, else the last one if it is at most one
\* interval old.
Alignment(opens, marks) ==
    [h \in opens |-> LET known == {m \in marks : m <= h /\ h - m <= 1}
                     IN IF known = {} THEN Missing ELSE Max(known)]

\* Waits from the first candle to the first event, between events, and from the last
\* event to the close of the last candle.
FundingGaps(opens, events) ==
    LET at == <<Min(opens)>> \o Chronological(events) \o <<Max(opens) + 1>>
    IN IF events = {} THEN 1
       ELSE Cardinality({i \in 1..(Len(at) - 1) : at[i + 1] - at[i] > FundingHours})

\* The Futures dataset sorts its rows and accepts gaps of candles, but no missing mark.
ValidateFutures(rows, marks, events, fundingPolicy) ==
    LET opens == Opens(rows)
        lost  == {h \in opens : Alignment(opens, marks)[h] = Missing}
    IN IF /\ rows # <<>> /\ Duplicates(rows) = 0 /\ AllClosed(rows)
          /\ lost = {}
          /\ fundingPolicy = "FAIL" => FundingGaps(opens, events) = 0
         THEN [candles |-> opens, marks |-> marks, funding |-> events,
               gaps |-> Cardinality(Breaks(Listed(InOrder(rows))))]
         ELSE Rejected

(***************************************************************************)
(* Inspection: what real_validation.py and temporal_robustness.py require  *)
(* of the public data before they validate it.                             *)
(***************************************************************************)
InspectCandles(rows, gapPolicy, documented) ==
    LET hours       == Listed(InOrder(rows))
        breaks      == Breaks(hours)
        unexplained == {i \in breaks : hours[i + 1] \notin documented}
    IN [gaps |-> Cardinality(breaks), unexplained |-> Cardinality(unexplained),
        duplicates |-> Duplicates(rows), closed |-> AllClosed(rows),
        missing |-> MissingHours(hours),
        warned |-> breaks # {} \/ Duplicates(rows) > 0 \/ ~AllClosed(rows)]

InspectMarks(opens, marks) ==
    LET found    == Alignment(opens, marks)
        exact    == {h \in opens : found[h] = h}
        missing  == {h \in opens : found[h] = Missing}
        previous == opens \ (exact \cup missing)
    IN [exact |-> Cardinality(exact), missing |-> Cardinality(missing),
        previous |-> Cardinality(previous),
        future |-> Cardinality({h \in opens : found[h] > h}),
        warned |-> \/ marks = {} \/ missing # {} \/ previous # {}
                   \/ Breaks(Chronological(marks)) # {}]

\* The usual wait is the median one; half as much again is a missing event.
InspectFunding(events) ==
    LET at     == Chronological(events)
        waits  == SortSeq([i \in 1..(Len(at) - 1) |-> at[i + 1] - at[i]], <)
        n      == Len(waits)
        usual  == IF n = 0 THEN 0 ELSE (waits[(n + 1) \div 2] + waits[(n + 2) \div 2]) \div 2
        long   == {i \in 1..n : usual # 0 /\ waits[i] > (usual * 3) \div 2}
    IN [events |-> Len(at), holes |-> Cardinality(long)]

Readiness(rows, marks, events, gapPolicy, documented) ==
    LET candles == InspectCandles(rows, gapPolicy, documented)
        priced  == InspectMarks(Opens(rows), marks)
        funded  == InspectFunding(events)
        hard == \/ candles.duplicates > 0 \/ ~candles.closed
                \/ gapPolicy = "FAIL" /\ candles.gaps > 0
                \/ gapPolicy = "ALLOW_DOCUMENTED" /\ candles.unexplained > 0
                \/ priced.missing > 0 \/ priced.future > 0
                \/ funded.events = 0 \/ funded.holes > 0
    IN IF hard THEN "NOT_READY"
       ELSE IF candles.warned \/ priced.warned THEN "READY_WITH_WARNINGS" ELSE "READY"

(***************************************************************************)
(* Daily candles.  The policy says what becomes of an incomplete day.      *)
(***************************************************************************)
DayOf(h)      == (h - 1) \div DayHours
HoursOf(day)  == {h \in 1..(DayHours * (day + 1)) : DayOf(h) = day}

\* The days of a history are those with at least one row.
GroupByDay(rows) ==
    [day \in {DayOf(h) : h \in Opens(rows)} |->
        SelectSeq(rows, LAMBDA row : DayOf(row.open) = day)]

AuditDay(group, day, policy, documented) ==
    LET complete == Len(group) = DayHours /\ Opens(group) = HoursOf(day) /\ AllClosed(group)
    IN [complete |-> complete,
        action |-> CASE complete -> "INCLUDED"
                     [] ~complete /\ policy = "FAIL" -> "RAISED"
                     [] ~complete /\ policy = "WARN_AND_EXCLUDE" -> "EXCLUDED"
                     [] ~complete /\ policy = "ALLOW_DOCUMENTED" ->
                          IF day \in documented THEN "INCLUDED_DOCUMENTED_INCOMPLETE"
                                                ELSE "RAISED"]

\* The first row opens the day and the last one closes it; highs, lows and volumes are
\* those of the hours.
SpotDay(group, day, closed) ==
    [day |-> day, open |-> Head(group).open, close |-> Last(group).open,
     hours |-> Opens(group), closed |-> closed]

FuturesDay(group, day, closed) == SpotDay(group, day, closed)

\* Rows are sorted, and twice the same hour is an error.
ValidateAndOrder(rows) ==
    IF rows = <<>> \/ Duplicates(rows) > 0 THEN Rejected ELSE InOrder(rows)

DailyOf(rows, policy, documented, futures) ==
    LET ordered == ValidateAndOrder(rows)
        groups  == GroupByDay(ordered)
        audit   == [day \in DOMAIN groups |-> AuditDay(groups[day], day, policy, documented)]
        kept    == {day \in DOMAIN audit : audit[day].action # "EXCLUDED"}
    IN IF rows = <<>> \/ Duplicates(rows) > 0 \/ \E day \in DOMAIN audit : audit[day].action = "RAISED"
         THEN Rejected
         ELSE [daily |-> {IF futures THEN FuturesDay(groups[day], day, audit[day].complete)
                              ELSE SpotDay(groups[day], day, audit[day].complete) : day \in kept},
               audited |-> DOMAIN audit,
               incomplete |-> {day \in DOMAIN audit : ~audit[day].complete}]

AggregateSpot(rows, policy, documented)    == DailyOf(rows, policy, documented, FALSE)
AggregateFutures(rows, policy, documented) == DailyOf(rows, policy, documented, TRUE)

(***************************************************************************)
(* Properties of a history: the hours S of its candles.                    *)
(***************************************************************************)
\* The rows of the hours S, those of O still open, in the order of the database.
RowsOf(S, O) == [i \in 1..Cardinality(S) |->
                    LET h == Nth(S, i - 1) IN [open |-> h, closed |-> h \notin O]]

UpTo(rows, h) == SelectSeq(rows, LAMBDA row : row.open <= h)

ClosedDays(result) == IF result = Rejected THEN {} ELSE {c \in result.daily : c.closed}

\* A daily candle is closed only when all its hours are there and closed, and what is
\* known of the closed days at some hour never changes with later rows: a daily
\* strategy that is shown the closed days up to now looks at nothing to come.
DailyLooksBack(S) ==
    \A O \in SUBSET S :
        LET rows == RowsOf(S, O)
            days == ClosedDays(AggregateSpot(rows, "WARN_AND_EXCLUDE", {}))
        IN /\ \A c \in days : c.hours = HoursOf(c.day) /\ c.hours \subseteq S \ O
           /\ AggregateFutures(Reverse(rows), "WARN_AND_EXCLUDE", {}) =
                  AggregateSpot(rows, "WARN_AND_EXCLUDE", {})
           /\ \A h \in S : ClosedDays(AggregateSpot(UpTo(rows, h), "WARN_AND_EXCLUDE", {})) =
                  {c \in days : Max(c.hours) <= h}

\* A history that passed the validation without gaps loses at most its first and its
\* last day to the daily candles, whatever the policy of incomplete days keeps.
NoGapNoLostDay(S) ==
    LET rows == RowsOf(S, {})
        days == {DayOf(h) : h \in S}
    IN ValidateDataset(rows, "FAIL") # Rejected =>
          \A day \in days \ {Min(days), Max(days)} :
              \E c \in ClosedDays(AggregateSpot(rows, "WARN_AND_EXCLUDE", {})) : c.day = day

\* What the inspection of public data lets through, the validation accepts (funding
\* apart: one compares with the usual wait, the other with 8 hours); a stricter gap
\* policy never lets more through; no mark comes from after its candle, and
\* downloading more marks never makes a ready history unready.
ReadyHolds(S, events, ready) ==
    \A marks \in SUBSET Hours :
        /\ ready["WARN"][marks] => ValidateFutures(RowsOf(S, {}), marks, events, "WARN") # Rejected
        /\ ready["FAIL"][marks] => ready["ALLOW_DOCUMENTED"][marks]
        /\ ready["ALLOW_DOCUMENTED"][marks] => ready["WARN"][marks]
        /\ \A h \in S : Alignment(S, marks)[h] <= h
        /\ \A m \in Hours : ready["WARN"][marks] => ready["WARN"][marks \cup {m}]

ReadyIsValid(S) ==
    \A events \in {{}, {1}, {1, 2, 5}} :
        ReadyHolds(S, events,
            [policy \in {"WARN", "FAIL", "ALLOW_DOCUMENTED"} |->
                [marks \in SUBSET Hours |->
                    Readiness(RowsOf(S, {}), marks, events, policy, {}) # "NOT_READY"]])
=============================================================================
