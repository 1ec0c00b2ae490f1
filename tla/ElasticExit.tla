------------------------------- MODULE ElasticExit -------------------------------
(***************************************************************************)
(* The elastic exit of one position, the multi-minute runner that research *)
(* compares it with, and the adapter that sends the exit order.  What a    *)
(* controller is shown:                                                    *)
(*   [at, net, reversal, fault, fills]                                     *)
(* the time, the net profit of leaving now, whether the flow has turned,   *)
(* what keeps the market from being traded ("none", "liquidity" or, for    *)
(* the runner, "boundary"), and whether the venue would fill an order.     *)
(* A position is followed one observation at a time, in order of time.     *)
(***************************************************************************)
EXTENDS Integers, Sequences

Activation    == 5    \* profit from which the exit may be extended
LockedProfit  == 1    \* profit that is never given up, below Activation
PeakRetrace   == 4    \* how much of the peak may be given up
Grace         == 4    \* time without a new peak: 300 ms in units of 75 ms
Confirmation  == 2    \* time a reversal must last: 150 ms
MaximumHold == 5    \* longest time of the short runner after its activation

ControllerStart == [state |-> "DISARMED", peak |-> <<>>, armed |-> <<>>, deadline |-> <<>>,
                    reversal |-> <<>>, reason |-> "none"]

Ended(c)        == c.state \in {"EXIT_REQUESTED", "FAILSAFE"}
Leave(c, why)   == [c EXCEPT !.state = "EXIT_REQUESTED", !.reason = why]
SetPeak(c, o)   == [c EXCEPT !.peak = <<o.net>>, !.deadline = <<o.at + Grace>>, !.reversal = <<>>]
Breaches(c, o)  == o.net <= LockedProfit \/ c.peak[1] - o.net >= PeakRetrace

ArmAt(c, o) == IF o.net >= Activation
               THEN [SetPeak(c, o) EXCEPT !.state = "ARMED", !.armed = <<o.at>>] ELSE c

\* A reversal is pending from its first observation and confirmed by a later one.
PendReversal(c, o) ==
    IF c.reversal = <<>> THEN [c EXCEPT !.state = "REVERSAL_PENDING", !.reversal = <<o.at>>]
    ELSE IF o.at >= c.reversal[1] + Confirmation THEN Leave(c, "REVERSAL_CONFIRMED_150MS")
    ELSE c

ExtendOrTimeOut(c, o) ==
    LET extended == [c EXCEPT !.state = "EXTENDING", !.reversal = <<>>]
    IN IF o.at >= c.deadline[1] THEN Leave(extended, "NO_NEW_PEAK_300MS") ELSE extended

\* ElasticProfitExitController.observe
ObserveElastic(c, o) ==
    CASE Ended(c) -> c
      [] ~Ended(c) /\ o.fault = "liquidity" ->
            [c EXCEPT !.state = "FAILSAFE", !.reason = "LIQUIDITY_EXIT_FAILSAFE"]
      [] OTHER ->
            IF c.state = "DISARMED" THEN ArmAt(c, o)
            ELSE IF Breaches(c, o) THEN Leave(c, "HARD_PROFIT_FLOOR")
            ELSE IF o.net > c.peak[1] THEN [SetPeak(c, o) EXCEPT !.state = "EXTENDING"]
            ELSE IF o.reversal THEN PendReversal(c, o)
            ELSE ExtendOrTimeOut(c, o)

\* MultiMinuteProfitRunnerController.observe: the same without the wait for a new peak, and
\* with a longest time to hold.
ObserveRunner(c, o, hold) ==
    CASE Ended(c) -> c
      [] ~Ended(c) /\ o.fault = "boundary" ->
            [c EXCEPT !.state = "FAILSAFE", !.reason = "CAPTURE_BOUNDARY_INVALID"]
      [] ~Ended(c) /\ o.fault = "liquidity" ->
            [c EXCEPT !.state = "FAILSAFE", !.reason = "LIQUIDITY_EXIT_FAILSAFE"]
      [] OTHER ->
            IF c.state = "DISARMED" THEN ArmAt(c, o)
            ELSE IF Breaches(c, o) THEN Leave(c, "HARD_PROFIT_FLOOR")
            ELSE IF o.at >= c.armed[1] + hold THEN Leave(c, "MAX_HOLD")
            ELSE IF o.net > c.peak[1] THEN [SetPeak(c, o) EXCEPT !.state = "EXTENDING"]
            ELSE IF o.reversal THEN PendReversal(c, o)
            ELSE [c EXCEPT !.state = "EXTENDING", !.reversal = <<>>]

\* ElasticExitExecutionAdapter.observe: one order when the controller has ended, for what
\* leaving was worth or, when that is not known, at the best price shown; its result is
\* handed on and never looked at.
AdapterStart == [controller |-> ControllerStart, submitted |-> FALSE, orders |-> <<>>, open |-> TRUE]

ObserveAdapter(a, o) ==
    LET c == ObserveElastic(a.controller, o)
    IN IF a.submitted \/ ~Ended(c) THEN [a EXCEPT !.controller = c]
       ELSE [controller |-> c, submitted |-> TRUE, open |-> ~o.fills,
             orders |-> Append(a.orders, [at |-> o.at,
                                          reference |-> IF c.state = "FAILSAFE" THEN "best" ELSE "executable"])]

\* What a controller is before each observation, and after the last one.
ElasticCourse(stream) ==
    LET c[i \in 1..(Len(stream) + 1)] ==
            IF i = 1 THEN ControllerStart ELSE ObserveElastic(c[i - 1], stream[i - 1])
    IN c
RunnerCourse(stream, hold) ==
    LET r[i \in 1..(Len(stream) + 1)] ==
            IF i = 1 THEN ControllerStart ELSE ObserveRunner(r[i - 1], stream[i - 1], hold)
    IN r
AdapterCourse(stream) ==
    LET d[i \in 1..(Len(stream) + 1)] ==
            IF i = 1 THEN AdapterStart ELSE ObserveAdapter(d[i - 1], stream[i - 1])
    IN d

(***************************************************************************)
(* What an exit promises, told from the observations alone.                *)
(***************************************************************************)
\* The observation at which the position becomes one that may be extended, 0 if none does:
\* the first that is worth it, with no fault before.
ArmedAt(stream, faults) ==
    LET Quiet(i) == \A k \in 1..i : stream[k].fault \notin faults
        found == {i \in DOMAIN stream : Quiet(i) /\ stream[i].net >= Activation}
    IN IF found = {} THEN 0 ELSE CHOOSE i \in found : \A j \in found : i <= j

PeakUpTo(stream, a, i) ==
    LET nets == {stream[k].net : k \in a..i} IN CHOOSE n \in nets : \A m \in nets : m <= n
NewPeak(stream, a, i)  == i = a \/ stream[i].net > PeakUpTo(stream, a, i - 1)
Breach(stream, a, i)   == stream[i].net <= LockedProfit \/ PeakUpTo(stream, a, i) - stream[i].net >= PeakRetrace
\* The flow has been against the position since observation b, with no new peak, long enough.
Turned(stream, a, b, i) ==
    /\ a < b /\ b < i /\ stream[i].at - stream[b].at >= Confirmation
    /\ \A k \in b..i : stream[k].reversal /\ ~NewPeak(stream, a, k)
\* The peak is that of observation b, longer ago than the grace.
Stale(stream, a, b, i) ==
    /\ a <= b /\ b < i /\ NewPeak(stream, a, b) /\ (\A k \in (b + 1)..i : ~NewPeak(stream, a, k))
    /\ stream[i].at - stream[b].at >= Grace

ElasticFaults == {"liquidity"}
RunnerFaults  == {"liquidity", "boundary"}

ReasonsHold(stream, k, faults) ==
    LET a == ArmedAt(stream, faults)
        Open(i) == ~Ended(k[i])                 \* before observation i
        Ends(i) == Open(i) /\ Ended(k[i + 1])
    IN \A i \in DOMAIN stream :
          /\ Ended(k[i]) => k[i + 1] = k[i]
          /\ Ends(i) /\ stream[i].fault \notin faults => a # 0 /\ i > a
          /\ a # 0 /\ i > a /\ Open(i) /\ stream[i].fault \notin faults =>
                /\ Breach(stream, a, i) <=> k[i + 1].reason = "HARD_PROFIT_FLOOR"
                /\ k[i + 1].reason = "REVERSAL_CONFIRMED_150MS" <=>
                      /\ ~Breach(stream, a, i) /\ k[i + 1].reason # "MAX_HOLD"
                      /\ \E b \in 1..i : Turned(stream, a, b, i)
                /\ k[i + 1].peak = <<PeakUpTo(stream, a, IF Ends(i) THEN i - 1 ELSE i)>>

\* Profit once locked is given up no further than the floor and the retracement say, at the
\* first observation beyond them; a reversal ends the position if and only if it has lasted,
\* without a new peak between; each exit is for the reason it names; and an exit is final.
ExitsForAReason(stream) ==
    /\ ReasonsHold(stream, ElasticCourse(stream), ElasticFaults)
    /\ ReasonsHold(stream, RunnerCourse(stream, MaximumHold), RunnerFaults)

\* The elastic exit waits for a new peak no longer than the grace, and while a reversal is
\* pending no longer than its confirmation beyond; the runner does not wait for a peak and
\* never holds longer than it may (continuation_deadline, maximum_hold_deadline).
ExitsAreTimely(stream) ==
    LET a == ArmedAt(stream, ElasticFaults)
        c == ElasticCourse(stream)
        r == RunnerCourse(stream, MaximumHold)
    IN a # 0 => \A i \in (a + 1)..Len(stream) :
          /\ c[i + 1].reason = "NO_NEW_PEAK_300MS" /\ ~Ended(c[i]) =>
                ~stream[i].reversal /\ \E b \in a..(i - 1) : Stale(stream, a, b, i)
          /\ (\E b \in a..(i - 1) : Stale(stream, a, b, i)) /\ ~stream[i].reversal => Ended(c[i + 1])
          /\ (\E b \in a..(i - 1), j \in a..(i - 1) :
                 Stale(stream, a, b, j) /\ stream[i].at - stream[j].at >= Confirmation
                 /\ \A k \in j..i : ~NewPeak(stream, a, k)) => Ended(c[i + 1])
          /\ stream[i].at >= stream[a].at + MaximumHold => Ended(r[i + 1])
          /\ r[i + 1].reason # "NO_NEW_PEAK_300MS"

\* On one and the same market the elastic exit never outlasts a runner whose time to hold
\* does not run out.
ElasticLeavesFirst(stream) ==
    LET c == ElasticCourse(stream)
        r == RunnerCourse(stream, 1000)
    IN \A i \in DOMAIN stream :
          Ended(r[i + 1]) /\ ~Ended(r[i]) /\ stream[i].fault # "boundary" => Ended(c[i + 1])

\* The adapter sends one order, in the step the controller ends, whatever ended it; when the
\* venue does not fill that one, the position stays open and no other order follows
\* ("Submit at most one local exit after the controller requests it").
OneExitOrder(stream) ==
    LET d == AdapterCourse(stream)
        c == ElasticCourse(stream)
    IN \A i \in DOMAIN stream :
          /\ d[i + 1].controller = c[i + 1]
          /\ Len(d[i + 1].orders) = (IF Ended(c[i + 1]) THEN 1 ELSE 0)
          /\ Ended(c[i + 1]) /\ ~Ended(c[i]) =>
                d[i + 1].orders[1].at = stream[i].at /\ d[i + 1].open = ~stream[i].fills
          /\ Ended(c[i]) => d[i + 1] = d[i]
=============================================================================
