---------------------------- MODULE DefensiveRisk ----------------------------
(***************************************************************************)
(* DefensiveRiskStateMachine and size_position of                          *)
(* research/trend_following_risk.py as operators on the state of the       *)
(* machine.  Its kill_date is left out: the engine keeps its own.          *)
(***************************************************************************)
EXTENDS Integers

CONSTANTS
    NormalPercent, DefensivePercent,    \* of the equity put at risk
    PositionPercent,                    \* maximum_position_percent
    Cost, Fee, Buffer                   \* per unit of quantity

ASSUME RiskAssumption ==
    /\ {NormalPercent, DefensivePercent, PositionPercent, Cost, Fee, Buffer} \subseteq Nat
    /\ 0 < DefensivePercent /\ DefensivePercent < NormalPercent /\ NormalPercent <= 100
    /\ 0 < PositionPercent /\ PositionPercent <= 100

None == -1

NormalRisk == [mode |-> "NORMAL", losses |-> 0, target |-> None, start |-> None]

Structural == {"MACRO_FILTER_EXIT", "DONCHIAN_EXIT"}
Excluded   == {"FORCED_END", "ADMINISTRATIVE_EXIT"}

Lower(a, b) == IF a <= b THEN a ELSE b

-----------------------------------------------------------------------------
(* The machine *)

risk_percent(r) == IF r.mode = "DEFENSIVE" THEN DefensivePercent ELSE NormalPercent

observe_equity(r, equity) ==
    IF r.mode = "DEFENSIVE" /\ equity >= r.target THEN NormalRisk ELSE r

\* Where the running sequence of losses began; a first loss begins it.
SequenceStart(r, before) == IF r.start # None THEN r.start ELSE before

Liquidated(r, before) ==
    LET target == IF r.start = None /\ r.target # None THEN r.target
                  ELSE SequenceStart(r, before)
    IN  [r EXCEPT !.mode = "DEFENSIVE", !.target = target, !.start = target]

\* A loss at full risk, and what the third one does.
Counted(r, before) == [r EXCEPT !.losses = @ + 1, !.start = SequenceStart(r, before)]
Activated(r)       == [r EXCEPT !.mode = "DEFENSIVE", !.target = r.start]

\* Mutant of Lost: the fourth loss counts.
LostLate(r, defensive, before) ==
    IF r.mode = "DEFENSIVE" THEN [r EXCEPT !.losses = @ + 1]
    ELSE IF ~ defensive THEN r
    ELSE IF r.losses + 1 > 3 THEN Activated(Counted(r, before))
    ELSE Counted(r, before)

Lost(r, defensive, before) ==
    IF r.mode = "DEFENSIVE" THEN [r EXCEPT !.losses = @ + 1]
    ELSE IF ~ defensive THEN r
    ELSE IF r.losses + 1 >= 3 THEN Activated(Counted(r, before))
    ELSE Counted(r, before)

\* A sequence of losses that a trade without a loss ends.
Ended(r) == [r EXCEPT !.losses = 0, !.start = None]

Judged(r, defensive, reason, net, before) ==
    IF reason \in Structural /\ net < 0 THEN Lost(r, defensive, before)
    ELSE IF reason \notin Excluded /\ r.mode = "NORMAL" /\ net >= 0 /\ defensive THEN Ended(r)
    ELSE r

\* `defensive` is the policy; the other policy is FIXED.
record_trade(r, defensive, reason, net, before, after) ==
    IF reason = "LIQUIDATION" THEN Liquidated(r, before)
    ELSE observe_equity(Judged(r, defensive, reason, net, before), after)

-----------------------------------------------------------------------------
(* size_position, for an entry at `price` with costs; zero is a rejection *)

size_position(market, side, equity, percent, price, stop) ==
    LET distance == IF side = "LONG" THEN price - stop ELSE stop - price
        unit     == price + Fee + IF market = "futures" THEN Buffer ELSE 0
    IN  IF stop <= 0 \/ distance <= 0 THEN 0
        ELSE Lower((equity * percent) \div (100 * distance),
             Lower((equity * PositionPercent) \div (100 * price), equity \div unit))
=============================================================================
