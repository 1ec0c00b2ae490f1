----------------------------- MODULE MirrorBook -----------------------------
(***************************************************************************)
(* What a local order book promises to its readers.  Either it shows       *)
(* nothing (it is not synchronized), or it shows levels of the exchange's  *)
(* book as it was at one update id the exchange has reached; all of them,  *)
(* when it is whole.  It may hide at any time, and what it shows next is   *)
(* again one true state, never a mixture of two.                           *)
(***************************************************************************)
EXTENDS Integers

CONSTANTS Price, MaxId, MarketAt

VARIABLES engine, view

vars == <<engine, view>>

Level == {"bid", "ask"} \X Price

NoView == [id |-> -1, whole |-> TRUE, ladder |-> [l \in Level |-> 0]]

\* A view of the exchange's book at n.
Shows(v, n) ==
    /\ v.id = n
    /\ \A l \in Level : v.ladder[l] # 0 => v.ladder[l] = MarketAt[n][l]
    /\ v.whole => v.ladder = MarketAt[n]

Init == engine = 0 /\ view = NoView

Match ==
    /\ engine < MaxId
    /\ engine' = engine + 1
    /\ UNCHANGED view

Show ==
    /\ \E n \in 0 .. engine : Shows(view', n)
    /\ UNCHANGED engine

Hide ==
    /\ view' = NoView
    /\ UNCHANGED engine

Next == Match \/ Show \/ Hide

Spec == Init /\ [][Next]_vars
=============================================================================
