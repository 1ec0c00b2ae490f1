----------------------------- MODULE MCOrderBook -----------------------------
(* Values for checking OrderBookFeed.  On four prices the two sides move up, *)
(* down and back, so that levels appear, vanish and change side; at the last *)
(* id the exchange has no asks.                                              *)
EXTENDS OrderBookFeed

MCKinds ==
    {[market |-> "SPOT",          retained |-> 0],
     [market |-> "USD_M_FUTURES", retained |-> 0],
     [market |-> "USD_M_FUTURES", retained |-> 1]}

MCPrice == 1 .. 4

\* bids and asks as functions from some prices to quantities.
Sides(bids, asks) ==
    [l \in Level |->
        LET side == IF l[1] = "bid" THEN bids ELSE asks
        IN  IF l[2] \in DOMAIN side THEN side[l[2]] ELSE 0]

MCMarket ==
    [n \in 0 .. MaxId |->
        CASE n = 0 -> Sides((1 :> 1 @@ 2 :> 1), (3 :> 1 @@ 4 :> 1))
          [] n = 1 -> Sides((1 :> 1 @@ 2 :> 2 @@ 3 :> 1), (4 :> 1))
          [] n = 2 -> Sides((1 :> 1), (2 :> 1 @@ 3 :> 1))
          [] OTHER -> Sides((1 :> 2), <<>>)]
=============================================================================
