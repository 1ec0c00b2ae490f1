------------------------------ MODULE MCRecorder ------------------------------
(* Values for checking FuturesRecorder. *)
EXTENDS FuturesRecorder

MCPrice == 1 .. 3
MCKinds == {RecorderKind}

\* bids and asks as functions from some prices to quantities.
Sides(bids, asks) ==
    [l \in Level |->
        LET side == IF l[1] = "bid" THEN bids ELSE asks
        IN  IF l[2] \in DOMAIN side THEN side[l[2]] ELSE 0]

MCMarket ==
    [n \in 0 .. MaxId |->
        CASE n = 0 -> Sides((1 :> 1), (2 :> 1 @@ 3 :> 1))
          [] n = 1 -> Sides((1 :> 1 @@ 2 :> 1), (3 :> 1))
          [] n = 2 -> Sides((1 :> 2), (3 :> 1))
          [] n = 3 -> Sides((1 :> 2), (2 :> 1))
          [] OTHER -> Sides((1 :> 1), (2 :> 2))]

\* The asks vanish and do not come back.
MCNoAsks ==
    [n \in 0 .. MaxId |-> IF n = 0 THEN Sides((1 :> 1), (2 :> 1)) ELSE Sides((1 :> 1), <<>>)]
=============================================================================
