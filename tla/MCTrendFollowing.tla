-------------------------- MODULE MCTrendFollowing --------------------------
(* Values for checking TrendFollowing. *)
EXTENDS TrendFollowing

MCConfigs ==
    {[market |-> "futures", sides |-> {"LONG", "SHORT"}, defensive |-> TRUE],
     [market |-> "futures", sides |-> {"SHORT"}, defensive |-> FALSE],
     [market |-> "spot", sides |-> {"LONG"}, defensive |-> TRUE]}
=============================================================================
