--------------------------- MODULE MCCaptureHealth ---------------------------
(* Values for checking CaptureHealth. *)
EXTENDS CaptureHealth

MCStream == {"depth", "aggTrade", "markPrice"}

MCConfig ==
    [depth     |-> [connection |-> "public", periodic |-> FALSE,
                    first |-> 2, stale |-> 1, unresolved |-> 2],
     aggTrade  |-> [connection |-> "market", periodic |-> FALSE,
                    first |-> 2, stale |-> 1, unresolved |-> 2],
     markPrice |-> [connection |-> "market", periodic |-> TRUE,
                    first |-> 1, stale |-> 1, unresolved |-> 2]]

MCRelated ==
    [depth     |-> {"aggTrade"},
     aggTrade  |-> {"depth"},
     markPrice |-> {"depth", "aggTrade"}]
=============================================================================
