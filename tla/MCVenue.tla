------------------------------- MODULE MCVenue -------------------------------
(* Values for checking ExecutionVenue. *)
EXTENDS ExecutionVenue

MCConfigs ==
    {[spot |-> TRUE,  rejectRemainder |-> FALSE],
     [spot |-> FALSE, rejectRemainder |-> TRUE]}

MCSpot == {[spot |-> TRUE, rejectRemainder |-> FALSE]}

\* Not crossing with a unit ahead, crossing with one unit, crossing with two
\* levels of one unit, crossing with no level inside the slippage cap.
MCBooks ==
    {[crosses |-> FALSE, levels |-> <<>>,     visible |-> 1],
     [crosses |-> TRUE,  levels |-> <<1>>,    visible |-> 0],
     [crosses |-> TRUE,  levels |-> <<1, 1>>, visible |-> 0],
     [crosses |-> TRUE,  levels |-> <<>>,     visible |-> 0]}
=============================================================================
