--------------------------- MODULE MCSpotBacktest ---------------------------
(* Values for checking SpotBacktest. *)
EXTENDS SpotBacktest

\* The partial take profit of the settings, or the strategy exit of the
\* pullback research: one of them.
MCConfigs == {[partial |-> TRUE, exit |-> FALSE], [partial |-> FALSE, exit |-> TRUE]}

\* Both at once.
BothConfigs == {[partial |-> TRUE, exit |-> TRUE]}
=============================================================================
