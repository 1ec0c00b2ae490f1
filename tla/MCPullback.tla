------------------------------ MODULE MCPullback ------------------------------
(* Values for checking PullbackContinuation. *)
EXTENDS PullbackContinuation

\* The short average is three units from the long one.  A close at 0 crosses the long
\* average, 1 dips too deep, 2 dips well, 3 too little, 4 resumes and 5 has run away.
MCCandle ==
    LET at(close, up, matches, liquid, quiet) ==
            [close |-> IF up THEN close ELSE -close, short |-> IF up THEN 3 ELSE -3,
             trend |-> matches, volume |-> liquid, calm |-> quiet]
    IN  {at(close, up, matches, TRUE, TRUE) :
             close \in 0 .. 5, up \in BOOLEAN, matches \in BOOLEAN}
        \cup {at(4, up, TRUE, liquid, ~ liquid) : up \in BOOLEAN, liquid \in BOOLEAN}
=============================================================================
