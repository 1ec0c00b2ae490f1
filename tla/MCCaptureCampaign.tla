--------------------------- MODULE MCCaptureCampaign ---------------------------
(* Values for checking CaptureCampaign. *)
EXTENDS CaptureCampaign

Outcome(complete, quality, duration) ==
    [complete |-> complete, quality |-> quality, duration |-> duration]

\* How an incomplete capture went does not matter: one stands for all.
MCOutcomes == {Outcome(TRUE, "CLEAN", 1), Outcome(TRUE, "CLEAN", 2),
               Outcome(TRUE, "RESYNCED", 2), Outcome(TRUE, "FAULTY", 2),
               Outcome(FALSE, "CLEAN", 2)}
=============================================================================
