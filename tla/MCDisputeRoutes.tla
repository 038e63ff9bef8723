--------------------------- MODULE MCDisputeRoutes ---------------------------
(* Opinions of the judges, for TLC.                                        *)
EXTENDS DisputeRoutes, TLC

MCOpinions ==
    {[verdict |-> "APPROVE", paymentPct |-> 100],
     [verdict |-> "DENY", paymentPct |-> 0]}
=============================================================================
