---------------------------- MODULE MCArbitration ----------------------------
(* Opinions of the judges, for TLC.                                        *)
EXTENDS Arbitration, TLC

\* Full and rounded shares, a half percent, and a share named in a DENY.
MCOpinions ==
    {[verdict |-> "APPROVE", paymentPct |-> 200],
     [verdict |-> "PARTIAL", paymentPct |-> 67],
     [verdict |-> "DENY", paymentPct |-> 0],
     [verdict |-> "DENY", paymentPct |-> 61]}
=============================================================================
