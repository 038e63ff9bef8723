---------------------------- MODULE DisputeRoutes ----------------------------
(***************************************************************************)
(* The same panels behind apps/shiva's routes: fileDispute runs the        *)
(* advocates and the tribunal itself when the CRE workflow is not there,   *)
(* appeal the supreme court.  Nothing carries the tribunal's decision from *)
(* one to the other.  The variables are those of the milestone's latest    *)
(* dispute, "dispute_window" when there is none yet; error stays FALSE,    *)
(* since a call that throws leaves the dispute as it was.                  *)
(***************************************************************************)
EXTENDS Arbitration

\* The final_payee_bps an earlier finalize may have left: basis points that
\* are a whole number of Scale's fractions of a percent.
CONSTANT RecordedBps

RInit ==
    /\ phase = "dispute_window"
    /\ fileAppeal = TRUE
    /\ tribunal = None
    /\ court = None
    /\ outcome = None
    /\ error = FALSE

\* POST .../dispute, also when there is a dispute already.
FileDispute ==
    /\ phase' = "advocates"
    /\ tribunal' = None
    /\ court' = None
    /\ outcome' = None
    /\ UNCHANGED <<fileAppeal, error>>

\* What appeal passes as the tribunal's decision.
AssumedDecision(finalBps) ==
    [verdict |-> "APPROVE", paymentPct |-> (finalBps * Scale) \div 100]

\* POST .../appeal: whatever the tribunal decided, or whether it has at all.
Appeal ==
    /\ phase # "dispute_window"
    /\ court' \in [SupremeCourt -> Opinions]
    /\ \E finalBps \in RecordedBps \cup {7000} :
          outcome' = CourtDecision(court', AssumedDecision(finalBps))
    /\ UNCHANGED <<phase, fileAppeal, tribunal, error>>

RNext == FileDispute \/ RunAdvocates \/ RunTribunal \/ Appeal

RSpec == RInit /\ [][RNext]_vars
=============================================================================
