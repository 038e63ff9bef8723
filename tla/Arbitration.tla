----------------------------- MODULE Arbitration -----------------------------
(***************************************************************************)
(* contract-intelligence: a dispute goes through a verifier, two           *)
(* advocates, a tribunal of three judges and, when it was split and an     *)
(* appeal is filed, a supreme court of five (orchestrateDispute), whose    *)
(* verdicts are aggregated by aggregation.ts.                              *)
(*                                                                         *)
(* One action takes a dispute from one call to a language model to the     *)
(* next.  The judges of a panel are called in parallel and see nothing of  *)
(* each other: their verdicts arrive together, whatever their order.       *)
(* Audit records and deadlines are data the pipeline does not read.        *)
(***************************************************************************)
EXTENDS Integers, FiniteSets, Functions

CONSTANTS
    Scale,      \* percentages are whole multiples of 1 / Scale
    Opinions,   \* the [verdict, paymentPct] a judge may return
    None        \* nothing yet

Tribunal == 1..3
SupremeCourt == 1..5
Verdict == {"APPROVE", "DENY", "PARTIAL"}
Percent == 0 .. 100 * Scale

ASSUME ScaleAssumption == Scale \in Nat \ {0}
ASSUME OpinionsAssumption == Opinions \subseteq [verdict: Verdict, paymentPct: Percent]
ASSUME NoneAssumption == /\ None \notin [Tribunal -> Opinions]
                         /\ None \notin [SupremeCourt -> Opinions]
                         /\ None \notin [verdict: Verdict, paymentPct: Percent]

VARIABLES
    phase,      \* state.phase
    fileAppeal, \* params.fileAppeal
    tribunal,   \* state.tribunalResult.verdicts, by judge
    court,      \* state.supremeCourtResult.verdicts, by judge
    outcome,    \* finalVerdict and finalPaymentPct
    error       \* state.error is set: the dispute goes no further

vars == <<phase, fileAppeal, tribunal, court, outcome, error>>

Phase == {"verification", "dispute_window", "advocates", "tribunal",
          "tribunal_decided", "appeal_window", "supreme_court", "final"}

Init ==
    /\ phase = "verification"
    /\ fileAppeal \in BOOLEAN
    /\ tribunal = None
    /\ court = None
    /\ outcome = None
    /\ error = FALSE

-----------------------------------------------------------------------------
(* aggregation.ts                                                          *)

OnApproveSide(opinion) == opinion.verdict \in {"APPROVE", "PARTIAL"}

\* The judges of a panel on the side of a direction.
For(panel, direction) ==
    {j \in DOMAIN panel : OnApproveSide(panel[j]) <=> direction = "APPROVE"}

Against(panel, direction) == DOMAIN panel \ For(panel, direction)

Opposite(direction) == IF direction = "APPROVE" THEN "DENY" ELSE "APPROVE"

\* Mutant: the sum is divided by the size of the panel.
MeanOfPanel(panel, judges) ==
    Scale * (SumFunctionOnSet([j \in judges |-> panel[j].paymentPct], judges)
                \div (Scale * Cardinality(DOMAIN panel)))

\* Mutant: the sum is not divided.
SumOfPercentages(panel, judges) ==
    SumFunctionOnSet([j \in judges |-> panel[j].paymentPct], judges)

\* Math.round of the average percentage: to a whole one, a half up.
RoundedMean(panel, judges) ==
    LET total == SumFunctionOnSet([j \in judges |-> panel[j].paymentPct], judges)
        unit == Scale * Cardinality(judges)
    IN  Scale * ((2 * total + unit) \div (2 * unit))

Direction(panel) ==
    IF Cardinality(For(panel, "APPROVE")) >= 2 THEN "APPROVE" ELSE "DENY"

Unanimous(panel) == Cardinality(For(panel, Direction(panel))) = 3

\* aggregateTribunal
TribunalDecision(panel) ==
    [verdict |-> Direction(panel),
     paymentPct |-> IF Direction(panel) = "APPROVE"
                    THEN RoundedMean(panel, For(panel, "APPROVE")) ELSE 0]

\* Mutant: a simple majority overturns.
OverturnedByMajority(panel, direction) ==
    Cardinality(Against(panel, direction)) >= 3

\* Mutant: only the whole court overturns.
OverturnedUnanimously(panel, direction) ==
    Cardinality(Against(panel, direction)) >= 5

Overturned(panel, direction) == Cardinality(Against(panel, direction)) >= 4

\* aggregateSupremeCourt: overturning pays the average percentage of the
\* judges who overturn, also when they deny.
CourtDecision(panel, decision) ==
    IF Overturned(panel, decision.verdict)
    THEN [verdict |-> Opposite(decision.verdict),
          paymentPct |-> RoundedMean(panel, Against(panel, decision.verdict))]
    ELSE decision

-----------------------------------------------------------------------------
(* orchestrateDispute                                                      *)

Conclude(result) == phase' = "final" /\ outcome' = result

RunVerification ==
    /\ phase = "verification"
    /\ \/ phase' = "dispute_window" /\ UNCHANGED outcome
       \/ Conclude([verdict |-> "DENY", paymentPct |-> 0])
    /\ UNCHANGED <<fileAppeal, tribunal, court, error>>

\* The window is left to the contract: nothing waits for its end.
OpenDispute ==
    /\ phase = "dispute_window"
    /\ phase' = "advocates"
    /\ UNCHANGED <<fileAppeal, tribunal, court, outcome, error>>

RunAdvocates ==
    /\ phase = "advocates"
    /\ phase' = "tribunal"
    /\ UNCHANGED <<fileAppeal, tribunal, court, outcome, error>>

RunTribunal ==
    /\ phase = "tribunal"
    /\ tribunal' \in [Tribunal -> Opinions]
    /\ phase' = "tribunal_decided"
    /\ UNCHANGED <<fileAppeal, court, outcome, error>>

AfterTribunal ==
    /\ phase = "tribunal_decided"
    /\ IF Unanimous(tribunal) THEN Conclude(TribunalDecision(tribunal))
       ELSE phase' = "appeal_window" /\ UNCHANGED outcome
    /\ UNCHANGED <<fileAppeal, tribunal, court, error>>

AfterAppealWindow ==
    /\ phase = "appeal_window"
    /\ IF fileAppeal THEN phase' = "supreme_court" /\ UNCHANGED outcome
       ELSE Conclude(TribunalDecision(tribunal))
    /\ UNCHANGED <<fileAppeal, tribunal, court, error>>

RunSupremeCourt ==
    /\ phase = "supreme_court"
    /\ court' \in [SupremeCourt -> Opinions]
    /\ Conclude(CourtDecision(court', TribunalDecision(tribunal)))
    /\ UNCHANGED <<fileAppeal, tribunal, error>>

\* A call to a model, one judge of a panel, or onPhaseChange throws.
Throw ==
    /\ error' = TRUE
    /\ UNCHANGED <<phase, fileAppeal, tribunal, court, outcome>>

Step ==
    \/ RunVerification \/ OpenDispute \/ RunAdvocates \/ RunTribunal
    \/ AfterTribunal \/ AfterAppealWindow \/ RunSupremeCourt

Next == ~error /\ (Step \/ Throw)

Spec == Init /\ [][Next]_vars

-----------------------------------------------------------------------------
(***************************************************************************)
(* Properties                                                              *)
(***************************************************************************)

\* A panel's verdicts are there exactly when it has sat, and a percentage
\* that is paid is a percentage.
ArbitrationTypeOK ==
    /\ phase \in Phase
    /\ fileAppeal \in BOOLEAN
    /\ tribunal \in [Tribunal -> Opinions] \cup {None}
    /\ court \in [SupremeCourt -> Opinions] \cup {None}
    /\ outcome \in [verdict: Verdict, paymentPct: Percent] \cup {None}
    /\ error \in BOOLEAN

\* layer4-supreme-court.ts:4, "Supermajority (4/5) required to OVERTURN the
\* tribunal decision": an outcome the tribunal did not vote for has four
\* judges of the court behind it.
OverturnNeedsSupermajority ==
    (outcome # None /\ tribunal # None /\ outcome.verdict # Direction(tribunal))
        => court # None /\ Cardinality(For(court, outcome.verdict)) >= 4

\* The two thresholds fit together: of all judges who sat, at least half are
\* on the side of the outcome, however the panels were split.
NoMinorityOutcome ==
    (outcome # None /\ tribunal # None) =>
        LET d == outcome.verdict
            courtFor == IF court = None THEN 0 ELSE Cardinality(For(court, d))
            courtAgainst == IF court = None THEN 0 ELSE Cardinality(Against(court, d))
        IN  Cardinality(For(tribunal, d)) + courtFor
                >= Cardinality(Against(tribunal, d)) + courtAgainst

\* Nobody is paid a share outside what the judges on the winning side named,
\* but for the rounding to whole percentages; a tribunal's DENY pays nothing.
PaymentWithinVotes ==
    (outcome # None /\ outcome.paymentPct # 0) =>
        LET d == outcome.verdict
            panel == IF d = Direction(tribunal) THEN tribunal ELSE court
        IN  /\ \E j \in For(panel, d) :
                  2 * outcome.paymentPct <= 2 * panel[j].paymentPct + Scale
            /\ \E j \in For(panel, d) :
                  2 * outcome.paymentPct >= 2 * panel[j].paymentPct - Scale
=============================================================================
