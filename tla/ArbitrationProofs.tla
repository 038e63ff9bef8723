-------------------------- MODULE ArbitrationProofs --------------------------
(***************************************************************************)
(* Theorems about Arbitration for any opinions of the judges: how judges   *)
(* are counted, what their rounded mean is, and where an outcome comes     *)
(* from; and what is left of that behind apps/shiva's routes.              *)
(***************************************************************************)
EXTENDS DisputeRoutes, SumLemmas

Panels == [Tribunal -> Opinions] \cup [SupremeCourt -> Opinions]
Directions == {"APPROVE", "DENY"}

-----------------------------------------------------------------------------
(* Counting judges.                                                        *)

\* A panel splits into the judges for and against a direction.
LEMMA PanelSplit ==
    ASSUME NEW n \in Nat, NEW panel \in [1..n -> Opinions], NEW d
    PROVE  /\ Cardinality(For(panel, d)) \in Nat
           /\ Cardinality(Against(panel, d)) = n - Cardinality(For(panel, d))
<1>1. IsFiniteSet(1..n) /\ Cardinality(1..n) = n
  BY FS_Interval
<1>2. For(panel, d) \subseteq 1..n
  BY DEF For
<1>3. IsFiniteSet(For(panel, d)) /\ Cardinality(For(panel, d)) \in Nat
  BY <1>1, <1>2, FS_Subset, FS_CardinalityType
<1>4. (1..n) \cap For(panel, d) = For(panel, d)
  BY <1>2
<1>5. Cardinality((1..n) \ For(panel, d)) =
          Cardinality(1..n) - Cardinality((1..n) \cap For(panel, d))
  BY <1>1, FS_Difference
<1>6. Against(panel, d) = (1..n) \ For(panel, d)
  BY DEF Against
<1> QED BY <1>1, <1>3, <1>4, <1>5, <1>6

\* Who is not for a direction is for the other one.
LEMMA SidesAreOpposite ==
    ASSUME NEW panel, NEW d \in Directions
    PROVE  /\ Opposite(d) \in Directions
           /\ For(panel, Opposite(d)) = Against(panel, d)
           /\ Against(panel, Opposite(d)) = For(panel, d)
BY DEF For, Against, Opposite, Directions

\* A tribunal's direction has two of its three judges.
LEMMA TribunalMajority ==
    ASSUME NEW panel \in [Tribunal -> Opinions]
    PROVE  /\ Direction(panel) \in Directions
           /\ Cardinality(For(panel, Direction(panel))) >= 2
           /\ Cardinality(Against(panel, Direction(panel))) =
                  3 - Cardinality(For(panel, Direction(panel)))
<1>1. /\ Cardinality(For(panel, "APPROVE")) \in Nat
      /\ Cardinality(Against(panel, "APPROVE")) = 3 - Cardinality(For(panel, "APPROVE"))
      /\ Cardinality(For(panel, "DENY")) \in Nat
      /\ Cardinality(Against(panel, "DENY")) = 3 - Cardinality(For(panel, "DENY"))
  BY PanelSplit DEF Tribunal
<1>2. For(panel, "DENY") = Against(panel, "APPROVE")
  BY SidesAreOpposite DEF Opposite, Directions
<1> QED BY <1>1, <1>2 DEF Direction, Directions

-----------------------------------------------------------------------------
(* The mean of some judges of a panel, rounded to a whole percentage.      *)

LEMMA DivisionBounds ==
    ASSUME NEW a \in Int, NEW b \in Nat, b > 0
    PROVE  /\ a \div b \in Int
           /\ b * (a \div b) <= a
           /\ a < b * (a \div b) + b
BY ONLY a \in Int, b \in Nat, b > 0, Z3

Rounded(total, k) == Scale * ((2 * total + Scale * k) \div (2 * (Scale * k)))

\* In natural numbers: k judges whose percentages add up to total.
LEMMA RoundingBounds ==
    ASSUME NEW k \in Nat, k > 0, NEW total \in Int
    PROVE  LET m == Rounded(total, k)
           IN  /\ m \in Int
               /\ k * (2 * m) <= 2 * total + Scale * k
               /\ 2 * total < k * (2 * m) + Scale * k
               /\ (0 <= total /\ total <= k * (100 * Scale)) => m \in Percent
<1> DEFINE unit == Scale * k
           q == (2 * total + unit) \div (2 * unit)
           m == Rounded(total, k)
<1>0. m = Scale * q
  BY DEF Rounded
<1>1. Scale \in Nat /\ Scale > 0
  BY ScaleAssumption
<1>2. unit \in Nat /\ unit > 0
  BY ONLY <1>1, k \in Nat, k > 0, SMT DEF unit
<1> HIDE DEF unit, m
<1>3. 2 * total + unit \in Int /\ 2 * unit \in Nat /\ 2 * unit > 0
  BY <1>2
<1>4. /\ q \in Int
      /\ (2 * unit) * q <= 2 * total + unit
      /\ 2 * total + unit < (2 * unit) * q + 2 * unit
  BY <1>3, DivisionBounds
<1> HIDE DEF q
<1>5. m \in Int
  BY ONLY <1>0, <1>1, <1>4
<1>6. (2 * unit) * q = k * (2 * m)
  BY ONLY <1>0, <1>1, <1>4, k \in Nat, Z3 DEF unit
<1>7. ASSUME 0 <= total, total <= k * (100 * Scale)
      PROVE  m \in Percent
  <2>1. k * (100 * Scale) = 100 * unit
    BY ONLY <1>1, k \in Nat, Z3 DEF unit
  <2>2. q >= 0
    <3>1. SUFFICES ASSUME q <= -1 PROVE FALSE
      BY <1>4
    <3>2. (2 * unit) * q <= (2 * unit) * (-1)
      BY ONLY <1>2, <1>4, <3>1, Z3
    <3> QED BY <1>2, <1>4, <1>7, <3>2
  <2>3. q <= 100
    <3>1. SUFFICES ASSUME q >= 101 PROVE FALSE
      BY <1>4
    <3>2. (2 * unit) * q >= (2 * unit) * 101
      BY ONLY <1>2, <1>4, <3>1, Z3
    <3> QED BY <1>2, <1>4, <1>7, <2>1, <3>2
  <2>4. 0 <= Scale * q /\ Scale * q <= 100 * Scale
    BY ONLY <1>1, <1>4, <2>2, <2>3, Z3
  <2> QED BY <1>0, <1>1, <1>5, <2>4 DEF Percent
<1>8. k * (2 * m) <= 2 * total + unit /\ 2 * total < k * (2 * m) + unit
  BY <1>2, <1>4, <1>6
<1> QED BY <1>5, <1>7, <1>8 DEF unit, m

\* The rounded mean of some judges is a percentage, at most half a percent
\* above what one of them named and at most half a percent below what one of
\* them named.
LEMMA MeanWithin ==
    ASSUME NEW n \in Nat, NEW panel \in [1..n -> Opinions],
           NEW judges \in SUBSET (1..n), judges # {}
    PROVE  LET m == RoundedMean(panel, judges)
           IN  /\ m \in Percent
               /\ \E j \in judges : 2 * m <= 2 * panel[j].paymentPct + Scale
               /\ \E j \in judges : 2 * m >= 2 * panel[j].paymentPct - Scale
<1> DEFINE f == [j \in judges |-> panel[j].paymentPct]
           g == [j \in judges |-> 2 * f[j]]
           total == SumFunctionOnSet(f, judges)
           k == Cardinality(judges)
           m == RoundedMean(panel, judges)
<1>1. IsFiniteSet(judges)
  <2>1. IsFiniteSet(1..n)
    BY FS_Interval
  <2> QED BY <2>1, FS_Subset
<1>2. k \in Nat /\ k > 0
  BY <1>1, FS_CardinalityType, FS_EmptySet
<1>3. \A j \in judges : f[j] \in Percent
  BY OpinionsAssumption
<1>4. Scale \in Nat /\ Scale > 0
  BY ScaleAssumption
<1>5. \A j \in judges : f[j] \in Nat /\ f[j] <= 100 * Scale
  BY <1>3, <1>4 DEF Percent
<1>6. \A j \in judges : g[j] \in Int /\ g[j] = f[j] + f[j] /\ g[j] = 2 * f[j]
  BY <1>5
<1>7. m = Rounded(total, k)
  BY DEF RoundedMean, Rounded
<1>8. \A j \in judges : f[j] = panel[j].paymentPct
  OBVIOUS
<1> HIDE DEF f, g, m, k
<1>9. total \in Nat
  BY <1>1, <1>5, SumNat
<1>10. total <= k * (100 * Scale)
  <2>1. 100 * Scale \in Int /\ \A j \in judges : f[j] \in Int /\ f[j] <= 100 * Scale
    BY <1>4, <1>5
  <2> QED BY <1>1, <2>1, SumBound DEF k
<1>11. SumFunctionOnSet(g, judges) = 2 * total
  <2>1. \A j \in judges : f[j] \in Int /\ f[j] \in Int /\ g[j] = f[j] + f[j]
    BY <1>5, <1>6
  <2>2. SumFunctionOnSet(g, judges) = total + total
    BY <1>1, <2>1, SumAdd
  <2> QED BY <1>9, <2>2
<1> HIDE DEF total
<1>12. /\ m \in Int
       /\ k * (2 * m) <= 2 * total + Scale * k
       /\ 2 * total < k * (2 * m) + Scale * k
       /\ (0 <= total /\ total <= k * (100 * Scale)) => m \in Percent
  BY <1>2, <1>7, <1>9, RoundingBounds
<1>13. m \in Percent
  BY <1>9, <1>10, <1>12
<1>14. \E j \in judges : 2 * m <= 2 * f[j] + Scale
  <2> DEFINE c == 2 * m - Scale - 1
  <2>1. SUFFICES ASSUME \A j \in judges : ~(2 * m <= 2 * f[j] + Scale) PROVE FALSE
    OBVIOUS
  <2>2. c \in Int /\ \A j \in judges : g[j] \in Int /\ g[j] <= c
    BY <1>4, <1>5, <1>6, <1>12, <2>1
  <2> HIDE DEF c
  <2>3. 2 * total <= k * c
    BY <1>1, <1>11, <2>2, SumBound DEF k
  <2>4. k * c = k * (2 * m) - Scale * k - k
    BY ONLY <1>2, <1>4, <1>12, Z3 DEF c
  <2>5. k * (2 * m) \in Int /\ Scale * k \in Int
    BY ONLY <1>2, <1>4, <1>12, SMT
  <2> QED BY ONLY <1>2, <1>9, <1>12, <2>3, <2>4, <2>5
<1>15. \E j \in judges : 2 * m >= 2 * f[j] - Scale
  <2> DEFINE c == 2 * m + Scale + 1
  <2>1. SUFFICES ASSUME \A j \in judges : ~(2 * m >= 2 * f[j] - Scale) PROVE FALSE
    OBVIOUS
  <2>2. c \in Int /\ \A j \in judges : g[j] \in Int /\ g[j] >= c
    BY <1>4, <1>5, <1>6, <1>12, <2>1
  <2> HIDE DEF c
  <2>3. 2 * total >= k * c
    BY <1>1, <1>11, <2>2, SumFloor DEF k
  <2>4. k * c = k * (2 * m) + Scale * k + k
    BY ONLY <1>2, <1>4, <1>12, Z3 DEF c
  <2>5. k * (2 * m) \in Int /\ Scale * k \in Int
    BY ONLY <1>2, <1>4, <1>12, SMT
  <2> QED BY ONLY <1>2, <1>9, <1>12, <2>3, <2>4, <2>5
<1> QED BY <1>8, <1>13, <1>14, <1>15 DEF m

-----------------------------------------------------------------------------
(* Where an outcome comes from.                                            *)

\* The direction the two panels lead to.
CourtDirection(sat, direction) ==
    IF Overturned(sat, direction) THEN Opposite(direction) ELSE direction

\* The outcome two panels lead to; a rejected verification has none.
Decided(t, c) ==
    IF t = None THEN [verdict |-> "DENY", paymentPct |-> 0]
    ELSE IF c = None THEN TribunalDecision(t)
    ELSE CourtDecision(c, TribunalDecision(t))

Before == phase \in {"verification", "dispute_window", "advocates", "tribunal"}

Accounted ==
    /\ tribunal \in [Tribunal -> Opinions] \cup {None}
    /\ court \in [SupremeCourt -> Opinions] \cup {None}
    /\ Before => tribunal = None
    /\ phase # "final" => outcome = None /\ court = None
    /\ ~Before /\ phase # "final" => tribunal # None
    /\ tribunal = None => court = None
    /\ outcome # None => outcome = Decided(tribunal, court)

LEMMA InitAccounted == Init => Accounted
BY DEF Init, Accounted, Before

LEMMA PanelsAreThere ==
    /\ \A p \in [Tribunal -> Opinions] : p # None
    /\ \A p \in [SupremeCourt -> Opinions] : p # None
BY NoneAssumption

LEMMA StepAccounted == Accounted /\ [Next]_vars => Accounted'
<1> SUFFICES ASSUME Accounted, [Next]_vars PROVE Accounted'
  OBVIOUS
<1>1. CASE RunVerification
  BY <1>1 DEF RunVerification, Conclude, Accounted, Before, Decided
<1>2. CASE OpenDispute
  BY <1>2 DEF OpenDispute, Accounted, Before
<1>3. CASE RunAdvocates
  BY <1>3 DEF RunAdvocates, Accounted, Before
<1>4. CASE RunTribunal
  BY <1>4, PanelsAreThere DEF RunTribunal, Accounted, Before
<1>5. CASE AfterTribunal
  <2>1. CASE Unanimous(tribunal)
    BY <1>5, <2>1 DEF AfterTribunal, Conclude, Accounted, Before, Decided
  <2>2. CASE ~Unanimous(tribunal)
    BY <1>5, <2>2 DEF AfterTribunal, Accounted, Before
  <2> QED BY <2>1, <2>2
<1>6. CASE AfterAppealWindow
  <2>1. CASE fileAppeal
    BY <1>6, <2>1 DEF AfterAppealWindow, Accounted, Before
  <2>2. CASE ~fileAppeal
    BY <1>6, <2>2 DEF AfterAppealWindow, Conclude, Accounted, Before, Decided
  <2> QED BY <2>1, <2>2
<1>7. CASE RunSupremeCourt
  <2>1. /\ court' \in [SupremeCourt -> Opinions] /\ court' # None
        /\ outcome' = CourtDecision(court', TribunalDecision(tribunal))
        /\ phase' = "final" /\ UNCHANGED tribunal
    BY <1>7, PanelsAreThere DEF RunSupremeCourt, Conclude
  <2>2. tribunal # None
    BY <1>7 DEF RunSupremeCourt, Accounted, Before
  <2>3. outcome' = Decided(tribunal', court')
    BY <2>1, <2>2 DEF Decided
  <2> QED BY <2>1, <2>2, <2>3 DEF Accounted, Before
<1>8. CASE Throw
  BY <1>8 DEF Throw, Accounted, Before
<1>9. CASE UNCHANGED vars
  BY <1>9 DEF vars, Accounted, Before
<1> QED
  BY <1>1, <1>2, <1>3, <1>4, <1>5, <1>6, <1>7, <1>8, <1>9 DEF Next, Step

LEMMA AccountedInvariant == Spec => []Accounted
<1> QED BY InitAccounted, StepAccounted, PTL DEF Spec

LEMMA OutcomeDirection ==
    ASSUME Accounted, outcome # None, tribunal # None
    PROVE  outcome.verdict = IF court = None THEN Direction(tribunal)
                             ELSE CourtDirection(court, Direction(tribunal))
BY DEF Accounted, Decided, TribunalDecision, CourtDecision, CourtDirection

-----------------------------------------------------------------------------
\* An overturned tribunal has four of five judges of the court against it,
\* whatever the judges say.
LEMMA OverturnCount == Accounted => OverturnNeedsSupermajority
<1> SUFFICES ASSUME Accounted, outcome # None, tribunal # None,
                    outcome.verdict # Direction(tribunal)
             PROVE  court # None /\ Cardinality(For(court, outcome.verdict)) >= 4
  BY DEF OverturnNeedsSupermajority
<1> DEFINE d == Direction(tribunal)
<1>1. court # None /\ outcome.verdict = Opposite(d) /\ Overturned(court, d)
  BY OutcomeDirection DEF CourtDirection
<1>2. d \in Directions
  BY TribunalMajority DEF Accounted
<1>3. For(court, Opposite(d)) = Against(court, d)
  BY <1>2, SidesAreOpposite
<1> QED BY <1>1, <1>3 DEF Overturned

\* The direction of a tribunal can only be turned by four judges of the court.
THEOREM ArbitrationOverturns == Spec => []OverturnNeedsSupermajority
BY OverturnCount, AccountedInvariant, PTL

\* Two of three, and four of five to overturn them: with these thresholds the
\* losing side never has more judges than the winning one.
LEMMA OutcomeCount == Accounted => NoMinorityOutcome
<1> SUFFICES ASSUME Accounted, outcome # None, tribunal # None
             PROVE  NoMinorityOutcome
  BY DEF NoMinorityOutcome
<1> DEFINE d == Direction(tribunal)
           tf == Cardinality(For(tribunal, d))
           cf == Cardinality(For(court, d))
<1>1. tribunal \in [Tribunal -> Opinions]
  BY DEF Accounted
<1>2. d \in Directions /\ tf >= 2 /\ tf \in Nat
      /\ Cardinality(Against(tribunal, d)) = 3 - tf
  BY <1>1, TribunalMajority, PanelSplit DEF Tribunal
<1>3. CASE court = None
  <2>1. outcome.verdict = d
    BY <1>3, OutcomeDirection
  <2> HIDE DEF d
  <2> QED BY <1>2, <1>3, <2>1 DEF NoMinorityOutcome
<1>4. CASE court # None
  <2>1. court \in [SupremeCourt -> Opinions]
    BY <1>4 DEF Accounted
  <2>2. cf \in Nat /\ Cardinality(Against(court, d)) = 5 - cf
    BY <2>1, PanelSplit DEF SupremeCourt
  <2>3. outcome.verdict = CourtDirection(court, d)
    BY <1>4, OutcomeDirection
  <2>4. /\ For(court, Opposite(d)) = Against(court, d)
        /\ Against(court, Opposite(d)) = For(court, d)
        /\ For(tribunal, Opposite(d)) = Against(tribunal, d)
        /\ Against(tribunal, Opposite(d)) = For(tribunal, d)
    BY <1>2, SidesAreOpposite
  <2>5. tf <= 3
    <3>1. Cardinality(Against(tribunal, d)) \in Nat
      BY <1>1, <1>2, <2>4, PanelSplit DEF Tribunal
    <3> QED BY <1>2, <3>1
  <2> HIDE DEF d
  <2>6. CASE Overturned(court, d)
    BY <1>2, <1>4, <2>2, <2>3, <2>4, <2>5, <2>6
       DEF NoMinorityOutcome, CourtDirection, Overturned
  <2>7. CASE ~Overturned(court, d)
    BY <1>2, <1>4, <2>2, <2>3, <2>7
       DEF NoMinorityOutcome, CourtDirection, Overturned
  <2> QED BY <2>6, <2>7
<1> QED BY <1>3, <1>4

\* Half of all judges who sat are behind any outcome, however they vote.
THEOREM ArbitrationNoMinority == Spec => []NoMinorityOutcome
BY OutcomeCount, AccountedInvariant, PTL

-----------------------------------------------------------------------------
(* What is paid.                                                           *)

\* A payment is a percentage within what the judges of the outcome's panel on
\* the outcome's side named.
LEMMA TribunalPays ==
    ASSUME NEW t \in [Tribunal -> Opinions]
    PROVE  LET r == TribunalDecision(t)
               d == Direction(t)
           IN  /\ r.verdict = d
               /\ r.paymentPct \in Percent
               /\ r.paymentPct # 0 =>
                     /\ \E j \in For(t, d) :
                           2 * r.paymentPct <= 2 * t[j].paymentPct + Scale
                     /\ \E j \in For(t, d) :
                           2 * r.paymentPct >= 2 * t[j].paymentPct - Scale
<1>1. CASE Direction(t) = "APPROVE"
  <2>1. Cardinality(For(t, "APPROVE")) >= 2
    BY <1>1, TribunalMajority
  <2>2. For(t, "APPROVE") \in SUBSET (1..3) /\ For(t, "APPROVE") # {}
    BY <2>1, FS_EmptySet DEF For, Tribunal
  <2> DEFINE m == RoundedMean(t, For(t, "APPROVE"))
  <2>3. /\ m \in Percent
        /\ \E j \in For(t, "APPROVE") : 2 * m <= 2 * t[j].paymentPct + Scale
        /\ \E j \in For(t, "APPROVE") : 2 * m >= 2 * t[j].paymentPct - Scale
    BY <2>2, MeanWithin DEF Tribunal
  <2> QED BY <1>1, <2>3 DEF TribunalDecision
<1>2. CASE Direction(t) # "APPROVE"
  BY <1>2, ScaleAssumption DEF TribunalDecision, Percent
<1> QED BY <1>1, <1>2

LEMMA CourtPays ==
    ASSUME NEW c \in [SupremeCourt -> Opinions], NEW d \in Directions,
           Overturned(c, d)
    PROVE  LET m == RoundedMean(c, Against(c, d))
           IN  /\ m \in Percent
               /\ \E j \in Against(c, d) : 2 * m <= 2 * c[j].paymentPct + Scale
               /\ \E j \in Against(c, d) : 2 * m >= 2 * c[j].paymentPct - Scale
<1>1. Against(c, d) \in SUBSET (1..5) /\ Against(c, d) # {}
  BY FS_EmptySet DEF Against, Overturned, SupremeCourt
<1> QED BY <1>1, MeanWithin DEF SupremeCourt

\* The two ways an outcome comes about: the tribunal's decision stands, or four
\* judges of the court replace it.
LEMMA TwoWays ==
    ASSUME Accounted, outcome # None, tribunal # None
    PROVE  \/ outcome = TribunalDecision(tribunal)
           \/ /\ court \in [SupremeCourt -> Opinions]
              /\ Overturned(court, Direction(tribunal))
              /\ outcome = [verdict |-> Opposite(Direction(tribunal)),
                            paymentPct |-> RoundedMean(court,
                                               Against(court, Direction(tribunal)))]
<1>1. TribunalDecision(tribunal).verdict = Direction(tribunal)
  BY DEF TribunalDecision
<1> QED BY <1>1 DEF Accounted, Decided, CourtDecision

LEMMA PaymentCount == Accounted => PaymentWithinVotes
<1> SUFFICES ASSUME Accounted, outcome # None, outcome.paymentPct # 0
             PROVE  PaymentWithinVotes
  BY DEF PaymentWithinVotes
<1>1. tribunal # None /\ tribunal \in [Tribunal -> Opinions]
  BY DEF Accounted, Decided
<1>2. CASE outcome = TribunalDecision(tribunal)
  BY <1>1, <1>2, TribunalPays DEF PaymentWithinVotes
<1>3. CASE outcome # TribunalDecision(tribunal)
  <2> DEFINE d == Direction(tribunal)
             m == RoundedMean(court, Against(court, d))
  <2>1. /\ court \in [SupremeCourt -> Opinions] /\ Overturned(court, d)
        /\ outcome = [verdict |-> Opposite(d), paymentPct |-> m]
    BY <1>1, <1>3, TwoWays
  <2>2. d \in Directions
    BY <1>1, TribunalMajority
  <2>3. For(court, Opposite(d)) = Against(court, d) /\ Opposite(d) # d
    BY <2>2, SidesAreOpposite DEF Opposite, Directions
  <2>4. /\ \E j \in Against(court, d) : 2 * m <= 2 * court[j].paymentPct + Scale
        /\ \E j \in Against(court, d) : 2 * m >= 2 * court[j].paymentPct - Scale
    BY <2>1, <2>2, CourtPays
  <2> HIDE DEF d, m
  <2> QED BY <2>1, <2>3, <2>4 DEF PaymentWithinVotes, d
<1> QED BY <1>2, <1>3

\* What is paid is, up to the rounding to whole percentages, between the least
\* and the most the judges behind it named, for any panels and percentages.
THEOREM ArbitrationPayment == Spec => []PaymentWithinVotes
BY PaymentCount, AccountedInvariant, PTL

Stages == phase \in Phase /\ fileAppeal \in BOOLEAN /\ error \in BOOLEAN

LEMMA StepStages == Stages /\ [Next]_vars => Stages'
BY DEF Stages, Phase, Next, Step, Throw, RunVerification, OpenDispute, RunAdvocates,
       RunTribunal, AfterTribunal, AfterAppealWindow, RunSupremeCourt, Conclude, vars

LEMMA OutcomeType ==
    ASSUME Accounted, outcome # None
    PROVE  outcome \in [verdict: Verdict, paymentPct: Percent]
<1>1. CASE tribunal = None
  BY <1>1, ScaleAssumption DEF Accounted, Decided, Verdict, Percent
<1>2. CASE tribunal # None
  <2>1. tribunal \in [Tribunal -> Opinions] /\ Direction(tribunal) \in Directions
    BY <1>2, TribunalMajority DEF Accounted
  <2>2. CASE outcome = TribunalDecision(tribunal)
    <3>1. TribunalDecision(tribunal).verdict \in Verdict
          /\ TribunalDecision(tribunal).paymentPct \in Percent
      BY <2>1, TribunalPays DEF Directions, Verdict
    <3> QED BY <2>2, <3>1 DEF TribunalDecision
  <2>3. CASE outcome # TribunalDecision(tribunal)
    <3>1. /\ court \in [SupremeCourt -> Opinions]
          /\ Overturned(court, Direction(tribunal))
          /\ outcome = [verdict |-> Opposite(Direction(tribunal)),
                        paymentPct |-> RoundedMean(court,
                                           Against(court, Direction(tribunal)))]
      BY <1>2, <2>3, TwoWays
    <3>2. RoundedMean(court, Against(court, Direction(tribunal))) \in Percent
      BY <2>1, <3>1, CourtPays
    <3>3. Opposite(Direction(tribunal)) \in Verdict
      BY DEF Opposite, Verdict
    <3> QED BY <3>1, <3>2, <3>3
  <2> QED BY <2>2, <2>3
<1> QED BY <1>1, <1>2

\* Every outcome is a verdict and a percentage between 0 and 100, whatever the
\* judges return.
THEOREM ArbitrationTypeCorrect == Spec => []ArbitrationTypeOK
<1>1. Init => Stages
  BY DEF Init, Stages, Phase
<1>2. Accounted /\ Stages => ArbitrationTypeOK
  BY OutcomeType DEF Accounted, Stages, ArbitrationTypeOK
<1> QED BY <1>1, <1>2, StepStages, AccountedInvariant, PTL DEF Spec

-----------------------------------------------------------------------------
(* apps/shiva's routes, where the court always hears of an approval.       *)

\* A denial has four judges of the court behind it, an approval may have two.
RouteThreshold ==
    outcome # None =>
        /\ court \in [SupremeCourt -> Opinions]
        /\ outcome.verdict \in Directions
        /\ Cardinality(For(court, outcome.verdict))
               >= (IF outcome.verdict = "DENY" THEN 4 ELSE 2)

LEMMA AppealThreshold ==
    ASSUME NEW c \in [SupremeCourt -> Opinions],
           NEW given, given.verdict = "APPROVE"
    PROVE  LET r == CourtDecision(c, given)
           IN  /\ r.verdict \in Directions
               /\ Cardinality(For(c, r.verdict)) >= (IF r.verdict = "DENY" THEN 4 ELSE 2)
<1>1. /\ Cardinality(For(c, "APPROVE")) \in Nat
      /\ Cardinality(Against(c, "APPROVE")) = 5 - Cardinality(For(c, "APPROVE"))
      /\ For(c, "DENY") = Against(c, "APPROVE")
  BY PanelSplit, SidesAreOpposite DEF SupremeCourt, Opposite, Directions
<1>2. CASE Overturned(c, "APPROVE")
  <2>1. CourtDecision(c, given).verdict = "DENY"
    BY <1>2 DEF CourtDecision, Opposite
  <2> QED BY <1>1, <1>2, <2>1 DEF Overturned, Directions
<1>3. CASE ~Overturned(c, "APPROVE")
  <2>1. CourtDecision(c, given).verdict = "APPROVE"
    BY <1>3 DEF CourtDecision
  <2> QED BY <1>1, <1>3, <2>1 DEF Overturned, Directions
<1> QED BY <1>2, <1>3

\* The most the appeal route promises, whatever the tribunal decided: four
\* votes for a denial, and two for an approval.
THEOREM RoutesThreshold == RSpec => []RouteThreshold
<1>1. RInit => RouteThreshold
  BY DEF RInit, RouteThreshold
<1>2. RouteThreshold /\ [RNext]_vars => RouteThreshold'
  <2> SUFFICES ASSUME RouteThreshold, [RNext]_vars PROVE RouteThreshold'
    OBVIOUS
  <2>1. CASE FileDispute
    BY <2>1 DEF FileDispute, RouteThreshold
  <2>2. CASE Appeal
    <3>1. PICK bps \in RecordedBps \cup {7000} :
              /\ court' \in [SupremeCourt -> Opinions]
              /\ outcome' = CourtDecision(court', AssumedDecision(bps))
      BY <2>2 DEF Appeal
    <3>2. /\ outcome'.verdict \in Directions
          /\ Cardinality(For(court', outcome'.verdict))
                 >= (IF outcome'.verdict = "DENY" THEN 4 ELSE 2)
      <4>1. AssumedDecision(bps).verdict = "APPROVE"
        BY DEF AssumedDecision
      <4> QED BY <3>1, <4>1, AppealThreshold
    <3>3. court' \in [SupremeCourt -> Opinions]
      BY <3>1
    <3> QED BY <3>2, <3>3 DEF RouteThreshold
  <2>3. CASE UNCHANGED <<court, outcome>>
    BY <2>3 DEF RouteThreshold, For
  <2> QED BY <2>1, <2>2, <2>3 DEF RNext, RunAdvocates, RunTribunal, vars
<1> QED BY <1>1, <1>2, PTL DEF RSpec
=============================================================================
