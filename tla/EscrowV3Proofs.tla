--------------------------- MODULE EscrowV3Proofs ---------------------------
(***************************************************************************)
(* Theorems about EscrowV3 for any milestones, amounts, bonds, windows,    *)
(* inputs and bounds that satisfy its assumptions.  The bookkeeping        *)
(* theorems assume ReleaseOnlyByExecution of the callers of                *)
(* setMilestoneStatus; type correctness does not.                          *)
(***************************************************************************)
EXTENDS EscrowV3, TLAPS

-----------------------------------------------------------------------------
(* Lemmas on the transfers.                                                *)

LEMMA BpsIsNat == \A b \in Bps : b \in Nat
BY DEF Bps

LEMMA DifferenceIsNat ==
    ASSUME NEW a \in Nat, NEW b \in Nat, a <= b
    PROVE  b - a \in Nat
OBVIOUS

LEMMA ShareIsNat ==
    ASSUME NEW d \in Nat, NEW bps \in Nat
    PROVE  (d * bps) \div 10000 \in Nat
<1>1. d * bps \in Nat
  OBVIOUS
<1> QED BY <1>1

LEMMA CreditType ==
    ASSUME NEW w \in [Accounts -> Nat], NEW a \in Accounts, NEW x \in Nat
    PROVE  Credit(w, a, x) \in [Accounts -> Nat]
BY DEF Credit

LEMMA AccountsOfParties ==
    /\ Payer \in Accounts /\ Payee \in Accounts /\ Outside \in Accounts
    /\ Payer \in Parties /\ Payee \in Parties
    /\ BondRecipient \in Accounts
BY DEF Accounts, Parties

\* A pull keeps the balances natural numbers.
LEMMA PullType ==
    ASSUME TypeOK, NEW a \in Accounts, NEW m \in Milestones, NEW x \in Nat,
           Pull(a, m, x)
    PROVE  /\ wallet' \in [Accounts -> Nat]
           /\ balance' \in Nat
           /\ net' \in [Milestones -> Int]
BY DEF Pull, TypeOK

\* The shares of an executable decision are natural numbers.
LEMMA SharesType ==
    ASSUME TypeOK, NEW m \in Milestones, decision[m].extra <= Amount[m],
           PayeeAmount(m) <= Distributable(m)
    PROVE  /\ decision[m].extra \in Nat
           /\ PayeeAmount(m) \in Nat
           /\ PayerAmount(m) \in Nat
<1>1. /\ decision[m].extra \in Nat /\ decision[m].payeeBps \in Nat
      /\ Amount[m] \in Nat
  BY AmountAssumption, BpsIsNat DEF TypeOK, Decision
<1>2. Distributable(m) \in Nat
  BY <1>1, DifferenceIsNat DEF Distributable
<1>3. PayeeAmount(m) \in Nat
  BY <1>1, <1>2, ShareIsNat DEF PayeeAmount
<1>4. PayerAmount(m) \in Nat
  BY <1>2, <1>3, DifferenceIsNat DEF PayerAmount
<1> QED BY <1>1, <1>3, <1>4

\* Everyone executeDecision pays ends with a natural number of tokens.
LEMMA PaidOutType ==
    ASSUME TypeOK, NEW m \in Milestones, decision[m].extra <= Amount[m],
           PayeeAmount(m) <= Distributable(m)
    PROVE  PaidOut(m) \in [Accounts -> Nat]
<1>1. /\ Winner(m) \in Parties /\ Loser(m) \in Parties
      /\ Winner(m) \in Accounts /\ ForfeitTo(m) \in Accounts
  BY AccountsOfParties DEF Winner, Loser, ForfeitTo
<1>2. StakedTotal(m) - staked[m][Loser(m)] \in Nat /\ staked[m][Loser(m)] \in Nat
  <2>1. staked[m][Payer] \in Nat /\ staked[m][Payee] \in Nat
    BY AccountsOfParties DEF TypeOK
  <2>2. Loser(m) = Payer \/ Loser(m) = Payee
    BY DEF Loser
  <2> QED BY <2>1, <2>2 DEF StakedTotal
<1>3. wallet \in [Accounts -> Nat]
  BY DEF TypeOK
<1> DEFINE w1 == Credit(wallet, Outside, decision[m].extra)
           w2 == Credit(w1, Payee, PayeeAmount(m))
           w3 == Credit(w2, Payer, PayerAmount(m))
           w4 == Credit(w3, Winner(m), StakedTotal(m) - staked[m][Loser(m)])
           w5 == Credit(w4, ForfeitTo(m), staked[m][Loser(m)])
<1>4. w1 \in [Accounts -> Nat]
  BY <1>3, CreditType, SharesType, AccountsOfParties
<1>5. w2 \in [Accounts -> Nat]
  <2> HIDE DEF w1
  <2> QED BY <1>4, CreditType, SharesType, AccountsOfParties
<1>6. w3 \in [Accounts -> Nat]
  <2> HIDE DEF w2
  <2> QED BY <1>5, CreditType, SharesType, AccountsOfParties
<1>7. w4 \in [Accounts -> Nat]
  <2> HIDE DEF w3
  <2> QED BY <1>6, <1>1, <1>2, CreditType
<1>8. w5 \in [Accounts -> Nat]
  <2> HIDE DEF w4
  <2> QED BY <1>7, <1>1, <1>2, CreditType
<1> QED BY <1>8 DEF PaidOut

LEMMA OutflowType ==
    ASSUME TypeOK, NEW m \in Milestones
    PROVE  /\ StakedTotal(m) \in Nat
           /\ Outflow(m) \in Nat
BY AccountsOfParties, AmountAssumption DEF TypeOK, StakedTotal, Outflow

-----------------------------------------------------------------------------
(* Type correctness, action by action, for any caller of any function.     *)

LEMMA InitType == Init => TypeOK
<1> SUFFICES ASSUME Init PROVE TypeOK
  OBVIOUS
<1>1. ms \in [Milestones -> Milestone]
  BY DEF Init, Milestone, Status
<1>2. decision \in [Milestones -> Decision]
  BY DEF Init, Decision, Bps
<1>3. /\ staked \in [Milestones -> [Parties -> Nat]]
      /\ balance \in Nat /\ now \in Nat
      /\ net \in [Milestones -> Int]
  BY DEF Init
<1>4. wallet \in [Accounts -> Nat]
  BY InputAssumption DEF Init
<1>5. verdicts \in [Milestones -> Seq(Verdict)]
  BY DEF Init
<1> QED BY <1>1, <1>2, <1>3, <1>4, <1>5 DEF TypeOK

LEMMA FundType ==
    ASSUME TypeOK, NEW m \in Milestones, FundMilestone(m)
    PROVE  TypeOK'
<1>1. Payer \in Accounts /\ Amount[m] \in Nat /\ Pull(Payer, m, Amount[m])
  BY AccountsOfParties, AmountAssumption DEF FundMilestone
<1>2. wallet' \in [Accounts -> Nat] /\ balance' \in Nat /\ net' \in [Milestones -> Int]
  BY <1>1, PullType
<1>3. ms' \in [Milestones -> Milestone]
  BY DEF FundMilestone, TypeOK, Milestone, Status
<1> QED BY <1>2, <1>3 DEF FundMilestone, TypeOK

LEMMA LockType ==
    ASSUME TypeOK, NEW m \in Milestones, Lock(m)
    PROVE  ms' \in [Milestones -> Milestone]
BY DEF Lock, TypeOK, Milestone, Status

LEMMA LockMilestoneType ==
    ASSUME TypeOK, NEW m \in Milestones, LockMilestone(m)
    PROVE  TypeOK'
<1>1. ms' \in [Milestones -> Milestone]
  BY LockType DEF LockMilestone, Lockable
<1> QED BY <1>1 DEF LockMilestone, Lockable, TypeOK

LEMMA DisputeType ==
    ASSUME TypeOK, NEW m \in Milestones, NEW p \in Parties, DisputeWithBond(m, p)
    PROVE  TypeOK'
<1>1. p \in Accounts /\ DisputeBond \in Nat /\ Pull(p, m, DisputeBond)
  BY BondAssumption DEF DisputeWithBond, Accounts
<1>2. wallet' \in [Accounts -> Nat] /\ balance' \in Nat /\ net' \in [Milestones -> Int]
  BY <1>1, PullType
<1>3. ms' \in [Milestones -> Milestone]
  BY LockType DEF DisputeWithBond
<1>4. staked' \in [Milestones -> [Parties -> Nat]]
  BY BondAssumption DEF DisputeWithBond, TypeOK
<1> QED BY <1>2, <1>3, <1>4 DEF DisputeWithBond, TypeOK

LEMMA AppealType ==
    ASSUME TypeOK, NEW m \in Milestones, NEW p \in Parties, AppealWithBond(m, p)
    PROVE  TypeOK'
<1>1. p \in Accounts /\ AppealBond \in Nat /\ Pull(p, m, AppealBond)
  BY BondAssumption DEF AppealWithBond, Accounts
<1>2. wallet' \in [Accounts -> Nat] /\ balance' \in Nat /\ net' \in [Milestones -> Int]
  BY <1>1, PullType
<1>3. staked' \in [Milestones -> [Parties -> Nat]]
  BY BondAssumption DEF AppealWithBond, TypeOK
<1>4. verdicts' \in [Milestones -> Seq(Verdict)]
  <2> DEFINE i == Len(verdicts[m])
             v == [verdicts[m] EXCEPT ![i].appealed = TRUE]
  <2>1. verdicts[m] \in Seq(Verdict) /\ verdicts[m] # <<>>
    BY DEF TypeOK, AppealWithBond
  <2>2. i \in 1..Len(verdicts[m]) /\ verdicts[m][i] \in Verdict
    BY <2>1
  <2>3. [verdicts[m][i] EXCEPT !.appealed = TRUE] \in Verdict
    BY <2>2 DEF Verdict
  <2>4. v \in Seq(Verdict)
    BY <2>1, <2>2, <2>3
  <2>5. verdicts' = [verdicts EXCEPT ![m] = v]
    BY DEF AppealWithBond, TypeOK
  <2> QED BY <2>4, <2>5 DEF TypeOK
<1> QED BY <1>2, <1>3, <1>4 DEF AppealWithBond, TypeOK

LEMMA VerdictType ==
    ASSUME TypeOK, NEW m \in Milestones, NEW bps \in BpsInputs,
           NEW appealed \in BOOLEAN, RecordVerdict(m, bps, appealed)
    PROVE  TypeOK'
<1>1. [payeeBps |-> bps, timestamp |-> now, appealed |-> appealed] \in Verdict
  BY DEF RecordVerdict, TypeOK, Verdict
<1>2. verdicts' \in [Milestones -> Seq(Verdict)]
  BY <1>1 DEF RecordVerdict, TypeOK
<1> QED BY <1>2 DEF RecordVerdict, TypeOK

LEMMA StatusType ==
    ASSUME TypeOK, NEW m \in Milestones, NEW s \in Status, SetMilestoneStatus(m, s)
    PROVE  TypeOK'
<1>1. now + DisputeWindow \in Nat
  BY WindowAssumption DEF TypeOK
<1> DEFINE end == IF s = "APPROVED" /\ ms[m].disputeWindowEnd = 0
                   THEN now + DisputeWindow ELSE ms[m].disputeWindowEnd
<1>2. end \in Nat
  BY <1>1 DEF TypeOK, Milestone
<1>3. ms' = [ms EXCEPT ![m].status = s, ![m].disputeWindowEnd = end]
  BY DEF SetMilestoneStatus
<1>4. ms' \in [Milestones -> Milestone]
  <2> HIDE DEF end
  <2> QED BY <1>2, <1>3 DEF TypeOK, Milestone
<1> QED BY <1>4 DEF SetMilestoneStatus, TypeOK

LEMMA DecisionType ==
    ASSUME TypeOK, NEW m \in Milestones, NEW bps \in BpsInputs,
           NEW extra \in ExtraInputs, NEW payable \in BOOLEAN,
           SetDecision(m, bps, extra, payable)
    PROVE  TypeOK'
<1>1. extra \in Nat
  BY InputAssumption
<1>2. [isSet |-> TRUE, payeeBps |-> bps, extra |-> extra, payable |-> payable]
            \in Decision
  BY <1>1 DEF SetDecision, Decision
<1>3. decision' \in [Milestones -> Decision]
  BY <1>2 DEF SetDecision, TypeOK
<1> QED BY <1>3 DEF SetDecision, TypeOK

LEMMA ExecuteType ==
    ASSUME TypeOK, NEW m \in Milestones, ExecuteDecision(m)
    PROVE  TypeOK'
<1>1. wallet' \in [Accounts -> Nat]
  BY PaidOutType DEF ExecuteDecision, Executable, SettleBonds
<1>2. balance' \in Nat
  BY OutflowType DEF ExecuteDecision, Executable, SettleBonds, TypeOK
<1>3. net' \in [Milestones -> Int]
  BY OutflowType DEF ExecuteDecision, Executable, SettleBonds, TypeOK
<1>4. ms' \in [Milestones -> Milestone]
  BY AmountAssumption DEF ExecuteDecision, Executable, SettleBonds, TypeOK, Milestone, Status
<1>5. staked' \in [Milestones -> [Parties -> Nat]]
  BY DEF ExecuteDecision, Executable, SettleBonds, TypeOK
<1> QED BY <1>1, <1>2, <1>3, <1>4, <1>5 DEF ExecuteDecision, Executable, SettleBonds, TypeOK

\* Every function keeps the contract's storage well typed, in any order and by
\* any caller, and no transfer takes more than its source holds.
THEOREM TypeCorrect == Spec => []TypeOK
<1>1. Init => TypeOK
  BY InitType
<1>2. TypeOK /\ [Next]_vars => TypeOK'
  <2> SUFFICES ASSUME TypeOK, [Next]_vars PROVE TypeOK'
    OBVIOUS
  <2>1. ASSUME NEW m \in Milestones, PartyNext(m) PROVE TypeOK'
    BY <2>1, FundType, DisputeType, AppealType DEF PartyNext
  <2>2. ASSUME NEW m \in Milestones, ExecutorNext(m) PROVE TypeOK'
    BY <2>2, LockMilestoneType, VerdictType, StatusType, DecisionType, ExecuteType
    DEF ExecutorNext
  <2>3. CASE Tick
    BY <2>3 DEF Tick, TypeOK
  <2>4. CASE UNCHANGED vars
    BY <2>4 DEF vars, TypeOK
  <2> QED BY <2>1, <2>2, <2>3, <2>4 DEF Next
<1> QED BY <1>1, <1>2, PTL DEF Spec

-----------------------------------------------------------------------------
(* The books.  FullyBacked and NoStrandedBond are disturbed by the same    *)
(* steps, so one lemma per action carries both; together they say that     *)
(* a payout leaves the vault of its milestone empty.                       *)

Books == TypeOK /\ FullyBacked /\ NoStrandedBond

\* A milestone whose own state did not change keeps its books.
BooksOf(m) == /\ net[m] = Owed(m)
              /\ ms[m].status = "RELEASED" => StakedTotal(m) = 0

LEMMA BooksByMilestone ==
    Books <=> TypeOK /\ \A m \in Milestones : BooksOf(m)
BY DEF Books, BooksOf, FullyBacked, NoStrandedBond

LEMMA Frame ==
    ASSUME NEW k \in Milestones, BooksOf(k), ms'[k] = ms[k], net'[k] = net[k],
           staked'[k] = staked[k]
    PROVE  BooksOf(k)'
BY DEF BooksOf, Owed, StakedTotal

LEMMA FundBooks ==
    ASSUME Books, NEW m \in Milestones, FundMilestone(m), NEW k \in Milestones
    PROVE  BooksOf(k)'
<1>1. BooksOf(k)
  BY BooksByMilestone
<1>2. CASE k # m
  BY <1>1, <1>2, Frame DEF FundMilestone, Pull, Books, TypeOK
<1>3. CASE k = m
  <2>1. Amount[m] \in Nat /\ StakedTotal(m) \in Nat
    BY AmountAssumption, OutflowType DEF Books
  <2>2. StakedTotal(m)' = StakedTotal(m)
    BY DEF FundMilestone, StakedTotal
  <2>3. net'[m] = net[m] + Amount[m]
    BY DEF FundMilestone, Pull, Books, TypeOK
  <2>4. net[m] = StakedTotal(m)
    BY <1>1, <1>3, <2>1 DEF BooksOf, Owed, FundMilestone
  <2>5. ms'[m].funded /\ ms'[m].status = "FUNDED"
    BY DEF FundMilestone, Books, TypeOK, Milestone
  <2> QED BY <1>3, <2>1, <2>2, <2>3, <2>4, <2>5 DEF BooksOf, Owed
<1> QED BY <1>2, <1>3

\* A bond pulled for a milestone that is not released raises net and what is
\* owed alike.
LEMMA BondBooks ==
    ASSUME Books, NEW m \in Milestones, NEW p \in Parties, NEW x \in Nat,
           Pull(p, m, x), staked' = [staked EXCEPT ![m][p] = @ + x],
           ms[m].status # "RELEASED", ms'[m].status # "RELEASED",
           ms'[m].funded = ms[m].funded
    PROVE  BooksOf(m)'
<1>1. BooksOf(m)
  BY BooksByMilestone
<1>2. StakedTotal(m)' = StakedTotal(m) + x
  <2>1. staked[m] \in [Parties -> Nat]
    BY DEF Books, TypeOK
  <2>2. staked'[m] = [staked[m] EXCEPT ![p] = @ + x]
    BY DEF Books, TypeOK
  <2>3. CASE p = Payer
    BY <2>1, <2>2, <2>3, AccountsOfParties DEF StakedTotal
  <2>4. CASE p = Payee
    BY <2>1, <2>2, <2>4, AccountsOfParties DEF StakedTotal
  <2> QED BY <2>3, <2>4 DEF Parties
<1>3. net'[m] = net[m] + x
  BY DEF Pull, Books, TypeOK
<1>4. Amount[m] \in Nat /\ StakedTotal(m) \in Nat
  BY AmountAssumption, OutflowType DEF Books
<1> QED BY <1>1, <1>2, <1>3, <1>4 DEF BooksOf, Owed

LEMMA DisputeBooks ==
    ASSUME Books, NEW m \in Milestones, NEW p \in Parties, DisputeWithBond(m, p),
           NEW k \in Milestones
    PROVE  BooksOf(k)'
<1>1. CASE k # m
  <2>1. BooksOf(k)
    BY BooksByMilestone
  <2> QED BY <1>1, <2>1, Frame DEF DisputeWithBond, Lock, Pull, Books, TypeOK
<1>2. CASE k = m
  <2>1. ms[m].status # "RELEASED"
    BY DEF DisputeWithBond
  <2>2. ms'[m].status = "DISPUTED" /\ ms'[m].funded = ms[m].funded
    BY DEF DisputeWithBond, Lock, Books, TypeOK, Milestone
  <2>3. DisputeBond \in Nat
    BY BondAssumption
  <2> QED BY <1>2, <2>1, <2>2, <2>3, BondBooks DEF DisputeWithBond
<1> QED BY <1>1, <1>2

LEMMA AppealBooks ==
    ASSUME Books, NEW m \in Milestones, NEW p \in Parties, AppealWithBond(m, p),
           NEW k \in Milestones
    PROVE  BooksOf(k)'
<1>1. CASE k # m
  <2>1. BooksOf(k)
    BY BooksByMilestone
  <2> QED BY <1>1, <2>1, Frame DEF AppealWithBond, Pull, Books, TypeOK
<1>2. CASE k = m
  <2>1. AppealBond \in Nat /\ ms[m].status # "RELEASED" /\ ms' = ms
    BY BondAssumption DEF AppealWithBond
  <2> QED BY <1>2, <2>1, BondBooks DEF AppealWithBond
<1> QED BY <1>1, <1>2

LEMMA LockBooks ==
    ASSUME Books, NEW m \in Milestones, LockMilestone(m), NEW k \in Milestones
    PROVE  BooksOf(k)'
<1>1. BooksOf(k)
  BY BooksByMilestone
<1>2. CASE k # m
  BY <1>1, <1>2, Frame DEF LockMilestone, Lockable, Lock, Books, TypeOK
<1>3. CASE k = m
  <2>1. ms[m].status # "RELEASED"
    BY DEF LockMilestone, Lockable
  <2>2. ms'[m].status = "DISPUTED" /\ ms'[m].funded = ms[m].funded
    BY DEF LockMilestone, Lockable, Lock, Books, TypeOK, Milestone
  <2> QED BY <1>1, <1>3, <2>1, <2>2 DEF LockMilestone, Lockable, BooksOf, Owed, StakedTotal
<1> QED BY <1>2, <1>3

LEMMA StatusBooks ==
    ASSUME ReleaseOnlyByExecution, Books, NEW m \in Milestones, NEW s \in Status,
           SetMilestoneStatus(m, s), NEW k \in Milestones
    PROVE  BooksOf(k)'
<1>1. BooksOf(k)
  BY BooksByMilestone
<1>2. CASE k # m
  BY <1>1, <1>2, Frame DEF SetMilestoneStatus, Books, TypeOK
<1>3. CASE k = m
  <2>1. ms[m].status = "RELEASED" <=> s = "RELEASED"
    BY DEF SetMilestoneStatus, ReleaseOnlyByExecution
  <2>2. ms'[m].status = s /\ ms'[m].funded = ms[m].funded
    BY DEF SetMilestoneStatus, Books, TypeOK, Milestone
  <2> QED BY <1>1, <1>3, <2>1, <2>2
      DEF SetMilestoneStatus, BooksOf, Owed, StakedTotal
<1> QED BY <1>2, <1>3

LEMMA ExecuteBooks ==
    ASSUME Books, NEW m \in Milestones, ExecuteDecision(m), NEW k \in Milestones
    PROVE  BooksOf(k)'
<1>1. BooksOf(k)
  BY BooksByMilestone
<1>2. CASE k # m
  BY <1>1, <1>2, Frame DEF ExecuteDecision, Executable, SettleBonds, Books, TypeOK
<1>3. CASE k = m
  <2>1. net[m] = Outflow(m)
    BY <1>1, <1>3 DEF BooksOf, Owed, Outflow, ExecuteDecision, Executable, SettleBonds
  <2>2. Outflow(m) \in Nat
    BY OutflowType DEF Books
  <2>3. net'[m] = 0
    BY <2>1, <2>2 DEF ExecuteDecision, Executable, SettleBonds, Books, TypeOK
  <2>4. StakedTotal(m)' = 0
    BY AccountsOfParties DEF ExecuteDecision, Executable, SettleBonds, StakedTotal, Books, TypeOK
  <2>5. ms'[m].status = "RELEASED"
    BY DEF ExecuteDecision, Executable, SettleBonds, Books, TypeOK, Milestone
  <2> QED BY <1>3, <2>3, <2>4, <2>5 DEF BooksOf, Owed
<1> QED BY <1>2, <1>3

LEMMA BooksStep ==
    ASSUME ReleaseOnlyByExecution, Books, [Next]_vars
    PROVE  /\ \A k \in Milestones : BooksOf(k)'
<1> SUFFICES ASSUME NEW k \in Milestones PROVE BooksOf(k)'
  OBVIOUS
<1>1. ASSUME NEW m \in Milestones, PartyNext(m) PROVE BooksOf(k)'
  BY <1>1, FundBooks, DisputeBooks, AppealBooks DEF PartyNext
<1>2. ASSUME NEW m \in Milestones, ExecutorNext(m) PROVE BooksOf(k)'
  <2>1. CASE LockMilestone(m)
    BY <2>1, LockBooks
  <2>2. CASE \E bps \in BpsInputs, appealed \in BOOLEAN :
                RecordVerdict(m, bps, appealed)
    BY <2>2, BooksByMilestone, Frame DEF RecordVerdict
  <2>3. CASE \E s \in Status : SetMilestoneStatus(m, s)
    BY <2>3, StatusBooks
  <2>4. CASE \E bps \in BpsInputs, extra \in ExtraInputs, payable \in BOOLEAN :
                SetDecision(m, bps, extra, payable)
    BY <2>4, BooksByMilestone, Frame DEF SetDecision
  <2>5. CASE ExecuteDecision(m)
    BY <2>5, ExecuteBooks
  <2> QED BY <1>2, <2>1, <2>2, <2>3, <2>4, <2>5 DEF ExecutorNext
<1>3. CASE Tick
  BY <1>3, BooksByMilestone, Frame DEF Tick
<1>4. CASE UNCHANGED vars
  BY <1>4, BooksByMilestone, Frame DEF vars
<1> QED BY <1>1, <1>2, <1>3, <1>4 DEF Next

LEMMA InitBooks == Init => Books
<1> SUFFICES ASSUME Init PROVE \A m \in Milestones : BooksOf(m)
  BY InitType, BooksByMilestone
<1> SUFFICES ASSUME NEW m \in Milestones PROVE BooksOf(m)
  OBVIOUS
<1>1. StakedTotal(m) = 0
  BY AccountsOfParties DEF Init, StakedTotal
<1>2. net[m] = 0 /\ ~ms[m].funded
  BY DEF Init
<1> QED BY <1>1, <1>2 DEF BooksOf, Owed

LEMMA BooksInvariant ==
    ASSUME ReleaseOnlyByExecution
    PROVE  Spec => []Books
<1>1. Init => Books
  BY InitBooks
<1>2. TypeOK' /\ Books /\ [Next]_vars => Books'
  <2> SUFFICES ASSUME TypeOK', Books, [Next]_vars PROVE Books'
    OBVIOUS
  <2>1. \A k \in Milestones : BooksOf(k)'
    BY BooksStep
  <2> QED BY <2>1 DEF Books, BooksOf, FullyBacked, NoStrandedBond
<1> QED BY <1>1, <1>2, TypeCorrect, PTL DEF Spec

\* No payout of executeDecision is ever drawn on another milestone's tokens:
\* what came in for a milestone minus what went out is exactly what is owed.
THEOREM EscrowFullyBacked ==
    ASSUME ReleaseOnlyByExecution
    PROVE  Spec => []FullyBacked
<1>1. Books => FullyBacked
  BY DEF Books
<1> QED BY <1>1, BooksInvariant, PTL

\* _settleBonds leaves no bond behind on a released milestone, and no later
\* dispute or appeal can add one.
THEOREM EscrowNoStrandedBond ==
    ASSUME ReleaseOnlyByExecution
    PROVE  Spec => []NoStrandedBond
<1>1. Books => NoStrandedBond
  BY DEF Books
<1> QED BY <1>1, BooksInvariant, PTL

-----------------------------------------------------------------------------
(* Released is final.                                                      *)

LEMMA ReleasedUntouched ==
    ASSUME ReleaseOnlyByExecution, TypeOK, Next, NEW k \in Milestones,
           ms[k].status = "RELEASED"
    PROVE  Untouched(k)
<1>1. ASSUME NEW m \in Milestones, PartyNext(m) PROVE Untouched(k)
  <2>1. CASE FundMilestone(m)
    BY <2>1 DEF FundMilestone, Pull, Untouched, TypeOK
  <2>2. ASSUME NEW p \in Parties, DisputeWithBond(m, p) PROVE Untouched(k)
    BY <2>2 DEF DisputeWithBond, Lock, Pull, Untouched, TypeOK
  <2>3. ASSUME NEW p \in Parties, AppealWithBond(m, p) PROVE Untouched(k)
    BY <2>3 DEF AppealWithBond, Pull, Untouched, TypeOK
  <2> QED BY <1>1, <2>1, <2>2, <2>3 DEF PartyNext
<1>2. ASSUME NEW m \in Milestones, ExecutorNext(m) PROVE Untouched(k)
  <2>1. CASE LockMilestone(m)
    BY <2>1 DEF LockMilestone, Lockable, Lock, Untouched, TypeOK
  <2>2. CASE \E bps \in BpsInputs, appealed \in BOOLEAN :
                RecordVerdict(m, bps, appealed)
    BY <2>2 DEF RecordVerdict, Untouched
  <2>3. ASSUME NEW s \in Status, SetMilestoneStatus(m, s) PROVE Untouched(k)
    <3>1. CASE k # m
      BY <2>3, <3>1 DEF SetMilestoneStatus, Untouched, TypeOK
    <3>2. CASE k = m
      <4>1. s = "RELEASED"
        BY <2>3, <3>2 DEF SetMilestoneStatus, ReleaseOnlyByExecution
      <4>2. ms'[m] = [ms[m] EXCEPT !.status = "RELEASED",
                                   !.disputeWindowEnd = @]
        BY <2>3, <4>1 DEF SetMilestoneStatus, TypeOK
      <4>3. ms[m] \in Milestone
        BY DEF TypeOK
      <4>4. ms'[m] = ms[m]
        BY <3>2, <4>2, <4>3 DEF Milestone
      <4> QED BY <2>3, <3>2, <4>4 DEF SetMilestoneStatus, Untouched
    <3> QED BY <3>1, <3>2
  <2>4. CASE \E bps \in BpsInputs, extra \in ExtraInputs, payable \in BOOLEAN :
                SetDecision(m, bps, extra, payable)
    BY <2>4 DEF SetDecision, Untouched
  <2>5. CASE ExecuteDecision(m)
    BY <2>5 DEF ExecuteDecision, Executable, SettleBonds, Untouched, TypeOK
  <2> QED BY <1>2, <2>1, <2>2, <2>3, <2>4, <2>5 DEF ExecutorNext
<1>3. CASE Tick
  BY <1>3 DEF Tick, Untouched
<1> QED BY <1>1, <1>2, <1>3 DEF Next

\* Once executeDecision has paid a milestone, no call in any order changes the
\* milestone or moves a token on its behalf again.
THEOREM EscrowReleaseIsFinal ==
    ASSUME ReleaseOnlyByExecution
    PROVE  Spec => ReleaseIsFinal
<1>1. TypeOK /\ [Next]_vars => [LeavesReleased]_vars
  BY ReleasedUntouched DEF LeavesReleased
<1> QED BY <1>1, TypeCorrect, PTL DEF Spec, ReleaseIsFinal

-----------------------------------------------------------------------------
(* Refinement: the escrow implements one vault per milestone.              *)

LEMMA VaultInit == Init => Vault!Init
<1> SUFFICES ASSUME Init PROVE Vault!Init
  OBVIOUS
<1>1. \A m \in Milestones : (ms[m].status = "RELEASED") = FALSE
  BY DEF Init
<1>2. [m \in Milestones |-> ms[m].status = "RELEASED"] = [m \in Milestones |-> FALSE]
  BY <1>1, Zenon
<1> QED BY <1>2 DEF Init, Vault!Init

\* While a milestone is open, what it gains is a deposit; releasing it empties
\* its vault.
VaultDeposit(m) == /\ ms[m].status # "RELEASED" /\ ms'[m].status # "RELEASED"
                   /\ net'[m] >= net[m]
                   /\ net' = [net EXCEPT ![m] = net'[m]]
                   /\ \A k \in Milestones \ {m} : ms'[k] = ms[k]

VaultPayOut(m) == /\ ms[m].status # "RELEASED" /\ ms'[m].status = "RELEASED"
                  /\ net' = [net EXCEPT ![m] = 0]
                  /\ \A k \in Milestones \ {m} : ms'[k] = ms[k]

VaultIdle == /\ net' = net
             /\ \A k \in Milestones :
                    ms'[k].status = "RELEASED" <=> ms[k].status = "RELEASED"

LEMMA VaultDepositStep ==
    ASSUME NEW m \in Milestones, VaultDeposit(m)
    PROVE  Vault!Deposit(m)
BY DEF VaultDeposit, Vault!Deposit

LEMMA VaultPayOutStep ==
    ASSUME NEW m \in Milestones, VaultPayOut(m)
    PROVE  Vault!PayOutAll(m)
BY DEF VaultPayOut, Vault!PayOutAll

LEMMA VaultIdleStep ==
    ASSUME VaultIdle
    PROVE  UNCHANGED Vault!vars
BY DEF VaultIdle, Vault!vars

LEMMA PullGrows ==
    ASSUME TypeOK, NEW a \in Accounts, NEW m \in Milestones, NEW x \in Nat,
           Pull(a, m, x)
    PROVE  /\ net'[m] >= net[m]
           /\ net' = [net EXCEPT ![m] = net'[m]]
BY DEF Pull, TypeOK

LEMMA VaultStep ==
    ASSUME ReleaseOnlyByExecution, Books, Next
    PROVE  \/ \E m \in Milestones : VaultDeposit(m) \/ VaultPayOut(m)
           \/ VaultIdle
<1>0. TypeOK
  BY DEF Books
<1>1. ASSUME NEW m \in Milestones, FundMilestone(m) PROVE VaultDeposit(m)
  <2>1. net'[m] >= net[m] /\ net' = [net EXCEPT ![m] = net'[m]]
    BY <1>0, <1>1, PullGrows, AccountsOfParties, AmountAssumption DEF FundMilestone
  <2> QED BY <1>0, <1>1, <2>1 DEF FundMilestone, VaultDeposit, TypeOK, Milestone
<1>2. ASSUME NEW m \in Milestones, NEW p \in Parties, DisputeWithBond(m, p)
      PROVE  VaultDeposit(m)
  <2>1. p \in Accounts /\ DisputeBond \in Nat /\ Pull(p, m, DisputeBond)
    BY <1>2, BondAssumption DEF DisputeWithBond, Accounts
  <2>2. net'[m] >= net[m] /\ net' = [net EXCEPT ![m] = net'[m]]
    BY <1>0, <2>1, PullGrows
  <2> QED BY <1>0, <1>2, <2>2
      DEF DisputeWithBond, Lock, VaultDeposit, TypeOK, Milestone
<1>3. ASSUME NEW m \in Milestones, NEW p \in Parties, AppealWithBond(m, p)
      PROVE  VaultDeposit(m)
  <2>1. p \in Accounts /\ AppealBond \in Nat /\ Pull(p, m, AppealBond)
    BY <1>3, BondAssumption DEF AppealWithBond, Accounts
  <2>2. net'[m] >= net[m] /\ net' = [net EXCEPT ![m] = net'[m]]
    BY <1>0, <2>1, PullGrows
  <2> QED BY <1>0, <1>3, <2>2 DEF AppealWithBond, VaultDeposit
<1>4. ASSUME NEW m \in Milestones, LockMilestone(m) PROVE VaultIdle
  BY <1>0, <1>4 DEF LockMilestone, Lockable, Lock, VaultIdle, TypeOK, Milestone
<1>5. ASSUME NEW m \in Milestones, NEW s \in Status, SetMilestoneStatus(m, s)
      PROVE  VaultIdle
  <2>1. ms[m].status = "RELEASED" <=> s = "RELEASED"
    BY <1>5 DEF SetMilestoneStatus, ReleaseOnlyByExecution
  <2> QED BY <1>0, <1>5, <2>1 DEF SetMilestoneStatus, VaultIdle, TypeOK, Milestone
<1>6. ASSUME NEW m \in Milestones, ExecuteDecision(m) PROVE VaultPayOut(m)
  <2>1. BooksOf(m)'
    BY <1>6, ExecuteBooks
  <2>2. ms'[m].status = "RELEASED"
    BY <1>0, <1>6 DEF ExecuteDecision, Executable, SettleBonds, TypeOK, Milestone
  <2>3. StakedTotal(m)' = 0
    BY <2>1, <2>2 DEF BooksOf
  <2>4. net'[m] = 0
    BY <2>1, <2>2, <2>3 DEF BooksOf, Owed
  <2> QED BY <1>0, <1>6, <2>2, <2>4 DEF ExecuteDecision, Executable, SettleBonds, VaultPayOut, TypeOK
<1>7. ASSUME NEW m \in Milestones, PartyNext(m)
      PROVE  VaultDeposit(m)
  BY <1>1, <1>2, <1>3, <1>7 DEF PartyNext
<1>8. ASSUME NEW m \in Milestones, ExecutorNext(m)
      PROVE  VaultPayOut(m) \/ VaultIdle
  BY <1>4, <1>5, <1>6, <1>8 DEF ExecutorNext, RecordVerdict, SetDecision, VaultIdle
<1>9. CASE Tick
  BY <1>9 DEF Tick, VaultIdle
<1> QED BY <1>7, <1>8, <1>9 DEF Next

\* The escrow, with its disputes, verdicts, appeals, bonds and clock, is for
\* every milestone a vault that fills while open and is emptied exactly once.
THEOREM EscrowImplementsVault ==
    ASSUME ReleaseOnlyByExecution
    PROVE  Spec => VaultSpec
<1>1. Init => Vault!Init
  BY VaultInit
<1>2. Books /\ [Next]_vars => [Vault!Next]_(Vault!vars)
  <2> SUFFICES ASSUME Books, [Next]_vars PROVE [Vault!Next]_(Vault!vars)
    OBVIOUS
  <2>1. CASE Next
    <3>1. CASE \E m \in Milestones : VaultDeposit(m) \/ VaultPayOut(m)
      BY <3>1, VaultDepositStep, VaultPayOutStep DEF Vault!Next
    <3>2. CASE VaultIdle
      BY <3>2, VaultIdleStep
    <3> QED BY <2>1, <3>1, <3>2, VaultStep
  <2>2. CASE UNCHANGED vars
    BY <2>2 DEF vars, Vault!vars
  <2> QED BY <2>1, <2>2
<1> QED BY <1>1, <1>2, BooksInvariant, PTL DEF Spec, VaultSpec, Vault!Spec
=============================================================================
