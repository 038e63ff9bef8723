-------------------------- MODULE EscrowPoolProofs --------------------------
(***************************************************************************)
(* The single token balance of EscrowV3, for every instance: the pool is   *)
(* what is owed on all milestones together, no token is lost or made, and  *)
(* every payable decision can be executed.  Then NoDoubleStake.            *)
(***************************************************************************)
EXTENDS EscrowV3Proofs, SumLemmas

-----------------------------------------------------------------------------
(* The pool is the sum of the milestones' own tokens, and with the         *)
(* accounts' balances the sum of all tokens: every transfer changes one    *)
(* term on each side.  Neither needs anything of the status updates.       *)

Pooled == /\ balance = SumFunctionOnSet(net, Milestones)
          /\ Conserved

\* At most four accounts.
LEMMA AccountsFinite == IsFiniteSet(Accounts)
<1>1. IsFiniteSet({Payer})
  BY FS_Singleton
<1>2. IsFiniteSet({Payer} \cup {Payee})
  BY <1>1, FS_AddElement
<1>3. IsFiniteSet(({Payer} \cup {Payee}) \cup {BondRecipient})
  BY <1>2, FS_AddElement
<1>4. IsFiniteSet((({Payer} \cup {Payee}) \cup {BondRecipient}) \cup {Outside})
  BY <1>3, FS_AddElement
<1>5. Accounts = (({Payer} \cup {Payee}) \cup {BondRecipient}) \cup {Outside}
  BY DEF Accounts, Parties
<1> QED BY <1>4, <1>5

\* A share of basis points is within the whole.
LEMMA ShareBounds ==
    ASSUME NEW d \in Nat, NEW bps \in Bps
    PROVE  /\ (d * bps) \div 10000 \in Nat
           /\ (d * bps) \div 10000 <= d
<1> DEFINE p == d * bps
<1>1. bps \in Nat /\ bps <= 10000
  BY DEF Bps
<1>2. p \in Nat /\ p <= d * 10000
  BY <1>1, Z3
<1> HIDE DEF p
<1>3. p \div 10000 \in Nat /\ (p \div 10000) * 10000 <= p
  BY ONLY <1>2, Z3
<1> QED BY <1>2, <1>3 DEF p

\* The sums are integers, whatever the functions.
LEMMA PooledSums ==
    ASSUME TypeOK, Pooled
    PROVE  /\ SumFunctionOnSet(net, Milestones) \in Int
           /\ balance = SumFunctionOnSet(net, Milestones)
           /\ SumFunctionOnSet(wallet, Accounts) \in Int
           /\ balance + SumFunctionOnSet(wallet, Accounts) = SumFunction(Funds)
<1>1. net \in [Milestones -> Int] /\ wallet \in [Accounts -> Nat] /\ balance \in Nat
  BY DEF TypeOK
<1>2. SumFunctionOnSet(net, Milestones) \in Int
  BY <1>1, MilestonesAssumption, SumInt
<1>3. SumFunctionOnSet(wallet, Accounts) \in Int
  BY <1>1, AccountsFinite, SumInt
<1>4. SumFunction(wallet) = SumFunctionOnSet(wallet, Accounts)
  BY <1>1 DEF SumFunction
<1> QED BY <1>2, <1>3, <1>4 DEF Pooled, Conserved

\* A deposit or payout for m of x tokens that leaves the accounts with x less.
LEMMA PooledStep ==
    ASSUME TypeOK, TypeOK', Pooled, NEW m \in Milestones, NEW x \in Int,
           net' = [net EXCEPT ![m] = @ + x], balance' = balance + x,
           SumFunctionOnSet(wallet', Accounts) = SumFunctionOnSet(wallet, Accounts) - x
    PROVE  Pooled'
<1>1. /\ net \in [Milestones -> Int] /\ net' \in [Milestones -> Int]
      /\ wallet' \in [Accounts -> Nat] /\ balance \in Nat
  BY DEF TypeOK
<1>2. net[m] \in Int /\ net' = [net EXCEPT ![m] = net[m] + x]
  BY <1>1
<1>3. SumFunctionOnSet(net', Milestones) =
          SumFunctionOnSet(net, Milestones) + (net[m] + x) - net[m]
  <2>1. IsFiniteSet(Milestones)
    BY MilestonesAssumption
  <2>2. net \in [Milestones -> Int] /\ net[m] + x \in Int
    BY <1>1, <1>2
  <2>3. SumFunctionOnSet([net EXCEPT ![m] = net[m] + x], Milestones) =
          SumFunctionOnSet(net, Milestones) + (net[m] + x) - net[m]
    BY ONLY <2>1, <2>2, m \in Milestones, SumExcept
  <2> QED BY <1>2, <2>3
<1>4. balance' = SumFunctionOnSet(net', Milestones)
  BY <1>2, <1>3, PooledSums
<1>5. SumFunction(wallet') = SumFunctionOnSet(wallet', Accounts)
  BY <1>1 DEF SumFunction
<1>6. balance' + SumFunction(wallet') = SumFunction(Funds)
  BY <1>1, <1>5, PooledSums
<1> QED BY <1>4, <1>6 DEF Pooled, Conserved

\* Tokens credited to an account are added to what all accounts have.
LEMMA CreditSum ==
    ASSUME NEW w \in [Accounts -> Nat], NEW a \in Accounts, NEW x \in Nat
    PROVE  /\ Credit(w, a, x) \in [Accounts -> Nat]
           /\ SumFunctionOnSet(Credit(w, a, x), Accounts) =
                  SumFunctionOnSet(w, Accounts) + x
<1> DEFINE u == Credit(w, a, x)
<1>1. u \in [Accounts -> Nat]
  BY CreditType
<1>2. u[a] = w[a] + x /\ \A b \in Accounts \ {a} : u[b] = w[b]
  BY DEF Credit
<1>3. \A b \in Accounts : w[b] \in Int /\ u[b] \in Int
  BY <1>1
<1> HIDE DEF u
<1>4. SumFunctionOnSet(u, Accounts) = SumFunctionOnSet(w, Accounts) + u[a] - w[a]
  BY <1>2, <1>3, AccountsFinite, SumUpdate
<1>5. SumFunctionOnSet(w, Accounts) \in Int
  BY <1>3, AccountsFinite, SumInt
<1>6. w[a] \in Nat
  OBVIOUS
<1>7. SumFunctionOnSet(u, Accounts) = SumFunctionOnSet(w, Accounts) + x
  BY ONLY <1>2, <1>4, <1>5, <1>6, x \in Nat
<1> QED BY <1>1, <1>7 DEF u

LEMMA PullPooled ==
    ASSUME TypeOK, TypeOK', Pooled, NEW a \in Accounts, NEW m \in Milestones,
           NEW x \in Nat, Pull(a, m, x)
    PROVE  Pooled'
<1>1. wallet \in [Accounts -> Nat] /\ wallet' \in [Accounts -> Nat]
  BY DEF TypeOK
<1>2. wallet' = [wallet EXCEPT ![a] = @ - x]
  BY DEF Pull
<1>3. /\ \A b \in Accounts : wallet[b] \in Int /\ wallet'[b] \in Int
      /\ \A b \in Accounts \ {a} : wallet'[b] = wallet[b]
      /\ wallet'[a] = wallet[a] - x /\ wallet[a] \in Int
  BY <1>1, <1>2
<1>4. SumFunctionOnSet(wallet', Accounts) =
          SumFunctionOnSet(wallet, Accounts) + wallet'[a] - wallet[a]
  <2>1. \A b \in Accounts : wallet[b] \in Int /\ wallet'[b] \in Int
    BY <1>3
  <2>2. \A b \in Accounts \ {a} : wallet'[b] = wallet[b]
    BY <1>3
  <2> QED BY <2>1, <2>2, AccountsFinite, SumUpdate
<1>5. SumFunctionOnSet(wallet', Accounts) = SumFunctionOnSet(wallet, Accounts) - x
  BY <1>3, <1>4, PooledSums
<1>6. net' = [net EXCEPT ![m] = @ + x]
  BY DEF Pull
<1>7. balance' = balance + x /\ x \in Int
  BY DEF Pull
<1> QED BY <1>5, <1>6, <1>7, PooledStep

\* What executeDecision pays out adds up to the outflow: the extras, the two
\* shares, of which rounding loses nothing, and the bonds.
LEMMA PaidOutSum ==
    ASSUME TypeOK, NEW m \in Milestones, decision[m].extra <= Amount[m],
           PayeeAmount(m) <= Distributable(m)
    PROVE  SumFunctionOnSet(PaidOut(m), Accounts) =
               SumFunctionOnSet(wallet, Accounts) + Outflow(m)
<1> DEFINE extra == decision[m].extra
           lost == staked[m][Loser(m)]
           kept == StakedTotal(m) - lost
           w1 == Credit(wallet, Outside, extra)
           w2 == Credit(w1, Payee, PayeeAmount(m))
           w3 == Credit(w2, Payer, PayerAmount(m))
           w4 == Credit(w3, Winner(m), kept)
           w5 == Credit(w4, ForfeitTo(m), lost)
           Sum(w) == SumFunctionOnSet(w, Accounts)
<1>1. Winner(m) \in Accounts /\ ForfeitTo(m) \in Accounts
  BY AccountsOfParties DEF Winner, Loser, ForfeitTo
<1>2. kept \in Nat /\ lost \in Nat
  <2>1. staked[m][Payer] \in Nat /\ staked[m][Payee] \in Nat
    BY AccountsOfParties DEF TypeOK
  <2>2. Loser(m) = Payer \/ Loser(m) = Payee
    BY DEF Loser
  <2> QED BY <2>1, <2>2 DEF StakedTotal
<1>3. extra \in Nat /\ PayeeAmount(m) \in Nat /\ PayerAmount(m) \in Nat
  BY SharesType
<1>4. wallet \in [Accounts -> Nat] /\ Sum(wallet) \in Int
  <2>1. wallet \in [Accounts -> Nat]
    BY DEF TypeOK
  <2>2. \A b \in Accounts : wallet[b] \in Int
    BY <2>1
  <2> QED BY <2>1, <2>2, AccountsFinite, SumInt
<1>5. PaidOut(m) = w5
  BY DEF PaidOut
<1> HIDE DEF extra, lost, kept
<1>6. w1 \in [Accounts -> Nat] /\ Sum(w1) = Sum(wallet) + extra
  BY <1>3, <1>4, CreditSum, AccountsOfParties
<1> HIDE DEF w1
<1>7. w2 \in [Accounts -> Nat] /\ Sum(w2) = Sum(w1) + PayeeAmount(m)
  BY <1>3, <1>6, CreditSum, AccountsOfParties
<1> HIDE DEF w2
<1>8. w3 \in [Accounts -> Nat] /\ Sum(w3) = Sum(w2) + PayerAmount(m)
  BY <1>3, <1>7, CreditSum, AccountsOfParties
<1> HIDE DEF w3
<1>9. w4 \in [Accounts -> Nat] /\ Sum(w4) = Sum(w3) + kept
  BY <1>1, <1>2, <1>8, CreditSum
<1> HIDE DEF w4
<1>10. Sum(w5) = Sum(w4) + lost
  BY <1>1, <1>2, <1>9, CreditSum
<1>11. Outflow(m) = extra + PayeeAmount(m) + PayerAmount(m) + kept + lost
  <2>1. Amount[m] \in Nat /\ StakedTotal(m) \in Nat
    BY AmountAssumption, OutflowType
  <2>2. PayerAmount(m) = (Amount[m] - extra) - PayeeAmount(m)
    BY DEF PayerAmount, Distributable, extra
  <2>3. StakedTotal(m) = kept + lost
    BY <1>2, <2>1 DEF kept, lost, TypeOK
  <2> QED BY <1>2, <1>3, <2>1, <2>2, <2>3 DEF Outflow
<1> HIDE DEF w5, Sum
<1>12. Sum(w5) = Sum(wallet) + Outflow(m)
  BY ONLY <1>2, <1>3, <1>4, <1>6, <1>7, <1>8, <1>9, <1>10, <1>11
<1> QED BY <1>5, <1>12 DEF Sum

LEMMA ExecutePooled ==
    ASSUME TypeOK, TypeOK', Pooled, NEW m \in Milestones, ExecuteDecision(m)
    PROVE  Pooled'
<1> DEFINE x == 0 - Outflow(m)
<1>1. Outflow(m) \in Nat /\ x \in Int
  BY OutflowType
<1>2. balance \in Nat /\ net[m] \in Int
  BY DEF TypeOK
<1>3. net' = [net EXCEPT ![m] = @ + x]
  <2>1. net' = [net EXCEPT ![m] = @ - Outflow(m)]
    BY DEF ExecuteDecision
  <2>2. net[m] - Outflow(m) = net[m] + x
    BY <1>1, <1>2
  <2> HIDE DEF x
  <2> QED BY <2>1, <2>2
<1>4. balance' = balance + x
  BY <1>1, <1>2 DEF ExecuteDecision
<1>5. SumFunctionOnSet(wallet', Accounts) = SumFunctionOnSet(wallet, Accounts) - x
  <2>1. SumFunctionOnSet(wallet', Accounts) = SumFunctionOnSet(wallet, Accounts) + Outflow(m)
    BY PaidOutSum DEF ExecuteDecision, Executable
  <2> QED BY <1>1, <2>1, PooledSums
<1> HIDE DEF x
<1> QED BY <1>1, <1>3, <1>4, <1>5, PooledStep

LEMMA PooledFrame ==
    ASSUME Pooled, UNCHANGED <<balance, wallet, net>>
    PROVE  Pooled'
BY DEF Pooled, Conserved

\* Every function that moves tokens moves as many on both sides.
LEMMA PooledInvariant == Spec => []Pooled
<1>1. Init => Pooled
  <2> SUFFICES ASSUME Init PROVE Pooled
    OBVIOUS
  <2>1. \A m \in Milestones : net[m] = 0
    BY DEF Init
  <2>2. SumFunctionOnSet(net, Milestones) = 0
    BY <2>1, MilestonesAssumption, SumZero
  <2>3. Funds \in [Accounts -> Nat] /\ wallet = Funds /\ balance = 0
    BY InputAssumption DEF Init
  <2>4. SumFunction(Funds) \in Int
    BY <2>3, AccountsFinite, SumInt DEF SumFunction
  <2> QED BY <2>2, <2>3, <2>4 DEF Pooled, Conserved
<1>2. TypeOK /\ TypeOK' /\ Pooled /\ [Next]_vars => Pooled'
  <2> SUFFICES ASSUME TypeOK, TypeOK', Pooled, [Next]_vars PROVE Pooled'
    OBVIOUS
  <2>1. ASSUME NEW m \in Milestones, PartyNext(m) PROVE Pooled'
    <3>1. CASE FundMilestone(m)
      BY <3>1, PullPooled, AccountsOfParties, AmountAssumption DEF FundMilestone
    <3>2. ASSUME NEW p \in Parties, DisputeWithBond(m, p) PROVE Pooled'
      BY <3>2, PullPooled, BondAssumption DEF DisputeWithBond, Accounts
    <3>3. ASSUME NEW p \in Parties, AppealWithBond(m, p) PROVE Pooled'
      BY <3>3, PullPooled, BondAssumption DEF AppealWithBond, Accounts
    <3> QED BY <2>1, <3>1, <3>2, <3>3 DEF PartyNext
  <2>2. ASSUME NEW m \in Milestones, ExecutorNext(m) PROVE Pooled'
    <3>1. CASE LockMilestone(m)
      BY <3>1, PooledFrame DEF LockMilestone
    <3>2. CASE \E bps \in BpsInputs, appealed \in BOOLEAN :
                  RecordVerdict(m, bps, appealed)
      BY <3>2, PooledFrame DEF RecordVerdict
    <3>3. CASE \E s \in Status : SetMilestoneStatus(m, s)
      BY <3>3, PooledFrame DEF SetMilestoneStatus
    <3>4. CASE \E bps \in BpsInputs, extra \in ExtraInputs, payable \in BOOLEAN :
                  SetDecision(m, bps, extra, payable)
      BY <3>4, PooledFrame DEF SetDecision
    <3>5. CASE ExecuteDecision(m)
      BY <3>5, ExecutePooled
    <3> QED BY <2>2, <3>1, <3>2, <3>3, <3>4, <3>5 DEF ExecutorNext
  <2>3. CASE Tick
    BY <2>3, PooledFrame DEF Tick
  <2>4. CASE UNCHANGED vars
    BY <2>4, PooledFrame DEF vars
  <2> QED BY <2>1, <2>2, <2>3, <2>4 DEF Next
<1> QED BY <1>1, <1>2, TypeCorrect, PTL DEF Spec

\* No token is made or lost by any function, for any caller: extras, rounded
\* shares, refunded and forfeited bonds add up to what leaves the contract.
THEOREM EscrowConserved == Spec => []Conserved
<1>1. Pooled => Conserved
  BY DEF Pooled
<1> QED BY <1>1, PooledInvariant, PTL

\* The pooled balance is exactly the sum of what is owed on the milestones.
THEOREM EscrowSolvent ==
    ASSUME ReleaseOnlyByExecution
    PROVE  Spec => []Solvent
<1>1. Books /\ Pooled => Solvent
  <2> SUFFICES ASSUME Books, Pooled PROVE Solvent
    OBVIOUS
  <2> DEFINE owed == [m \in Milestones |-> Owed(m)]
  <2>1. \A m \in Milestones : net[m] \in Int /\ owed[m] = net[m]
    BY DEF Books, FullyBacked, TypeOK
  <2>2. SumFunction(owed) = SumFunctionOnSet(owed, Milestones)
    BY DEF SumFunction
  <2>3. SumFunctionOnSet(owed, Milestones) = SumFunctionOnSet(net, Milestones)
    <3> HIDE DEF owed
    <3> QED BY <2>1, MilestonesAssumption, SumSame
  <2> QED BY <2>2, <2>3 DEF Solvent, Pooled
<1> QED BY <1>1, BooksInvariant, PooledInvariant, PTL

\* A payable decision on an unreleased milestone can always be executed: the
\* pool holds its outflow and the shares fit into the amount.
THEOREM EscrowDecisionExecutable ==
    ASSUME ReleaseOnlyByExecution
    PROVE  Spec => []DecisionExecutable
<1>1. Books /\ Pooled => DecisionExecutable
  <2> SUFFICES ASSUME Books, Pooled, NEW m \in Milestones,
                      ms[m].funded, ms[m].status # "RELEASED",
                      decision[m].extra <= Amount[m]
               PROVE  /\ balance >= Outflow(m)
                      /\ PayeeAmount(m) \in 0..Distributable(m)
    BY DEF DecisionExecutable
  <2>1. TypeOK
    BY DEF Books
  <2>2. \A k \in Milestones : net[k] \in Nat
    <3> SUFFICES ASSUME NEW k \in Milestones PROVE net[k] \in Nat
      OBVIOUS
    <3>1. net[k] = Owed(k)
      BY DEF Books, FullyBacked
    <3> QED BY <2>1, <3>1, OutflowType, AmountAssumption DEF Owed
  <2>3. net[m] = Outflow(m)
    BY DEF Books, FullyBacked, Owed, Outflow
  <2>4. net[m] <= SumFunctionOnSet(net, Milestones)
    BY <2>2, MilestonesAssumption, SumHasMember
  <2>5. decision[m].extra \in Nat /\ decision[m].payeeBps \in Bps /\ Amount[m] \in Nat
    BY <2>1, AmountAssumption DEF TypeOK, Decision
  <2>6. Distributable(m) \in Nat
    BY <2>5 DEF Distributable
  <2>7. PayeeAmount(m) \in Nat /\ PayeeAmount(m) <= Distributable(m)
    BY ONLY <2>5, <2>6, ShareBounds DEF PayeeAmount
  <2>8. balance >= Outflow(m)
    BY <2>1, <2>2, <2>3, <2>4, PooledSums
  <2> QED BY <2>6, <2>7, <2>8
<1> QED BY <1>1, BooksInvariant, PooledInvariant, PTL

-----------------------------------------------------------------------------
(* NoDoubleStake.  The bound needs only the locked flag and the appealed   *)
(* flags of the verdicts, so it holds for callers that update the status   *)
(* of a milestone in any way at any time.                                  *)
Appealed(m) == {i \in DOMAIN verdicts[m] : verdicts[m][i].appealed}

LockStake(m) == IF ms[m].locked THEN DisputeBond ELSE 0

StakeBounded(m) ==
    StakedTotal(m) <= LockStake(m) + AppealBond * Cardinality(Appealed(m))

LEMMA NoDoubleStakeByMilestone ==
    NoDoubleStake <=> \A m \in Milestones : StakeBounded(m)
BY DEF NoDoubleStake, StakeBounded, LockStake, Appealed

-----------------------------------------------------------------------------
(* Arithmetic and cardinalities.                                           *)

LEMMA ProductGrows ==
    ASSUME NEW b \in Nat, NEW c \in Nat, NEW d \in Nat, c <= d
    PROVE  b * c \in Nat /\ b * c <= b * d
<1>1. d - c \in Nat
  OBVIOUS
<1>2. b * c \in Nat /\ b * (d - c) \in Nat
  BY <1>1
<1>3. b * d = b * c + b * (d - c)
  BY <1>1
<1> QED BY <1>2, <1>3

LEMMA ProductOfNext ==
    ASSUME NEW b \in Nat, NEW c \in Nat
    PROVE  b * (c + 1) = b * c + b
OBVIOUS

LEMMA AppealedFinite ==
    ASSUME TypeOK, NEW m \in Milestones
    PROVE  IsFiniteSet(Appealed(m)) /\ Cardinality(Appealed(m)) \in Nat
<1>1. verdicts[m] \in Seq(Verdict)
  BY DEF TypeOK
<1>2. DOMAIN verdicts[m] = 1..Len(verdicts[m]) /\ Len(verdicts[m]) \in Int
  BY <1>1
<1>3. IsFiniteSet(1..Len(verdicts[m]))
  BY <1>2, FS_Interval
<1>4. Appealed(m) \in SUBSET (1..Len(verdicts[m]))
  BY <1>2 DEF Appealed
<1> QED BY <1>3, <1>4, FS_Subset, FS_CardinalityType

LEMMA LockStakeType ==
    \A m \in Milestones : LockStake(m) \in Nat
BY BondAssumption DEF LockStake

-----------------------------------------------------------------------------
(* One lemma per action that changes a bond, a lock or a verdict.          *)

LEMMA StakeFrame ==
    ASSUME NEW k \in Milestones, StakeBounded(k), ms'[k].locked = ms[k].locked,
           staked'[k] = staked[k], verdicts'[k] = verdicts[k]
    PROVE  StakeBounded(k)'
BY DEF StakeBounded, LockStake, Appealed, StakedTotal

\* Locking only raises the bound.
LEMMA LockStakes ==
    ASSUME TypeOK, NEW m \in Milestones, StakeBounded(m), LockMilestone(m)
    PROVE  StakeBounded(m)'
<1>1. /\ StakedTotal(m)' = StakedTotal(m) /\ Appealed(m)' = Appealed(m)
      /\ LockStake(m)' = DisputeBond
  BY DEF LockMilestone, Lock, TypeOK, Milestone, StakedTotal, Appealed, LockStake
<1>2. LockStake(m) = 0
  BY DEF LockMilestone, Lockable, LockStake
<1>3. StakedTotal(m) \in Nat /\ AppealBond * Cardinality(Appealed(m)) \in Nat
  BY OutflowType, AppealedFinite, BondAssumption, ProductGrows
<1> QED BY <1>1, <1>2, <1>3, BondAssumption DEF StakeBounded

\* A bond p deposits raises the stakes of m by its amount.
LEMMA BondRaises ==
    ASSUME TypeOK, NEW m \in Milestones, NEW p \in Parties, NEW x \in Nat,
           staked' = [staked EXCEPT ![m][p] = @ + x]
    PROVE  StakedTotal(m)' = StakedTotal(m) + x
<1>1. staked'[m] = [staked[m] EXCEPT ![p] = @ + x]
  BY DEF TypeOK
<1>2. staked[m] \in [Parties -> Nat]
  BY DEF TypeOK
<1>3. p = Payer \/ p = Payee
  BY DEF Parties
<1> QED BY <1>1, <1>2, <1>3, AccountsOfParties DEF StakedTotal

\* The one dispute bond is taken while the milestone is not locked.
LEMMA DisputeStakes ==
    ASSUME TypeOK, NEW m \in Milestones, NEW p \in Parties, StakeBounded(m),
           DisputeWithBond(m, p)
    PROVE  StakeBounded(m)'
<1>1. StakedTotal(m)' = StakedTotal(m) + DisputeBond
  BY BondRaises, BondAssumption DEF DisputeWithBond
<1>2. Appealed(m)' = Appealed(m) /\ LockStake(m)' = DisputeBond
  BY DEF DisputeWithBond, Lock, TypeOK, Milestone, Appealed, LockStake
<1>3. LockStake(m) = 0
  BY DEF DisputeWithBond, LockStake
<1>4. StakedTotal(m) \in Nat /\ AppealBond * Cardinality(Appealed(m)) \in Nat
  BY OutflowType, AppealedFinite, BondAssumption, ProductGrows
<1> QED BY <1>1, <1>2, <1>3, <1>4, BondAssumption DEF StakeBounded

\* An appeal bond is taken for a verdict that was not appealed and now is.
LEMMA AppealStakes ==
    ASSUME TypeOK, NEW m \in Milestones, NEW p \in Parties, StakeBounded(m),
           AppealWithBond(m, p)
    PROVE  StakeBounded(m)'
<1> DEFINE last == Len(verdicts[m])
<1>1. StakedTotal(m)' = StakedTotal(m) + AppealBond
  BY BondRaises, BondAssumption DEF AppealWithBond
<1>2. LockStake(m)' = LockStake(m)
  BY DEF AppealWithBond, LockStake
<1>3. verdicts[m] \in Seq(Verdict) /\ verdicts[m] # <<>>
  BY DEF TypeOK, AppealWithBond
<1>4. last \in DOMAIN verdicts[m] /\ last \notin Appealed(m)
  BY <1>3 DEF AppealWithBond, Last, Appealed
<1>5. verdicts'[m] = [verdicts[m] EXCEPT ![last].appealed = TRUE]
  BY DEF AppealWithBond, TypeOK
<1>6. /\ DOMAIN verdicts'[m] = DOMAIN verdicts[m]
      /\ verdicts'[m][last].appealed
      /\ \A i \in DOMAIN verdicts[m] :
            i # last => verdicts'[m][i] = verdicts[m][i]
  <2>1. verdicts[m][last] \in Verdict
    BY <1>3, <1>4
  <2> QED BY <1>3, <1>4, <1>5, <2>1 DEF Verdict
<1>7. Appealed(m)' = Appealed(m) \cup {last}
  BY <1>4, <1>6 DEF Appealed
<1>8. Cardinality(Appealed(m)') = Cardinality(Appealed(m)) + 1
  BY <1>4, <1>7, AppealedFinite, FS_AddElement
<1>9. AppealBond * (Cardinality(Appealed(m)) + 1)
          = AppealBond * Cardinality(Appealed(m)) + AppealBond
  BY AppealedFinite, BondAssumption, ProductOfNext
<1>10. /\ StakedTotal(m) \in Nat /\ LockStake(m) \in Nat
       /\ AppealBond * Cardinality(Appealed(m)) \in Nat
  BY OutflowType, AppealedFinite, BondAssumption, ProductGrows, LockStakeType
<1> QED BY <1>1, <1>2, <1>8, <1>9, <1>10, BondAssumption DEF StakeBounded

\* A new verdict, recorded as appealed or not, only raises the bound.
LEMMA VerdictStakes ==
    ASSUME TypeOK, TypeOK', NEW m \in Milestones, NEW bps \in BpsInputs,
           NEW appealed \in BOOLEAN, StakeBounded(m),
           RecordVerdict(m, bps, appealed)
    PROVE  StakeBounded(m)'
<1>1. StakedTotal(m)' = StakedTotal(m) /\ LockStake(m)' = LockStake(m)
  BY DEF RecordVerdict, StakedTotal, LockStake
<1> DEFINE new == [payeeBps |-> bps, timestamp |-> now, appealed |-> appealed]
<1>2. verdicts[m] \in Seq(Verdict) /\ verdicts'[m] = Append(verdicts[m], new)
  BY DEF RecordVerdict, TypeOK
<1>3. Appealed(m) \subseteq Appealed(m)'
  <2> HIDE DEF new
  <2>1. \A i \in DOMAIN verdicts[m] :
            i \in DOMAIN verdicts'[m] /\ verdicts'[m][i] = verdicts[m][i]
    BY <1>2
  <2> QED BY <2>1 DEF Appealed
<1>4. /\ IsFiniteSet(Appealed(m)') /\ Cardinality(Appealed(m)') \in Nat
      /\ Cardinality(Appealed(m)) \in Nat
  <2>1. (IsFiniteSet(Appealed(m)) /\ Cardinality(Appealed(m)) \in Nat)'
    <3>1. verdicts'[m] \in Seq(Verdict)
      BY DEF TypeOK
    <3>2. DOMAIN verdicts'[m] = 1..Len(verdicts'[m]) /\ Len(verdicts'[m]) \in Int
      BY <3>1
    <3>3. IsFiniteSet(1..Len(verdicts'[m]))
      BY <3>2, FS_Interval
    <3>4. Appealed(m)' \in SUBSET (1..Len(verdicts'[m]))
      BY <3>2 DEF Appealed
    <3> QED BY <3>3, <3>4, FS_Subset, FS_CardinalityType
  <2> QED BY <2>1, AppealedFinite
<1>5. Cardinality(Appealed(m)) <= Cardinality(Appealed(m)')
  BY <1>3, <1>4, FS_Subset
<1>6. /\ AppealBond * Cardinality(Appealed(m)) \in Nat
      /\ AppealBond * Cardinality(Appealed(m)') \in Nat
      /\ AppealBond * Cardinality(Appealed(m))
            <= AppealBond * Cardinality(Appealed(m)')
  BY <1>4, <1>5, BondAssumption, ProductGrows
<1>7. StakedTotal(m) \in Nat /\ LockStake(m) \in Nat
  BY OutflowType, LockStakeType
<1> QED BY <1>1, <1>6, <1>7 DEF StakeBounded

\* Nothing is left at stake by executeDecision.
LEMMA ExecuteStakes ==
    ASSUME TypeOK, NEW m \in Milestones, ExecuteDecision(m)
    PROVE  StakeBounded(m)'
<1>1. StakedTotal(m)' = 0
  BY AccountsOfParties DEF ExecuteDecision, SettleBonds, StakedTotal, TypeOK
<1>2. Appealed(m)' = Appealed(m) /\ LockStake(m)' = 0
  BY DEF ExecuteDecision, TypeOK, Milestone, Appealed, LockStake
<1>3. AppealBond * Cardinality(Appealed(m)) \in Nat
  BY AppealedFinite, BondAssumption, ProductGrows
<1> QED BY <1>1, <1>2, <1>3 DEF StakeBounded

-----------------------------------------------------------------------------
LEMMA StakesStep ==
    ASSUME TypeOK, TypeOK', NoDoubleStake, [Next]_vars, NEW k \in Milestones
    PROVE  StakeBounded(k)'
<1>0. StakeBounded(k)
  BY NoDoubleStakeByMilestone
<1>1. ASSUME NEW m \in Milestones, FundMilestone(m) PROVE StakeBounded(k)'
  <2>1. ms'[k].locked = ms[k].locked
    BY <1>1 DEF FundMilestone, TypeOK, Milestone
  <2> QED BY <1>0, <1>1, <2>1, StakeFrame DEF FundMilestone
<1>2. ASSUME NEW m \in Milestones, NEW p \in Parties, DisputeWithBond(m, p)
      PROVE  StakeBounded(k)'
  <2>1. CASE k = m
    BY <1>0, <1>2, <2>1, DisputeStakes
  <2>2. CASE k # m
    BY <1>0, <1>2, <2>2, StakeFrame DEF DisputeWithBond, Lock, TypeOK
  <2> QED BY <2>1, <2>2
<1>3. ASSUME NEW m \in Milestones, NEW p \in Parties, AppealWithBond(m, p)
      PROVE  StakeBounded(k)'
  <2>1. CASE k = m
    BY <1>0, <1>3, <2>1, AppealStakes
  <2>2. CASE k # m
    BY <1>0, <1>3, <2>2, StakeFrame DEF AppealWithBond, TypeOK
  <2> QED BY <2>1, <2>2
<1>4. ASSUME NEW m \in Milestones, LockMilestone(m) PROVE StakeBounded(k)'
  <2>1. CASE k = m
    BY <1>0, <1>4, <2>1, LockStakes
  <2>2. CASE k # m
    BY <1>0, <1>4, <2>2, StakeFrame DEF LockMilestone, Lock, TypeOK
  <2> QED BY <2>1, <2>2
<1>5. ASSUME NEW m \in Milestones, NEW bps \in BpsInputs, NEW appealed \in BOOLEAN,
             RecordVerdict(m, bps, appealed)
      PROVE  StakeBounded(k)'
  <2>1. CASE k = m
    BY <1>0, <1>5, <2>1, VerdictStakes
  <2>2. CASE k # m
    BY <1>0, <1>5, <2>2, StakeFrame DEF RecordVerdict, TypeOK
  <2> QED BY <2>1, <2>2
<1>6. ASSUME NEW m \in Milestones, NEW s \in Status, SetMilestoneStatus(m, s)
      PROVE  StakeBounded(k)'
  <2>1. ms'[k].locked = ms[k].locked
    BY <1>6 DEF SetMilestoneStatus, TypeOK, Milestone
  <2> QED BY <1>0, <1>6, <2>1, StakeFrame DEF SetMilestoneStatus
<1>7. ASSUME NEW m \in Milestones, NEW bps, NEW extra, NEW payable,
             SetDecision(m, bps, extra, payable)
      PROVE  StakeBounded(k)'
  BY <1>0, <1>7, StakeFrame DEF SetDecision
<1>8. ASSUME NEW m \in Milestones, ExecuteDecision(m) PROVE StakeBounded(k)'
  <2>1. CASE k = m
    BY <1>8, <2>1, ExecuteStakes
  <2>2. CASE k # m
    BY <1>0, <1>8, <2>2, StakeFrame DEF ExecuteDecision, SettleBonds, TypeOK
  <2> QED BY <2>1, <2>2
<1>9. CASE Tick
  BY <1>0, <1>9, StakeFrame DEF Tick
<1>10. CASE UNCHANGED vars
  BY <1>0, <1>10, StakeFrame DEF vars
<1>11. ASSUME NEW m \in Milestones, PartyNext(m) PROVE StakeBounded(k)'
  BY <1>1, <1>2, <1>3, <1>11 DEF PartyNext
<1>12. ASSUME NEW m \in Milestones, ExecutorNext(m) PROVE StakeBounded(k)'
  BY <1>4, <1>5, <1>6, <1>7, <1>8, <1>12 DEF ExecutorNext
<1> QED BY <1>9, <1>10, <1>11, <1>12 DEF Next

\* However locks, bonded disputes, verdicts, appeals and status updates
\* interleave, disputeWithBond and appealWithBond never charge twice for one
\* dispute; no assumption on the status updates is needed.
THEOREM EscrowNoDoubleStake == Spec => []NoDoubleStake
<1>1. Init => NoDoubleStake
  <2> SUFFICES ASSUME Init, NEW m \in Milestones PROVE StakeBounded(m)
    BY NoDoubleStakeByMilestone
  <2>1. StakedTotal(m) = 0 /\ LockStake(m) = 0 /\ Appealed(m) = {}
    BY AccountsOfParties DEF Init, StakedTotal, LockStake, Appealed
  <2>2. Cardinality(Appealed(m)) = 0
    BY <2>1, FS_EmptySet
  <2> QED BY <2>1, <2>2, BondAssumption DEF StakeBounded
<1>2. TypeOK /\ TypeOK' /\ NoDoubleStake /\ [Next]_vars => NoDoubleStake'
  <2> SUFFICES ASSUME TypeOK, TypeOK', NoDoubleStake, [Next]_vars
               PROVE  NoDoubleStake'
    OBVIOUS
  <2>1. \A k \in Milestones : StakeBounded(k)'
    BY StakesStep
  <2> QED BY <2>1 DEF NoDoubleStake, StakeBounded, LockStake, Appealed
<1> QED BY <1>1, <1>2, TypeCorrect, PTL DEF Spec
=============================================================================
