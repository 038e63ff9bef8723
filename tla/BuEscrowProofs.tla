--------------------------- MODULE BuEscrowProofs ---------------------------
(***************************************************************************)
(* The Solana program for any milestones, amounts, inputs, status updates  *)
(* and accounts passed as the vault: its types, the backing of milestones, *)
(* and that it does what EscrowV3 does but for fundings of other accounts. *)
(***************************************************************************)
EXTENDS BuEscrow, SumLemmas

\* The mapped status.
LEMMA EnumType == \A s \in Status : AsEnum(s) \in V3!Status
BY DEF AsEnum, Status, V3!Status

LEMMA ShareBounds ==
    ASSUME NEW d \in Nat, NEW bps \in Bps
    PROVE  /\ (d * bps) \div 10000 \in Nat
           /\ (d * bps) \div 10000 <= d
<1> DEFINE p == d * bps
<1>1. bps \in Nat /\ bps <= 10000
  BY DEF Bps
<1>2. p \in Nat /\ p <= d * 10000
  BY <1>1, Z3
<1> HIDE DEF p
<1>3. p \div 10000 \in Nat /\ (p \div 10000) * 10000 <= p
  BY ONLY <1>2, Z3
<1> QED BY <1>2, <1>3 DEF p

\* The shares of an executable decision.
LEMMA SharesType ==
    ASSUME BuTypeOK, NEW m \in Milestones, decision[m].extra <= Amount[m]
    PROVE  /\ decision[m].extra \in Nat /\ Amount[m] \in Nat
           /\ Distributable(m) \in Nat
           /\ PayeeAmount(m) \in Nat /\ PayeeAmount(m) <= Distributable(m)
           /\ PayerAmount(m) \in Nat
<1>1. decision[m].extra \in Nat /\ Amount[m] \in Nat /\ decision[m].payeeBps \in Bps
  BY AmountAssumption DEF BuTypeOK, Decision
<1>2. Distributable(m) \in Nat
  BY <1>1 DEF Distributable
<1>3. PayeeAmount(m) \in Nat /\ PayeeAmount(m) <= Distributable(m)
  BY ONLY <1>1, <1>2, ShareBounds DEF PayeeAmount
<1>4. PayerAmount(m) \in Nat
  BY ONLY <1>2, <1>3 DEF PayerAmount
<1> QED BY <1>1, <1>2, <1>3, <1>4

LEMMA CreditType ==
    ASSUME NEW t \in [Wallets \cup {VaultAccount} -> Nat], NEW a \in Wallets \cup {VaultAccount},
           NEW x \in Nat
    PROVE  /\ Credit(t, a, x) \in [Wallets \cup {VaultAccount} -> Nat]
           /\ x <= t[a] => Debit(t, a, x) \in [Wallets \cup {VaultAccount} -> Nat]
BY DEF Credit, Debit

\* A credit to a wallet leaves the vault alone.
LEMMA CreditWallet ==
    ASSUME NEW t \in [Wallets \cup {VaultAccount} -> Int], NEW a \in {Outside, Payee, Payer},
           NEW x \in Nat, NEW w, [b \in Wallets |-> t[b]] = w
    PROVE  /\ Credit(t, a, x) \in [Wallets \cup {VaultAccount} -> Int]
           /\ Credit(t, a, x)[VaultAccount] = t[VaultAccount]
           /\ [b \in Wallets |-> Credit(t, a, x)[b]] = Credit(w, a, x)
<1>1. a \in Wallets /\ VaultAccount \notin Wallets
  BY VaultAssumption DEF Wallets
<1> DEFINE u == Credit(t, a, x)
<1>2. /\ u \in [Wallets \cup {VaultAccount} -> Int]
      /\ u[VaultAccount] = t[VaultAccount] /\ u[a] = t[a] + x
      /\ \A b \in Wallets \ {a} : u[b] = t[b]
  BY <1>1 DEF Credit
<1>3. [b \in Wallets |-> u[b]] = [w EXCEPT ![a] = @ + x]
  <2>1. w[a] = t[a] /\ w = [b \in Wallets |-> t[b]]
    BY <1>1
  <2>2. [w EXCEPT ![a] = @ + x] = [b \in Wallets |-> IF b = a THEN t[a] + x ELSE t[b]]
    BY <2>1
  <2> HIDE DEF u
  <2> QED BY <1>1, <1>2, <2>2
<1> QED BY <1>2, <1>3 DEF Credit

LEMMA AccountsInTokens ==
    /\ Payer \in Wallets /\ Payee \in Wallets /\ Outside \in Wallets
    /\ VaultAccount \notin Wallets /\ VaultArgs \subseteq Wallets \cup {VaultAccount}
BY VaultAssumption DEF Wallets

-----------------------------------------------------------------------------
(* Type correctness.                                                       *)

LEMMA InitType == Init => BuTypeOK
BY InputAssumption, VaultAssumption DEF Init, BuTypeOK, Milestone, Decision, Status, Bps

\* What a deposit does to the accounts: only one into the vault changes what
\* the vault holds.
LEMMA DepositTokens ==
    ASSUME BuTypeOK, NEW m \in Milestones, NEW v \in VaultArgs, Deposit(m, v)
    PROVE  /\ tokens' \in [Wallets \cup {VaultAccount} -> Nat]
           /\ tokens'[VaultAccount] = tokens[VaultAccount]
                    + (IF v = VaultAccount THEN Amount[m] ELSE 0)
<1>1. /\ tokens \in [Wallets \cup {VaultAccount} -> Nat] /\ Amount[m] <= tokens[Payer]
      /\ Payer \in Wallets \cup {VaultAccount} /\ v \in Wallets \cup {VaultAccount}
      /\ Amount[m] \in Nat /\ Payer # VaultAccount
  BY AmountAssumption, AccountsInTokens DEF BuTypeOK, Deposit
<1> DEFINE t == Debit(tokens, Payer, Amount[m])
<1>2. t \in [Wallets \cup {VaultAccount} -> Nat] /\ t[VaultAccount] = tokens[VaultAccount]
  BY <1>1, CreditType DEF Debit
<1> HIDE DEF t
<1>3. /\ Credit(t, v, Amount[m]) \in [Wallets \cup {VaultAccount} -> Nat]
      /\ Credit(t, v, Amount[m])[VaultAccount]
            = t[VaultAccount] + (IF v = VaultAccount THEN Amount[m] ELSE 0)
  BY <1>1, <1>2, CreditType DEF Credit
<1>4. tokens' = Credit(t, v, Amount[m])
  BY DEF Deposit, t
<1> QED BY <1>2, <1>3, <1>4

LEMMA FundType ==
    ASSUME BuTypeOK, NEW m \in Milestones, NEW v \in VaultArgs, Deposit(m, v)
    PROVE  BuTypeOK'
<1>1. Amount[m] \in Nat
  BY AmountAssumption
<1>2. tokens' \in [Wallets \cup {VaultAccount} -> Nat]
  BY DepositTokens
<1>3. net' \in [Milestones -> Int] /\ elsewhere' \subseteq Milestones
  BY <1>1 DEF Deposit, BuTypeOK
<1>4. ms' = [ms EXCEPT ![m].funded = TRUE, ![m].status = "FUNDED"]
      /\ UNCHANGED <<decision, now, byHand>>
  BY DEF Deposit
<1>5. ms' \in [Milestones -> Milestone]
  <2> DEFINE r == [ms[m] EXCEPT !.funded = TRUE, !.status = "FUNDED"]
  <2>1. r \in Milestone
    BY DEF BuTypeOK, Milestone, Status
  <2>2. ms' = [ms EXCEPT ![m] = r]
    BY <1>4 DEF BuTypeOK
  <2> HIDE DEF r
  <2> QED BY <2>1, <2>2 DEF BuTypeOK
<1> QED BY <1>2, <1>3, <1>4, <1>5 DEF BuTypeOK

\* A payout takes the whole amount out of the vault.
LEMMA PaidOutVault ==
    ASSUME BuTypeOK, NEW m \in Milestones, Executable(m)
    PROVE  PaidOut(m)[VaultAccount] = tokens[VaultAccount] + (0 - Amount[m])
<1> DEFINE A == Wallets \cup {VaultAccount}
           t0 == Debit(tokens, VaultAccount, Amount[m])
           t1 == Credit(t0, Outside, decision[m].extra)
           t2 == Credit(t1, Payee, PayeeAmount(m))
           t3 == Credit(t2, Payer, PayerAmount(m))
<1>1. /\ decision[m].extra \in Nat /\ Amount[m] \in Nat
      /\ PayeeAmount(m) \in Nat /\ PayerAmount(m) \in Nat
      /\ tokens[VaultAccount] \in Nat
  BY SharesType, AccountsInTokens DEF Executable, BuTypeOK
<1>2. /\ t0 \in [A -> Int] /\ t0[VaultAccount] = tokens[VaultAccount] + (0 - Amount[m])
  BY <1>1 DEF Debit, BuTypeOK
<1>3. t1 \in [A -> Int] /\ t1[VaultAccount] = t0[VaultAccount]
  <2> HIDE DEF t0
  <2> QED BY <1>1, <1>2, CreditWallet
<1>4. t2 \in [A -> Int] /\ t2[VaultAccount] = t1[VaultAccount]
  <2> HIDE DEF t1
  <2> QED BY <1>1, <1>3, CreditWallet
<1>5. t3 \in [A -> Int] /\ t3[VaultAccount] = t2[VaultAccount]
  <2> HIDE DEF t2
  <2> QED BY <1>1, <1>4, CreditWallet
<1>6. PaidOut(m) = t3
  BY DEF PaidOut
<1> HIDE DEF t0, t1, t2, t3
<1> QED BY <1>2, <1>3, <1>4, <1>5, <1>6

LEMMA ExecuteType ==
    ASSUME BuTypeOK, NEW m \in Milestones, ExecuteDecision(m)
    PROVE  BuTypeOK'
<1> DEFINE T == [Wallets \cup {VaultAccount} -> Nat]
           t0 == Debit(tokens, VaultAccount, Amount[m])
           t1 == Credit(t0, Outside, decision[m].extra)
           t2 == Credit(t1, Payee, PayeeAmount(m))
           t3 == Credit(t2, Payer, PayerAmount(m))
<1>1. /\ decision[m].extra \in Nat /\ Amount[m] \in Nat
      /\ PayeeAmount(m) \in Nat /\ PayerAmount(m) \in Nat
  BY SharesType DEF ExecuteDecision, Executable
<1>2. t0 \in T
  BY <1>1, CreditType DEF BuTypeOK, ExecuteDecision, Executable
<1>3. t1 \in T
  <2> HIDE DEF t0
  <2> QED BY <1>1, <1>2, CreditType, AccountsInTokens
<1>4. t2 \in T
  <2> HIDE DEF t1
  <2> QED BY <1>1, <1>3, CreditType, AccountsInTokens
<1>5. t3 \in T
  <2> HIDE DEF t2
  <2> QED BY <1>1, <1>4, CreditType, AccountsInTokens
<1>6. tokens' \in T
  BY <1>5 DEF ExecuteDecision, PaidOut
<1>7. net' \in [Milestones -> Int]
  BY <1>1 DEF ExecuteDecision, BuTypeOK
<1>8. /\ ms' = [ms EXCEPT ![m].released = Amount[m], ![m].locked = FALSE,
                          ![m].status = "RELEASED"]
      /\ UNCHANGED <<decision, now, elsewhere, byHand>>
  BY DEF ExecuteDecision
<1>9. ms' \in [Milestones -> Milestone]
  <2> DEFINE r == [ms[m] EXCEPT !.released = Amount[m], !.locked = FALSE,
                        !.status = "RELEASED"]
  <2>1. r \in Milestone
    BY <1>1 DEF BuTypeOK, Milestone, Status
  <2>2. ms' = [ms EXCEPT ![m] = r]
    BY <1>8 DEF BuTypeOK
  <2> HIDE DEF r
  <2> QED BY <2>1, <2>2 DEF BuTypeOK
<1> QED BY <1>6, <1>7, <1>8, <1>9 DEF BuTypeOK

LEMMA StatusType ==
    ASSUME BuTypeOK, NEW m \in Milestones,
           \/ LockMilestone(m)
           \/ CancelMilestone(m)
           \/ \E s \in Status : SetMilestoneStatus(m, s)
    PROVE  BuTypeOK'
<1>1. CASE LockMilestone(m)
  BY <1>1 DEF LockMilestone, BuTypeOK, Milestone, Status
<1>2. CASE CancelMilestone(m)
  BY <1>2 DEF CancelMilestone, BuTypeOK, Milestone, Status
<1>3. ASSUME NEW s \in Status, SetMilestoneStatus(m, s) PROVE BuTypeOK'
  <2> DEFINE end == IF s = "APPROVED" /\ ms[m].disputeWindowEnd = 0
                    THEN now + DisputeWindow ELSE ms[m].disputeWindowEnd
  <2>1. end \in Nat
    BY WindowAssumption DEF BuTypeOK, Milestone
  <2>2. /\ ms' = [ms EXCEPT ![m].status = s, ![m].disputeWindowEnd = end]
        /\ UNCHANGED <<decision, tokens, now, net, elsewhere>>
        /\ byHand' \subseteq Milestones
    BY <1>3 DEF SetMilestoneStatus, BuTypeOK
  <2> HIDE DEF end
  <2> QED BY <2>1, <2>2 DEF BuTypeOK, Milestone
<1> QED BY <1>1, <1>2, <1>3

\* No instruction in any order overdraws an account or leaves a field outside
\* its type.
THEOREM BuTypeCorrect == Spec => []BuTypeOK
<1>1. BuTypeOK /\ [Next]_vars => BuTypeOK'
  <2> SUFFICES ASSUME BuTypeOK, [Next]_vars PROVE BuTypeOK'
    OBVIOUS
  <2>1. ASSUME NEW m \in Milestones, NEW v \in VaultArgs, FundMilestone(m, v)
        PROVE  BuTypeOK'
    BY <2>1, FundType DEF FundMilestone
  <2>2. ASSUME NEW m \in Milestones, ExecutorNext(m) PROVE BuTypeOK'
    <3>1. ASSUME NEW bps \in BpsInputs, NEW extra \in ExtraInputs,
                 NEW payable \in BOOLEAN, SetDecision(m, bps, extra, payable)
          PROVE  BuTypeOK'
      BY <3>1, InputAssumption DEF SetDecision, BuTypeOK, Decision
    <3> QED BY <2>2, <3>1, ExecuteType, StatusType DEF ExecutorNext
  <2>3. CASE Tick
    BY <2>3 DEF Tick, BuTypeOK
  <2>4. CASE UNCHANGED vars
    BY <2>4 DEF vars, BuTypeOK
  <2> QED BY <2>1, <2>2, <2>3, <2>4 DEF Next
<1> QED BY <1>1, InitType, PTL DEF Spec

-----------------------------------------------------------------------------
(* The books: inductive, without any assumption on what callers pass.      *)

Books ==
    /\ BuTypeOK
    /\ \A m \in elsewhere : ms[m].funded
    /\ \A m \in Milestones \ Misused : net[m] = Owed(m)
    /\ tokens[VaultAccount] = SumFunctionOnSet(net, Milestones)

\* What one instruction on m must do to keep the books.
LEMMA BooksStep ==
    ASSUME Books, BuTypeOK', NEW m \in Milestones, NEW x \in Int,
           \A k \in Milestones \ {m} : ms'[k] = ms[k],
           ms[m].funded => ms'[m].funded,
           elsewhere' = elsewhere \/ (elsewhere' = elsewhere \cup {m} /\ ms'[m].funded),
           byHand \subseteq byHand',
           net' = [net EXCEPT ![m] = @ + x],
           tokens'[VaultAccount] = tokens[VaultAccount] + x,
           m \notin Misused' => net[m] + x = Owed(m)'
    PROVE  Books'
<1>1. net \in [Milestones -> Int] /\ tokens[VaultAccount] \in Int
  BY DEF Books, BuTypeOK
<1>2. \A k \in elsewhere' : ms'[k].funded
  BY DEF Books, BuTypeOK
<1>3. \A k \in Milestones \ Misused' : net'[k] = Owed(k)'
  <2> SUFFICES ASSUME NEW k \in Milestones \ Misused' PROVE net'[k] = Owed(k)'
    OBVIOUS
  <2>1. CASE k = m
    BY <1>1, <2>1
  <2>2. CASE k # m
    <3>1. k \notin Misused
      BY DEF Misused
    <3>2. net'[k] = net[k] /\ Owed(k)' = Owed(k)
      BY <1>1, <2>2 DEF Owed
    <3> QED BY <3>1, <3>2 DEF Books
  <2> QED BY <2>1, <2>2
<1>4. tokens'[VaultAccount] = SumFunctionOnSet(net', Milestones)
  <2>1. IsFiniteSet(Milestones)
    BY MilestonesAssumption
  <2>2. net[m] \in Int /\ net[m] + x \in Int /\ net' = [net EXCEPT ![m] = net[m] + x]
    BY <1>1
  <2>3. SumFunctionOnSet(net', Milestones)
            = SumFunctionOnSet(net, Milestones) + (net[m] + x) - net[m]
    <3>1. SumFunctionOnSet([net EXCEPT ![m] = net[m] + x], Milestones)
            = SumFunctionOnSet(net, Milestones) + (net[m] + x) - net[m]
      BY ONLY <1>1, <2>1, <2>2, m \in Milestones, SumExcept
    <3> QED BY <2>2, <3>1
  <2>4. SumFunctionOnSet(net, Milestones) = tokens[VaultAccount]
    BY DEF Books
  <2> QED BY <1>1, <2>2, <2>3, <2>4
<1> QED BY <1>2, <1>3, <1>4 DEF Books

\* An instruction that moves no token.
LEMMA BooksQuiet ==
    ASSUME Books, BuTypeOK', NEW m \in Milestones,
           \A k \in Milestones \ {m} : ms'[k] = ms[k],
           ms'[m].funded = ms[m].funded,
           (ms[m].status = "RELEASED") # (ms'[m].status = "RELEASED") => m \in byHand',
           byHand \subseteq byHand',
           UNCHANGED <<tokens, net, elsewhere>>
    PROVE  Books'
<1>1. net \in [Milestones -> Int] /\ tokens[VaultAccount] \in Int
  BY DEF Books, BuTypeOK
<1>2. net' = [net EXCEPT ![m] = @ + 0] /\ tokens'[VaultAccount] = tokens[VaultAccount] + 0
  BY <1>1
<1>3. m \notin Misused' => net[m] + 0 = Owed(m)'
  <2> SUFFICES ASSUME m \notin Misused' PROVE net[m] + 0 = Owed(m)'
    OBVIOUS
  <2>1. m \notin Misused /\ (ms[m].status = "RELEASED" <=> ms'[m].status = "RELEASED")
    BY DEF Misused
  <2>2. Owed(m)' = Owed(m) /\ net[m] = Owed(m)
    BY <2>1 DEF Owed, Books
  <2> QED BY <1>1, <2>2
<1>4. 0 \in Int /\ elsewhere' = elsewhere /\ (ms[m].funded => ms'[m].funded)
  OBVIOUS
<1> QED BY <1>2, <1>3, <1>4, BooksStep

LEMMA FundBooks ==
    ASSUME Books, BuTypeOK', NEW m \in Milestones, NEW v \in VaultArgs,
           FundMilestone(m, v)
    PROVE  Books'
<1>1. BuTypeOK /\ Amount[m] \in Nat
  BY AmountAssumption DEF Books
<1> DEFINE x == IF v = VaultAccount THEN Amount[m] ELSE 0
<1>2. x \in Int /\ tokens'[VaultAccount] = tokens[VaultAccount] + x
  BY <1>1, DepositTokens DEF FundMilestone
<1>3. net' = [net EXCEPT ![m] = @ + x]
  <2>1. net \in [Milestones -> Int]
    BY <1>1 DEF BuTypeOK
  <2>2. net' = IF v = VaultAccount THEN [net EXCEPT ![m] = @ + Amount[m]] ELSE net
    BY DEF FundMilestone, Deposit
  <2>3. [net EXCEPT ![m] = net[m] + 0] = net
    BY <2>1
  <2> QED BY <2>1, <2>2, <2>3
<1>4. /\ ms'[m].funded /\ ms'[m].status = "FUNDED"
      /\ \A k \in Milestones \ {m} : ms'[k] = ms[k]
      /\ byHand' = byHand
      /\ elsewhere' = IF v = VaultAccount THEN elsewhere ELSE elsewhere \cup {m}
  BY <1>1 DEF FundMilestone, Deposit, BuTypeOK, Milestone
<1>5. m \notin Misused' => net[m] + x = Owed(m)'
  <2> SUFFICES ASSUME m \notin Misused' PROVE net[m] + x = Owed(m)'
    OBVIOUS
  <2>1. v = VaultAccount /\ m \notin Misused
    BY <1>4 DEF Misused
  <2>2. net[m] = 0
    BY <2>1 DEF Books, Owed, FundMilestone
  <2>3. Owed(m)' = Amount[m]
    BY <1>4 DEF Owed
  <2> QED BY <1>1, <2>1, <2>2, <2>3
<1> HIDE DEF x
<1> QED BY <1>2, <1>3, <1>4, <1>5, BooksStep

LEMMA ExecuteBooks ==
    ASSUME Books, BuTypeOK', NEW m \in Milestones, ExecuteDecision(m)
    PROVE  Books'
<1>1. BuTypeOK /\ Amount[m] \in Nat /\ 0 - Amount[m] \in Int
  BY AmountAssumption DEF Books
<1>2. tokens'[VaultAccount] = tokens[VaultAccount] + (0 - Amount[m])
  BY <1>1, PaidOutVault DEF ExecuteDecision
<1>3. net' = [net EXCEPT ![m] = @ + (0 - Amount[m])]
  <2>1. net' = [net EXCEPT ![m] = net[m] - Amount[m]] /\ net[m] \in Int
    BY <1>1 DEF ExecuteDecision, BuTypeOK
  <2>2. net[m] - Amount[m] = net[m] + (0 - Amount[m])
    BY <1>1, <2>1
  <2> QED BY <2>1, <2>2
<1>4. /\ ms'[m].funded = ms[m].funded /\ ms'[m].status = "RELEASED"
      /\ \A k \in Milestones \ {m} : ms'[k] = ms[k]
      /\ UNCHANGED <<elsewhere, byHand>>
  BY <1>1 DEF ExecuteDecision, BuTypeOK, Milestone
<1>5. m \notin Misused' => net[m] + (0 - Amount[m]) = Owed(m)'
  <2> SUFFICES ASSUME m \notin Misused' PROVE net[m] + (0 - Amount[m]) = Owed(m)'
    OBVIOUS
  <2>1. net[m] = Amount[m]
    BY <1>4 DEF Misused, Books, Owed, ExecuteDecision, Executable
  <2>2. Owed(m)' = 0
    BY <1>4 DEF Owed
  <2> QED BY <1>1, <2>1, <2>2
<1> QED BY <1>1, <1>2, <1>3, <1>4, <1>5, BooksStep

LEMMA StatusBooks ==
    ASSUME Books, BuTypeOK', NEW m \in Milestones,
           \/ LockMilestone(m)
           \/ CancelMilestone(m)
           \/ \E s \in Status : SetMilestoneStatus(m, s)
    PROVE  Books'
<1>1. BuTypeOK
  BY DEF Books
<1>2. CASE LockMilestone(m)
  BY <1>1, <1>2, BooksQuiet DEF LockMilestone, BuTypeOK, Milestone
<1>3. CASE CancelMilestone(m)
  BY <1>1, <1>3, BooksQuiet DEF CancelMilestone, BuTypeOK, Milestone
<1>4. ASSUME NEW s \in Status, SetMilestoneStatus(m, s) PROVE Books'
  <2>1. /\ \A k \in Milestones \ {m} : ms'[k] = ms[k]
        /\ ms'[m].funded = ms[m].funded /\ ms'[m].status = s
        /\ byHand' = IF (ms[m].status = "RELEASED") # (s = "RELEASED")
                      THEN byHand \cup {m} ELSE byHand
        /\ UNCHANGED <<tokens, net, elsewhere>>
    BY <1>1, <1>4 DEF SetMilestoneStatus, BuTypeOK, Milestone
  <2> QED BY <2>1, BooksQuiet
<1> QED BY <1>2, <1>3, <1>4

LEMMA BooksFrame ==
    ASSUME Books, UNCHANGED <<ms, tokens, net, elsewhere, byHand>>, BuTypeOK'
    PROVE  Books'
BY DEF Books, Misused, Owed

LEMMA BooksInvariant == Spec => []Books
<1>1. Init => Books
  <2> SUFFICES ASSUME Init PROVE Books
    OBVIOUS
  <2>1. SumFunctionOnSet(net, Milestones) = 0
    BY MilestonesAssumption, SumZero DEF Init
  <2> QED BY <2>1, InitType DEF Init, Books, Owed
<1>2. Books /\ BuTypeOK' /\ [Next]_vars => Books'
  <2> SUFFICES ASSUME Books, BuTypeOK', [Next]_vars PROVE Books'
    OBVIOUS
  <2>1. ASSUME NEW m \in Milestones, ExecutorNext(m) PROVE Books'
    <3>1. ASSUME NEW bps \in BpsInputs, NEW extra \in ExtraInputs,
                 NEW payable \in BOOLEAN, SetDecision(m, bps, extra, payable)
          PROVE  Books'
      BY <3>1, BooksFrame DEF SetDecision
    <3> QED BY <2>1, <3>1, ExecuteBooks, StatusBooks DEF ExecutorNext
  <2>2. CASE Tick
    BY <2>2, BooksFrame DEF Tick
  <2>3. CASE UNCHANGED vars
    BY <2>3, BooksFrame DEF vars
  <2> QED BY <2>1, <2>2, <2>3, FundBooks DEF Next
<1> QED BY <1>1, <1>2, BuTypeCorrect, PTL DEF Spec

LEMMA VaultIsSum == Books => tokens[VaultAccount] = SumFunction(net)
BY DEF Books, BuTypeOK, SumFunction

\* Whatever account is passed as the vault and whatever status is set: each
\* milestone funded into the vault whose status only execution takes to
\* RELEASED is backed by exactly its own deposit, and the vault holds the sum
\* of what it got and paid for all of them.
THEOREM BuEscrowBacked == Spec => []BuBacked
<1>1. Books => BuBacked
  BY VaultIsSum DEF Books, BuBacked
<1> QED BY <1>1, BooksInvariant, PTL

\* cancel_milestone refunds nobody and loses nothing: whatever is cancelled,
\* locked or paid before, a payable decision of a milestone used as intended
\* can be executed, unless a milestone funded elsewhere or moved by hand was
\* paid more than the vault got for it.
THEOREM BuCancelLosesNothing == Spec => []CancelLosesNothing
<1>1. Books => CancelLosesNothing
  <2> SUFFICES ASSUME Books, NEW m \in Milestones \ Misused,
                      ms[m].funded, ms[m].status # "RELEASED", decision[m].isSet,
                      decision[m].payable, decision[m].extra <= Amount[m],
                      \A n \in Misused : ~(net[n] < 0)
               PROVE  tokens[VaultAccount] >= Amount[m]
    BY DEF CancelLosesNothing, Executable
  <2>1. BuTypeOK /\ net \in [Milestones -> Int]
    BY DEF Books, BuTypeOK
  <2>2. \A n \in Milestones : net[n] \in Nat
    <3> SUFFICES ASSUME NEW n \in Milestones PROVE net[n] \in Nat
      OBVIOUS
    <3>1. CASE n \in Misused
      BY <2>1, <3>1
    <3>2. CASE n \notin Misused
      BY <3>2, AmountAssumption DEF Books, Owed
    <3> QED BY <3>1, <3>2
  <2>3. net[m] = Amount[m]
    BY DEF Books, Owed
  <2>4. net[m] <= SumFunctionOnSet(net, Milestones)
    BY <2>2, MilestonesAssumption, SumHasMember
  <2>5. tokens[VaultAccount] = SumFunctionOnSet(net, Milestones)
    BY DEF Books
  <2>6. tokens[VaultAccount] \in Nat /\ Amount[m] \in Nat
    BY <2>1, AmountAssumption, AccountsInTokens DEF BuTypeOK
  <2> QED BY <2>3, <2>4, <2>5, <2>6
<1> QED BY <1>1, BooksInvariant, PTL

-----------------------------------------------------------------------------
(* The refinement, step by step.                                           *)

StakedBar == [m \in Milestones |-> [p \in {Payer, Payee} |-> 0]]
VerdictsBar == [m \in Milestones |-> <<>>]
WalletBar == [a \in Wallets |-> tokens[a]]

\* What an update of one milestone is after the mapping.
LEMMA MappedUpdate ==
    ASSUME BuTypeOK, NEW m \in Milestones,
           NEW r \in Milestone,
           ms' = [ms EXCEPT ![m] = r]
    PROVE  msAsEnum' = [msAsEnum EXCEPT ![m] = [r EXCEPT !.status = AsEnum(@)]]
BY DEF msAsEnum, BuTypeOK, Milestone

LEMMA MappedFields ==
    ASSUME BuTypeOK, NEW m \in Milestones
    PROVE  /\ msAsEnum[m].released = ms[m].released
           /\ msAsEnum[m].funded = ms[m].funded
           /\ msAsEnum[m].locked = ms[m].locked
           /\ msAsEnum[m].status = AsEnum(ms[m].status)
           /\ msAsEnum[m].disputeWindowEnd = ms[m].disputeWindowEnd
           /\ \A s \in Status \ {"VERIFYING", "UNKNOWN"} :
                 msAsEnum[m].status = s <=> ms[m].status = s
BY DEF msAsEnum, BuTypeOK, Milestone, AsEnum

LEMMA InitMapped == Init => V3!Init
<1> SUFFICES ASSUME Init PROVE V3!Init
  OBVIOUS
<1>1. msAsEnum = [m \in Milestones |->
                [released |-> 0, funded |-> FALSE, locked |-> FALSE,
                 status |-> "PENDING", disputeWindowEnd |-> 0]]
  BY DEF Init, msAsEnum, AsEnum
<1>2. tokens[VaultAccount] = 0 /\ WalletBar = Funds
  BY VaultAssumption, InputAssumption DEF Init, WalletBar
<1> QED BY <1>1, <1>2 DEF Init, V3!Init, V3!Parties, WalletBar

LEMMA FundMapped ==
    ASSUME BuTypeOK, NEW m \in Milestones, FundMilestone(m, VaultAccount)
    PROVE  V3!FundMilestone(m)
<1>1. Amount[m] \in Nat /\ Payer \in Wallets /\ Payer # VaultAccount
  BY AmountAssumption, AccountsInTokens
<1>2. ~msAsEnum[m].funded /\ msAsEnum[m].status = "PENDING"
  BY MappedFields DEF FundMilestone, Status, AsEnum
<1>3. msAsEnum' = [msAsEnum EXCEPT ![m].funded = TRUE, ![m].status = "FUNDED"]
  BY DEF FundMilestone, Deposit, msAsEnum, BuTypeOK, AsEnum
<1>4. /\ WalletBar[Payer] >= Amount[m]
      /\ WalletBar' = [WalletBar EXCEPT ![Payer] = @ - Amount[m]]
      /\ tokens[VaultAccount]' = tokens[VaultAccount] + Amount[m]
  <2>1. /\ tokens' = [[tokens EXCEPT ![Payer] = @ - Amount[m]] EXCEPT ![VaultAccount] = @ + Amount[m]]
        /\ tokens[Payer] >= Amount[m] /\ DOMAIN tokens = Wallets \cup {VaultAccount}
    BY DEF FundMilestone, Deposit, Credit, Debit, BuTypeOK
  <2>2. /\ tokens'[VaultAccount] = tokens[VaultAccount] + Amount[m]
        /\ tokens'[Payer] = tokens[Payer] - Amount[m]
        /\ \A a \in Wallets \ {Payer} : tokens'[a] = tokens[a]
    BY <1>1, <2>1, AccountsInTokens
  <2>3. WalletBar' = [a \in Wallets |-> tokens'[a]]
    BY DEF WalletBar
  <2>4. WalletBar' = [WalletBar EXCEPT ![Payer] = @ - Amount[m]]
    BY <1>1, <2>2, <2>3 DEF WalletBar
  <2> QED BY <1>1, <2>1, <2>2, <2>4 DEF WalletBar
<1> QED BY <1>2, <1>3, <1>4 DEF FundMilestone, Deposit, V3!FundMilestone, V3!Pull, WalletBar

LEMMA LockMapped ==
    ASSUME BuTypeOK, NEW m \in Milestones, LockMilestone(m)
    PROVE  V3!LockMilestone(m)
<1>1. /\ msAsEnum[m].funded /\ ~msAsEnum[m].locked
      /\ msAsEnum[m].status \in {"FUNDED", "SUBMITTED", "APPROVED", "REJECTED"}
  BY MappedFields DEF LockMilestone, AsEnum
<1>2. msAsEnum' = [msAsEnum EXCEPT ![m].locked = TRUE, ![m].status = "DISPUTED"]
  BY DEF LockMilestone, msAsEnum, BuTypeOK, AsEnum
<1> QED BY <1>1, <1>2
        DEF LockMilestone, V3!LockMilestone, V3!Lockable, V3!Lock

LEMMA StatusMapped ==
    ASSUME BuTypeOK, NEW m \in Milestones, NEW s \in Status, SetMilestoneStatus(m, s)
    PROVE  V3!SetMilestoneStatus(m, AsEnum(s))
<1>1. <<msAsEnum[m].status, AsEnum(s)>> \in UpdatesAndCancels
  BY MappedFields DEF SetMilestoneStatus, UpdatesAndCancels
<1>2. s = "APPROVED" <=> AsEnum(s) = "APPROVED"
  BY DEF AsEnum
<1> DEFINE end == IF s = "APPROVED" /\ ms[m].disputeWindowEnd = 0
                   THEN now + DisputeWindow ELSE ms[m].disputeWindowEnd
           r == [ms[m] EXCEPT !.status = s, !.disputeWindowEnd = end]
           e == IF AsEnum(s) = "APPROVED" /\ msAsEnum[m].disputeWindowEnd = 0
                THEN now + DisputeWindow ELSE msAsEnum[m].disputeWindowEnd
<1>3. end \in Nat /\ end = e
  BY <1>2, WindowAssumption, MappedFields DEF BuTypeOK, Milestone
<1>4. r \in Milestone
  <2> HIDE DEF end
  <2> QED BY <1>3 DEF BuTypeOK, Milestone
<1>5. ms' = [ms EXCEPT ![m] = r]
  BY DEF SetMilestoneStatus, BuTypeOK, Milestone
<1>6. msAsEnum' = [msAsEnum EXCEPT ![m] = [r EXCEPT !.status = AsEnum(@)]]
  <2> HIDE DEF r
  <2> QED BY <1>4, <1>5, MappedUpdate
<1>7. [r EXCEPT !.status = AsEnum(@)]
        = [msAsEnum[m] EXCEPT !.status = AsEnum(s), !.disputeWindowEnd = end]
  <2> HIDE DEF end
  <2> QED BY DEF msAsEnum, BuTypeOK, Milestone
<1>8. msAsEnum' = [msAsEnum EXCEPT ![m].status = AsEnum(s),
                                   ![m].disputeWindowEnd = e]
  <2> HIDE DEF end, e, r
  <2> QED BY <1>3, <1>6, <1>7 DEF msAsEnum
<1> QED BY <1>1, <1>8 DEF SetMilestoneStatus, V3!SetMilestoneStatus

LEMMA CancelMapped ==
    ASSUME BuTypeOK, NEW m \in Milestones, CancelMilestone(m)
    PROVE  V3!SetMilestoneStatus(m, "CANCELLED")
<1>1. <<msAsEnum[m].status, "CANCELLED">> \in UpdatesAndCancels
  <2>1. ms[m].status \in Status \ {"RELEASED", "CANCELLED"}
    BY DEF CancelMilestone, BuTypeOK, Milestone
  <2> QED BY <2>1, MappedFields DEF UpdatesAndCancels
<1> DEFINE r == [ms[m] EXCEPT !.status = "CANCELLED"]
<1>2. r \in Milestone /\ ms' = [ms EXCEPT ![m] = r]
  BY DEF CancelMilestone, BuTypeOK, Milestone, Status
<1>3. msAsEnum' = [msAsEnum EXCEPT ![m] = [r EXCEPT !.status = AsEnum(@)]]
  <2> HIDE DEF r
  <2> QED BY <1>2, MappedUpdate
<1>4. [r EXCEPT !.status = AsEnum(@)]
        = [msAsEnum[m] EXCEPT !.status = "CANCELLED",
                              !.disputeWindowEnd = msAsEnum[m].disputeWindowEnd]
  BY DEF msAsEnum, BuTypeOK, Milestone, AsEnum
<1>5. msAsEnum' = [msAsEnum EXCEPT ![m].status = "CANCELLED",
                ![m].disputeWindowEnd = msAsEnum[m].disputeWindowEnd]
  <2> HIDE DEF r
  <2> QED BY <1>3, <1>4 DEF msAsEnum
<1> QED BY <1>1, <1>5 DEF CancelMilestone, V3!SetMilestoneStatus

LEMMA DecisionMapped ==
    ASSUME NEW m \in Milestones, NEW bps \in BpsInputs, NEW extra \in ExtraInputs,
           NEW payable \in BOOLEAN, SetDecision(m, bps, extra, payable)
    PROVE  V3!SetDecision(m, bps, extra, payable)
<1>1. msAsEnum' = msAsEnum
  BY DEF SetDecision, msAsEnum
<1> QED BY <1>1 DEF SetDecision, V3!SetDecision, V3!Bps, Bps

\* The payout: no bonds are staked, and none are settled.
LEMMA ExecuteMapped ==
    ASSUME BuTypeOK, NEW m \in Milestones, ExecuteDecision(m)
    PROVE  V3!ExecuteDecision(m)
<1>1. /\ decision[m].extra \in Nat /\ Amount[m] \in Nat
      /\ PayeeAmount(m) \in Nat /\ PayeeAmount(m) <= Distributable(m)
      /\ PayerAmount(m) \in Nat
      /\ decision[m].extra <= Amount[m]
  BY SharesType DEF ExecuteDecision, Executable
<1>2. /\ V3!Distributable(m) = Distributable(m)
      /\ V3!PayeeAmount(m) = PayeeAmount(m)
      /\ V3!PayerAmount(m) = PayerAmount(m)
  BY DEF V3!Distributable, Distributable, V3!PayeeAmount, PayeeAmount,
         V3!PayerAmount, PayerAmount
<1>3. /\ StakedBar[m][Payer] = 0 /\ StakedBar[m][Payee] = 0
      /\ V3!Loser(m) \in {Payer, Payee} /\ V3!Winner(m) \in {Payer, Payee}
      /\ StakedBar[m][V3!Loser(m)] = 0
      /\ V3!StakedTotal(m) = 0
      /\ V3!ForfeitTo(m) \in Wallets
  BY DEF StakedBar, V3!Loser, V3!Winner, V3!StakedTotal, V3!ForfeitTo, Wallets
<1>4. V3!Outflow(m) = Amount[m]
  BY <1>1, <1>3 DEF V3!Outflow
<1>5. V3!Executable(m)
  <2>1. msAsEnum[m].funded /\ msAsEnum[m].status # "RELEASED"
    BY MappedFields DEF ExecuteDecision, Executable, Status, AsEnum
  <2> QED BY <1>1, <1>2, <1>4, <2>1 DEF ExecuteDecision, Executable, V3!Executable
<1>6. msAsEnum' = [msAsEnum EXCEPT ![m].released = Amount[m], ![m].locked = FALSE,
                                   ![m].status = "RELEASED"]
  <2> DEFINE r == [ms[m] EXCEPT !.released = Amount[m], !.locked = FALSE,
                                !.status = "RELEASED"]
  <2>1. r \in Milestone /\ ms' = [ms EXCEPT ![m] = r]
    BY <1>1 DEF ExecuteDecision, BuTypeOK, Milestone, Status
  <2>2. msAsEnum' = [msAsEnum EXCEPT ![m] = [r EXCEPT !.status = AsEnum(@)]]
    <3> HIDE DEF r
    <3> QED BY <2>1, MappedUpdate
  <2>3. [r EXCEPT !.status = AsEnum(@)]
          = [msAsEnum[m] EXCEPT !.released = Amount[m], !.locked = FALSE,
                                !.status = "RELEASED"]
    BY DEF msAsEnum, BuTypeOK, Milestone, AsEnum
  <2> HIDE DEF r
  <2> QED BY <2>2, <2>3 DEF msAsEnum
<1> DEFINE e == decision[m].extra
           x == PayeeAmount(m)
           y == PayerAmount(m)
           A == Wallets \cup {VaultAccount}
           t0 == Debit(tokens, VaultAccount, Amount[m])
           t1 == Credit(t0, Outside, e)
           t2 == Credit(t1, Payee, x)
           t3 == Credit(t2, Payer, y)
           v1 == Credit(WalletBar, Outside, e)
           v2 == Credit(v1, Payee, x)
           v3 == Credit(v2, Payer, y)
<1>7. tokens' = t3
  BY DEF ExecuteDecision, PaidOut
<1>8. /\ t0 \in [A -> Int] /\ t0[VaultAccount] = tokens[VaultAccount] - Amount[m]
      /\ [a \in Wallets |-> t0[a]] = WalletBar
  BY <1>1, AccountsInTokens DEF Debit, WalletBar, BuTypeOK
<1>8a. e \in Nat /\ x \in Nat /\ y \in Nat
  BY <1>1
<1>9. /\ t1 \in [A -> Int] /\ t1[VaultAccount] = t0[VaultAccount]
      /\ [a \in Wallets |-> t1[a]] = v1
  <2> HIDE DEF t0, e
  <2> QED BY ONLY <1>8a, <1>8, CreditWallet
<1>10. /\ t2 \in [A -> Int] /\ t2[VaultAccount] = t1[VaultAccount]
       /\ [a \in Wallets |-> t2[a]] = v2
  <2> HIDE DEF t0, t1, v1, x
  <2> QED BY ONLY <1>8a, <1>9, CreditWallet
<1>11. /\ t3 \in [A -> Int] /\ t3[VaultAccount] = t2[VaultAccount]
       /\ [a \in Wallets |-> t3[a]] = v3
  <2> HIDE DEF t0, t1, t2, v1, v2, y
  <2> QED BY ONLY <1>8a, <1>10, CreditWallet
<1>12. v3 \in [Wallets -> Int]
  <2> HIDE DEF t3, v3
  <2>1. \A a \in Wallets : t3[a] \in Int
    BY <1>11
  <2> QED BY <1>11, <2>1
<1>13. V3!PaidOut(m) = v3
  <2>1. V3!PaidOut(m) = V3!Credit(V3!Credit(v3, V3!Winner(m), 0), V3!ForfeitTo(m), 0)
    BY <1>2, <1>3 DEF V3!PaidOut, V3!Credit, Credit, WalletBar
  <2> HIDE DEF v3
  <2>2. V3!Credit(v3, V3!Winner(m), 0) = v3
    BY <1>3, <1>12 DEF V3!Credit, Wallets
  <2>3. V3!Credit(v3, V3!ForfeitTo(m), 0) = v3
    BY <1>3, <1>12 DEF V3!Credit
  <2> QED BY <2>1, <2>2, <2>3
<1>14. WalletBar' = v3 /\ tokens[VaultAccount]' = tokens[VaultAccount] - Amount[m]
  <2>1. WalletBar' = [a \in Wallets |-> tokens'[a]]
    BY DEF WalletBar
  <2> HIDE DEF t0, t1, t2, t3, v1, v2, v3
  <2> QED BY <1>7, <1>8, <1>9, <1>10, <1>11, <2>1
<1>15. V3!SettleBonds(m)
  BY DEF V3!SettleBonds, V3!Parties
<1>16. net' = [net EXCEPT ![m] = @ - Amount[m]] /\ UNCHANGED <<decision, now>>
  BY DEF ExecuteDecision
<1> HIDE DEF v3
<1> QED BY <1>4, <1>5, <1>6, <1>13, <1>14, <1>15, <1>16 DEF V3!ExecuteDecision, WalletBar

LEMMA StepMapped == Books /\ [Next]_vars => [ContractStep]_(V3!vars)
<1> SUFFICES ASSUME Books, [Next]_vars, elsewhere' = elsewhere
             PROVE  V3!Next \/ UNCHANGED V3!vars
  BY DEF ContractStep
<1>0. BuTypeOK
  BY DEF Books
<1>1. ASSUME NEW m \in Milestones, NEW v \in VaultArgs, FundMilestone(m, v)
      PROVE  V3!Next
  <2>1. v = VaultAccount
    BY <1>1 DEF Books, FundMilestone, Deposit
  <2> QED BY <1>0, <1>1, <2>1, FundMapped DEF V3!Next, V3!PartyNext
<1>2. ASSUME NEW m \in Milestones, ExecutorNext(m) PROVE V3!Next
  <2>1. CASE LockMilestone(m)
    BY <1>0, <2>1, LockMapped DEF V3!Next, V3!ExecutorNext
  <2>2. ASSUME NEW s \in Status, SetMilestoneStatus(m, s) PROVE V3!Next
    BY <1>0, <2>2, StatusMapped, EnumType DEF V3!Next, V3!ExecutorNext
  <2>3. ASSUME NEW bps \in BpsInputs, NEW extra \in ExtraInputs,
               NEW payable \in BOOLEAN, SetDecision(m, bps, extra, payable)
        PROVE  V3!Next
    BY <2>3, DecisionMapped DEF V3!Next, V3!ExecutorNext
  <2>4. CASE ExecuteDecision(m)
    BY <1>0, <2>4, ExecuteMapped DEF V3!Next, V3!ExecutorNext
  <2>5. CASE CancelMilestone(m)
    <3>1. "CANCELLED" \in V3!Status
      BY DEF V3!Status
    <3> QED BY <1>0, <2>5, <3>1, CancelMapped DEF V3!Next, V3!ExecutorNext
  <2> QED BY <1>2, <2>1, <2>2, <2>3, <2>4, <2>5 DEF ExecutorNext
<1>3. CASE Tick
  BY <1>3 DEF Tick, V3!Tick, V3!Next, msAsEnum
<1>4. CASE UNCHANGED vars
  BY <1>4 DEF vars, V3!vars, msAsEnum
<1> QED BY <1>1, <1>2, <1>3, <1>4 DEF Next

\* Every behaviour of the program is, but for its fundings of other accounts,
\* one of the EVM contract without bonds, where a cancellation is a status
\* update.
THEOREM BuImplementsEscrowV3 == Spec => ImplementsEscrowV3
<1>1. Init => V3!Init
  BY InitMapped
<1> QED BY <1>1, StepMapped, BooksInvariant, PTL DEF Spec, ImplementsEscrowV3
=============================================================================
