------------------------------ MODULE EscrowV3 ------------------------------
(***************************************************************************)
(* The on-chain milestone escrow, EscrowWithAgentV3.sol: one agreement     *)
(* between a payer and a payee, a list of milestones funded, disputed and  *)
(* released one by one out of a single pooled token balance.               *)
(*                                                                         *)
(* One action is one external function, called in a transaction that       *)
(* either takes every effect below or reverts (the action is disabled).    *)
(* Callers may call any function at any time in any order, which is what   *)
(* the chain allows.  Hashes, events, fee and agent settings are data no   *)
(* function reads, and are left out.                                       *)
(***************************************************************************)
EXTENDS Integers, Sequences, FiniteSets, Functions

CONSTANTS
    Milestones,     \* the indices of milestones[]
    Amount,         \* Amount[m]: milestones[m].amount
    Payer, Payee,
    BondRecipient,  \* bonds.bondRecipient, possibly ZeroAddress
    ZeroAddress,
    Outside,        \* everyone the extra payouts of a decision go to
    DisputeBond, AppealBond,
    DisputeWindow, AppealWindow,
    Funds,          \* Funds[a]: tokens account a holds and approved at start
    BpsInputs,      \* payeeBps arguments callers try
    ExtraInputs,    \* total extra payouts a decision may carry
    StatusUpdates,  \* <<old, new>> pairs setMilestoneStatus is called at
    MaxVerdicts,    \* bound on the verdicts recorded per milestone
    MaxTime         \* bound on block.timestamp

Parties == {Payer, Payee}
Accounts == Parties \cup {BondRecipient, Outside}

Status == {"PENDING", "FUNDED", "SUBMITTED", "VERIFYING", "APPROVED",
           "REJECTED", "DISPUTED", "RELEASED", "CANCELLED"}

\* milestones[] is an array.
ASSUME MilestonesAssumption == IsFiniteSet(Milestones)
\* What initialize() requires of the agreement: payer and payee may coincide.
ASSUME PartiesAssumption == ZeroAddress \notin Parties
ASSUME AmountAssumption == Amount \in [Milestones -> Nat]
ASSUME BondAssumption == /\ DisputeBond \in Nat /\ AppealBond \in Nat
                         /\ AppealBond >= DisputeBond
ASSUME WindowAssumption == DisputeWindow \in Nat /\ AppealWindow \in Nat
\* Bounds and inputs.
ASSUME InputAssumption == /\ Funds \in [Accounts -> Nat]
                          /\ BpsInputs \subseteq Nat
                          /\ ExtraInputs \subseteq Nat
                          /\ StatusUpdates \subseteq Status \X Status
                          /\ MaxVerdicts \in Nat /\ MaxTime \in Nat

VARIABLES
    ms,         \* milestones[]: released, funded, locked, status, disputeWindowEnd
    decision,   \* _decisions; extra is the sum of extraPayouts, payable is
                \* FALSE when a payout's address is zero (its transfer reverts)
    verdicts,   \* _verdicts; the layer and hash are never read back
    staked,     \* staked[m][p]: value of the unsettled _bonds p deposited
    balance,    \* token.balanceOf(address(this))
    wallet,     \* the token balances of the other accounts
    now,        \* block.timestamp
    net         \* history: tokens deposited for m minus tokens paid out for m

vars == <<ms, decision, verdicts, staked, balance, wallet, now, net>>

Bps == 0..10000
Milestone == [released: Nat, funded: BOOLEAN, locked: BOOLEAN,
              status: Status, disputeWindowEnd: Nat]
Decision == [isSet: BOOLEAN, payeeBps: Bps, extra: Nat, payable: BOOLEAN]
Verdict == [payeeBps: Bps, timestamp: Nat, appealed: BOOLEAN]

Init ==
    /\ ms = [m \in Milestones |->
                [released |-> 0, funded |-> FALSE, locked |-> FALSE,
                 status |-> "PENDING", disputeWindowEnd |-> 0]]
    /\ decision = [m \in Milestones |->
                      [isSet |-> FALSE, payeeBps |-> 0, extra |-> 0,
                       payable |-> TRUE]]
    /\ verdicts = [m \in Milestones |-> <<>>]
    /\ staked = [m \in Milestones |-> [p \in Parties |-> 0]]
    /\ balance = 0
    /\ wallet = Funds
    /\ now = 1
    /\ net = [m \in Milestones |-> 0]

-----------------------------------------------------------------------------
(* safeTransferFrom(a, this, x) on behalf of milestone m: reverts unless a *)
(* holds (and has approved) x.                                             *)
Pull(a, m, x) ==
    /\ wallet[a] >= x
    /\ wallet' = [wallet EXCEPT ![a] = @ - x]
    /\ balance' = balance + x
    /\ net' = [net EXCEPT ![m] = @ + x]

Credit(w, a, x) == [w EXCEPT ![a] = @ + x]

Last(s) == s[Len(s)]

\* Mutant: no check of the funded flag.
FundAgain(m) ==
    /\ ms[m].status = "PENDING"
    /\ Pull(Payer, m, Amount[m])
    /\ ms' = [ms EXCEPT ![m].funded = TRUE, ![m].status = "FUNDED"]
    /\ UNCHANGED <<decision, verdicts, staked, now>>

FundMilestone(m) ==
    /\ ~ms[m].funded
    /\ ms[m].status = "PENDING"
    /\ Pull(Payer, m, Amount[m])
    /\ ms' = [ms EXCEPT ![m].funded = TRUE, ![m].status = "FUNDED"]
    /\ UNCHANGED <<decision, verdicts, staked, now>>

\* Mutant: the lock flag is not set.
LockStatusOnly(m) == ms' = [ms EXCEPT ![m].status = "DISPUTED"]

Lock(m) == ms' = [ms EXCEPT ![m].locked = TRUE, ![m].status = "DISPUTED"]

Lockable(m) ==
    /\ ms[m].funded
    /\ ~ms[m].locked
    /\ ms[m].status \in {"FUNDED", "SUBMITTED", "APPROVED", "REJECTED"}

LockMilestone(m) ==
    /\ Lockable(m)
    /\ Lock(m)
    /\ UNCHANGED <<decision, verdicts, staked, balance, wallet, now, net>>

DisputeWithBond(m, p) ==
    /\ ms[m].funded
    /\ ~ms[m].locked
    /\ ms[m].status \in {"APPROVED", "REJECTED"}
    /\ DisputeBond > 0
    /\ Pull(p, m, DisputeBond)
    /\ staked' = [staked EXCEPT ![m][p] = @ + DisputeBond]
    /\ Lock(m)
    /\ UNCHANGED <<decision, verdicts, now>>

\* Mutant: no check that the milestone is in dispute.
AppealInAnyStatus(m, p) ==
    /\ AppealBond > 0
    /\ verdicts[m] # <<>>
    /\ ~Last(verdicts[m]).appealed
    /\ now <= Last(verdicts[m]).timestamp + AppealWindow
    /\ verdicts' = [verdicts EXCEPT ![m][Len(verdicts[m])].appealed = TRUE]
    /\ Pull(p, m, AppealBond)
    /\ staked' = [staked EXCEPT ![m][p] = @ + AppealBond]
    /\ UNCHANGED <<ms, decision, now>>

AppealWithBond(m, p) ==
    /\ ms[m].status = "DISPUTED"
    /\ AppealBond > 0
    /\ verdicts[m] # <<>>
    /\ ~Last(verdicts[m]).appealed
    /\ now <= Last(verdicts[m]).timestamp + AppealWindow
    /\ verdicts' = [verdicts EXCEPT ![m][Len(verdicts[m])].appealed = TRUE]
    /\ Pull(p, m, AppealBond)
    /\ staked' = [staked EXCEPT ![m][p] = @ + AppealBond]
    /\ UNCHANGED <<ms, decision, now>>

RecordVerdict(m, bps, appealed) ==
    /\ Len(verdicts[m]) < MaxVerdicts
    /\ bps \in Bps
    /\ ms[m].status = "DISPUTED"
    /\ verdicts' = [verdicts EXCEPT ![m] = Append(@,
            [payeeBps |-> bps, timestamp |-> now, appealed |-> appealed])]
    /\ UNCHANGED <<ms, decision, staked, balance, wallet, now, net>>

\* Every change of status is possible; only the first APPROVED opens a
\* dispute window, and locked, funded and the decision are left as they are.
SetMilestoneStatus(m, newStatus) ==
    /\ <<ms[m].status, newStatus>> \in StatusUpdates
    /\ ms' = [ms EXCEPT ![m].status = newStatus,
                        ![m].disputeWindowEnd =
                            IF newStatus = "APPROVED" /\ @ = 0
                            THEN now + DisputeWindow ELSE @]
    /\ UNCHANGED <<decision, verdicts, staked, balance, wallet, now, net>>

\* Mutant: no range check of payeeBps.
SetDecisionAnyBps(m, bps, extra, payable) ==
    /\ ~decision[m].isSet
    /\ decision' = [decision EXCEPT ![m] =
            [isSet |-> TRUE, payeeBps |-> bps, extra |-> extra,
             payable |-> payable]]
    /\ UNCHANGED <<ms, verdicts, staked, balance, wallet, now, net>>

SetDecision(m, bps, extra, payable) ==
    /\ bps \in Bps
    /\ ~decision[m].isSet
    /\ decision' = [decision EXCEPT ![m] =
            [isSet |-> TRUE, payeeBps |-> bps, extra |-> extra,
             payable |-> payable]]
    /\ UNCHANGED <<ms, verdicts, staked, balance, wallet, now, net>>

-----------------------------------------------------------------------------
(* executeDecision: the shares of a decision d of milestone m.             *)
Distributable(m) == Amount[m] - decision[m].extra
\* Mutant: the share is taken of the amount before the extra payouts.
PayeeAmountOfGross(m) == (Amount[m] * decision[m].payeeBps) \div 10000
PayeeAmount(m) == (Distributable(m) * decision[m].payeeBps) \div 10000
\* Mutant: the refund is not reduced by the extra payouts.
PayerAmountOfGross(m) == Amount[m] - PayeeAmount(m)
PayerAmount(m) == Distributable(m) - PayeeAmount(m)

\* _settleBonds: at 5000 basis points and above the payer has lost.
Loser(m) == IF decision[m].payeeBps >= 5000 THEN Payer ELSE Payee
Winner(m) == IF decision[m].payeeBps >= 5000 THEN Payee ELSE Payer
ForfeitTo(m) == IF BondRecipient # ZeroAddress THEN BondRecipient ELSE Loser(m)

StakedTotal(m) ==
    staked[m][Payer] + (IF Payee # Payer THEN staked[m][Payee] ELSE 0)

\* Mutant: the bonds are not part of the payout.
OutflowWithoutBonds(m) == Amount[m]

\* Everything one executeDecision sends away, bonds included.
Outflow(m) == Amount[m] + StakedTotal(m)

\* The transfers of the extra payouts, the two shares and the bonds.
PaidOut(m) ==
    LET shares == Credit(Credit(Credit(wallet, Outside, decision[m].extra),
                                Payee, PayeeAmount(m)),
                         Payer, PayerAmount(m))
    IN  Credit(Credit(shares, Winner(m), StakedTotal(m) - staked[m][Loser(m)]),
               ForfeitTo(m), staked[m][Loser(m)])

\* Mutant: no check that the milestone has not been released.
ExecutableAgain(m) ==
    /\ ms[m].funded
    /\ decision[m].isSet
    /\ decision[m].payable
    /\ decision[m].extra <= Amount[m]
    /\ PayeeAmount(m) <= Distributable(m)
    /\ balance >= Outflow(m)

\* Mutant: a milestone locked for a dispute is not paid.
ExecutableUnlocked(m) ==
    /\ ms[m].funded
    /\ ~ms[m].locked
    /\ ms[m].status # "RELEASED"
    /\ decision[m].isSet
    /\ decision[m].payable
    /\ decision[m].extra <= Amount[m]
    /\ PayeeAmount(m) <= Distributable(m)
    /\ balance >= Outflow(m)

\* The require statements, the checked subtraction, and the token's balance
\* check on the transfers.
Executable(m) ==
    /\ ms[m].funded
    /\ ms[m].status # "RELEASED"
    /\ decision[m].isSet
    /\ decision[m].payable
    /\ decision[m].extra <= Amount[m]
    /\ PayeeAmount(m) <= Distributable(m)
    /\ balance >= Outflow(m)

\* Mutant: the bonds are paid but not marked settled.
SettleNothing(m) == staked' = staked

SettleBonds(m) == staked' = [staked EXCEPT ![m] = [p \in Parties |-> 0]]

ExecuteDecision(m) ==
    /\ Executable(m)
    /\ ms' = [ms EXCEPT ![m].released = Amount[m], ![m].locked = FALSE,
                        ![m].status = "RELEASED"]
    /\ wallet' = PaidOut(m)
    /\ balance' = balance - Outflow(m)
    /\ net' = [net EXCEPT ![m] = @ - Outflow(m)]
    /\ SettleBonds(m)
    /\ UNCHANGED <<decision, verdicts, now>>

Tick ==
    /\ now < MaxTime
    /\ now' = now + 1
    /\ UNCHANGED <<ms, decision, verdicts, staked, balance, wallet, net>>

PartyNext(m) ==
    \/ FundMilestone(m)
    \/ \E p \in Parties : DisputeWithBond(m, p) \/ AppealWithBond(m, p)

ExecutorNext(m) ==
    \/ LockMilestone(m)
    \/ \E bps \in BpsInputs, appealed \in BOOLEAN : RecordVerdict(m, bps, appealed)
    \/ \E s \in Status : SetMilestoneStatus(m, s)
    \/ \E bps \in BpsInputs, extra \in ExtraInputs, payable \in BOOLEAN :
            SetDecision(m, bps, extra, payable)
    \/ ExecuteDecision(m)

Next ==
    \/ \E m \in Milestones : PartyNext(m) \/ ExecutorNext(m)
    \/ Tick

Spec == Init /\ [][Next]_vars

-----------------------------------------------------------------------------
(***************************************************************************)
(* Properties                                                              *)
(***************************************************************************)

\* Every variable stays within its Solidity type, and no account is ever
\* debited more than it holds.
TypeOK ==
    /\ ms \in [Milestones -> Milestone]
    /\ decision \in [Milestones -> Decision]
    /\ verdicts \in [Milestones -> Seq(Verdict)]
    /\ staked \in [Milestones -> [Parties -> Nat]]
    /\ balance \in Nat
    /\ wallet \in [Accounts -> Nat]
    /\ now \in Nat
    /\ net \in [Milestones -> Int]

(* setMilestoneStatus accepts any change of status.  The escrow keeps its  *)
(* books only with a caller that moves no milestone into or out of         *)
(* RELEASED by hand, leaving that to executeDecision.                      *)
ReleaseOnlyByExecution ==
    \A u \in StatusUpdates : u[1] = "RELEASED" <=> u[2] = "RELEASED"

\* What the escrow owes on milestone m: the unreleased amount, and the bonds.
Owed(m) ==
    (IF ms[m].funded /\ ms[m].status # "RELEASED" THEN Amount[m] ELSE 0)
        + StakedTotal(m)

\* Each milestone is backed by exactly the tokens deposited for it: no payout
\* of executeDecision is ever drawn on another milestone's deposit or bonds.
FullyBacked == \A m \in Milestones : net[m] = Owed(m)

\* The pooled token balance is exactly the sum of what is owed.
Solvent == balance = SumFunction([m \in Milestones |-> Owed(m)])

\* No token is created or lost: extras, rounded shares, refunded and forfeited
\* bonds add up to what leaves the contract.
Conserved == balance + SumFunction(wallet) = SumFunction(Funds)

\* A bond is never left behind: releasing a milestone settles the bonds of
\* every dispute and appeal, and none can be added afterwards.
NoStrandedBond ==
    \A m \in Milestones : ms[m].status = "RELEASED" => StakedTotal(m) = 0

\* At most one dispute bond and one appeal bond per appealed verdict are at
\* stake: however locks, verdicts, appeals and status updates interleave,
\* nobody is charged twice for one dispute.
NoDoubleStake ==
    \A m \in Milestones :
        StakedTotal(m) <=
            (IF ms[m].locked THEN DisputeBond ELSE 0)
            + AppealBond * Cardinality({i \in DOMAIN verdicts[m] :
                                            verdicts[m][i].appealed})

\* A decision that can be paid at all (no zero address, extras within the
\* amount) is always executable until the milestone is released: the pooled
\* balance covers it and the subtraction of the shares cannot underflow.
DecisionExecutable ==
    \A m \in Milestones :
        (/\ ms[m].funded /\ ms[m].status # "RELEASED" /\ decision[m].isSet
         /\ decision[m].payable /\ decision[m].extra <= Amount[m])
        => /\ balance >= Outflow(m)
           /\ PayeeAmount(m) \in 0..Distributable(m)

\* Nothing moves for a milestone that has been paid: released is final, and
\* no call takes or sends tokens on its behalf again.
Untouched(m) == /\ ms'[m] = ms[m]
                /\ net'[m] = net[m]
                /\ staked'[m] = staked[m]
LeavesReleased ==
    \A m \in Milestones : ms[m].status = "RELEASED" => Untouched(m)
ReleaseIsFinal == [][LeavesReleased]_vars

\* The escrow implements one vault per milestone, emptied exactly once.
Vault == INSTANCE MilestoneVault WITH
            vault <- net,
            closed <- [m \in Milestones |-> ms[m].status = "RELEASED"]
VaultSpec == Vault!Spec
=============================================================================
