------------------------------ MODULE BuEscrow ------------------------------
(***************************************************************************)
(* The milestone escrow as a Solana program (bu-escrow, lib.rs): the       *)
(* milestones and decisions of EscrowV3 without bonds and verdicts, and    *)
(* with a cancellation.  One agreement, whose tokens are in one vault.     *)
(*                                                                         *)
(* One action is one instruction; a failed require or transfer undoes the  *)
(* whole transaction, also the transfers made before it.  Receipts and the *)
(* protocol fee are data no instruction reads.                             *)
(***************************************************************************)
EXTENDS Integers, FiniteSets, Functions

CONSTANTS
    Milestones,     \* 0 .. milestone_count - 1
    Amount,         \* Amount[m]: milestones[m].amount
    Payer, Payee,
    Outside,        \* everyone the extra payouts of a decision go to
    VaultAccount,   \* the token account of seeds ["vault", agreement_id]
    VaultArgs,      \* accounts passed as "vault" to fund_milestone
    DisputeWindow,  \* dispute_window_seconds
    Funds,          \* tokens of the payer, the payee and Outside at the start
    BpsInputs,      \* payee_bps arguments the executor tries
    ExtraInputs,    \* total extra payouts a decision may carry
    StatusUpdates,  \* <<old, new>> pairs set_milestone_status is called at
    MaxTime         \* bound on the clock

Wallets == {Payer, Payee, Outside}

\* The codes 0 .. 8 of MilestoneStatus, and every other u8.
Status == {"PENDING", "FUNDED", "SUBMITTED", "VERIFYING", "APPROVED",
           "REJECTED", "DISPUTED", "RELEASED", "CANCELLED", "UNKNOWN"}

\* milestones is a vector of milestone_count entries.
ASSUME MilestonesAssumption == IsFiniteSet(Milestones)
ASSUME AmountAssumption == Amount \in [Milestones -> Nat]
ASSUME VaultAssumption == /\ VaultAccount \notin Wallets
                          /\ VaultArgs \subseteq Wallets \cup {VaultAccount}
ASSUME WindowAssumption == DisputeWindow \in Nat
ASSUME InputAssumption == /\ Funds \in [Wallets -> Nat]
                          /\ BpsInputs \subseteq Nat
                          /\ ExtraInputs \subseteq Nat
                          /\ StatusUpdates \subseteq Status \X Status
                          /\ MaxTime \in Nat

VARIABLES
    ms,         \* escrow.milestones
    decision,   \* escrow.decisions; extra is the sum of the extra payouts,
                \* payable is FALSE when one goes to the default key
    tokens,     \* the balances of the token accounts
    now,        \* Clock
    net,        \* history: tokens the vault got for m minus those it paid for m
    elsewhere,  \* history: milestones funded into another account
    byHand      \* history: milestones a status update moved into or out of
                \* RELEASED

vars == <<ms, decision, tokens, now, net, elsewhere, byHand>>

Bps == 0..10000
Milestone == [released: Nat, funded: BOOLEAN, locked: BOOLEAN,
              status: Status, disputeWindowEnd: Nat]
Decision == [isSet: BOOLEAN, payeeBps: Bps, extra: Nat, payable: BOOLEAN]

Init ==
    /\ ms = [m \in Milestones |->
                [released |-> 0, funded |-> FALSE, locked |-> FALSE,
                 status |-> "PENDING", disputeWindowEnd |-> 0]]
    /\ decision = [m \in Milestones |->
                      [isSet |-> FALSE, payeeBps |-> 0, extra |-> 0,
                       payable |-> TRUE]]
    /\ tokens = [a \in Wallets \cup {VaultAccount} |-> IF a = VaultAccount THEN 0 ELSE Funds[a]]
    /\ now = 1
    /\ net = [m \in Milestones |-> 0]
    /\ elsewhere = {}
    /\ byHand = {}

Credit(t, a, x) == [t EXCEPT ![a] = @ + x]
Debit(t, a, x) == [t EXCEPT ![a] = @ - x]

-----------------------------------------------------------------------------
\* The transfer of fund_milestone and what it sets.
Deposit(m, vault) ==
    /\ tokens[Payer] >= Amount[m]
    /\ tokens' = Credit(Debit(tokens, Payer, Amount[m]), vault, Amount[m])
    /\ ms' = [ms EXCEPT ![m].funded = TRUE, ![m].status = "FUNDED"]
    /\ net' = IF vault = VaultAccount THEN [net EXCEPT ![m] = @ + Amount[m]] ELSE net
    /\ elsewhere' = IF vault = VaultAccount THEN elsewhere ELSE elsewhere \cup {m}
    /\ UNCHANGED <<decision, now, byHand>>

\* Mutant: no check of the funded flag.
FundAgain(m, vault) ==
    /\ ms[m].status = "PENDING"
    /\ Deposit(m, vault)

\* Nothing compares the vault argument with the agreement's vault.
FundMilestone(m, vault) ==
    /\ ~ms[m].funded
    /\ ms[m].status = "PENDING"
    /\ Deposit(m, vault)

LockMilestone(m) ==
    /\ ms[m].funded
    /\ ~ms[m].locked
    /\ ms[m].status \in {"FUNDED", "SUBMITTED", "APPROVED", "REJECTED"}
    /\ ms' = [ms EXCEPT ![m].locked = TRUE, ![m].status = "DISPUTED"]
    /\ UNCHANGED <<decision, tokens, now, net, elsewhere, byHand>>

SetMilestoneStatus(m, newStatus) ==
    /\ <<ms[m].status, newStatus>> \in StatusUpdates
    /\ ms' = [ms EXCEPT ![m].status = newStatus,
                        ![m].disputeWindowEnd =
                            IF newStatus = "APPROVED" /\ @ = 0
                            THEN now + DisputeWindow ELSE @]
    /\ byHand' = IF (ms[m].status = "RELEASED") # (newStatus = "RELEASED")
                 THEN byHand \cup {m} ELSE byHand
    /\ UNCHANGED <<decision, tokens, now, net, elsewhere>>

\* Mutant: no range check of payee_bps.
SetDecisionAnyBps(m, bps, extra, payable) ==
    /\ ~decision[m].isSet
    /\ decision' = [decision EXCEPT ![m] =
            [isSet |-> TRUE, payeeBps |-> bps, extra |-> extra,
             payable |-> payable]]
    /\ UNCHANGED <<ms, tokens, now, net, elsewhere, byHand>>

SetDecision(m, bps, extra, payable) ==
    /\ bps \in Bps
    /\ ~decision[m].isSet
    /\ decision' = [decision EXCEPT ![m] =
            [isSet |-> TRUE, payeeBps |-> bps, extra |-> extra,
             payable |-> payable]]
    /\ UNCHANGED <<ms, tokens, now, net, elsewhere, byHand>>

Distributable(m) == Amount[m] - decision[m].extra
PayeeAmount(m) == (Distributable(m) * decision[m].payeeBps) \div 10000
PayerAmount(m) == Distributable(m) - PayeeAmount(m)

\* Mutant: a cancelled milestone is not paid.
ExecutableUncancelled(m) ==
    /\ ms[m].funded
    /\ ms[m].status \notin {"RELEASED", "CANCELLED"}
    /\ decision[m].isSet
    /\ decision[m].payable
    /\ decision[m].extra <= Amount[m]
    /\ tokens[VaultAccount] >= Amount[m]

\* The requires, and the vault's balance for the transfers.
Executable(m) ==
    /\ ms[m].funded
    /\ ms[m].status # "RELEASED"
    /\ decision[m].isSet
    /\ decision[m].payable
    /\ decision[m].extra <= Amount[m]
    /\ tokens[VaultAccount] >= Amount[m]

\* The extra payouts, then the two shares.
PaidOut(m) ==
    Credit(Credit(Credit(Debit(tokens, VaultAccount, Amount[m]),
                         Outside, decision[m].extra),
                  Payee, PayeeAmount(m)),
           Payer, PayerAmount(m))

ExecuteDecision(m) ==
    /\ Executable(m)
    /\ tokens' = PaidOut(m)
    /\ ms' = [ms EXCEPT ![m].released = Amount[m], ![m].locked = FALSE,
                        ![m].status = "RELEASED"]
    /\ net' = [net EXCEPT ![m] = @ - Amount[m]]
    /\ UNCHANGED <<decision, now, elsewhere, byHand>>

\* Mutant: a released milestone may be cancelled.
CancelAny(m) ==
    /\ ms[m].status # "CANCELLED"
    /\ ms' = [ms EXCEPT ![m].status = "CANCELLED"]
    /\ UNCHANGED <<decision, tokens, now, net, elsewhere, byHand>>

\* Only the status: the deposit stays, and so do the lock and the decision.
CancelMilestone(m) ==
    /\ ms[m].status \notin {"RELEASED", "CANCELLED"}
    /\ ms' = [ms EXCEPT ![m].status = "CANCELLED"]
    /\ UNCHANGED <<decision, tokens, now, net, elsewhere, byHand>>

Tick ==
    /\ now < MaxTime
    /\ now' = now + 1
    /\ UNCHANGED <<ms, decision, tokens, net, elsewhere, byHand>>

ExecutorNext(m) ==
    \/ LockMilestone(m)
    \/ \E s \in Status : SetMilestoneStatus(m, s)
    \/ \E bps \in BpsInputs, extra \in ExtraInputs, payable \in BOOLEAN :
            SetDecision(m, bps, extra, payable)
    \/ ExecuteDecision(m)
    \/ CancelMilestone(m)

Next ==
    \/ \E m \in Milestones, vault \in VaultArgs : FundMilestone(m, vault)
    \/ \E m \in Milestones : ExecutorNext(m)
    \/ Tick

Spec == Init /\ [][Next]_vars

-----------------------------------------------------------------------------
(***************************************************************************)
(* The refinement: an EscrowV3 without bonds or verdicts.                  *)
(***************************************************************************)

\* A code that is no status passes the same checks as VERIFYING: none.
AsEnum(s) == IF s = "UNKNOWN" THEN "VERIFYING" ELSE s

\* A cancellation is a status update the contract allows.
UpdatesAndCancels ==
    {<<AsEnum(u[1]), AsEnum(u[2])>> : u \in StatusUpdates}
        \cup {<<AsEnum(s), "CANCELLED">> : s \in Status \ {"RELEASED", "CANCELLED"}}

msAsEnum == [m \in Milestones |-> [ms[m] EXCEPT !.status = AsEnum(@)]]

V3 == INSTANCE EscrowV3 WITH
            ms <- msAsEnum,
            verdicts <- [m \in Milestones |-> <<>>],
            staked <- [m \in Milestones |-> [p \in {Payer, Payee} |-> 0]],
            balance <- tokens[VaultAccount],
            wallet <- [a \in Wallets |-> tokens[a]],
            BondRecipient <- Outside, ZeroAddress <- VaultAccount,
            DisputeBond <- 0, AppealBond <- 0, AppealWindow <- 0,
            MaxVerdicts <- 0,
            StatusUpdates <- UpdatesAndCancels

-----------------------------------------------------------------------------
(***************************************************************************)
(* Properties                                                              *)
(***************************************************************************)

\* Every account field keeps its Rust type and no balance is overdrawn.
BuTypeOK ==
    /\ ms \in [Milestones -> Milestone]
    /\ decision \in [Milestones -> Decision]
    /\ tokens \in [Wallets \cup {VaultAccount} -> Nat]
    /\ now \in Nat
    /\ net \in [Milestones -> Int]
    /\ elsewhere \subseteq Milestones /\ byHand \subseteq Milestones

\* Every instruction but a funding into another account is a step of the
\* contract, cancellations and status updates of any kind included.
ContractStep == elsewhere' = elsewhere => V3!Next
ImplementsEscrowV3 == V3!Init /\ [][ContractStep]_(V3!vars)

\* Milestones the program leaves to its callers' discipline: fund_milestone
\* takes any account as the vault, set_milestone_status any code.
Misused == elsewhere \cup byHand

Owed(m) ==
    IF ms[m].funded /\ ms[m].status # "RELEASED" THEN Amount[m] ELSE 0

\* Each milestone used as intended is backed by its own deposit, cancelled or
\* not, and whatever becomes of the others; and the vault holds the sum of
\* what it got and paid for each, so that a milestone paid without a deposit
\* shows as the others' loss.
BuBacked ==
    /\ \A m \in Milestones \ Misused : net[m] = Owed(m)
    /\ tokens[VaultAccount] = SumFunction(net)

\* A cancellation refunds nobody and loses nothing: the deposit of an
\* unreleased milestone, cancelled or not, can be paid out by its decision,
\* unless a misused milestone was paid more than the vault got for it.
CancelLosesNothing ==
    \A m \in Milestones \ Misused :
        (/\ ms[m].funded /\ ms[m].status # "RELEASED"
         /\ decision[m].isSet /\ decision[m].payable
         /\ decision[m].extra <= Amount[m])
        => Executable(m) \/ \E n \in Misused : net[n] < 0
=============================================================================
