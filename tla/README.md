# Verification of the milestone escrow and its settlement services

The repository is an AI-arbitrated escrow: a payer and a payee agree on
milestones, the payer funds them on chain, deliverables are verified and
disputes judged by language models, and services settle each milestone by
calling the escrow contract. A second escrow runs on Solana, and next to them the
repository has a treasury token that is lent out at yield and a confidential
token wrapped around it. This directory holds TLA+ models of these parts, TLC runs
on small instances, and TLAPS proofs for all instances.

## 1. Inventory

| Component | State | Operations | Talks to |
|---|---|---|---|
| **EscrowWithAgentV3** (`apps/cre/contracts/.../EscrowWithAgentV3.sol`) | milestones, decisions, verdicts, bonds, one pooled token balance | fund, lock, disputeWithBond, appealWithBond, recordVerdict, setMilestoneStatus, setDecision, executeDecision | ERC-20 token; parties and CRE reports call it |
| **Factory, ACE policies, extractor** | created clones, accepted tokens, executed amounts | createAgreement, setTokenAccepted, policy checks | deploy and guard the escrow |
| **CRE workflows of apps/cre** (`workflow-escrow-*`) | none of their own | deploy, verify, dispute (locks), finalize (decision, execution, status), yield, monitor | contract through reports, Supabase, Shiva |
| **bufi-lifecycle** (`packages/cre/bufi-lifecycle`) | none | handleFinalize (decision, execution), dispute, verify | contract through reports |
| **apps/shiva** `ContractsController` | Supabase rows: agreements, milestones, disputes | sign, fund, deploy, submit, dispute, appeal, finalize, release, creCallback | triggers apps/cre, with fallbacks |
| **apps/api** agreements routes | the same rows | create, submit, dispute, finalize | triggers bufi-lifecycle |
| **Contract tables** (`supabase/migrations/001...`) | rows and their CHECKs | insert, update | written by both services |
| **Arbitration engine** (`packages/contract-intelligence`) | a dispute's phase, the panels' verdicts | four layers, vote aggregation, appeal | language models; called by Shiva and apps/cre |
| **USDCg, TreasuryManager** (`apps/cre/contracts/src`) | supply, USDC held, `allocatedToYield`, the manager, pauses; USYC of each manager | deposit, withdraw, burn, allocate, redeem, change of manager | USDC, the USYC teller, reports of `workflow-treasury-rebalance` |
| **GhostUSDC, FHERC20 wrapper** (`apps/cre/contracts/src/fherc20`) | encrypted balances and supply, unwrap claims, their index by account | wrap, unwrap, transfers with and without callback, claim one or all | USDCg, the FHE coprocessor, receivers' callbacks, ghost workflows |
| **BUAttestation, ReceiverTemplate** | attestations by id | record, batch record, report delivery | CRE forwarder |
| **Solana escrow** (`proof/solana-escrow`) | milestones, decisions, a vault account | create, fund, lock, status, decision, execute, cancel | SPL token |
| Other workflows, transfer packages, web apps, `hardhat`, `proof` copies | - | - | - |

Where the difficulty lies, and what makes the parts correct:

* **Escrow contract.** One token balance holds every milestone's deposit and
  every bond; any function may be called at any time, and `setMilestoneStatus`
  accepts any change of status. Correct means: each milestone is backed by its
  own tokens, it is paid once and completely, no bond is lost or charged twice,
  and a decision that can be paid stays payable.
* **Settlement services.** Handlers await between reading a row and writing it,
  no write is conditioned on what was read, workflows outlive the handlers that
  triggered them, transactions may revert, updates may be refused or lost,
  processes die. Correct means: rows never claim a payment the chain has not
  made, recorded shares are the shares paid, a milestone is paid once, and a
  settlement that got under way ends in a payment. The first three are what
  apps/api keeps; Shiva's stack keeps what the runs `shiva`, `twice` and `unpaid`
  leave of them.
* **Arbitration engine.** Two panels with thresholds of their own, percentages
  averaged over one side of a panel, and a decision handed from layer to layer
  (or, in Shiva's routes, not handed). Correct means: an overturned tribunal has
  the supermajority against it, no outcome is a minority's, and the share paid is
  one the winning judges named.
* **USDCg / TreasuryManager.** A counter stands for USDC that is elsewhere, at a
  moving price, with managers that are replaced and a teller that rounds. Correct
  means: every token stays covered, by the counter and by value, and the counter
  stops a redemption only for the yield in it.
* **GhostUSDC.** A burn or transfer of too much moves nothing instead of
  reverting, decryptions arrive in any order, a receiver acts in the middle of a
  transfer, and a claim is stored under a hash nobody compares with earlier ones.
  Correct means: the USDCg held is all balances and all claims, each open claim is
  listed for its account, and what is decrypted can be paid.
* **Solana escrow.** The promise of the EVM contract, with other guards and a
  cancellation. Correct means: it does nothing that contract does not. It leaves
  two things to its callers, the vault account and the status codes, and then the
  damage has to be confined.

The hazards, line by line, are listed in `PROJECT.json`.

## 2. Plan

1. *(done)* `MilestoneVault`, `EscrowV3`, `EscrowV3Proofs`, `EscrowPoolProofs`: what
   the escrow promises, the contract, and the proofs; `SumLemmas`, the sums over
   accounts, milestones and judges they and the others need.
2. *(done)* `Settlement`: both service stacks composed with the contract.
3. *(done)* `SettlementProofs`: types, the contract under the settlement is
   `EscrowV3`, and rows against chain for apps/api.
4. *(done)* `Arbitration`, `ArbitrationProofs`: aggregation and the pipeline's
   phases; `DisputeRoutes`: the same panels behind Shiva's routes.
5. *(done)* `BuEscrow`, `BuEscrowProofs`: the Solana program implements `EscrowV3`.
6. *(done)* `Treasury`, `TreasuryProofs`; `GhostClaims`, `GhostClaimsProofs`.
7. What is left is listed in section 6 with the reasons. Of it, the deployment and
   signing routes come next, should they be given state the settlement depends on,
   and the yield workflow once a migration creates the column it keeps.

## 3. Modules

### MilestoneVault
The abstract promise: one vault per milestone; deposits while it is open; it is
emptied exactly once, completely, and stays closed.

### EscrowV3
One action per external function of the contract, atomic as a transaction is:
an action is enabled when the function would not revert. `ms`, `decision`,
`verdicts` are the storage of those names. `staked[m][p]` is the total of p's
unsettled bond records of milestone m: the records of one depositor are always
settled together and to the same address, so their sum is all that matters.
`balance` and `wallet` are the token's balances, `now` is `block.timestamp`.
`net[m]` is a history variable, never read by an action: tokens taken in for m
minus tokens paid out for m, which is what "backed by its own deposit" needs.

The payer and payee may be the same address (nothing in the contract refuses
it). The recipients of extra payouts are one account `Outside`, and their sum is
one number; `payable` says whether one of them is the zero address. Balances
above 2^256 are out of reach of a real token and not modelled.
`setMilestoneStatus` is called with the pairs in `StatusUpdates`; the contract
allows all of them. The properties about money need `ReleaseOnlyByExecution`:
no such call moves a milestone into or out of RELEASED. That is a condition on
the callers, and the run `twice` shows a caller of the repository that breaks it.

### Settlement
EXTENDS `EscrowV3` and adds the rows, the requests and their workflows. `Service`
selects the stack: `"shiva"` (apps/shiva over apps/cre) or `"api"` (apps/api over
bufi-lifecycle). A handler has one `pc` that advances at each database write; its
workflow has a `wf` of its own because it runs on when the handler is gone.

| Action | Code |
|---|---|
| SubmitDeliverable, MarkVerifying, RecordVerification | `submitDeliverable`, `POST submit` |
| FileDispute, MarkDisputed, LockOnChain, RecordTribunal | `fileDispute`, `POST dispute`, apps/cre's dispute workflow |
| Finalize, Release | the reads of `finalize` and `release`, up to the trigger |
| Decide, Execute, CloseStatus, Report | apps/cre's finalize workflow; `handleFinalize` has no CloseStatus |
| WorkflowAnswers, ConnectionBreaks | the answer, error or loss of the trigger call and, in shiva, the fallback |
| RecordFinal, MarkReleased, CountReleased, Complete | the writes after the workflow |
| WorkflowThrows, HandlerDies, LostWrite | a failed call, a crash, an update whose error value nobody reads |

apps/cre takes the hash of a transaction whether or not it reverted;
bufi-lifecycle throws (`OnRevert`). apps/cre's code for RELEASED is translated by
the contract's enum (`StatusOfCode(ReleasedCode)`). A case status the table's
CHECK refuses is a lost write (`WriteCase`). Delivery of a report to the contract
is external code and modelled as the call it encodes. Two things apps/cre's
workflows do in fact before or after these steps, querying tables that no
migration creates and inserting a row the CHECK refuses, make the workflow
throw; they are covered by `WorkflowThrows`.

The stacks differ in what `OnRevert` and `Fallback` do (apps/api gives up where Shiva
goes on), in the steps only apps/cre's workflows have (`LockOnChain`, `CloseStatus`),
in `Release`, which only Shiva has, and in the case status a tribunal writes. That is
why the theorems about rows and payments are about apps/api and the violated runs
about Shiva.

### Arbitration
`orchestrateDispute` and `aggregation.ts`. One action per call to a layer; the
verdicts of a panel arrive together, because the judges are called in parallel
(`Promise.all`) and the aggregation reads them once all are in. What a judge
answers is any member of `Opinions`. A call that throws sets `error`, and the
dispute goes no further. `For` and `Against` are the sides of a panel (PARTIAL
counts as APPROVE), `RoundedMean` is `Math.round` of an average: whole percent, a half
up, with percentages held as multiples of 1/`Scale`. `fileAppeal` is a parameter of
the call, chosen initially.

### DisputeRoutes
EXTENDS `Arbitration`, with the state of a milestone's latest dispute in Shiva:
`fileDispute` runs the same advocates and tribunal when the CRE workflow is not
there, `appeal` runs the court with the decision it assumes (`AssumedDecision`): always
APPROVE, of the recorded final share or 70 percent.

### BuEscrow
One action per instruction of the program (`lib.rs`), an aborted transaction being
a disabled action. The state has the names of `EscrowV3`. `tokens` holds the token
accounts of the payer, the payee, everyone else, and the vault. `fund_milestone`
takes the vault as an argument and compares it with nothing, so `VaultArgs` are the
accounts a client passes, others' included: such a milestone is funded on paper only and
its payout takes other milestones' deposits. Nor does `set_milestone_status` refuse a
code, so that RELEASED can be set and left by hand. The model does both, and three
history variables say what came of it: `net[m]` counts only tokens that entered and
left the vault for m, `elsewhere` and `byHand` are the milestones funded into another
account and moved into or out of RELEASED (`Misused`). For `execute_decision` the executor passes the accounts of payer
and payee; the model takes it to pass theirs. `set_milestone_status` takes any
`u8`: a code outside the enum is `UNKNOWN`.

The refinement `V3` maps the program to `EscrowV3` without bonds and verdicts: the
vault account is the contract's balance, `UNKNOWN` passes exactly the guards
VERIFYING passes (none) and is mapped to it, and `cancel_milestone` is a status
update to CANCELLED, one of those the contract's callers may make. A funding into
another account is the one instruction that is no step of the contract, and the
property leaves it out by name (`ContractStep`).

### Treasury
USDCg, the TreasuryManagers that were ever deployed, and the teller of USYC. Several
managers matter because `setTreasuryManager` leaves the old one's USYC where it is.
No function tells holders apart, so they are one `cash`; the policy engine and the
roles decide only who may call, and here anybody may. `price` moves along
`PriceChanges`. The teller rounds down: `rounding` is a history variable, the USDC
times `Unit` lost that way, which makes "covered up to rounding" an exact statement
and bounds the model by `MaxRounding`. `gain` is one too: what the changes of the
price added to (or took from) the positions held at the time. `Donate` is a plain
transfer of USDC. Allocations take any amount of USDC and redemptions any amount of
the current manager's USYC, as reports may; where a report gets its amount from is
not modelled (section 6).

### GhostClaims
GhostUSDC, FHERC20 and FHERC20UnwrapClaim with balances shown decrypted: nobody sees
them, which is why `Transferred` selects 0 for a burn or a transfer of too much.
Arithmetic is modulo `U64`, of which a run takes 4, with all USDCg below it
(`SavingsAssumption`; true of 2^64 micro-dollars). The ciphertext hash of a burn comes
from the coprocessor, which no file of the repository contains. All that is assumed of
it is `DecryptsTo`, that one hash decrypts to one amount: two burns of one amount may get
the same hash, at any time, paid or not. `_createClaim` then overwrites the earlier claim
and leaves it in the first account's set, and so does `BurnToClaim`. `repeated` and `lost`
are history variables: the hashes this happened to, and the unpaid amounts it
overwrote. Decryptions are published at any later time. One action is one transaction,
except `TransferAndCall`: between it and `CallbackReturns` only the receiver acts.
Nested callbacks, donations of USDCg to the contract, operators' approvals (any
caller is one) and the policy engine are left out. `pause` stops what the code says
it stops: not `claimAllUnwrapped`, not transfers by operators.

`MCEscrowV3`, `MCSettlement`, `MCArbitration`, `MCDisputeRoutes`, `MCBuEscrow`,
`MCTreasury` and `MCGhostClaims` give the constants their values.

## 4. Runs

| Run | Instance | States | Shows |
|---|---|---|---|
| `dispute` | 1 milestone of 3, bonds 1 and 2, 2 verdicts, time 1..3, all status updates but RELEASED | 607k | `TypeOK`, `FullyBacked`, `NoStrandedBond`, `NoDoubleStake`, `ReleaseIsFinal`, `VaultSpec` |
| `pool` | 2 milestones of 3 and 2, shares 4999 / 10000, extras 1 and 4 | 250k | `Solvent`, `Conserved`, `DecisionExecutable` |
| `shiva` | 2 milestones, 3 requests in order of arrival, no fault, fairness | 578k | `SettlementTypeOK`, `SettlementPays` |
| `api` | 2 milestones, 3 requests, 1 fault, symmetric requests | 160k | `ReleasedMeansPaid`, `FinalMatchesChain`, `DecidedIsExecutable` |
| `twice` | shiva, 2 milestones, 2 requests, no fault | - | violates `PaidOnce` |
| `unpaid` | shiva, 1 milestone, 2 requests, no fault | - | violates `SuccessMeansPaid` |
| `locked` | shiva, 1 milestone, 3 requests, no fault | - | violates `ReleaseSparesDisputed` |
| `arbitration` | four opinions, all panels of 3 and of 5, an error anywhere | 99k | `ArbitrationTypeOK`, `OverturnNeedsSupermajority`, `NoMinorityOutcome`, `PaymentWithinVotes` |
| `appeal` | Shiva's routes, two opinions | - | violates `OverturnNeedsSupermajority` |
| `solana` | 2 milestones of 3 and 2, payer with 5, funded into the vault or not, RELEASED by hand, extras 1 and 4, time 1..2 | 577k | `BuTypeOK`, `BuBacked`, `CancelLosesNothing`, `ImplementsEscrowV3` |
| `treasury` | 2 managers, 5 USDC, price 1, 1.5 and 2.5 | 109k | `TreasuryTypeOK`, `Backed`, `CostCovered`, `BackedByValue`, `RefusedOnlyForGains`, `YieldStays` |
| `claims` | 2 accounts, one with code, 3 USDCg, 2 hashes, symmetric and repeatable | 577k | `GhostTypeOK`, `Covered`, `ClaimsIndexed`, `ClaimsPayable` |

Bounds. `MaxVerdicts` = 2 lets a verdict be appealed, followed by another and
appealed again. `MaxTime` covers a call inside, at the end of, and after an appeal
window of 1. The shares 4999 and 5000 are the two sides of the winner's threshold
and 10001 is refused; with amount 3 they round. An extra of 4 exceeds every
amount, so unpayable decisions occur. `Funds` lets the payer run out after the
deposits and a few bonds. In the settlement, two requests are the smallest
overlap and three let a dispute and two finalizations meet on one milestone, or two
requests spend the deposit that a third one's milestone needs. `MaxFaults` = 1 places
one failure at every point of every interleaving of `api`. `shiva` has no failure, after
which its liveness property makes no claim, takes the shares its handlers compute
(`BpsInputs` is empty: 10000 and 7000 remain) and no dispute window; what failures
leave true of Shiva's stack is proved (`SettlementTypeCorrect`, `SettlementConserves`).
Its requests arrive in a fixed order of names (`KeepsOrder`), since TLC combines no symmetry
with liveness; which request does what, and when, is free, and what the order cuts off is
never a step that fairness asks for. Deadlock
is not checked where the parties run out of tokens, time or requests, and
stopping is then legitimate.

The opinions of `arbitration` are the full share, a share whose mean rounds, a half
percent (`Scale` is 2) and a share named in a DENY, so that every rounding of a panel
occurs. In `solana`, an extra of 4 exceeds both amounts and 10001 is refused;
`MCUpdates` has updates to a status with a window, without one, back to PENDING
(a second funding must be refused), to no status at all, and to RELEASED and out of it;
the payer's own account is the one passed instead of the vault. Both ways in which a
payable decision of another milestone then fails are reached. In `treasury`, with `Unit`
2, odd amounts do not divide at any price, and a redemption after a rise brings
more than it cost, so that the checked subtraction refuses some. In
`claims`, amounts of 1 and 2 with 3 USDCg in all let an account burn more than it has, two
claims meet in one `claimAllUnwrapped`, decrypted or not, and equal amounts, zero
included, may repeat a hash before or after it is paid and for another account.

Symmetry is used in `api` (requests) and `claims` (hashes), neither of which checks
liveness. Nothing in the specifications names a request or a hash.

Fairness. `FairSSpec` asks that a workflow that can step does: it is a program
that waits for nobody. Nothing is assumed of handlers, parties, the clock or
requests, which may stop at any time. `SettlementPays` makes no claim after a failed
call, nor once a milestone was paid twice: the second payment spends another one's
deposit, whose own settlement then sets its decision, reverts and never pays. `shiva`
reaches that, and the property says it is the only way to get there.

### What the violated runs show
* `twice`: `apps/cre/shared/services/escrow.ts` numbers RELEASED 8 under a comment
  saying that the enum must match the contract's, where 8 is CANCELLED. After the
  payment the milestone is no longer RELEASED on chain, a second finalize passes
  the contract's "already released" check and pays from the other milestone.
* `unpaid`: the error recovery matrix says a reverted release returns
  `success: false`; the handler answers `success: true` and marks the row RELEASED.
* `appeal`: the court's file says a supermajority of 4 of 5 is required to overturn
  the tribunal; the appeal route tells the court that the tribunal approved,
  whatever it decided, so that a denial falls to as few as two votes for approval.
* `locked`: a disputed milestone is described as locked for arbitration; a release
  that read the row before the dispute still pays it in full.

## 5. Proofs

Every safety property of a passing run is a theorem, for all values of the
constants that satisfy the named assumptions of its module.

### The escrow

`EscrowV3Proofs` and `EscrowPoolProofs` prove, for all milestones, amounts, bonds, windows,
inputs and bounds that satisfy the assumptions of `EscrowV3` (what `initialize`
requires, the types of the inputs, and finitely many milestones):

| Theorem | Statement | Assumes `ReleaseOnlyByExecution` |
|---|---|---|
| `TypeCorrect` | `Spec => []TypeOK` | no |
| `EscrowFullyBacked` | `Spec => []FullyBacked` | yes |
| `EscrowNoStrandedBond` | `Spec => []NoStrandedBond` | yes |
| `EscrowReleaseIsFinal` | `Spec => ReleaseIsFinal` | yes |
| `EscrowImplementsVault` | `Spec => VaultSpec` | yes |
| `EscrowConserved` | `Spec => []Conserved` | no |
| `EscrowSolvent` | `Spec => []Solvent` | yes |
| `EscrowDecisionExecutable` | `Spec => []DecisionExecutable` | yes |
| `EscrowNoDoubleStake` | `Spec => []NoDoubleStake` | no |

`ReleaseOnlyByExecution` is asked of the callers of `setMilestoneStatus`; the run
`twice` shows that Shiva's workflow does not keep it, and what follows.

`TypeOK` is inductive by itself. The step that needs work is `executeDecision`: a
share of a natural amount is a natural, and the guard that it does not exceed the
distributable amount keeps the payer's part from going below zero.

The books are `Books == TypeOK /\ FullyBacked /\ NoStrandedBond`. The last two are
disturbed by the same steps, so one lemma per action carries both, for the
milestone it acts on; a frame lemma covers the others, and `BooksStep` puts them
together. `TypeOK` is needed to know what an update of `net` or `staked` does.
`executeDecision` is the interesting step: what it sends is the amount and all
unsettled bonds, which by `FullyBacked` is all that `net` holds, so both sides end at
zero. Conversely no bond can enter a released milestone, because an appeal needs
DISPUTED and a dispute APPROVED or REJECTED, and by the
assumption only executeDecision sets RELEASED and nothing leaves it. The refinement follows: funding and bonds are
`Deposit`, `executeDecision` is `PayOutAll`, everything else stutters.

The pool is a second invariant, `Pooled`: the balance is the sum of `net` over the
milestones, and the accounts and the balance add up to `Funds`. It needs nothing of
the callers, because an action moves `net`, the balance and the accounts by the same
amount. The work is in `executeDecision`, which credits up to four accounts in a row,
some of which may be the same address. `Books` says what `net` of each milestone is;
the two invariants together give `Solvent`, and `DecisionExecutable` since one term
of a sum of naturals is at most the sum. Neither follows from one invariant
alone: what keeps an unreleased milestone payable is that each of the others is
backed by its own tokens.

`NoDoubleStake` rests on the flags alone: a dispute bond is taken while `locked` is
off and turns it on, an appeal bond turns on the flag of the last verdict, which
was off, and the payout settles everything. That is why it survives any status
update. The cardinality of the set of appealed verdicts is handled with
`FiniteSetTheorems`.

### Sums

`SumLemmas` holds what the proofs need of `SumFunctionOnSet`, which is a recursive
function on the subsets of its index set: its equation, and how a sum changes with
one argument, splits over a union, and is bounded by bounds of its terms. Induction
is taken from the well-foundedness of the order of the naturals and of strict
inclusion. `NatRule` and `SubsetRule` state it of a set `G` instead of a predicate,
so that a proof instantiates it with a set comprehension; the library's rules, with
an operator as parameter, cannot be instantiated. It is for these sums that
milestones (`MilestonesAssumption`), users and hashes (`FiniteAssumption`) are
assumed to be finite sets, as they are in any storage.

### The settlement

`SettlementProofs` extends `Settlement` and `EscrowPoolProofs`:

| Theorem | Statement |
|---|---|
| `SettlementTypeCorrect` | `SSpec => []SettlementTypeOK`, both services |
| `SettlementImplementsEscrow` | `AnyShare => (SSpec => Spec)`, both services |
| `SettlementConserves` | `AnyShare => (SSpec => [](Conserved /\ NoDoubleStake))`, both services |
| `ApiReleasedMeansPaid` | for apps/api, `SSpec => []ReleasedMeansPaid` |
| `ApiFinalMatchesChain` | for apps/api, `SSpec => []FinalMatchesChain` |
| `ApiPaidOnce` | for apps/api, `SSpec => []PaidOnce` |
| `ApiDecidedIsExecutable` | for apps/api, `SSpec => []DecidedIsExecutable` |
| `ApiSolvent` | for apps/api, `SSpec => []Solvent` |
| `ApiImplementsVault` | for apps/api, `SSpec => VaultSpec` |

The type invariant `STypeInv` strengthens `SettlementTypeOK` by the handlers'
progress and by the fact that a handler that judges a dispute has a case, which is
what the write of that case needs. `SettlementImplementsEscrow` carries the
theorems of `EscrowV3` over, whatever requests overlap and fail; `AnyShare` says that
`BpsInputs` and `ExtraInputs` admit what the workflows send (any share in range, no
extra payouts). For apps/api, `ApiInv` says of each request that its workflow
executes only the decision that carries its own share, and that from the moment
its workflow has executed the milestone is paid with that share (`Settled`). Payments
and decisions only grow (`Monotone`), so a step of another request never disturbs
this; each action then only has to answer for the request it moves. `ApiPaid` says
that a paid milestone stays RELEASED, which is what fails for Shiva.

The last three theorems assume nothing of the callers: that apps/api sets no status
by hand is read off its actions. They use `Quiet`, an instance of `EscrowPoolProofs`
whose callers make no status update, send any share in range and no extra
payouts. Every step of the contract under apps/api is a step of `Quiet`, so what is
proved of the escrow under `ReleaseOnlyByExecution`, which `Quiet` satisfies
trivially, holds of it. `Plain` adds that a decision set by a settlement carries no
extras and can be paid. A milestone apps/api has decided can therefore still be
paid after a failure between its two transactions, even though `handleFinalize`
itself cannot resume there.

### USDCg

`TreasuryProofs`: `TreasuryTypeCorrect`, `TreasuryBacked`, `TreasuryRefusedOnlyForGains` and
`TreasuryYieldStays` hold at any prices, rising or falling. The first two come from the
invariant `Sound`, the types and `Backed`: the subtractions of a redemption need the
types, the backing what its guard checks. The others rest on `Ledger`, an equation between
the counter, the value of all positions, `gain` and `rounding`. The step is the teller's:
a purchase or redemption changes counter, value and `rounding` by amounts that cancel,
because the division loses exactly the remainder that `rounding` takes up; a change of
the price moves value and `gain` alike. `TreasuryCostCovered` and
`TreasuryBackedByValue` assume `PriceNeverFalls`, under which `gain` is never negative.

### The Solana escrow

`BuEscrowProofs`: `BuTypeCorrect`, `BuEscrowBacked`, `BuCancelLosesNothing` and
`BuImplementsEscrowV3`, none of which assumes anything of what callers pass. The
invariant `Books` says that a milestone outside `Misused` has in `net` what it is owed, and
that the vault holds the sum of `net`. `BooksStep` is what any instruction owes to it,
`BooksQuiet` the case without tokens, where a status may cross RELEASED only if it goes
into `byHand`. If no misused milestone has a negative `net`, every `net` is a natural, and
one term of the sum that the vault holds is at most the sum: that is
`BuCancelLosesNothing`, and it names the only loss there can be. The refinement proof maps
one instruction to one function of the contract; the work is in the chain of credits of
a payout, vault account included. `Books` adds that a milestone in `elsewhere` is
funded, without which a second funding elsewhere could pass for a step of the contract.

### Arbitration

`ArbitrationProofs`, for every set of opinions and every scale: `ArbitrationOverturns`,
`ArbitrationNoMinority`, `ArbitrationPayment`, `ArbitrationTypeCorrect`. The invariant
`Accounted` says for each phase which panels have sat, and that the outcome is the one these panels
give (`Decided`). The first two are counting: the
two sides of a panel add up to its size, so that 4 of 5 against outweigh 2 of 3. For
the payment, the sum of a side lies between its size times its least and its
greatest percentage, and rounding the quotient moves it by half a percent at most
and never past a whole percent that bounds it, so a mean of percentages is one
(`RoundingBounds`, `MeanWithin`).

`RoutesThreshold` is about `DisputeRoutes`: after an appeal in Shiva a denial has four
judges of the court behind it and an approval two, whatever the tribunal said. With
the run `appeal`, it says what the supermajority is worth there: it protects
approvals only.

### GhostUSDC

`GhostClaimsProofs`, for all accounts, hashes, amounts, savings and widths above the sum of the
savings: `GhostClaimsIndexed`, `GhostClaimsCovered`,
`GhostClaimsPayable`, `GhostClaimsTypeCorrect`. The index (`ClaimBook`) is inductive together with
the types of the book and of the callback; settling removes a hash from its claim's
account's set, and it can be in no other unless it is in `repeated`. `Money` adds that wallets and USDCg
held are all savings, that the USDCg held is all balances plus all open claims plus `lost`, and that
`total` is the sum of the balances. Since the savings are below `U64`, no sum wraps and
every modular subtraction is an ordinary one, which is what makes the types and
`Covered` one induction. A burn under the hash of an open claim leaves the sum of the open
claims as it is, since by `DecryptsTo` the amounts are equal, and moves one amount from
the balances to `lost`. `GhostClaimsPayable` takes from the index that the listed
claims are open, and from `Money` that the sum of any of them is held.

### Only model-checked

`SettlementPays`, liveness under fairness, which the prover cannot treat. The four
violated properties are refuted on an instance, and what is proved of them
is `PaidOnce` for apps/api and `OverturnNeedsSupermajority` for the orchestrator.

## 6. Not modelled, and why

*Inside the modelled parts.* In the contract: hashes, events, fees and agent
settings, which no function reads; `onlyExecutor`, whose body is empty, so that
anyone may call. In the services: signing, funding and deployment (before
settlement), the appeal route's documents (its decision is in `DisputeRoutes`),
`creCallback`, e-mails, documents and submissions, which no transition reads. In the
Solana program: receipts, fees and the appeal window, which no instruction reads.

*Factory and ACE policies.* `createAgreement` writes each agreement once under one
check and initializes the clone `EscrowV3` starts from; the policies are views that
can only refuse a report, that is, a call that does not happen.

*Deploy, monitor and yield workflows.* Deploy and monitor keep no state. Yield keeps
its position in `agreements.yield_position`, which no migration creates, and moves
the funds through an external service: a model would be of that service.

*Attestations.* A registry whose records are single guarded assignments; nothing
modelled here reads one back.

*Other CRE workflows.* Straight-line verifications that publish an attestation; the
calls the ghost workflows make on chain are actions of `GhostClaims`. The treasury
workflow reads balances one after the other and returns an advice in USDC, while a
redeem report takes USYC of the manager that is current then. What converts the one into
the other is not in the repository, so a model of it would be invented; as they stand
the two do not fit, and `Treasury` takes reports of any amount.

*Transfers.* `packages/transfer-core` hands each recipient once to an external protocol
and collects the answers: no retry, and no state from one call to the next.

*Web applications, copies.* React components and forms; `hardhat` and `proof` copies of
the contracts and workflows above.

Most lines of the repository are none of this system's own logic: the
`.cre_build_tmp.js` bundles of each workflow (also under `proof`), copies, user
interface, generated types and clients of external services. The map therefore
covers a small share of all lines, and would still if every remaining handler
were modelled.

*Seen in passing, not claimed by a run.* `README.md:198` describes the court as 3 of 5
where code and comments have 4 of 5. `packages/contract-intelligence/config.ts:85` says
of the court's providers that none overlaps with layer 3, while some repeat. The audit's
`hashDocument` passes a whitelist of keys to `JSON.stringify`, which drops nested
fields. Each is visible in one place of the code and involves no interleaving.
