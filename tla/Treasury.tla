------------------------------ MODULE Treasury ------------------------------
(***************************************************************************)
(* USDCg.sol, a token minted one to one for USDC, and TreasuryManager.sol, *)
(* which moves the USDC behind it into USYC, a yield-bearing token bought  *)
(* and sold at a teller, when its owner or a report says so.               *)
(*                                                                         *)
(* One action is one external call in a transaction; a revert disables it. *)
(* Any holder, the owner, and reports of the CRE forwarder call at any     *)
(* time.  No function tells the holders apart, so that they are one.  The  *)
(* policy engine can only refuse a deposit or withdrawal.                  *)
(***************************************************************************)
EXTENDS Integers

CONSTANTS
    Managers,       \* the TreasuryManager contracts ever deployed
    None,           \* no manager set
    Savings,        \* the USDC of the holders at the start
    Unit,           \* 10 ** oracle.decimals()
    Prices,         \* oracle.latestAnswer(): USDC per USYC, times Unit
    PriceChanges,   \* the <<old, new>> moves of the price
    Amounts,        \* amount arguments callers try
    MaxRounding     \* bound on what the teller may round away

ASSUME ManagerAssumption == None \notin Managers
ASSUME PriceAssumption == /\ Unit \in Nat \ {0}
                          /\ Prices \subseteq Nat \ {0}
                          /\ PriceChanges \subseteq Prices \X Prices
\* uint256 amounts.
ASSUME AmountsAssumption == /\ Savings \in Nat /\ Amounts \subseteq Nat
                            /\ MaxRounding \in Nat

VARIABLES
    cash,           \* USDC in the holders' wallets
    supply,         \* USDCg.totalSupply()
    reserve,        \* usdc.balanceOf(USDCg)
    allocated,      \* USDCg.allocatedToYield
    manager,        \* USDCg.treasuryManager
    paused,         \* the contracts, of USDCg and the managers, that are paused
    usyc,           \* usyc.balanceOf of each manager
    price,          \* the teller's price
    position,       \* USYC sold to the managers and not bought back
    rounding,       \* history: USDC times Unit lost in the teller's divisions
    gain            \* history: USDC times Unit the price added to the positions

vars == <<cash, supply, reserve, allocated, manager, paused, usyc, price,
          position, rounding, gain>>

USDCg == "USDCg"

Init ==
    /\ cash = Savings
    /\ supply = 0
    /\ reserve = 0
    /\ allocated = 0
    /\ manager = None
    /\ paused = {}
    /\ usyc = [t \in Managers |-> 0]
    /\ price \in Prices
    /\ position = 0
    /\ rounding = 0
    /\ gain = 0

-----------------------------------------------------------------------------
(* The teller sells and buys USYC at its price, rounding down; it buys     *)
(* back no more than it has issued.                                        *)

Bought(usdcAmount) == (usdcAmount * Unit) \div price
Proceeds(usycAmount) == (usycAmount * price) \div Unit

Subscribe(t, usdcAmount) ==
    /\ rounding <= MaxRounding
    /\ usyc' = [usyc EXCEPT ![t] = @ + Bought(usdcAmount)]
    /\ position' = position + Bought(usdcAmount)
    /\ rounding' = rounding + usdcAmount * Unit - Bought(usdcAmount) * price

RedeemAtTeller(t, usycAmount) ==
    /\ rounding <= MaxRounding
    /\ usycAmount <= usyc[t] /\ usycAmount <= position
    /\ usyc' = [usyc EXCEPT ![t] = @ - usycAmount]
    /\ position' = position - usycAmount
    /\ rounding' = rounding + usycAmount * price - Proceeds(usycAmount) * Unit

-----------------------------------------------------------------------------
(* USDCg.                                                                  *)

\* Mutant: the allocation is not recorded.
AllocatedUncounted(amount) == allocated

\* recordYieldAllocation
AllocatedWith(amount) == allocated + amount

\* The checked subtraction and the backing check of deposit.
BackingHolds(newReserve, newSupply) ==
    /\ newSupply >= allocated
    /\ newReserve >= newSupply - allocated

\* deposit, and allocateFromDeposit when a manager is set.
Deposit(amount) ==
    /\ USDCg \notin paused
    /\ cash >= amount
    /\ cash' = cash - amount
    /\ supply' = supply + amount
    /\ BackingHolds(reserve + amount, supply + amount)
    /\ \/ /\ manager = None
          /\ reserve' = reserve + amount
          /\ UNCHANGED <<allocated, usyc, position, rounding>>
       \/ /\ manager # None
          /\ manager \notin paused
          /\ reserve' = reserve
          /\ allocated' = AllocatedWith(amount)
          /\ Subscribe(manager, amount)
    /\ UNCHANGED <<manager, paused, price, gain>>

\* Mutant: the tokens are not burnt.
WithdrawUnburnt(amount) ==
    /\ USDCg \notin paused
    /\ reserve >= amount
    /\ supply >= amount
    /\ cash' = cash + amount
    /\ reserve' = reserve - amount
    /\ UNCHANGED <<supply, allocated, manager, paused, usyc, price, position, rounding,
                   gain>>

Withdraw(amount) ==
    /\ USDCg \notin paused
    /\ reserve >= amount
    /\ supply >= amount
    /\ cash' = cash + amount
    /\ supply' = supply - amount
    /\ reserve' = reserve - amount
    /\ UNCHANGED <<allocated, manager, paused, usyc, price, position, rounding,
                   gain>>

\* ERC20Burnable: a holder gives tokens up, paused or not.
Burn(amount) ==
    /\ supply >= amount
    /\ supply' = supply - amount
    /\ UNCHANGED <<cash, reserve, allocated, manager, paused, usyc, price,
                   position, rounding, gain>>

\* A plain transfer of USDC to the contract.
Donate(amount) ==
    /\ cash >= amount
    /\ cash' = cash - amount
    /\ reserve' = reserve + amount
    /\ UNCHANGED <<supply, allocated, manager, paused, usyc, price, position, rounding,
                   gain>>

\* The old manager's allowance is withdrawn; its USYC stays where it is.
SetTreasuryManager(t) ==
    /\ manager' = t
    /\ UNCHANGED <<cash, supply, reserve, allocated, paused, usyc, price,
                   position, rounding, gain>>

-----------------------------------------------------------------------------
(* TreasuryManager: by its owner or by a report, of any amount.            *)

\* Only the manager USDCg knows may take its USDC and record.
AllocateToYield(t, usdcAmount) ==
    /\ t \notin paused
    /\ manager = t
    /\ reserve >= usdcAmount
    /\ reserve' = reserve - usdcAmount
    /\ allocated' = AllocatedWith(usdcAmount)
    /\ Subscribe(t, usdcAmount)
    /\ UNCHANGED <<cash, supply, manager, paused, price, gain>>

\* Mutant: the redeemed USYC is recorded instead of the USDC received.
RedeemRecordingShares(t, usycAmount) ==
    /\ t \notin paused
    /\ manager = t
    /\ RedeemAtTeller(t, usycAmount)
    /\ usycAmount <= allocated
    /\ reserve' = reserve + Proceeds(usycAmount)
    /\ allocated' = allocated - usycAmount
    /\ UNCHANGED <<cash, supply, manager, paused, price, gain>>

\* Mutant: the recorded allocation is not compared with what came back.
RedeemUnchecked(t, usycAmount) ==
    /\ t \notin paused
    /\ manager = t
    /\ RedeemAtTeller(t, usycAmount)
    /\ reserve' = reserve + Proceeds(usycAmount)
    /\ allocated' = allocated - Proceeds(usycAmount)
    /\ UNCHANGED <<cash, supply, manager, paused, price, gain>>

\* recordYieldRedemption subtracts what was received: more than was ever
\* allocated cannot come back.
RedeemFromYield(t, usycAmount) ==
    /\ t \notin paused
    /\ manager = t
    /\ RedeemAtTeller(t, usycAmount)
    /\ Proceeds(usycAmount) <= allocated
    /\ reserve' = reserve + Proceeds(usycAmount)
    /\ allocated' = allocated - Proceeds(usycAmount)
    /\ UNCHANGED <<cash, supply, manager, paused, price, gain>>

\* pause and unpause of either contract.
TogglePause(c) ==
    /\ paused' = IF c \in paused THEN paused \ {c} ELSE paused \cup {c}
    /\ UNCHANGED <<cash, supply, reserve, allocated, manager, usyc, price,
                   position, rounding, gain>>

PriceMoves(p) ==
    /\ <<price, p>> \in PriceChanges
    /\ price' = p
    /\ gain' = gain + (p - price) * position
    /\ UNCHANGED <<cash, supply, reserve, allocated, manager, paused, usyc,
                   position, rounding>>

HolderNext(amount) ==
    Deposit(amount) \/ Withdraw(amount) \/ Burn(amount) \/ Donate(amount)

Next ==
    \/ \E amount \in Amounts : HolderNext(amount)
    \/ \E t \in Managers, amount \in Amounts :
            AllocateToYield(t, amount) \/ RedeemFromYield(t, amount)
    \/ \E t \in Managers : SetTreasuryManager(t)
    \/ \E c \in Managers \cup {USDCg} : TogglePause(c)
    \/ \E p \in Prices : PriceMoves(p)

Spec == Init /\ [][Next]_vars

-----------------------------------------------------------------------------
(***************************************************************************)
(* Properties                                                              *)
(***************************************************************************)

\* Every counter stays a natural number: no transfer or burn takes more than
\* there is.
TreasuryTypeOK ==
    /\ cash \in Nat /\ supply \in Nat /\ reserve \in Nat /\ allocated \in Nat
    /\ manager \in Managers \cup {None}
    /\ paused \subseteq Managers \cup {USDCg}
    /\ usyc \in [Managers -> Nat]
    /\ price \in Prices
    /\ position \in Nat
    /\ rounding \in Nat
    /\ gain \in Int

\* USDCg.deposit's check, at all times and not only when it runs: the USDC
\* held and the USDC sent to yield cover every token, whatever is burnt,
\* donated, allocated or redeemed at whatever price, through any manager.
Backed == reserve + allocated >= supply

PriceNeverFalls == \A c \in PriceChanges : c[1] <= c[2]

\* What allocatedToYield counts is there: unless the price falls, the USYC of
\* all managers, also of replaced ones, is worth what was not redeemed yet,
\* but for the teller's rounding.
CostCovered == allocated * Unit <= price * position + rounding

\* Then the tokens are covered by value, not only by the counter.
BackedByValue == supply * Unit <= reserve * Unit + price * position + rounding

\* recordYieldRedemption refuses nothing but yield: whatever was bought at
\* whatever prices and through whichever manager, selling any part of the
\* position brings back no more than allocatedToYield unless the price has
\* added a unit of USDC beyond what the teller rounded away.
RefusedOnlyForGains ==
    \A y \in 0..position : Proceeds(y) > allocated => gain >= rounding + Unit

\* And it lets no yield through: since every USDC that comes back counts as
\* redeemed, all that the price has ever added stays in the position, less
\* the rounding, in whatever portions and at whatever prices it is sold.
YieldStays == gain <= price * position + rounding
=============================================================================
