--------------------------- MODULE TreasuryProofs ---------------------------
(***************************************************************************)
(* Theorems about Treasury for any managers, prices and amounts.  That the *)
(* cost is covered by value assumes that the price never falls; nothing    *)
(* else assumes anything of it.                                            *)
(***************************************************************************)
EXTENDS Treasury, TLAPS

-----------------------------------------------------------------------------
(* Division.                                                               *)

\* A quotient of naturals is a natural, and multiplied back is not more.
LEMMA Quotient ==
    ASSUME NEW n \in Nat, NEW d \in Nat \ {0}
    PROVE  /\ n \div d \in Nat
           /\ (n \div d) * d <= n
<1>1. n = d * (n \div d) + (n % d) /\ n \div d \in Int /\ n % d \in 0..(d - 1)
  BY Z3
<1> DEFINE q == n \div d
           r == n % d
<1>2. q \in Nat
  <2> SUFFICES ASSUME q < 0 PROVE FALSE
    BY <1>1
  <2>1. q <= -1 /\ d >= 1 /\ q \in Int /\ d \in Int
    BY <1>1
  <2>2. d * q <= -d
    <3> HIDE DEF q
    <3> QED BY <2>1, Z3
  <2> QED BY <1>1, <2>2
<1>3. d * q = q * d
  <2> HIDE DEF q
  <2> QED BY <1>2
<1> QED BY <1>1, <1>2, <1>3

LEMMA ProductIsNat ==
    ASSUME NEW a \in Nat, NEW b \in Nat
    PROVE  a * b \in Nat
OBVIOUS

LEMMA ProductMonotone ==
    ASSUME NEW a \in Nat, NEW b \in Nat, NEW c \in Nat, a <= b
    PROVE  a * c <= b * c
<1> DEFINE d == b - a
<1>1. d \in Nat /\ b = a + d
  OBVIOUS
<1> HIDE DEF d
<1>2. (a + d) * c = a * c + d * c /\ d * c \in Nat /\ a * c \in Nat
  BY <1>1
<1>3. b * c = a * c + d * c
  BY <1>1, <1>2
<1> QED BY <1>2, <1>3

-----------------------------------------------------------------------------
(* The teller's trades.                                                    *)

LEMMA PriceIsPositive ==
    ASSUME TreasuryTypeOK
    PROVE  price \in Nat \ {0}
BY PriceAssumption DEF TreasuryTypeOK

\* What a purchase costs is the worth of what it brought plus its rounding.
LEMMA SubscribeEffect ==
    ASSUME TreasuryTypeOK, NEW t \in Managers, NEW x \in Nat, Subscribe(t, x)
    PROVE  /\ usyc' \in [Managers -> Nat]
           /\ position' \in Nat
           /\ rounding' \in Nat
           /\ x * Unit = price * (position' - position) + (rounding' - rounding)
<1> DEFINE b == Bought(x)
           u == x * Unit
<1>1. price \in Nat \ {0} /\ u \in Nat /\ Unit \in Nat \ {0}
  BY PriceIsPositive, ProductIsNat, PriceAssumption
<1>2. b \in Nat /\ b * price <= u
  <2> HIDE DEF u
  <2>1. u \div price \in Nat /\ (u \div price) * price <= u
    BY <1>1, Quotient
  <2> QED BY <2>1 DEF Bought, u
<1>3. /\ usyc' = [usyc EXCEPT ![t] = @ + b]
      /\ position' = position + b
      /\ rounding' = rounding + u - b * price
  BY DEF Subscribe
<1>4. b * price \in Nat /\ b * price = price * b
  <2> HIDE DEF b
  <2> QED BY <1>1, <1>2
<1> HIDE DEF b, u
<1>5. usyc' \in [Managers -> Nat]
  BY <1>2, <1>3 DEF TreasuryTypeOK
<1>6. position' \in Nat /\ position' - position = b
  BY <1>2, <1>3 DEF TreasuryTypeOK
<1>7. rounding' \in Nat /\ rounding' - rounding = u - b * price
  BY <1>1, <1>2, <1>3, <1>4 DEF TreasuryTypeOK
<1>8. u = price * b + (u - b * price)
  BY <1>1, <1>4
<1> QED BY <1>5, <1>6, <1>7, <1>8 DEF u

\* What a sale brings back plus its rounding is the worth of what was sold.
LEMMA RedeemEffect ==
    ASSUME TreasuryTypeOK, NEW t \in Managers, NEW y \in Nat, RedeemAtTeller(t, y)
    PROVE  /\ usyc' \in [Managers -> Nat]
           /\ position' \in Nat
           /\ rounding' \in Nat
           /\ Proceeds(y) \in Nat
           /\ Proceeds(y) * Unit = price * (position - position') - (rounding' - rounding)
<1> DEFINE r == Proceeds(y)
           w == y * price
<1>1. price \in Nat \ {0} /\ w \in Nat /\ Unit \in Nat \ {0}
  BY PriceIsPositive, ProductIsNat, PriceAssumption
<1>2. r \in Nat /\ r * Unit <= w
  <2> HIDE DEF w
  <2>1. w \div Unit \in Nat /\ (w \div Unit) * Unit <= w
    BY <1>1, Quotient
  <2> QED BY <2>1 DEF Proceeds, w
<1>3. /\ usyc' = [usyc EXCEPT ![t] = @ - y] /\ y <= usyc[t] /\ y <= position
      /\ position' = position - y
      /\ rounding' = rounding + w - r * Unit
  BY DEF RedeemAtTeller
<1>4. r * Unit \in Nat /\ w = price * y
  <2>1. w = price * y
    BY <1>1
  <2>2. r * Unit \in Nat
    <3> HIDE DEF r
    <3> QED BY <1>1, <1>2
  <2> QED BY <2>1, <2>2
<1> HIDE DEF r, w
<1>5. usyc' \in [Managers -> Nat]
  BY <1>3 DEF TreasuryTypeOK
<1>6. position' \in Nat /\ position - position' = y
  BY <1>3 DEF TreasuryTypeOK
<1>7. rounding' \in Nat /\ rounding' - rounding = w - r * Unit
  BY <1>1, <1>2, <1>3, <1>4 DEF TreasuryTypeOK
<1>8. r * Unit = price * y - (w - r * Unit)
  BY <1>1, <1>4
<1> QED BY <1>2, <1>5, <1>6, <1>7, <1>8 DEF r

-----------------------------------------------------------------------------
(* Types and the backing counter, action by action.                        *)

Sound == TreasuryTypeOK /\ Backed

LEMMA InitSound == Init => Sound
BY AmountsAssumption DEF Init, Sound, TreasuryTypeOK, Backed

LEMMA DepositSound ==
    ASSUME Sound, NEW x \in Nat, Deposit(x)
    PROVE  Sound'
<1>1. /\ cash' \in Nat /\ supply' \in Nat /\ supply' = supply + x
      /\ UNCHANGED <<manager, paused, price, gain>>
  BY DEF Deposit, Sound, TreasuryTypeOK
<1>2. CASE manager = None
  <2>1. reserve' = reserve + x /\ UNCHANGED <<allocated, usyc, position, rounding>>
    BY <1>2 DEF Deposit
  <2> QED BY <1>1, <2>1 DEF Sound, TreasuryTypeOK, Backed
<1>3. CASE manager # None
  <2>1. /\ manager \in Managers /\ Subscribe(manager, x)
        /\ reserve' = reserve /\ allocated' = allocated + x
    BY <1>3 DEF Deposit, AllocatedWith, Sound, TreasuryTypeOK
  <2>2. usyc' \in [Managers -> Nat] /\ position' \in Nat /\ rounding' \in Nat
    BY <2>1, SubscribeEffect DEF Sound
  <2> QED BY <1>1, <2>1, <2>2 DEF Sound, TreasuryTypeOK, Backed
<1> QED BY <1>2, <1>3

LEMMA HolderSound ==
    ASSUME Sound, NEW x \in Nat, Withdraw(x) \/ Burn(x) \/ Donate(x)
    PROVE  Sound'
BY DEF Withdraw, Burn, Donate, Sound, TreasuryTypeOK, Backed

LEMMA AllocateSound ==
    ASSUME Sound, NEW t \in Managers, NEW x \in Nat, AllocateToYield(t, x)
    PROVE  Sound'
<1>1. usyc' \in [Managers -> Nat] /\ position' \in Nat /\ rounding' \in Nat
  BY SubscribeEffect DEF AllocateToYield, Sound
<1>2. /\ reserve >= x /\ reserve' = reserve - x /\ allocated' = allocated + x
      /\ UNCHANGED <<cash, supply, manager, paused, price, gain>>
  BY DEF AllocateToYield, AllocatedWith
<1> QED BY <1>1, <1>2 DEF Sound, TreasuryTypeOK, Backed

LEMMA RedeemSound ==
    ASSUME Sound, NEW t \in Managers, NEW y \in Nat, RedeemFromYield(t, y)
    PROVE  Sound'
<1>1. /\ usyc' \in [Managers -> Nat] /\ position' \in Nat /\ rounding' \in Nat
      /\ Proceeds(y) \in Nat
  BY RedeemEffect DEF RedeemFromYield, Sound
<1>2. /\ Proceeds(y) <= allocated
      /\ reserve' = reserve + Proceeds(y) /\ allocated' = allocated - Proceeds(y)
      /\ UNCHANGED <<cash, supply, manager, paused, price, gain>>
  BY DEF RedeemFromYield
<1> QED BY <1>1, <1>2 DEF Sound, TreasuryTypeOK, Backed

LEMMA OwnerSound ==
    ASSUME Sound,
           \/ \E t \in Managers : SetTreasuryManager(t)
           \/ \E c \in Managers \cup {USDCg} : TogglePause(c)
           \/ \E p \in Prices : PriceMoves(p)
           \/ UNCHANGED vars
    PROVE  Sound'
<1>1. CASE \E t \in Managers : SetTreasuryManager(t)
  BY <1>1 DEF SetTreasuryManager, Sound, TreasuryTypeOK, Backed
<1>2. CASE \E c \in Managers \cup {USDCg} : TogglePause(c)
  BY <1>2 DEF TogglePause, Sound, TreasuryTypeOK, Backed
<1>3. CASE \E p \in Prices : PriceMoves(p)
  BY <1>3 DEF PriceMoves, Sound, TreasuryTypeOK, Backed
<1>4. CASE UNCHANGED vars
  BY <1>4 DEF vars, Sound, TreasuryTypeOK, Backed
<1> QED BY <1>1, <1>2, <1>3, <1>4

LEMMA SoundStep == Sound /\ [Next]_vars => Sound'
<1> SUFFICES ASSUME Sound, [Next]_vars PROVE Sound'
  OBVIOUS
<1>1. ASSUME NEW x \in Amounts, HolderNext(x) PROVE Sound'
  BY <1>1, AmountsAssumption, DepositSound, HolderSound DEF HolderNext
<1>2. ASSUME NEW t \in Managers, NEW x \in Amounts,
             AllocateToYield(t, x) \/ RedeemFromYield(t, x)
      PROVE  Sound'
  BY <1>2, AmountsAssumption, AllocateSound, RedeemSound
<1> QED BY <1>1, <1>2, OwnerSound DEF Next

LEMMA AlwaysSound == Spec => []Sound
BY InitSound, SoundStep, PTL DEF Spec

\* No call in any order takes more USDC, tokens, USYC or allocation than there
\* is: every subtraction of the two contracts is safe.
THEOREM TreasuryTypeCorrect == Spec => []TreasuryTypeOK
<1>1. Sound => TreasuryTypeOK
  BY DEF Sound
<1> QED BY <1>1, AlwaysSound, PTL

\* The backing check of deposit holds at all times, at any prices and through
\* any replacement of the manager.
THEOREM TreasuryBacked == Spec => []Backed
<1>1. Sound => Backed
  BY DEF Sound
<1> QED BY <1>1, AlwaysSound, PTL

-----------------------------------------------------------------------------
(* The ledger.                                                             *)

(* What the counter and the price moves account for is exactly what the    *)
(* position is worth and the teller rounded away.                          *)
Ledger == allocated * Unit + gain = price * position + rounding

\* The sums behind the lemmas on the ledger, without products.
LEMMA BothSidesGrow ==
    ASSUME NEW a \in Int, NEW g \in Int, NEW d \in Int, NEW w \in Int, NEW w1 \in Int,
           NEW r \in Int, NEW r1 \in Int, a + g = w + r, d = (w1 - w) + (r1 - r)
    PROVE  a + d + g = w1 + r1
OBVIOUS

LEMMA BothSidesShrink ==
    ASSUME NEW a \in Int, NEW g \in Int, NEW c \in Int, NEW w \in Int, NEW w1 \in Int,
           NEW r \in Int, NEW r1 \in Int, a + g = w + r, c = (w - w1) - (r1 - r)
    PROVE  a - c + g = w1 + r1
OBVIOUS

LEMMA SubscribeLedger ==
    ASSUME Sound, Ledger, NEW t \in Managers, NEW x \in Nat, Subscribe(t, x),
           allocated' = allocated + x, price' = price, gain' = gain
    PROVE  Ledger'
<1> DEFINE a == allocated * Unit
           u == x * Unit
           w == price * position
           w1 == price * position'
           g == price * (position' - position)
<1>1. /\ allocated \in Nat /\ price \in Nat /\ position \in Nat /\ Unit \in Nat
      /\ rounding \in Nat /\ gain \in Int
  BY PriceAssumption, PriceIsPositive DEF Sound, TreasuryTypeOK
<1>2. position' \in Nat /\ rounding' \in Nat
  BY SubscribeEffect DEF Sound
<1>3. u = g + (rounding' - rounding)
  BY SubscribeEffect DEF Sound
<1>4. g = w1 - w
  BY <1>1, <1>2
<1>5. allocated' * Unit = a + u
  BY <1>1
<1>6. a \in Nat /\ u \in Nat /\ w \in Nat /\ w1 \in Nat
  BY <1>1, <1>2, ProductIsNat
<1>7. a + gain = w + rounding
  BY DEF Ledger
<1> HIDE DEF a, u, w, w1, g
<1>8. /\ a \in Int /\ u \in Int /\ w \in Int /\ w1 \in Int
      /\ rounding \in Int /\ rounding' \in Int
  BY <1>1, <1>2, <1>6
<1>9. u = (w1 - w) + (rounding' - rounding)
  BY <1>3, <1>4
<1>10. a + u + gain = w1 + rounding'
  BY <1>1, <1>7, <1>8, <1>9, BothSidesGrow
<1> QED BY <1>5, <1>10 DEF Ledger, w1, a, u

LEMMA RedeemLedger ==
    ASSUME Sound, Ledger, NEW t \in Managers, NEW y \in Nat, RedeemFromYield(t, y)
    PROVE  Ledger'
<1> DEFINE a == allocated * Unit
           r == Proceeds(y)
           c == r * Unit
           w == price * position
           w1 == price * position'
           g == price * (position - position')
<1>1. /\ allocated \in Nat /\ price \in Nat /\ position \in Nat /\ Unit \in Nat
      /\ rounding \in Nat /\ gain \in Int
  BY PriceAssumption, PriceIsPositive DEF Sound, TreasuryTypeOK
<1>2. position' \in Nat /\ rounding' \in Nat /\ r \in Nat
  BY RedeemEffect DEF RedeemFromYield, Sound
<1>3. c = g - (rounding' - rounding)
  BY RedeemEffect DEF RedeemFromYield, Sound
<1>4. g = w - w1
  BY <1>1, <1>2
<1>5. allocated' = allocated - r /\ price' = price /\ gain' = gain
  BY DEF RedeemFromYield
<1>6. allocated' * Unit = a - c
  <2> HIDE DEF r
  <2> QED BY <1>1, <1>2, <1>5
<1>7. a \in Nat /\ c \in Nat /\ w \in Nat /\ w1 \in Nat
  <2> HIDE DEF r
  <2> QED BY <1>1, <1>2, ProductIsNat
<1>8. a + gain = w + rounding
  BY DEF Ledger
<1> HIDE DEF a, r, c, w, w1, g
<1>9. /\ a \in Int /\ c \in Int /\ w \in Int /\ w1 \in Int
      /\ rounding \in Int /\ rounding' \in Int
  BY <1>1, <1>2, <1>7
<1>10. c = (w - w1) - (rounding' - rounding)
  BY <1>3, <1>4
<1>11. a - c + gain = w1 + rounding'
  BY <1>1, <1>8, <1>9, <1>10, BothSidesShrink
<1> QED BY <1>5, <1>6, <1>11 DEF Ledger, w1, a, c

LEMMA PriceLedger ==
    ASSUME Sound, Ledger, NEW p \in Prices, PriceMoves(p)
    PROVE  Ledger'
<1> DEFINE a == allocated * Unit
           w == price * position
           w1 == p * position
           d == (p - price) * position
<1>1. /\ price \in Nat /\ p \in Nat /\ position \in Nat /\ rounding \in Nat
      /\ allocated \in Nat /\ Unit \in Nat /\ gain \in Int
  BY PriceAssumption, PriceIsPositive DEF Sound, TreasuryTypeOK
<1>2. /\ price' = p /\ gain' = gain + d
      /\ UNCHANGED <<allocated, position, rounding>>
  BY DEF PriceMoves
<1>3. d = w1 - w
  BY <1>1
<1>4. a \in Nat /\ w \in Nat /\ w1 \in Nat
  BY <1>1, ProductIsNat
<1>5. a + gain = w + rounding
  BY DEF Ledger
<1> HIDE DEF a, w, w1, d
<1>6. a + (gain + d) = w1 + rounding
  BY <1>1, <1>3, <1>4, <1>5
<1> QED BY <1>2, <1>6 DEF Ledger, a, w1

\* The other calls leave all five quantities alone.
LEMMA FrameLedger ==
    ASSUME Ledger, UNCHANGED <<allocated, gain, price, position, rounding>>
    PROVE  Ledger'
BY DEF Ledger

LEMMA LedgerStep == Sound /\ Ledger /\ [Next]_vars => Ledger'
<1> SUFFICES ASSUME Sound, Ledger, [Next]_vars PROVE Ledger'
  OBVIOUS
<1>1. ASSUME NEW x \in Amounts, Deposit(x) PROVE Ledger'
  <2>1. CASE manager = None
    BY <1>1, <2>1, FrameLedger DEF Deposit
  <2>2. CASE manager # None
    <3>1. /\ manager \in Managers /\ Subscribe(manager, x) /\ x \in Nat
          /\ allocated' = allocated + x /\ price' = price /\ gain' = gain
      BY <1>1, <2>2, AmountsAssumption DEF Deposit, AllocatedWith, Sound, TreasuryTypeOK
    <3> QED BY <3>1, SubscribeLedger
  <2> QED BY <2>1, <2>2
<1>2. ASSUME NEW x \in Amounts, Withdraw(x) \/ Burn(x) \/ Donate(x)
      PROVE  Ledger'
  BY <1>2, FrameLedger DEF Withdraw, Burn, Donate
<1>3. ASSUME NEW t \in Managers, NEW x \in Amounts, AllocateToYield(t, x)
      PROVE  Ledger'
  BY <1>3, SubscribeLedger, AmountsAssumption DEF AllocateToYield, AllocatedWith
<1>4. ASSUME NEW t \in Managers, NEW x \in Amounts, RedeemFromYield(t, x)
      PROVE  Ledger'
  BY <1>4, RedeemLedger, AmountsAssumption
<1>5. ASSUME NEW t \in Managers, SetTreasuryManager(t) PROVE Ledger'
  BY <1>5, FrameLedger DEF SetTreasuryManager
<1>6. ASSUME NEW c \in Managers \cup {USDCg}, TogglePause(c) PROVE Ledger'
  BY <1>6, FrameLedger DEF TogglePause
<1>7. ASSUME NEW p \in Prices, PriceMoves(p) PROVE Ledger'
  BY <1>7, PriceLedger
<1>8. CASE UNCHANGED vars
  BY <1>8, FrameLedger DEF vars
<1> QED BY <1>1, <1>2, <1>3, <1>4, <1>5, <1>6, <1>7, <1>8 DEF Next, HolderNext

LEMMA AlwaysLedger == Spec => [](Sound /\ Ledger)
<1>1. Init => Ledger
  <2>1. ASSUME Init PROVE Ledger
    <3>1. price \in Nat /\ Unit \in Nat
      BY <2>1, PriceAssumption DEF Init
    <3> QED BY <2>1, <3>1 DEF Init, Ledger
  <2> QED BY <2>1
<1> QED BY <1>1, LedgerStep, AlwaysSound, PTL DEF Spec

\* recordYieldRedemption refuses nothing but yield: however the positions were
\* bought, sold and left behind by replaced managers, and wherever the price
\* went, what a redemption brings exceeds the counter only by gains.
THEOREM TreasuryRefusedOnlyForGains == Spec => []RefusedOnlyForGains
<1>1. Sound /\ Ledger => RefusedOnlyForGains
  <2> SUFFICES ASSUME Sound, Ledger, NEW y \in 0..position, Proceeds(y) > allocated
               PROVE  gain >= rounding + Unit
    BY DEF RefusedOnlyForGains
  <2> DEFINE q == Proceeds(y)
             a == allocated * Unit
             c == q * Unit
             w == price * position
             v == y * price
  <2>1. /\ allocated \in Nat /\ price \in Nat /\ position \in Nat /\ y \in Nat
        /\ rounding \in Nat /\ gain \in Int /\ Unit \in Nat \ {0} /\ y <= position
    BY PriceAssumption, PriceIsPositive DEF Sound, TreasuryTypeOK
  <2>2. v \in Nat /\ w \in Nat /\ a \in Nat
    BY <2>1, ProductIsNat
  <2>3. q \in Nat /\ c <= v
    <3> HIDE DEF v
    <3>1. v \div Unit \in Nat /\ (v \div Unit) * Unit <= v
      BY <2>1, <2>2, Quotient
    <3> QED BY <3>1 DEF Proceeds, v
  <2>4. v <= w
    <3>1. y * price <= position * price
      BY <2>1, ProductMonotone
    <3>2. position * price = price * position
      BY <2>1
    <3> QED BY <3>1, <3>2
  <2>5. a + Unit <= c /\ c \in Nat
    <3> HIDE DEF q
    <3>1. allocated + 1 <= q
      BY <2>1, <2>3 DEF q
    <3>2. (allocated + 1) * Unit <= q * Unit
      BY <2>1, <2>3, <3>1, ProductMonotone
    <3>3. (allocated + 1) * Unit = allocated * Unit + Unit
      BY <2>1
    <3> QED BY <2>1, <2>3, <3>2, <3>3, ProductIsNat
  <2>6. a + gain = w + rounding
    BY DEF Ledger
  <2> HIDE DEF q, a, c, w, v
  <2> QED BY <2>1, <2>2, <2>3, <2>4, <2>5, <2>6
<1> QED BY <1>1, AlwaysLedger, PTL

\* What the price has added never comes back by redemption: the counter, which
\* takes off everything that returns, would have to fall below zero.
THEOREM TreasuryYieldStays == Spec => []YieldStays
<1>1. Sound /\ Ledger => YieldStays
  <2> SUFFICES ASSUME Sound, Ledger PROVE YieldStays
    OBVIOUS
  <2> DEFINE a == allocated * Unit
             w == price * position
  <2>1. /\ allocated \in Nat /\ price \in Nat /\ position \in Nat /\ Unit \in Nat
        /\ rounding \in Nat /\ gain \in Int
    BY PriceAssumption, PriceIsPositive DEF Sound, TreasuryTypeOK
  <2>2. a \in Nat /\ w \in Nat
    BY <2>1, ProductIsNat
  <2>3. a + gain = w + rounding
    BY DEF Ledger
  <2> HIDE DEF a, w
  <2>4. gain <= w + rounding
    BY <2>1, <2>2, <2>3
  <2> QED BY <2>4 DEF YieldStays, w
<1> QED BY <1>1, AlwaysLedger, PTL

-----------------------------------------------------------------------------
(* The value behind the counter.                                           *)

NeverLost == gain >= 0

\* A price that does not fall takes nothing away.
LEMMA GainStep ==
    ASSUME PriceNeverFalls
    PROVE  Sound /\ NeverLost /\ [Next]_vars => NeverLost'
<1> SUFFICES ASSUME Sound, gain >= 0, [Next]_vars PROVE gain' >= 0
  BY DEF NeverLost
<1>1. ASSUME NEW p \in Prices, PriceMoves(p) PROVE gain' >= 0
  <2> DEFINE d == (p - price) * position
  <2>1. <<price, p>> \in PriceChanges /\ gain' = gain + d
    BY <1>1 DEF PriceMoves
  <2>2. price <= p
    BY <2>1 DEF PriceNeverFalls
  <2>3. p - price \in Nat /\ position \in Nat /\ gain \in Int
    BY <2>2, PriceAssumption, PriceIsPositive DEF Sound, TreasuryTypeOK
  <2>4. d \in Nat
    BY <2>3, ProductIsNat
  <2> HIDE DEF d
  <2> QED BY <2>1, <2>3, <2>4
<1>2. ASSUME NEW x \in Amounts, HolderNext(x) PROVE gain' >= 0
  BY <1>2 DEF HolderNext, Deposit, Withdraw, Burn, Donate
<1>3. ASSUME NEW t \in Managers, NEW x \in Amounts,
             AllocateToYield(t, x) \/ RedeemFromYield(t, x)
      PROVE  gain' >= 0
  BY <1>3 DEF AllocateToYield, RedeemFromYield
<1>4. CASE \/ \E t \in Managers : SetTreasuryManager(t)
           \/ \E c \in Managers \cup {USDCg} : TogglePause(c)
           \/ UNCHANGED vars
  BY <1>4 DEF SetTreasuryManager, TogglePause, vars
<1> QED BY <1>1, <1>2, <1>3, <1>4 DEF Next

\* While the price never falls, the counter never overstates what the USYC of
\* all managers is worth by more than the teller rounded away.
THEOREM TreasuryCostCovered == PriceNeverFalls => (Spec => []CostCovered)
<1> SUFFICES ASSUME PriceNeverFalls PROVE Spec => []CostCovered
  OBVIOUS
<1>1. Init => NeverLost
  BY DEF Init, NeverLost
<1>2. Sound /\ NeverLost /\ [Next]_vars => NeverLost'
  BY GainStep
<1>3. Sound /\ Ledger /\ NeverLost => CostCovered
  <2> SUFFICES ASSUME Sound, Ledger, gain >= 0 PROVE CostCovered
    BY DEF NeverLost
  <2> DEFINE a == allocated * Unit
             w == price * position
  <2>1. /\ allocated \in Nat /\ price \in Nat /\ position \in Nat /\ Unit \in Nat
        /\ rounding \in Nat /\ gain \in Int
    BY PriceAssumption, PriceIsPositive DEF Sound, TreasuryTypeOK
  <2>2. a \in Nat /\ w \in Nat
    BY <2>1, ProductIsNat
  <2>3. a + gain = w + rounding
    BY DEF Ledger
  <2> HIDE DEF a, w
  <2>4. a <= w + rounding
    BY <2>1, <2>2, <2>3
  <2> QED BY <2>4 DEF CostCovered, a, w
<1> QED BY <1>1, <1>2, <1>3, AlwaysLedger, PTL DEF Spec

\* Then every token is backed by value as well.
THEOREM TreasuryBackedByValue == PriceNeverFalls => (Spec => []BackedByValue)
<1> SUFFICES ASSUME PriceNeverFalls PROVE Spec => []BackedByValue
  OBVIOUS
<1>1. Sound /\ CostCovered => BackedByValue
  <2> SUFFICES ASSUME Sound, CostCovered PROVE BackedByValue
    OBVIOUS
  <2> DEFINE s == supply * Unit
             v == reserve * Unit
             a == allocated * Unit
             w == price * position
  <2>1. /\ supply \in Nat /\ reserve \in Nat /\ allocated \in Nat /\ Unit \in Nat
        /\ price \in Nat /\ position \in Nat /\ rounding \in Nat
        /\ reserve + allocated >= supply
    BY PriceAssumption, PriceIsPositive DEF Sound, TreasuryTypeOK, Backed
  <2>2. s <= (reserve + allocated) * Unit /\ (reserve + allocated) * Unit = v + a
    BY <2>1, Z3
  <2>3. s \in Nat /\ v \in Nat /\ a \in Nat /\ w \in Nat
    BY <2>1, ProductIsNat
  <2>4. a <= w + rounding
    BY DEF CostCovered
  <2> HIDE DEF s, v, a, w
  <2>5. s <= v + w + rounding
    BY <2>1, <2>2, <2>3, <2>4
  <2> QED BY <2>5 DEF BackedByValue, s, v, w
<1> QED BY <1>1, AlwaysSound, TreasuryCostCovered, PTL
=============================================================================
