-------------------------- MODULE GhostClaimsProofs --------------------------
(***************************************************************************)
(* Theorems about GhostClaims for any accounts, hashes and amounts: first  *)
(* the book of claims, then the money, whose encrypted balances never      *)
(* wrap around because all USDCg there is fits in a uint64.  A hash may    *)
(* name any number of burns of one amount.                                 *)
(***************************************************************************)
EXTENDS GhostClaims, SumLemmas

-----------------------------------------------------------------------------
(* Types of what the claims are made from.                                 *)

U64Range == 0 .. U64 - 1

BookType ==
    /\ enc \in [Users -> U64Range]
    /\ claims \in [Hashes -> Claim \cup {NoClaim}]
    /\ userClaims \in [Users -> SUBSET Hashes]
    /\ callback \in [from: Users, to: Users, sent: U64Range] \cup {NoCall}

ClaimBook == BookType /\ ClaimsIndexed

OwnClaims(u) == {h \in Unclaimed : claims[h].to = u}

\* A uint64 result is a uint64.
LEMMA Wrapped ==
    ASSUME NEW a \in Int
    PROVE  a % U64 \in U64Range
<1>1. U64 \in Nat /\ U64 > 0
  BY WidthAssumption
<1> QED BY ONLY <1>1, Z3 DEF U64Range

LEMMA TransferredType ==
    ASSUME NEW from \in Users, NEW value \in U64Range,
           enc \in [Users -> U64Range]
    PROVE  Transferred(from, value) \in U64Range
BY WidthAssumption DEF Transferred, U64Range

LEMMA MovedType ==
    ASSUME NEW from \in Users, NEW to \in Users, NEW amount \in U64Range,
           enc \in [Users -> U64Range]
    PROVE  Moved(from, to, amount) \in [Users -> U64Range]
<1> DEFINE e == [enc EXCEPT ![from] = (@ - amount) % U64]
<1>1. amount \in Int /\ \A u \in Users : enc[u] \in Int
  BY DEF U64Range
<1>2. (enc[from] - amount) % U64 \in U64Range
  BY <1>1, Wrapped
<1>3. e \in [Users -> U64Range]
  BY <1>2
<1>4. e[to] \in Int
  BY <1>3 DEF U64Range
<1>5. (e[to] + amount) % U64 \in U64Range
  BY <1>1, <1>4, Wrapped
<1>6. Moved(from, to, amount) = [e EXCEPT ![to] = (e[to] + amount) % U64]
  BY DEF Moved
<1> HIDE DEF e
<1> QED BY <1>3, <1>5, <1>6

LEMMA AmountType == \A value \in Amounts : value \in U64Range
BY WidthAssumption DEF U64Range

LEMMA NewClaimType ==
    ASSUME NEW to \in Users, NEW value \in U64Range, NEW burned \in U64Range
    PROVE  LET c == NewClaim(to, value, burned)
           IN  c \in Claim /\ c.to = to /\ c.claimed = FALSE /\ c # NoClaim
<1>1. NewClaim(to, value, burned) \in Claim
  BY DEF NewClaim, Claim, U64Range
<1>2. NewClaim(to, value, burned) # NoClaim
  BY <1>1, NoneAssumption
<1> QED BY <1>1, <1>2 DEF NewClaim

LEMMA InitBook == Init => ClaimBook
<1> SUFFICES ASSUME Init PROVE ClaimBook
  OBVIOUS
<1>1. 0 \in U64Range
  BY WidthAssumption DEF U64Range
<1> QED BY <1>1 DEF Init, ClaimBook, BookType, ClaimsIndexed, Unclaimed

-----------------------------------------------------------------------------
(* The steps that touch the book: a claim is made, claims are settled.     *)

LEMMA BurnBook ==
    ASSUME ClaimBook,
           NEW from \in Users, NEW to \in Users, NEW value \in Amounts,
           NEW h \in Hashes, BurnToClaim(from, to, value, h)
    PROVE  ClaimBook'
<1> DEFINE t == Transferred(from, value)
           c == NewClaim(to, value, t)
<1>1. t \in U64Range /\ value \in U64Range
  BY TransferredType, AmountType DEF ClaimBook, BookType
<1>2. c \in Claim /\ c.to = to /\ c.claimed = FALSE /\ c # NoClaim
  BY <1>1, NewClaimType
<1>3. enc' \in [Users -> U64Range]
  <2>1. enc[from] - t \in Int
    BY <1>1 DEF ClaimBook, BookType, U64Range
  <2>2. (enc[from] - t) % U64 \in U64Range
    BY <2>1, Wrapped
  <2> HIDE DEF t
  <2>3. enc' = [enc EXCEPT ![from] = (enc[from] - t) % U64]
    BY DEF BurnToClaim, t
  <2> QED BY <2>2, <2>3 DEF ClaimBook, BookType
<1>4. claims' = [claims EXCEPT ![h] = c]
  BY DEF BurnToClaim
<1>5. userClaims' = [userClaims EXCEPT ![to] = userClaims[to] \cup {h}]
  BY DEF BurnToClaim
<1>6. /\ repeated' = IF claims[h] = NoClaim THEN repeated ELSE repeated \cup {h}
      /\ UNCHANGED callback
  BY DEF BurnToClaim
<1> HIDE DEF c, t
<1>7. BookType'
  BY <1>2, <1>3, <1>4, <1>5, <1>6 DEF ClaimBook, BookType
<1>8. ClaimsIndexed'
  <2> SUFFICES ASSUME NEW u \in Users
               PROVE  /\ OwnClaims(u)' \subseteq userClaims'[u]
                      /\ userClaims'[u] \ repeated' \subseteq OwnClaims(u)'
    BY DEF ClaimsIndexed, OwnClaims
  <2>1. /\ OwnClaims(u) \subseteq userClaims[u]
        /\ userClaims[u] \ repeated \subseteq OwnClaims(u)
    BY DEF ClaimBook, ClaimsIndexed, OwnClaims
  <2>2. \A g \in Hashes : claims'[g] = IF g = h THEN c ELSE claims[g]
    BY <1>4 DEF ClaimBook, BookType
  <2>3. OwnClaims(u)' = (OwnClaims(u) \ {h}) \cup (IF u = to THEN {h} ELSE {})
    BY <1>2, <2>2 DEF OwnClaims, Unclaimed
  <2>4. userClaims'[u] = userClaims[u] \cup (IF u = to THEN {h} ELSE {})
    BY <1>5 DEF ClaimBook, BookType
  <2>5. h \in repeated' \/ h \notin OwnClaims(u)
    BY <1>6 DEF OwnClaims, Unclaimed
  <2>6. repeated \subseteq repeated'
    BY <1>6
  <2> QED BY <2>1, <2>3, <2>4, <2>5, <2>6
<1> QED BY <1>7, <1>8 DEF ClaimBook

LEMMA SettleBook ==
    ASSUME ClaimBook, NEW hs \in SUBSET Unclaimed,
           Settle(hs), UNCHANGED <<enc, callback>>
    PROVE  ClaimBook'
<1>1. \A h \in Hashes : claims'[h] = IF h \in hs THEN [claims[h] EXCEPT !.claimed = TRUE]
                                     ELSE claims[h]
  BY DEF Settle
<1>2. \A h \in Unclaimed : /\ h \in Hashes
                           /\ claims[h] \in Claim
                           /\ ~claims[h].claimed
  BY DEF Unclaimed, ClaimBook, BookType
<1>3. \A h \in hs : /\ claims'[h] \in Claim
                    /\ claims'[h].claimed = TRUE
                    /\ claims'[h].to = claims[h].to
  BY <1>1, <1>2 DEF Claim
<1>4. BookType'
  <2>1. claims' \in [Hashes -> Claim \cup {NoClaim}]
    <3>1. \A h \in Hashes : claims'[h] \in Claim \cup {NoClaim}
      BY <1>1, <1>3 DEF ClaimBook, BookType
    <3>2. claims' = [h \in Hashes |-> claims'[h]]
      BY DEF Settle
    <3> QED BY <3>1, <3>2
  <2>2. userClaims' \in [Users -> SUBSET Hashes]
    BY DEF Settle, ClaimBook, BookType
  <2> QED BY <2>1, <2>2 DEF ClaimBook, BookType
<1>5. Unclaimed' = Unclaimed \ hs
  <2>1. \A h \in Hashes : h \in Unclaimed' <=> (h \in Unclaimed /\ h \notin hs)
    <3> SUFFICES ASSUME NEW h \in Hashes
                 PROVE  h \in Unclaimed' <=> (h \in Unclaimed /\ h \notin hs)
      OBVIOUS
    <3>1. CASE h \in hs
      BY <3>1, <1>3 DEF Unclaimed
    <3>2. CASE h \notin hs
      BY <3>2, <1>1 DEF Unclaimed
    <3> QED BY <3>1, <3>2
  <2> QED BY <2>1 DEF Unclaimed
<1>6. ClaimsIndexed'
  <2> SUFFICES ASSUME NEW u \in Users
               PROVE  /\ OwnClaims(u)' \subseteq userClaims'[u]
                      /\ userClaims'[u] \ repeated' \subseteq OwnClaims(u)'
    BY DEF ClaimsIndexed, OwnClaims
  <2>1. /\ OwnClaims(u) \subseteq userClaims[u]
        /\ userClaims[u] \ repeated \subseteq OwnClaims(u)
    BY DEF ClaimBook, ClaimsIndexed, OwnClaims
  <2>2. /\ userClaims'[u] = {g \in userClaims[u] : ~(g \in hs /\ claims[g].to = u)}
        /\ repeated' = repeated
    BY DEF Settle
  <2>3. \A g \in Unclaimed \ hs : claims'[g] = claims[g]
    BY <1>1, <1>2
  <2>4. OwnClaims(u)' = OwnClaims(u) \ hs
    BY <1>5, <2>3 DEF OwnClaims
  <2> QED BY <2>1, <2>2, <2>4 DEF OwnClaims
<1> QED BY <1>4, <1>6 DEF ClaimBook

-----------------------------------------------------------------------------
(* Every step.                                                             *)

LEMMA ClaimableUnclaimed ==
    ASSUME NEW h \in Hashes, Claimable(h)
    PROVE  h \in Unclaimed
BY DEF Claimable, Unclaimed

LEMMA WrapBook ==
    ASSUME ClaimBook, NEW caller \in Users, NEW to \in Users, NEW value \in Amounts,
           Wrap(caller, to, value)
    PROVE  ClaimBook'
<1>1. enc' \in [Users -> U64Range]
  <2>1. enc[to] + value \in Int
    BY AmountType DEF ClaimBook, BookType, U64Range
  <2>2. (enc[to] + value) % U64 \in U64Range
    BY <2>1, Wrapped
  <2>3. enc' = [enc EXCEPT ![to] = (enc[to] + value) % U64]
    BY DEF Wrap, Mint
  <2> QED BY <2>2, <2>3 DEF ClaimBook, BookType
<1>2. UNCHANGED <<book, callback>>
  BY DEF Wrap
<1> QED BY <1>1, <1>2 DEF ClaimBook, BookType, ClaimsIndexed, Unclaimed, book

\* Steps that leave the book alone and the other types right.
LEMMA FrameBook ==
    ASSUME ClaimBook, UNCHANGED book, enc' \in [Users -> U64Range],
           callback' \in [from: Users, to: Users, sent: U64Range] \cup {NoCall}
    PROVE  ClaimBook'
BY DEF ClaimBook, BookType, ClaimsIndexed, Unclaimed, book

LEMMA ClaimedAllUnclaimed ==
    ASSUME ClaimBook, NEW caller \in Users, ClaimAllUnwrapped(caller)
    PROVE  userClaims[caller] \in SUBSET Unclaimed
BY ClaimableUnclaimed DEF ClaimBook, BookType, ClaimAllUnwrapped

LEMMA StepBook == ClaimBook /\ [Next]_vars => ClaimBook'
<1> SUFFICES ASSUME ClaimBook, [Next]_vars PROVE ClaimBook'
  OBVIOUS
<1> USE DEF CallerNext
<1>0. /\ enc \in [Users -> U64Range]
      /\ callback \in [from: Users, to: Users, sent: U64Range] \cup {NoCall}
  BY DEF ClaimBook, BookType
<1>1. ASSUME NEW caller \in Users, NEW u \in Users, NEW value \in Amounts,
             Wrap(caller, u, value)
      PROVE  ClaimBook'
  BY <1>1, WrapBook
<1>2. ASSUME NEW caller \in Users, NEW u \in Users, NEW value \in Amounts,
             NEW from \in Users, Transfer(caller, from, u, value)
      PROVE  ClaimBook'
  <2>1. enc' \in [Users -> U64Range]
    BY <1>0, <1>2, TransferredType, MovedType, AmountType DEF Transfer
  <2>2. UNCHANGED <<book, callback>>
    BY <1>2 DEF Transfer
  <2> QED BY <1>0, <2>1, <2>2, FrameBook
<1>3. ASSUME NEW caller \in Users, NEW u \in Users, NEW value \in Amounts,
             NEW h \in Hashes,
             Unwrap(caller, u, value, h) \/ UnwrapFor(caller, u, value, h)
      PROVE  ClaimBook'
  BY <1>3, BurnBook DEF Unwrap, UnwrapFor
<1>4. ASSUME NEW caller \in Users, NEW h \in Hashes, ClaimUnwrapped(caller, h)
      PROVE  ClaimBook'
  <2>1. {h} \in SUBSET Unclaimed
    BY <1>4, ClaimableUnclaimed DEF ClaimUnwrapped
  <2> QED BY <1>4, <2>1, SettleBook DEF ClaimUnwrapped
<1>5. ASSUME NEW caller \in Users, ClaimAllUnwrapped(caller)
      PROVE  ClaimBook'
  BY <1>5, ClaimedAllUnclaimed, SettleBook DEF ClaimAllUnwrapped
<1>6. ASSUME NEW from \in Users, NEW to \in Users, NEW value \in Amounts,
             TransferAndCall(from, to, value)
      PROVE  ClaimBook'
  <2>1. Transferred(from, value) \in U64Range
    BY <1>0, TransferredType, AmountType
  <2>2. enc' \in [Users -> U64Range]
    BY <1>0, <1>6, <2>1, MovedType DEF TransferAndCall
  <2>3. callback' \in [from: Users, to: Users, sent: U64Range]
    BY <1>6, <2>1 DEF TransferAndCall
  <2>4. UNCHANGED book
    BY <1>6 DEF TransferAndCall
  <2> QED BY <2>2, <2>3, <2>4, FrameBook
<1>7. ASSUME NEW success \in BOOLEAN, CallbackReturns(success)
      PROVE  ClaimBook'
  <2>1. callback \in [from: Users, to: Users, sent: U64Range]
    BY <1>0, <1>7 DEF CallbackReturns, Outermost
  <2> DEFINE refund == IF success THEN 0 ELSE callback.sent
  <2>2. refund \in U64Range /\ callback.to \in Users /\ callback.from \in Users
    BY <2>1, WidthAssumption DEF U64Range
  <2>3. enc' = Moved(callback.to, callback.from, Transferred(callback.to, refund))
    BY <1>7 DEF CallbackReturns
  <2>4. callback' = NoCall /\ UNCHANGED book
    BY <1>7 DEF CallbackReturns
  <2> HIDE DEF refund
  <2>5. Transferred(callback.to, refund) \in U64Range
    BY <1>0, <2>2, TransferredType
  <2>6. enc' \in [Users -> U64Range]
    BY <1>0, <2>2, <2>3, <2>5, MovedType
  <2> QED BY <2>4, <2>6, FrameBook
<1>8. ASSUME NEW h \in Hashes, PublishDecryption(h)
      PROVE  ClaimBook'
  BY <1>0, <1>8, FrameBook DEF PublishDecryption, balances
<1>9. ASSUME TogglePause PROVE ClaimBook'
  BY <1>0, <1>9, FrameBook DEF TogglePause, balances
<1>10. ASSUME NEW f \in Users, SetCreForwarder(f) PROVE ClaimBook'
  BY <1>0, <1>10, FrameBook DEF SetCreForwarder, balances
<1>11. ASSUME UNCHANGED vars PROVE ClaimBook'
  BY <1>0, <1>11, FrameBook DEF vars, book
<1> QED
  BY <1>1, <1>2, <1>3, <1>4, <1>5, <1>6, <1>7, <1>8, <1>9, <1>10, <1>11 DEF Next

LEMMA BookInvariant == Spec => []ClaimBook
<1> QED BY InitBook, StepBook, PTL DEF Spec

\* However wraps, burns, transfers, callbacks and claims follow each other, an
\* unpaid claim is listed for its account, and claimAllUnwrapped can only be
\* stopped by a decryption still to come or by a hash that named two burns.
THEOREM GhostClaimsIndexed == Spec => []ClaimsIndexed
<1>1. ClaimBook => ClaimsIndexed
  BY DEF ClaimBook
<1> QED BY <1>1, BookInvariant, PTL

-----------------------------------------------------------------------------
(* The money.  No USDCg appears or disappears; what the contract holds is  *)
(* what encrypted balances, unpaid claims and overwritten ones add up to.  *)
(* All of it together is less than U64, so no balance wraps around.        *)

Money ==
    /\ wallet \in [Users -> Nat] /\ held \in Nat
    /\ SumFunctionOnSet(wallet, Users) + held = SumFunction(Savings)
    /\ held = SumFunctionOnSet(enc, Users) + AmountOf(Unclaimed) + lost
    /\ lost \in Nat
    /\ total = SumFunctionOnSet(enc, Users)

\* The same sums of any book c, so that they can be taken before and after a
\* step.
Open(c) == {h \in Hashes : c[h] # NoClaim /\ ~c[h].claimed}
Due(c, hs) == SumFunctionOnSet([h \in hs |-> c[h].decryptedAmount], hs)
Books == [Hashes -> Claim \cup {NoClaim}]

\* What is due for open claims is a sum of naturals.
LEMMA DueType ==
    ASSUME NEW c \in Books, NEW hs \in SUBSET Open(c)
    PROVE  /\ IsFiniteSet(hs)
           /\ \A h \in hs : c[h].decryptedAmount \in Nat /\ c[h].to \in Users
           /\ Due(c, hs) \in Nat
<1>1. IsFiniteSet(hs)
  BY FiniteAssumption, FS_Subset DEF Open
<1>2. \A h \in hs : c[h] \in Claim
  BY DEF Open, Books
<1>3. \A h \in hs : c[h].decryptedAmount \in Nat /\ c[h].to \in Users
  BY <1>2, WidthAssumption DEF Claim
<1> DEFINE f == [h \in hs |-> c[h].decryptedAmount]
<1>4. \A h \in hs : f[h] \in Nat
  BY <1>3
<1>5. SumFunctionOnSet(f, hs) \in Nat
  <2> HIDE DEF f
  <2> QED BY <1>1, <1>4, SumNat
<1> QED BY <1>1, <1>3, <1>5 DEF Due

\* What is due depends on the amounts alone.
LEMMA DueSame ==
    ASSUME NEW c \in Books, NEW hs \in SUBSET Open(c), NEW f,
           \A h \in hs : f[h] = c[h].decryptedAmount
    PROVE  SumFunctionOnSet(f, hs) = Due(c, hs)
<1> DEFINE g == [h \in hs |-> c[h].decryptedAmount]
<1>1. IsFiniteSet(hs) /\ \A h \in hs : g[h] \in Int /\ f[h] = g[h]
  BY DueType
<1>2. SumFunctionOnSet(f, hs) = SumFunctionOnSet(g, hs)
  <2> HIDE DEF g
  <2> QED BY <1>1, SumSame
<1> QED BY <1>2 DEF Due

\* Paying claims takes what is due for them off what is due.
LEMMA DueAfterPayment ==
    ASSUME NEW c \in Books, NEW d \in Books, NEW hs \in SUBSET Open(c),
           Open(d) = Open(c) \ hs, \A h \in Open(d) : d[h] = c[h]
    PROVE  Due(c, Open(c)) = Due(c, hs) + Due(d, Open(d))
<1> DEFINE f == [h \in Open(c) |-> c[h].decryptedAmount]
<1>1. IsFiniteSet(Open(c)) /\ \A h \in Open(c) : f[h] \in Int
  BY DueType
<1>2. SumFunctionOnSet(f, Open(c)) =
          SumFunctionOnSet(f, hs) + SumFunctionOnSet(f, Open(c) \ hs)
  <2> HIDE DEF f
  <2> QED BY <1>1, SumSplit
<1>3. SumFunctionOnSet(f, hs) = Due(c, hs)
  <2>1. \A h \in hs : f[h] = c[h].decryptedAmount
    OBVIOUS
  <2> HIDE DEF f
  <2> QED BY <2>1, DueSame
<1>4. SumFunctionOnSet(f, Open(d)) = Due(d, Open(d))
  <2>1. \A h \in Open(d) : f[h] = d[h].decryptedAmount
    OBVIOUS
  <2> HIDE DEF f
  <2> QED BY <2>1, DueSame
<1> QED BY <1>2, <1>3, <1>4 DEF Due

\* A new claim adds its amount.
LEMMA DueAfterBurn ==
    ASSUME NEW c \in Books, NEW d \in Books, NEW h \in Open(d),
           Open(c) = Open(d) \ {h}, \A g \in Open(c) : d[g] = c[g]
    PROVE  Due(d, Open(d)) = d[h].decryptedAmount + Due(c, Open(c))
<1>1. Due(d, Open(d)) = Due(d, {h}) + Due(c, Open(c))
  BY DueAfterPayment
<1> DEFINE f == [g \in {h} |-> d[g].decryptedAmount]
<1>2. f[h] \in Int /\ {h} \in SUBSET Open(d)
  BY DueType
<1>3. SumFunctionOnSet(f, {h}) = f[h] + SumFunctionOnSet(f, {h} \ {h})
  <2>1. \A x \in {h} : f[x] \in Int
    BY <1>2
  <2> HIDE DEF f
  <2> QED BY <2>1, FS_Singleton, SumRemove
<1>4. SumFunctionOnSet(f, {h} \ {h}) = 0
  <2>1. {h} \ {h} = {}
    OBVIOUS
  <2> HIDE DEF f
  <2> QED BY <2>1, SumEmpty
<1>5. Due(d, {h}) = d[h].decryptedAmount
  BY <1>2, <1>3, <1>4 DEF Due
<1> QED BY <1>1, <1>5

\* What the accounts get of a batch is the whole batch.
LEMMA DueByAccount ==
    ASSUME NEW c \in Books, NEW hs \in SUBSET Open(c)
    PROVE  LET share == [u \in Users |-> Due(c, {h \in hs : c[h].to = u})]
           IN  /\ \A u \in Users : share[u] \in Nat
               /\ SumFunctionOnSet(share, Users) = Due(c, hs)
<1> DEFINE Of(u) == {h \in hs : c[h].to = u}
           share == [u \in Users |-> Due(c, Of(u))]
           f == [h \in hs |-> c[h].decryptedAmount]
           to == [h \in hs |-> c[h].to]
           grouped == [u \in Users |-> SumFunctionOnSet(f, {h \in hs : to[h] = u})]
<1>1. IsFiniteSet(hs) /\ \A h \in hs : f[h] \in Int /\ to[h] \in Users
  BY DueType
<1>2. SumFunctionOnSet(grouped, Users) = SumFunctionOnSet(f, hs)
  <2> HIDE DEF f, to
  <2> QED BY <1>1, FiniteAssumption, SumGrouped
<1>3. \A u \in Users : share[u] \in Nat /\ grouped[u] = share[u]
  <2> SUFFICES ASSUME NEW u \in Users PROVE share[u] \in Nat /\ grouped[u] = share[u]
    OBVIOUS
  <2>1. Of(u) \in SUBSET Open(c) /\ Of(u) = {h \in hs : to[h] = u}
    OBVIOUS
  <2>2. \A h \in Of(u) : f[h] = c[h].decryptedAmount
    OBVIOUS
  <2>3. Due(c, Of(u)) \in Nat /\ SumFunctionOnSet(f, Of(u)) = Due(c, Of(u))
    <3> HIDE DEF f, Of
    <3> QED BY <2>1, <2>2, DueType, DueSame
  <2> QED BY <2>1, <2>3
<1>4. SumFunctionOnSet(share, Users) = SumFunctionOnSet(grouped, Users)
  <2> HIDE DEF share, grouped
  <2>1. \A u \in Users : grouped[u] \in Int /\ share[u] = grouped[u]
    BY <1>3
  <2> QED BY <2>1, FiniteAssumption, SumSame
<1> QED BY <1>2, <1>3, <1>4 DEF Due

-----------------------------------------------------------------------------
(* Encrypted balances: no addition and no subtraction of a step wraps.     *)

SumOf(f) == SumFunctionOnSet(f, Users)

LEMMA WithinWidth ==
    ASSUME NEW a \in U64Range
    PROVE  a % U64 = a
<1>1. U64 \in Nat /\ U64 > 0
  BY WidthAssumption
<1> QED BY ONLY <1>1, a \in U64Range, Z3 DEF U64Range

LEMMA EncType ==
    ASSUME NEW e \in [Users -> U64Range]
    PROVE  /\ e \in [Users -> Int]
           /\ SumOf(e) \in Nat
           /\ \A u \in Users : e[u] \in Nat /\ e[u] <= SumOf(e)
<1>1. \A u \in Users : e[u] \in Nat
  BY DEF U64Range
<1>2. IsFiniteSet(Users)
  BY FiniteAssumption
<1>3. SumOf(e) \in Nat
  BY <1>1, <1>2, SumNat DEF SumOf
<1>4. \A u \in Users : e[u] <= SumOf(e)
  BY <1>1, <1>2, SumHasMember DEF SumOf
<1>5. e \in [Users -> Int]
  BY <1>1
<1> QED BY <1>1, <1>3, <1>4, <1>5

LEMMA EncGains ==
    ASSUME NEW e \in [Users -> U64Range], NEW to \in Users, NEW v \in Nat,
           SumOf(e) + v < U64
    PROVE  /\ [e EXCEPT ![to] = (e[to] + v) % U64] \in [Users -> U64Range]
           /\ SumOf([e EXCEPT ![to] = (e[to] + v) % U64]) = SumOf(e) + v
<1>1. e \in [Users -> Int] /\ e[to] \in Nat /\ e[to] <= SumOf(e) /\ SumOf(e) \in Nat
  BY EncType
<1>2. e[to] + v \in U64Range
  BY <1>1, WidthAssumption DEF U64Range
<1>3. (e[to] + v) % U64 = e[to] + v
  BY <1>2, WithinWidth
<1>4. [e EXCEPT ![to] = e[to] + v] \in [Users -> U64Range]
  BY <1>2
<1>5. IsFiniteSet(Users)
  BY FiniteAssumption
<1>6. SumOf([e EXCEPT ![to] = e[to] + v]) = SumOf(e) + (e[to] + v) - e[to]
  <2>1. e[to] + v \in Int
    BY <1>1
  <2> QED BY <1>1, <1>5, <2>1, SumExcept DEF SumOf
<1>7. [e EXCEPT ![to] = (e[to] + v) % U64] = [e EXCEPT ![to] = e[to] + v]
  BY <1>3
<1>8. SumOf(e) + (e[to] + v) - e[to] = SumOf(e) + v
  BY <1>1
<1> QED BY <1>4, <1>6, <1>7, <1>8

LEMMA EncLoses ==
    ASSUME NEW e \in [Users -> U64Range], NEW from \in Users, NEW v \in Nat,
           v <= e[from]
    PROVE  /\ [e EXCEPT ![from] = (e[from] - v) % U64] \in [Users -> U64Range]
           /\ SumOf([e EXCEPT ![from] = (e[from] - v) % U64]) = SumOf(e) - v
<1>1. e \in [Users -> Int] /\ e[from] \in Nat /\ SumOf(e) \in Nat
  BY EncType
<1>2. e[from] - v \in U64Range
  BY <1>1, WidthAssumption DEF U64Range
<1>3. (e[from] - v) % U64 = e[from] - v
  BY <1>2, WithinWidth
<1>4. [e EXCEPT ![from] = e[from] - v] \in [Users -> U64Range]
  BY <1>2
<1>5. IsFiniteSet(Users)
  BY FiniteAssumption
<1>6. SumOf([e EXCEPT ![from] = e[from] - v]) = SumOf(e) + (e[from] - v) - e[from]
  <2>1. e[from] - v \in Int
    BY <1>1
  <2> QED BY <1>1, <1>5, <2>1, SumExcept DEF SumOf
<1>7. [e EXCEPT ![from] = (e[from] - v) % U64] = [e EXCEPT ![from] = e[from] - v]
  BY <1>3
<1>8. SumOf(e) + (e[from] - v) - e[from] = SumOf(e) - v
  BY <1>1
<1> QED BY <1>4, <1>6, <1>7, <1>8

\* A burn or transfer of too much moves nothing.
LEMMA TransferredBound ==
    ASSUME enc \in [Users -> U64Range], NEW from \in Users, NEW value \in U64Range
    PROVE  Transferred(from, value) \in Nat /\ Transferred(from, value) <= enc[from]
<1>1. enc[from] \in Nat
  BY EncType
<1> QED BY <1>1 DEF Transferred, U64Range

LEMMA MovedSum ==
    ASSUME enc \in [Users -> U64Range], SumOf(enc) < U64,
           NEW from \in Users, NEW to \in Users, NEW value \in U64Range
    PROVE  SumOf(Moved(from, to, Transferred(from, value))) = SumOf(enc)
<1> DEFINE t == Transferred(from, value)
           e == [enc EXCEPT ![from] = (enc[from] - t) % U64]
<1>1. t \in Nat /\ t <= enc[from]
  BY TransferredBound
<1>2. SumOf(enc) \in Nat
  BY EncType
<1> HIDE DEF t
<1>3. e \in [Users -> U64Range] /\ SumOf(e) = SumOf(enc) - t
  BY <1>1, EncLoses
<1>4. Moved(from, to, t) = [e EXCEPT ![to] = (e[to] + t) % U64]
  BY DEF Moved
<1> HIDE DEF e
<1>5. e \in [Users -> U64Range] /\ t \in Nat /\ SumOf(e) + t < U64
  BY <1>1, <1>2, <1>3
<1>6. SumOf([e EXCEPT ![to] = (e[to] + t) % U64]) = SumOf(e) + t
  BY <1>5, EncGains
<1>7. SumOf(Moved(from, to, t)) = SumOf(enc)
  BY <1>1, <1>2, <1>3, <1>4, <1>6
<1> QED BY <1>7 DEF t

-----------------------------------------------------------------------------
(* Every step keeps the money.                                             *)

LEMMA AllSavings ==
    /\ SumFunction(Savings) = SumOf(Savings)
    /\ SumOf(Savings) \in Nat
    /\ SumOf(Savings) < U64
<1>1. Savings \in [Users -> Nat] /\ SumFunction(Savings) < U64
  BY SavingsAssumption
<1>2. SumFunction(Savings) = SumOf(Savings)
  BY <1>1 DEF SumFunction, SumOf
<1>3. SumOf(Savings) \in Nat
  BY <1>1, FiniteAssumption, SumNat DEF SumOf
<1> QED BY <1>1, <1>2, <1>3

LEMMA UnclaimedDue ==
    /\ Unclaimed = Open(claims)
    /\ AmountOf(Unclaimed) = Due(claims, Open(claims))
    /\ \A hs : AmountOf(hs) = Due(claims, hs)
BY DEF Unclaimed, Open, AmountOf, Due

LEMMA UnclaimedDueAfter ==
    /\ Unclaimed' = Open(claims')
    /\ AmountOf(Unclaimed)' = Due(claims', Open(claims'))
BY DEF Unclaimed, Open, AmountOf, Due

LEMMA MoneyBounds ==
    ASSUME ClaimBook, Money
    PROVE  /\ SumOf(wallet) \in Nat /\ SumOf(enc) \in Nat /\ held \in Nat
           /\ AmountOf(Unclaimed) \in Nat /\ lost \in Nat
           /\ SumOf(wallet) + SumOf(enc) + AmountOf(Unclaimed) < U64
<1>1. SumOf(wallet) \in Nat
  BY FiniteAssumption, SumNat DEF Money, SumOf
<1>2. SumOf(enc) \in Nat
  BY EncType DEF ClaimBook, BookType
<1>3. AmountOf(Unclaimed) \in Nat
  <2>1. claims \in Books /\ Open(claims) \in SUBSET Open(claims)
    BY DEF ClaimBook, BookType, Books
  <2> QED BY <2>1, DueType, UnclaimedDue
<1>4. /\ held \in Nat /\ U64 \in Nat /\ lost \in Nat
      /\ SumOf(wallet) + held = SumFunction(Savings)
      /\ held = SumOf(enc) + AmountOf(Unclaimed) + lost
  BY WidthAssumption DEF Money, SumOf
<1> QED BY <1>1, <1>2, <1>3, <1>4, AllSavings

LEMMA InitMoney == Init => Money
<1> SUFFICES ASSUME Init PROVE Money
  OBVIOUS
<1>1. SumFunctionOnSet(enc, Users) = 0
  <2>1. \A u \in Users : enc[u] = 0
    BY DEF Init
  <2> QED BY <2>1, FiniteAssumption, SumZero
<1>2. AmountOf(Unclaimed) = 0
  <2>1. Unclaimed = {}
    BY DEF Unclaimed, Init
  <2> QED BY <2>1, SumEmpty DEF AmountOf
<1>3. SumFunctionOnSet(wallet, Users) = SumFunction(Savings)
        /\ SumFunction(Savings) \in Nat
  BY AllSavings DEF Init, SumOf
<1> QED BY <1>1, <1>2, <1>3, SavingsAssumption DEF Money, Init

\* Steps that move encrypted money from account to account at most.
LEMMA MovedMoney ==
    ASSUME ClaimBook, Money, SumOf(enc') = SumOf(enc),
           UNCHANGED <<wallet, held, total, claims, lost>>
    PROVE  Money'
<1>1. AmountOf(Unclaimed)' = AmountOf(Unclaimed)
  BY UnclaimedDue, UnclaimedDueAfter
<1> QED BY <1>1 DEF Money, SumOf

LEMMA WrapMoney ==
    ASSUME ClaimBook, Money,
           NEW caller \in Users, NEW to \in Users, NEW value \in Amounts,
           Wrap(caller, to, value)
    PROVE  Money'
<1>1. value \in Nat /\ wallet[caller] \in Nat /\ value <= wallet[caller]
  BY AmountType DEF U64Range, Wrap, Money
<1>2. wallet' = [wallet EXCEPT ![caller] = wallet[caller] - value]
  BY DEF Wrap
<1>3. wallet' \in [Users -> Nat]
  BY <1>1, <1>2 DEF Money
<1>4. SumOf(wallet') = SumOf(wallet) - value
  <2>1. IsFiniteSet(Users) /\ wallet \in [Users -> Int] /\ wallet[caller] - value \in Int
    BY <1>1, FiniteAssumption DEF Money
  <2>2. SumOf([wallet EXCEPT ![caller] = wallet[caller] - value])
          = SumOf(wallet) + (wallet[caller] - value) - wallet[caller]
    BY <2>1, SumExcept DEF SumOf
  <2> QED BY <1>1, <1>2, <2>2, MoneyBounds
<1>5. value <= SumOf(wallet)
  <2>1. \A u \in Users : wallet[u] \in Nat
    BY DEF Money
  <2>2. wallet[caller] <= SumOf(wallet)
    BY <2>1, FiniteAssumption, SumHasMember DEF SumOf
  <2> QED BY <1>1, <2>2, MoneyBounds
<1>6. SumOf(enc) + value < U64
  BY <1>1, <1>5, MoneyBounds, WidthAssumption
<1>7. SumOf(enc') = SumOf(enc) + value
  <2>1. enc \in [Users -> U64Range]
    BY DEF ClaimBook, BookType
  <2>2. enc' = [enc EXCEPT ![to] = (enc[to] + value) % U64]
    BY DEF Wrap, Mint
  <2> QED BY <1>1, <1>6, <2>1, <2>2, EncGains
<1>8. total' = SumOf(enc) + value
  <2>1. SumOf(enc) + value \in U64Range
    BY <1>1, <1>6, MoneyBounds, WidthAssumption DEF U64Range
  <2>2. total' = (SumOf(enc) + value) % U64
    BY DEF Wrap, Mint, Money, SumOf
  <2> QED BY <2>1, <2>2, WithinWidth
<1>9. AmountOf(Unclaimed)' = AmountOf(Unclaimed)
  BY UnclaimedDue, UnclaimedDueAfter DEF Wrap, book
<1>10. held' = held + value
  BY DEF Wrap
<1>11. /\ held' \in Nat
       /\ SumOf(wallet') + held' = SumFunction(Savings)
       /\ held' = SumOf(enc') + AmountOf(Unclaimed)' + lost'
       /\ total' = SumOf(enc')
       /\ lost' \in Nat
  <2>1. /\ SumOf(wallet) + held = SumFunction(Savings)
        /\ held = SumOf(enc) + AmountOf(Unclaimed) + lost
        /\ lost' = lost
    BY DEF Money, SumOf, Wrap, book
  <2> QED BY <1>1, <1>4, <1>7, <1>8, <1>9, <1>10, <2>1, MoneyBounds
<1> QED BY <1>3, <1>11 DEF Money, SumOf

LEMMA BurnMoney ==
    ASSUME ClaimBook, Money,
           NEW from \in Users, NEW to \in Users, NEW value \in Amounts,
           NEW h \in Hashes, BurnToClaim(from, to, value, h)
    PROVE  Money'
<1> DEFINE t == Transferred(from, value)
           c == NewClaim(to, value, t)
<1>1. /\ enc \in [Users -> U64Range] /\ claims \in Books
      /\ claims[h] # NoClaim => claims[h].decryptedAmount = t
      /\ lost' = IF h \in Unclaimed THEN lost + t ELSE lost
      /\ claims' = [claims EXCEPT ![h] = c]
      /\ enc' = [enc EXCEPT ![from] = (enc[from] - t) % U64]
      /\ total' = (total - t) % U64
      /\ UNCHANGED <<wallet, held>>
  BY DEF BurnToClaim, DecryptsTo, ClaimBook, BookType, Books
<1>2. t \in U64Range /\ value \in U64Range
  BY <1>1, TransferredType, AmountType
<1>3. t \in Nat /\ t <= enc[from]
  BY <1>1, <1>2, TransferredBound
<1>4. c \in Claim /\ c.claimed = FALSE /\ c # NoClaim /\ c.decryptedAmount = t
  BY <1>2, NewClaimType DEF NewClaim
<1> HIDE DEF t, c
<1>5. SumOf(enc') = SumOf(enc) - t /\ SumOf(enc) >= t
  <2>1. enc[from] <= SumOf(enc) /\ enc[from] \in Nat
    BY <1>1, EncType
  <2>2. SumOf(enc) >= t
    BY <1>3, <2>1, MoneyBounds
  <2> QED BY <1>1, <1>3, <2>2, EncLoses
<1>6. total' = SumOf(enc) - t
  <2>1. SumOf(enc) - t \in U64Range
    BY <1>3, <1>5, MoneyBounds, WidthAssumption DEF U64Range
  <2>2. total' = (SumOf(enc) - t) % U64
    BY <1>1 DEF Money, SumOf
  <2> QED BY <2>1, <2>2, WithinWidth
<1>7. AmountOf(Unclaimed)' + lost' = t + AmountOf(Unclaimed) + lost
  <2>1. claims' \in Books
    BY <1>1, <1>4 DEF Books
  <2>2. \A g \in Hashes : claims'[g] = IF g = h THEN c ELSE claims[g]
    BY <1>1 DEF Books
  <2>3. h \in Open(claims') /\ Open(claims) \ {h} = Open(claims') \ {h}
    BY <1>1, <1>4, <2>2 DEF Open
  <2>4. \A g \in Open(claims) \ {h} : claims'[g] = claims[g]
    BY <2>2 DEF Open
  <2>5. CASE h \notin Open(claims)
    <3>1. Due(claims', Open(claims'))
            = claims'[h].decryptedAmount + Due(claims, Open(claims))
      <4>1. Open(claims) = Open(claims') \ {h}
        BY <2>3, <2>5
      <4> QED BY <1>1, <2>1, <2>3, <2>4, <2>5, <4>1, DueAfterBurn
    <3>2. AmountOf(Unclaimed)' = t + AmountOf(Unclaimed)
      BY <1>4, <2>2, <3>1, UnclaimedDue, UnclaimedDueAfter
    <3>3. lost' = lost
      BY <1>1, <2>5, UnclaimedDue
    <3> QED BY <3>2, <3>3
  <2>6. CASE h \in Open(claims)
    <3>1. Open(claims') = Open(claims)
      BY <2>3, <2>6
    <3>2. \A g \in Open(claims) : claims'[g].decryptedAmount = claims[g].decryptedAmount
      BY <1>1, <1>4, <2>2, <2>6 DEF Open
    <3>3. Due(claims', Open(claims')) = Due(claims, Open(claims))
      BY <3>1, <3>2 DEF Due
    <3>4. AmountOf(Unclaimed)' = AmountOf(Unclaimed) /\ lost' = lost + t
      BY <1>1, <2>6, <3>3, UnclaimedDue, UnclaimedDueAfter
    <3> QED BY <1>3, <3>4, MoneyBounds
  <2> QED BY <2>5, <2>6
<1>8. /\ SumOf(wallet') + held' = SumFunction(Savings)
      /\ held' = SumOf(enc') + AmountOf(Unclaimed)' + lost'
      /\ total' = SumOf(enc')
  <2>1. /\ SumOf(wallet) + held = SumFunction(Savings)
        /\ held = SumOf(enc) + AmountOf(Unclaimed) + lost
    BY DEF Money, SumOf
  <2>2. lost' \in Nat /\ AmountOf(Unclaimed)' \in Nat
    <3>1. lost' \in Nat
      BY <1>1, <1>3, MoneyBounds
    <3>2. claims' \in Books /\ Open(claims') \in SUBSET Open(claims')
      BY <1>1, <1>4 DEF Books
    <3> QED BY <3>1, <3>2, DueType, UnclaimedDueAfter
  <2> QED BY <1>1, <1>3, <1>5, <1>6, <1>7, <2>1, <2>2, MoneyBounds
<1>9. wallet' \in [Users -> Nat] /\ held' \in Nat /\ lost' \in Nat
  BY <1>1, <1>3, MoneyBounds DEF Money
<1> QED BY <1>8, <1>9 DEF Money, SumOf

LEMMA PayMoney ==
    ASSUME ClaimBook, Money, NEW hs \in SUBSET Unclaimed,
           Settle(hs), PayOut(hs), UNCHANGED <<enc, total, callback>>
    PROVE  Money'
<1>1. ClaimBook'
  BY SettleBook
<1>2. claims \in Books /\ claims' \in Books /\ hs \in SUBSET Open(claims)
  BY <1>1, UnclaimedDue DEF ClaimBook, BookType, Books
<1>3. \A h \in Hashes : claims'[h] = IF h \in hs THEN [claims[h] EXCEPT !.claimed = TRUE]
                                     ELSE claims[h]
  BY DEF Settle
<1>4. Open(claims') = Open(claims) \ hs
  <2>1. \A h \in hs : claims[h] \in Claim
    BY <1>2 DEF Open, Books
  <2>2. \A h \in hs : claims'[h].claimed = TRUE
    BY <1>2, <1>3, <2>1 DEF Claim, Open
  <2> QED BY <1>2, <1>3, <2>2 DEF Open
<1>5. \A h \in Open(claims') : claims'[h] = claims[h]
  BY <1>3, <1>4 DEF Open
<1>6. Due(claims, Open(claims)) = Due(claims, hs) + Due(claims', Open(claims'))
  BY <1>2, <1>4, <1>5, DueAfterPayment
<1>7. Due(claims, hs) \in Nat /\ Due(claims', Open(claims')) \in Nat
  BY <1>2, DueType
<1> DEFINE share == [u \in Users |-> Due(claims, {h \in hs : claims[h].to = u})]
<1>8. /\ \A u \in Users : share[u] \in Nat
      /\ SumFunctionOnSet(share, Users) = Due(claims, hs)
  BY <1>2, DueByAccount
<1>9. /\ wallet' = [u \in Users |-> wallet'[u]]
      /\ \A u \in Users : wallet'[u] = wallet[u] + share[u]
  BY UnclaimedDue DEF PayOut
<1>10. /\ held >= Due(claims, hs)
       /\ held' = held - Due(claims, hs)
  BY UnclaimedDue DEF PayOut
<1> HIDE DEF share
<1>11. \A u \in Users : wallet[u] \in Nat
  BY DEF Money
<1>12. wallet' \in [Users -> Nat]
  <2>1. \A u \in Users : wallet'[u] \in Nat
    BY <1>8, <1>9, <1>11
  <2> QED BY <1>9, <2>1
<1>13. SumOf(wallet') = SumOf(wallet) + Due(claims, hs)
  <2>1. IsFiniteSet(Users)
    BY FiniteAssumption
  <2>2. \A u \in Users : wallet[u] \in Int /\ share[u] \in Int
                         /\ wallet'[u] = wallet[u] + share[u]
    BY <1>8, <1>9, <1>11
  <2>3. SumFunctionOnSet(wallet', Users)
          = SumFunctionOnSet(wallet, Users) + SumFunctionOnSet(share, Users)
    BY <2>1, <2>2, SumAdd
  <2> QED BY <1>8, <2>3 DEF SumOf
<1>14. /\ held' \in Nat
       /\ SumOf(wallet') + held' = SumFunction(Savings)
       /\ held' = SumOf(enc') + AmountOf(Unclaimed)' + lost'
       /\ lost' \in Nat
  <2>1. /\ SumOf(wallet) + held = SumFunction(Savings)
        /\ held = SumOf(enc) + Due(claims, Open(claims)) + lost
        /\ held \in Nat /\ lost \in Nat /\ lost' = lost
    BY UnclaimedDue DEF Money, SumOf, Settle
  <2>2. SumOf(wallet) \in Nat /\ SumOf(enc) \in Nat
    BY MoneyBounds
  <2>3. SumOf(enc') = SumOf(enc) /\ AmountOf(Unclaimed)' = Due(claims', Open(claims'))
    BY UnclaimedDueAfter
  <2> QED BY <1>6, <1>7, <1>10, <1>13, <2>1, <2>2, <2>3
<1> QED BY <1>12, <1>14 DEF Money, SumOf

LEMMA StepMoney == ClaimBook /\ Money /\ [Next]_vars => Money'
<1> SUFFICES ASSUME ClaimBook, Money, [Next]_vars PROVE Money'
  OBVIOUS
<1>0. /\ enc \in [Users -> U64Range]
      /\ callback \in [from: Users, to: Users, sent: U64Range] \cup {NoCall}
  BY DEF ClaimBook, BookType
<1>1. SumOf(enc) < U64
  BY MoneyBounds, WidthAssumption
<1>2. ASSUME NEW caller \in Users, NEW u \in Users, NEW value \in Amounts,
             NEW from \in Users, Transfer(caller, from, u, value)
      PROVE  Money'
  BY <1>0, <1>1, <1>2, MovedSum, MovedMoney, AmountType DEF Transfer, book
<1>3. ASSUME NEW caller \in Users, NEW u \in Users, NEW value \in Amounts,
             NEW h \in Hashes,
             Unwrap(caller, u, value, h) \/ UnwrapFor(caller, u, value, h)
      PROVE  Money'
  BY <1>3, BurnMoney DEF Unwrap, UnwrapFor
<1>4. ASSUME NEW caller \in Users, NEW h \in Hashes, ClaimUnwrapped(caller, h)
      PROVE  Money'
  <2>1. {h} \in SUBSET Unclaimed
    BY <1>4, ClaimableUnclaimed DEF ClaimUnwrapped
  <2> QED BY <1>4, <2>1, PayMoney DEF ClaimUnwrapped
<1>5. ASSUME NEW caller \in Users, ClaimAllUnwrapped(caller)
      PROVE  Money'
  BY <1>5, ClaimedAllUnclaimed, PayMoney DEF ClaimAllUnwrapped
<1>6. ASSUME NEW caller \in Users, CallerNext(caller) PROVE Money'
  BY <1>2, <1>3, <1>4, <1>5, <1>6, WrapMoney DEF CallerNext
<1>7. ASSUME NEW from \in Users, NEW to \in Users, NEW value \in Amounts,
             TransferAndCall(from, to, value)
      PROVE  Money'
  BY <1>0, <1>1, <1>7, MovedSum, MovedMoney, AmountType DEF TransferAndCall, book
<1>8. ASSUME NEW success \in BOOLEAN, CallbackReturns(success)
      PROVE  Money'
  <2>1. callback \in [from: Users, to: Users, sent: U64Range]
    BY <1>0, <1>8 DEF CallbackReturns, Outermost
  <2> DEFINE refund == IF success THEN 0 ELSE callback.sent
  <2>2. refund \in U64Range /\ callback.to \in Users /\ callback.from \in Users
    BY <2>1, WidthAssumption DEF U64Range
  <2>3. /\ enc' = Moved(callback.to, callback.from, Transferred(callback.to, refund))
        /\ UNCHANGED <<wallet, held, total, claims, lost>>
    BY <1>8 DEF CallbackReturns, book
  <2> HIDE DEF refund
  <2> QED BY <1>0, <1>1, <2>2, <2>3, MovedSum, MovedMoney
<1>9. ASSUME UNCHANGED <<balances, claims, lost>> PROVE Money'
  BY <1>9, MovedMoney DEF balances
<1>10. ASSUME \/ \E h \in Hashes : PublishDecryption(h)
              \/ TogglePause
              \/ \E f \in Users : SetCreForwarder(f)
              \/ UNCHANGED vars
       PROVE  UNCHANGED <<balances, claims, lost>>
  BY <1>10 DEF PublishDecryption, TogglePause, SetCreForwarder, vars, balances, book
<1> QED BY <1>6, <1>7, <1>8, <1>9, <1>10 DEF Next

LEMMA MoneyInvariant == Spec => [](ClaimBook /\ Money)
<1>1. Init => ClaimBook /\ Money
  BY InitBook, InitMoney
<1>2. ClaimBook /\ Money /\ [Next]_vars => (ClaimBook /\ Money)'
  BY StepBook, StepMoney
<1> QED BY <1>1, <1>2, PTL DEF Spec

\* Every encrypted balance and every unpaid claim is backed by USDCg the
\* contract holds, whatever is burnt in excess, refunded late, claimed out of
\* order or burnt under the hash of an earlier claim; only the amounts of
\* overwritten claims are held for nobody.
THEOREM GhostClaimsCovered == Spec => []Covered
<1>1. ClaimBook /\ Money => Covered
  <2> SUFFICES ASSUME ClaimBook, Money PROVE Covered
    OBVIOUS
  <2>1. SumFunction(enc) = SumFunctionOnSet(enc, Users)
    BY DEF SumFunction, ClaimBook, BookType
  <2> QED BY <2>1 DEF Money, Covered
<1> QED BY <1>1, MoneyInvariant, PTL

\* Any set of unpaid claims is worth no more than what is held.
LEMMA OpenIsHeld ==
    ASSUME ClaimBook, Money, NEW hs \in SUBSET Open(claims)
    PROVE  held >= AmountOf(hs)
<1> DEFINE rest == Open(claims) \ hs
           f == [h \in Open(claims) |-> claims[h].decryptedAmount]
<1>1. claims \in Books /\ rest \in SUBSET Open(claims)
  BY DEF ClaimBook, BookType, Books
<1>2. /\ IsFiniteSet(Open(claims)) /\ Open(claims) \in SUBSET Open(claims)
      /\ \A h \in Open(claims) : f[h] \in Int
  <2>1. IsFiniteSet(Open(claims))
    <3>1. Open(claims) \in SUBSET Open(claims)
      OBVIOUS
    <3> QED BY <1>1, <3>1, DueType
  <2>2. \A h \in Open(claims) : claims[h].decryptedAmount \in Int
    BY <1>1, WidthAssumption DEF Open, Books, Claim
  <2> QED BY <2>1, <2>2
<1>3. /\ \A h \in hs : f[h] = claims[h].decryptedAmount
      /\ \A h \in rest : f[h] = claims[h].decryptedAmount
      /\ \A h \in Open(claims) : f[h] = claims[h].decryptedAmount
  OBVIOUS
<1> HIDE DEF f, rest
<1>4. /\ SumFunctionOnSet(f, hs) = Due(claims, hs)
      /\ SumFunctionOnSet(f, rest) = Due(claims, rest)
      /\ SumFunctionOnSet(f, Open(claims)) = Due(claims, Open(claims))
  BY <1>1, <1>2, <1>3, DueSame
<1>5. SumFunctionOnSet(f, Open(claims)) =
          SumFunctionOnSet(f, hs) + SumFunctionOnSet(f, Open(claims) \ hs)
  BY <1>2, SumSplit
<1>6. Due(claims, hs) \in Nat /\ Due(claims, rest) \in Nat
  BY <1>1, DueType
<1>7. /\ held = SumOf(enc) + Due(claims, Open(claims)) + lost
      /\ SumOf(enc) \in Nat /\ lost \in Nat /\ AmountOf(hs) = Due(claims, hs)
      /\ Due(claims, Open(claims)) \in Nat
  BY <1>1, <1>2, MoneyBounds, UnclaimedDue, DueType DEF Money, SumOf
<1>8. Due(claims, Open(claims)) = Due(claims, hs) + Due(claims, rest)
  BY <1>4, <1>5 DEF rest
<1>9. held \in Int
  BY DEF Money
<1> QED BY <1>6, <1>7, <1>8, <1>9

LEMMA PayableCount == ClaimBook /\ Money => ClaimsPayable
<1> SUFFICES ASSUME ClaimBook, Money PROVE ClaimsPayable
  OBVIOUS
<1>1. held >= AmountOf({h \in Hashes : Claimable(h)})
  <2>1. {h \in Hashes : Claimable(h)} \in SUBSET Open(claims)
    BY DEF Claimable, Open
  <2> QED BY <2>1, OpenIsHeld
<1>2. ASSUME NEW u \in Users, userClaims[u] \subseteq decrypted \ repeated,
             NEW h \in userClaims[u]
      PROVE  Claimable(h)
  <2>1. h \in Unclaimed /\ h \in decrypted
    BY <1>2 DEF ClaimBook, ClaimsIndexed
  <2> QED BY <2>1 DEF Unclaimed, Claimable
<1> QED BY <1>1, <1>2 DEF ClaimsPayable

\* claimUnwrapped never reverts for a decrypted, unpaid claim, whoever else was
\* paid before; nor does claimAllUnwrapped for an account whose listed claims
\* are decrypted and none of whose hashes was repeated.
THEOREM GhostClaimsPayable == Spec => []ClaimsPayable
BY PayableCount, MoneyInvariant, PTL

-----------------------------------------------------------------------------
(* The switches, which complete the types.                                 *)

Switches ==
    /\ decrypted \subseteq Hashes /\ paused \in BOOLEAN /\ forwarder \in Users
    /\ repeated \subseteq Hashes

LEMMA StepSwitches == Switches /\ [Next]_vars => Switches'
<1> SUFFICES ASSUME Switches, [Next]_vars PROVE Switches'
  OBVIOUS
<1>1. ASSUME UNCHANGED <<decrypted, paused, forwarder, repeated>> PROVE Switches'
  BY <1>1 DEF Switches
<1>2. ASSUME NEW caller \in Users, CallerNext(caller) PROVE Switches'
  <2>1. ASSUME NEW u \in Users, NEW value \in Amounts, NEW h \in Hashes,
               Unwrap(caller, u, value, h) \/ UnwrapFor(caller, u, value, h)
        PROVE  Switches'
    BY <2>1 DEF Unwrap, UnwrapFor, BurnToClaim, Switches
  <2>2. ASSUME NEW u \in Users, NEW value \in Amounts,
               \/ Wrap(caller, u, value)
               \/ \E from \in Users : Transfer(caller, from, u, value)
        PROVE  Switches'
    BY <1>1, <2>2 DEF Wrap, Transfer, book
  <2>3. ASSUME \/ \E h \in Hashes : ClaimUnwrapped(caller, h)
               \/ ClaimAllUnwrapped(caller)
        PROVE  Switches'
    BY <1>1, <2>3 DEF ClaimUnwrapped, ClaimAllUnwrapped, Settle
  <2> QED BY <1>2, <2>1, <2>2, <2>3 DEF CallerNext
<1>3. ASSUME \/ \E from, to \in Users, value \in Amounts : TransferAndCall(from, to, value)
             \/ \E success \in BOOLEAN : CallbackReturns(success)
             \/ UNCHANGED vars
      PROVE  UNCHANGED <<decrypted, paused, forwarder, repeated>>
  BY <1>3 DEF TransferAndCall, CallbackReturns, vars, book
<1>4. ASSUME \/ \E h \in Hashes : PublishDecryption(h)
             \/ TogglePause
             \/ \E f \in Users : SetCreForwarder(f)
      PROVE  Switches'
  BY <1>4 DEF PublishDecryption, TogglePause, SetCreForwarder, Switches, book
<1> QED BY <1>1, <1>2, <1>3, <1>4 DEF Next

\* The storage keeps its shapes: no uint64 and no unsigned balance is ever
\* taken below 0.
THEOREM GhostClaimsTypeCorrect == Spec => []GhostTypeOK
<1>1. Init => Switches
  BY DEF Init, Switches
<1>2. ClaimBook /\ Money /\ Switches => GhostTypeOK
  <2> SUFFICES ASSUME ClaimBook, Money, Switches PROVE GhostTypeOK
    OBVIOUS
  <2>1. total \in 0 .. U64 - 1
    <3>1. total = SumOf(enc)
      BY DEF Money, SumOf
    <3> QED BY <3>1, MoneyBounds, WidthAssumption
  <2> QED BY <2>1 DEF GhostTypeOK, ClaimBook, BookType, Money, Switches, U64Range
<1> QED BY <1>1, <1>2, StepSwitches, MoneyInvariant, PTL DEF Spec
=============================================================================
