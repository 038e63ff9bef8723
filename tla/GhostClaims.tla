----------------------------- MODULE GhostClaims -----------------------------
(***************************************************************************)
(* GhostUSDC: USDCg wrapped into a token with encrypted balances, and      *)
(* unwrapped through claims that are paid once the coprocessor has         *)
(* decrypted what was burnt (FHERC20, FHERC20Wrapper, FHERC20UnwrapClaim). *)
(*                                                                         *)
(* Balances are shown decrypted; no caller sees them, so that a burn or    *)
(* transfer of too much moves nothing instead of reverting.  The hashes of *)
(* burnt amounts come from the coprocessor, which is external: all that is *)
(* asked of it is that a hash decrypts to one amount.  It may name two     *)
(* burns of one amount alike, and a claim then overwrites the earlier one. *)
(*                                                                         *)
(* One action is one transaction, except that confidentialTransferAndCall  *)
(* calls its receiver half way: until the call returns, only transactions  *)
(* of the receiver run, nested in it.                                      *)
(***************************************************************************)
EXTENDS Integers, FiniteSets, Functions

CONSTANTS
    Users,      \* the accounts
    Receivers,  \* those with code, called by confidentialTransferAndCall
    Owner,      \* owner()
    Savings,    \* USDCg of each account at the start
    U64,        \* 2 ** 64
    Hashes,     \* ciphertext hashes of burnt amounts
    Amounts,    \* amount arguments callers try
    NoClaim, NoCall

\* Addresses have 20 bytes and hashes 32.
ASSUME FiniteAssumption == IsFiniteSet(Users) /\ IsFiniteSet(Hashes)
ASSUME UserAssumption == Receivers \subseteq Users /\ Owner \in Users
ASSUME WidthAssumption == U64 \in Nat \ {0} /\ Amounts \subseteq 0 .. U64 - 1
\* All USDCg there is fits in a uint64.
ASSUME SavingsAssumption ==
    Savings \in [Users -> Nat] /\ SumFunction(Savings) < U64

Claim == [to: Users, requestedAmount: 0 .. U64 - 1,
          decryptedAmount: 0 .. U64 - 1, claimed: BOOLEAN]

ASSUME NoneAssumption ==
    /\ NoClaim \notin Claim
    /\ NoCall \notin [from: Users, to: Users, sent: 0 .. U64 - 1]

VARIABLES
    wallet,     \* USDCg.balanceOf of each account
    held,       \* USDCg.balanceOf(GhostUSDC)
    enc,        \* _encBalances
    total,      \* _encTotalSupply
    claims,     \* _claims; decryptedAmount is what the hash decrypts to
    userClaims, \* _userClaims
    decrypted,  \* hashes whose decrypted value has been published
    paused,
    forwarder,  \* creForwarder
    callback,   \* the transfer whose receiver is being called
    repeated,   \* history: hashes that named more than one burn
    lost        \* history: the amounts of unpaid claims that were overwritten

vars == <<wallet, held, enc, total, claims, userClaims, decrypted, paused,
          forwarder, callback, repeated, lost>>

balances == <<wallet, held, enc, total>>
book == <<claims, userClaims, repeated, lost>>

Init ==
    /\ wallet = Savings
    /\ held = 0
    /\ enc = [u \in Users |-> 0]
    /\ total = 0
    /\ claims = [h \in Hashes |-> NoClaim]
    /\ userClaims = [u \in Users |-> {}]
    /\ decrypted = {}
    /\ paused = FALSE
    /\ forwarder \in Users
    /\ callback = NoCall
    /\ repeated = {}
    /\ lost = 0

Outermost == callback = NoCall
MayAct(caller) == ~Outermost => caller = callback.to

-----------------------------------------------------------------------------
(* FHERC20._update                                                         *)

\* select(value <= balance, value, 0)
Transferred(from, value) == IF value <= enc[from] THEN value ELSE 0

Moved(from, to, amount) ==
    [[enc EXCEPT ![from] = (@ - amount) % U64] EXCEPT ![to] = (@ + amount) % U64]

Mint(to, value) ==
    /\ enc' = [enc EXCEPT ![to] = (@ + value) % U64]
    /\ total' = (total + value) % U64

\* Mutant: the claim is for what was requested.
ClaimRequested(to, value, burned) ==
    [to |-> to, requestedAmount |-> value, decryptedAmount |-> value,
     claimed |-> FALSE]

\* _createClaim
NewClaim(to, value, burned) ==
    [to |-> to, requestedAmount |-> value, decryptedAmount |-> burned,
     claimed |-> FALSE]

-----------------------------------------------------------------------------
\* Mutant: the transfer of USDCg is not checked.
WrapUnfunded(caller, to, value) ==
    /\ MayAct(caller)
    /\ ~paused
    /\ wallet' = [wallet EXCEPT ![caller] = @ - value]
    /\ held' = held + value
    /\ Mint(to, value)
    /\ UNCHANGED <<book, decrypted, paused, forwarder, callback>>

\* wrap, and wrapFor of the forwarder's own USDCg.
Wrap(caller, to, value) ==
    /\ MayAct(caller)
    /\ ~paused
    /\ wallet[caller] >= value
    /\ wallet' = [wallet EXCEPT ![caller] = @ - value]
    /\ held' = held + value
    /\ Mint(to, value)
    /\ UNCHANGED <<book, decrypted, paused, forwarder, callback>>

Unclaimed == {h \in Hashes : claims[h] # NoClaim /\ ~claims[h].claimed}

\* A hash that named a burn before may only name one of the same amount.
DecryptsTo(h, amount) ==
    claims[h] # NoClaim => claims[h].decryptedAmount = amount

\* A burn of from's tokens, and a claim of to under its hash h: whatever claim
\* the hash had is overwritten, and stays listed for its account.
BurnToClaim(from, to, value, h) ==
    /\ ~paused
    /\ DecryptsTo(h, Transferred(from, value))
    /\ enc' = [enc EXCEPT ![from] = (@ - Transferred(from, value)) % U64]
    /\ total' = (total - Transferred(from, value)) % U64
    /\ claims' = [claims EXCEPT ![h] = NewClaim(to, value, Transferred(from, value))]
    /\ userClaims' = [userClaims EXCEPT ![to] = @ \cup {h}]
    /\ repeated' = IF claims[h] = NoClaim THEN repeated ELSE repeated \cup {h}
    /\ lost' = IF h \in Unclaimed THEN lost + Transferred(from, value) ELSE lost
    /\ UNCHANGED <<wallet, held, decrypted, paused, forwarder, callback>>

Unwrap(caller, to, value, h) ==
    MayAct(caller) /\ BurnToClaim(caller, to, value, h)

UnwrapFor(caller, user, value, h) ==
    /\ MayAct(caller)
    /\ caller \in {forwarder, Owner}
    /\ BurnToClaim(user, user, value, h)

\* confidentialTransferFrom by an operator, which neither the pause nor the
\* policy engine stops; confidentialTransfer and transferAmount, by the holder
\* and stopped by both, do nothing else.
Transfer(caller, from, to, value) ==
    /\ MayAct(caller)
    /\ enc' = Moved(from, to, Transferred(from, value))
    /\ UNCHANGED <<wallet, held, total, book, decrypted, paused, forwarder,
                   callback>>

\* confidentialTransferAndCall and confidentialTransferFromAndCall; nested
\* ones are left out.
TransferAndCall(from, to, value) ==
    /\ Outermost
    /\ to \in Receivers
    /\ enc' = Moved(from, to, Transferred(from, value))
    /\ callback' = [from |-> from, to |-> to, sent |-> Transferred(from, value)]
    /\ UNCHANGED <<wallet, held, total, book, decrypted, paused, forwarder>>

\* The receiver's answer: a refused transfer is refunded from what the
\* receiver still has.
CallbackReturns(success) ==
    LET refund == IF success THEN 0 ELSE callback.sent
    IN  /\ ~Outermost
        /\ enc' = Moved(callback.to, callback.from, Transferred(callback.to, refund))
        /\ callback' = NoCall
        /\ UNCHANGED <<wallet, held, total, book, decrypted, paused, forwarder>>

\* The coprocessor publishes what was burnt, in any order and at any time.
PublishDecryption(h) ==
    /\ Outermost
    /\ claims[h] # NoClaim
    /\ h \notin decrypted
    /\ decrypted' = decrypted \cup {h}
    /\ UNCHANGED <<balances, book, paused, forwarder, callback>>

-----------------------------------------------------------------------------
(* FHERC20UnwrapClaim                                                      *)

\* Mutant: a claim is payable after it was paid.
ClaimableAgain(h) == claims[h] # NoClaim /\ h \in decrypted

\* The checks of _handleClaim.
Claimable(h) ==
    /\ claims[h] # NoClaim
    /\ ~claims[h].claimed
    /\ h \in decrypted

\* Mutant: claims stay in the set of their account.
SettleUnremoved(hs) ==
    /\ claims' = [h \in Hashes |-> IF h \in hs THEN [claims[h] EXCEPT !.claimed = TRUE]
                                   ELSE claims[h]]
    /\ UNCHANGED <<userClaims, repeated, lost>>

\* _handleClaim of each hash in hs.
Settle(hs) ==
    /\ claims' = [h \in Hashes |-> IF h \in hs THEN [claims[h] EXCEPT !.claimed = TRUE]
                                   ELSE claims[h]]
    /\ userClaims' = [u \in Users |-> {h \in userClaims[u] :
                                          ~(h \in hs /\ claims[h].to = u)}]
    /\ UNCHANGED <<repeated, lost>>

AmountOf(hs) ==
    SumFunctionOnSet([h \in hs |-> claims[h].decryptedAmount], hs)

\* Each claim's amount goes to its account, if the transfers succeed.
PayOut(hs) ==
    /\ held >= AmountOf(hs)
    /\ held' = held - AmountOf(hs)
    /\ wallet' = [u \in Users |-> wallet[u] + AmountOf({h \in hs : claims[h].to = u})]

\* claimUnwrapped, by anyone.
ClaimUnwrapped(caller, h) ==
    /\ MayAct(caller)
    /\ ~paused
    /\ Claimable(h)
    /\ Settle({h})
    /\ PayOut({h})
    /\ UNCHANGED <<enc, total, decrypted, paused, forwarder, callback>>

\* claimAllUnwrapped: one claim that cannot be handled stops all of them.
\* The pause does not.
ClaimAllUnwrapped(caller) ==
    /\ MayAct(caller)
    /\ \A h \in userClaims[caller] : Claimable(h)
    /\ Settle(userClaims[caller])
    /\ PayOut(userClaims[caller])
    /\ UNCHANGED <<enc, total, decrypted, paused, forwarder, callback>>

-----------------------------------------------------------------------------
\* pause and unpause
TogglePause ==
    /\ MayAct(Owner)
    /\ paused' = ~paused
    /\ UNCHANGED <<balances, book, decrypted, forwarder, callback>>

SetCreForwarder(f) ==
    /\ MayAct(Owner)
    /\ forwarder' = f
    /\ UNCHANGED <<balances, book, decrypted, paused, callback>>

CallerNext(caller) ==
    \/ \E u \in Users, value \in Amounts :
          \/ Wrap(caller, u, value)
          \/ \E from \in Users : Transfer(caller, from, u, value)
          \/ \E h \in Hashes :
                Unwrap(caller, u, value, h) \/ UnwrapFor(caller, u, value, h)
    \/ \E h \in Hashes : ClaimUnwrapped(caller, h)
    \/ ClaimAllUnwrapped(caller)

Next ==
    \/ \E caller \in Users : CallerNext(caller)
    \/ \E from, to \in Users, value \in Amounts : TransferAndCall(from, to, value)
    \/ \E success \in BOOLEAN : CallbackReturns(success)
    \/ \E h \in Hashes : PublishDecryption(h)
    \/ TogglePause
    \/ \E f \in Users : SetCreForwarder(f)

Spec == Init /\ [][Next]_vars

-----------------------------------------------------------------------------
(***************************************************************************)
(* Properties                                                              *)
(***************************************************************************)

\* Shapes of the contract's storage; amounts are uint64.
GhostTypeOK ==
    /\ wallet \in [Users -> Nat] /\ held \in Nat
    /\ enc \in [Users -> 0 .. U64 - 1] /\ total \in 0 .. U64 - 1
    /\ claims \in [Hashes -> Claim \cup {NoClaim}]
    /\ userClaims \in [Users -> SUBSET Hashes]
    /\ decrypted \subseteq Hashes
    /\ paused \in BOOLEAN /\ forwarder \in Users
    /\ callback \in [from: Users, to: Users, sent: 0 .. U64 - 1] \cup {NoCall}
    /\ repeated \subseteq Hashes /\ lost \in Nat

\* The USDCg held is all encrypted balances and all claims not yet paid, and
\* what claims were worth whose hash came again before they were paid: also
\* after a burn of too much, a refused transfer whose receiver acted in the
\* meantime, and claims paid in any order, and twice under one hash.  No claim
\* can find too little, and none is paid out of another's tokens.
Covered ==
    /\ held = SumFunction(enc) + AmountOf(Unclaimed) + lost
    /\ total = SumFunction(enc)

\* Every unpaid claim is listed for its account, and what else is listed has a
\* repeated hash: a hash listed elsewhere or after payment makes
\* claimAllUnwrapped revert for good, a missing one leaves its claim unpaid.
ClaimsIndexed ==
    \A u \in Users :
        LET own == {h \in Unclaimed : claims[h].to = u}
        IN  own \subseteq userClaims[u] /\ userClaims[u] \ repeated \subseteq own

\* All decrypted claims can be paid, whatever was paid before; and an account
\* whose listed claims are decrypted and have no repeated hash can have them
\* in one claimAllUnwrapped.
ClaimsPayable ==
    /\ held >= AmountOf({h \in Hashes : Claimable(h)})
    /\ \A u \in Users :
          userClaims[u] \subseteq decrypted \ repeated =>
              \A h \in userClaims[u] : Claimable(h)
=============================================================================
