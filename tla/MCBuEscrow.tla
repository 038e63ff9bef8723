----------------------------- MODULE MCBuEscrow -----------------------------
(* An instance of BuEscrow small enough for TLC.                           *)
EXTENDS BuEscrow, TLC

CONSTANTS m1, m2, payer, payee, outside, vault

MCAmount == [m \in Milestones |-> IF m = m1 THEN 3 ELSE 2]
MCFunds == [a \in Wallets |-> IF a = Payer THEN 5 ELSE 0]

\* Codes an executor sends: some at any status after PENDING, and RELEASED
\* before a payout and out of it again.
MCUpdates ==
    ((Status \ {"PENDING", "RELEASED"}) \X {"APPROVED", "PENDING", "UNKNOWN"})
        \cup {<<"APPROVED", "RELEASED">>, <<"RELEASED", "APPROVED">>}
=============================================================================
