----------------------------- MODULE MCEscrowV3 -----------------------------
(* Instances of EscrowV3 small enough for TLC.                             *)
EXTENDS EscrowV3

CONSTANTS m1, m2, payer, payee, treasury, outside, zero

MCAmount == [m \in Milestones |-> IF m = m1 THEN 3 ELSE 2]
MCFunds == [a \in Accounts |-> CASE a = Payer -> 6 [] a = Payee -> 3 [] OTHER -> 0]
MCFundsPooled == [a \in Accounts |-> CASE a = Payer -> 7 [] a = Payee -> 2 [] OTHER -> 0]

\* Every status update but those into or out of RELEASED.
AllButRelease == {u \in Status \X Status : u[1] = "RELEASED" <=> u[2] = "RELEASED"}

\* A verification result that arrives in time, and one that arrives after the
\* dispute was filed.
VerifyUpdates == {<<"FUNDED", "APPROVED">>, <<"DISPUTED", "APPROVED">>}
=============================================================================
