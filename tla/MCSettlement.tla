---------------------------- MODULE MCSettlement ----------------------------
(* Instances of Settlement small enough for TLC.                           *)
EXTENDS Settlement, TLC

CONSTANTS m1, m2, r1, r2, r3, payer, payee, treasury, outside, zero

\* Two milestones of the same amount: the deposit of one covers the other.
MCAmount == [m \in Milestones |-> 2]
MCFunds == [a \in Accounts |-> IF a = Payer THEN 4 ELSE 0]

\* Requests are interchangeable (used where no liveness is checked).
Interchangeable == Permutations(Requests)

\* The status updates apps/cre makes, from any status.
ToReleasedCode == {<<s, StatusOfCode(ReleasedCode)>> : s \in Status}

\* For liveness, where TLC takes no symmetry: the requests arrive in this
\* order, which names them and limits nothing else. It cuts only arrivals, of
\* which FairSSpec asks no fairness, so a fair behaviour stays fair.
ArrivalOrder == <<r1, r2, r3>>
InOrder ==
    \A i \in 1..2 :
        req[ArrivalOrder[i + 1]].pc # "idle" => req[ArrivalOrder[i]].pc # "idle"

KeepsOrder == InOrder'
=============================================================================
