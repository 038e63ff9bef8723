--------------------------- MODULE MilestoneVault ---------------------------
(***************************************************************************)
(* What the escrow promises, with no disputes, verdicts, bonds or clocks:  *)
(* every milestone has a vault of its own.  Tokens enter a vault while it  *)
(* is open; it is emptied exactly once, completely, and stays closed.      *)
(***************************************************************************)
EXTENDS Integers

CONSTANT Milestones

VARIABLES vault, closed

Init == /\ vault = [m \in Milestones |-> 0]
        /\ closed = [m \in Milestones |-> FALSE]

Deposit(m) == /\ ~closed[m]
              /\ vault'[m] >= vault[m]
              /\ vault' = [vault EXCEPT ![m] = vault'[m]]
              /\ UNCHANGED closed

PayOutAll(m) == /\ ~closed[m]
                /\ vault' = [vault EXCEPT ![m] = 0]
                /\ closed' = [closed EXCEPT ![m] = TRUE]

Next == \E m \in Milestones : Deposit(m) \/ PayOutAll(m)

vars == <<vault, closed>>

Spec == Init /\ [][Next]_vars
=============================================================================
