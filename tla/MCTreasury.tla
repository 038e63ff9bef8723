----------------------------- MODULE MCTreasury -----------------------------
(* Instances of Treasury small enough for TLC.                             *)
EXTENDS Treasury, TLC

CONSTANTS t1, t2, none

\* USYC is worth one USDC, one and a half, or two and a half.
RisingPrice == {<<2, 3>>, <<3, 5>>}
=============================================================================
