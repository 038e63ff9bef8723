---------------------------- MODULE MCGhostClaims ----------------------------
(* An instance of GhostClaims small enough for TLC.                        *)
EXTENDS GhostClaims, TLC

CONSTANTS alice, bob, h1, h2

MCSavings == [u \in Users |-> IF u = alice THEN 2 ELSE 1]
Interchangeable == Permutations(Hashes)
=============================================================================
