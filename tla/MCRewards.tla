----------------------------- MODULE MCRewards -----------------------------
(* Small instances of Rewards for TLC. *)
EXTENDS Rewards

CONSTANTS r1, r2, r3, k1, k2

MCKeyOf == [r \in Rewards |-> IF r = r3 THEN k2 ELSE k1]
MCPrize == [r \in Rewards |-> IF r = r2 THEN 2 ELSE 1]
=============================================================================
