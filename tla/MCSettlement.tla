----------------------------- MODULE MCSettlement -----------------------------
(* Settlement on small instances: the first owner has the odd payouts.      *)
EXTENDS Settlement
CONSTANTS First, Second
MCOwner == [p \in Payouts |-> IF p % 2 = 1 THEN First ELSE Second]
MCRedemptions == <<2, 1, 3>>
MCAmount == [p \in Payouts |-> IF p = 3 THEN 2 ELSE 1]
=============================================================================
