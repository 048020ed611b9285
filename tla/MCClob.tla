-------------------------------- MODULE MCClob --------------------------------
(* Instance of Clob for TLC: two or three traders, prices on both sides of   *)
(* one half, and a contract unit that makes every price and fee round.       *)
EXTENDS Clob, TLC

MCPrices == {400000, 600000}
MCFunds == [u \in Users |-> 60]

Symmetry == Permutations(Users)
===============================================================================
