------------------------------ MODULE MCMatching ------------------------------
(* Three resting orders at two prices on either side, every incoming order.  *)
EXTENDS Matching
MCPrices == {400000, 600000}
===============================================================================
