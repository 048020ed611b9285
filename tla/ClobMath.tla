------------------------------- MODULE ClobMath -------------------------------
(***************************************************************************)
(* The arithmetic of the central limit order book: the fully               *)
(* collateralised split of a contract between buyer and seller, the        *)
(* per-share execution fee and the reservation an order needs; PriceTime   *)
(* has the matching.                                                       *)
(*                                                                         *)
(* Amounts are exact integers; the uint256 range checks of the code are    *)
(* not modelled (no amount of an instance comes near the bound).           *)
(***************************************************************************)
EXTENDS PriceTime

CONSTANTS
  ContractUnit,   \* payout of one contract in minor units of the book's asset
  FeeBps          \* execution fee of the market's published terms, basis points

ASSUME ContractUnitAssumption == ContractUnit \in Nat /\ ContractUnit > 1
ASSUME FeeBpsAssumption == FeeBps \in 0 .. 1000

PRICE_SCALE == 1000000
BPS_SCALE == 10000

OrderSide == {"buy", "sell"}
Price == 1 .. (PRICE_SCALE - 1)

-------------------------------------------------------------------------------
(* Collateral and fees.                                                      *)

\* What the buyer of one contract pays; the seller pays the rest of the unit.
BuyerPerShare(price) == (ContractUnit * price) \div PRICE_SCALE

\* contractCollateral throws unless both parties pay something.
WithinPrecision(price) == BuyerPerShare(price) \in 1 .. (ContractUnit - 1)

\* Mutant: each side is rounded down on its own.
PerShareRoundsTwice(side, price) ==
  IF side = "buy" THEN BuyerPerShare(price)
  ELSE (ContractUnit * (PRICE_SCALE - price)) \div PRICE_SCALE

PerShare(side, price) ==
  IF side = "buy" THEN BuyerPerShare(price) ELSE ContractUnit - BuyerPerShare(price)

ContractCollateral(side, quantity, price) == quantity * PerShare(side, price)

CeilDiv(n, d) == (n + d - 1) \div d

\* The fee is rounded up per contract, so it is the same however an order is
\* split into fills.
FeePerShare(side, price) == CeilDiv(PerShare(side, price) * FeeBps, BPS_SCALE)
ExecutionFee(side, quantity, price) == quantity * FeePerShare(side, price)

\* What a fill costs one side at the fill's price.
FillCost(side, quantity, price) ==
  ContractCollateral(side, quantity, price) + ExecutionFee(side, quantity, price)

\* Mutant: the fee part of the reservation is rounded down.
ReservationFloorsFee(side, quantity, price) ==
  ContractCollateral(side, quantity, price)
  + quantity * ((PerShare(side, price) * FeeBps) \div BPS_SCALE)

\* What an order reserves at its limit price.
ReservationRequired(side, quantity, price) ==
  ContractCollateral(side, quantity, price) + ExecutionFee(side, quantity, price)

===============================================================================
