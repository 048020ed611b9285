------------------------------- MODULE Matching -------------------------------
(***************************************************************************)
(* The loop of matchPriceTime: filter the resting orders, sort them by     *)
(* price and then sequence, and take them one after the other until the    *)
(* incoming quantity is used up.  The order book module uses the closed    *)
(* form MatchPriceTime of ClobMath; here the loop is shown to compute it.  *)
(***************************************************************************)
EXTENDS ClobMath

CONSTANTS
  Ids,         \* identifiers of resting orders; also their book sequence
  Prices,      \* prices of resting and incoming orders
  Quantities   \* quantities of incoming orders; a resting order may be used up

ASSUME IdsAssumption == Ids \subseteq Nat /\ IsFiniteSet(Ids)
ASSUME PricesAssumption == Prices \subseteq Price
ASSUME QuantitiesAssumption == Quantities \subseteq Nat \ {0}

VARIABLES
  side, limit, quantity,  \* the incoming order
  resting,                \* the argument "resting"
  todo,                   \* makers the loop has not reached
  matches,                \* quantity matched per maker reached
  remaining               \* incoming quantity not matched yet

input == <<side, limit, quantity, resting>>
vars  == <<input, todo, matches, remaining>>

RestingOrder == [side : OrderSide, price : Prices, remaining : Quantities \cup {0}, seq : Nat]

\* The filter in front of the sort.
Eligible == {k \in Ids : /\ resting[k].side # side
                         /\ resting[k].remaining > 0
                         /\ Crosses(side, limit, resting[k].price)}

\* Any book of resting orders with distinct sequences, any incoming order.
Init ==
  /\ side \in OrderSide /\ limit \in Prices /\ quantity \in Quantities
  /\ \E s \in [Ids -> OrderSide], p \in [Ids -> Prices], r \in [Ids -> Quantities \cup {0}] :
       resting = [k \in Ids |-> [side |-> s[k], price |-> p[k], remaining |-> r[k], seq |-> k]]
  /\ todo = Eligible
  /\ matches = [k \in Ids |-> 0]
  /\ remaining = quantity

\* Mutant: the worst price first.
PrecedesWorstFirst(a, b) ==
  IF a.price # b.price
  THEN IF side = "buy" THEN a.price > b.price ELSE a.price < b.price
  ELSE a.seq < b.seq

\* The comparator of the sort: better price for the incoming side, then older.
Precedes(a, b) ==
  IF a.price # b.price
  THEN IF side = "buy" THEN a.price < b.price ELSE a.price > b.price
  ELSE a.seq < b.seq

\* One iteration: the next maker in sorted order.
Take(m) ==
  LET filled == IF remaining < resting[m].remaining THEN remaining ELSE resting[m].remaining
  IN  /\ remaining # 0
      /\ \A n \in todo \ {m} : Precedes(resting[m], resting[n])
      /\ todo' = todo \ {m}
      /\ matches' = [matches EXCEPT ![m] = filled]
      /\ remaining' = remaining - filled
      /\ UNCHANGED input

Next == \E m \in todo : Take(m)
Spec == Init /\ [][Next]_vars

Done == todo = {} \/ remaining = 0

-------------------------------------------------------------------------------

\* Inputs and loop variables have their types.
TypeOK ==
  /\ side \in OrderSide /\ limit \in Prices /\ quantity \in Quantities
  /\ resting \in [Ids -> RestingOrder]
  /\ todo \subseteq Eligible
  /\ matches \in [Ids -> Nat]
  /\ remaining \in Nat

\* When the loop ends, every maker got what MatchPriceTime gives it, nobody
\* else got anything, and the rest of the incoming quantity is what remains.
LoopComputesMatch ==
  Done =>
    /\ \A k \in Ids : matches[k] = IF k \in Eligible
                                   THEN MatchPriceTime(side, quantity, resting, Eligible)[k]
                                   ELSE 0
    /\ remaining = quantity - SumFunctionOnSet(
                     MatchPriceTime(side, quantity, resting, Eligible), Eligible)
===============================================================================
