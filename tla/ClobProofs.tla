------------------------------ MODULE ClobProofs ------------------------------
(***************************************************************************)
(* The safety of the central limit order book, for every set of users,     *)
(* books, orders, prices and quantities, every contract unit and fee.      *)
(*                                                                         *)
(* The inductive invariant is built in layers: the books and the order     *)
(* table; the reservation behind each order; the reserved bucket of each   *)
(* user; the fills and market escrow; the position of each user in each    *)
(* book.  A layer uses those before it.  Under them lies what the          *)
(* arithmetic guarantees for every contract unit, fee and price: a         *)
(* reservation rounded at the limit covers every execution within it.      *)
(*                                                                         *)
(* The last part is about the realtime stream of the books (Realtime).     *)
(***************************************************************************)
EXTENDS Clob, Realtime, CommonTheorems

-------------------------------------------------------------------------------
\* The scales are positive; their values are kept out of every other proof.
LEMMA Scales == PRICE_SCALE \in Nat /\ PRICE_SCALE > 0 /\ BPS_SCALE \in Nat /\ BPS_SCALE > 0
BY SMT DEF PRICE_SCALE, BPS_SCALE

(***************************************************************************)
(* Collateral and fee of one contract.                                     *)
(***************************************************************************)
LEMMA BuyerType ==
  ASSUME NEW p \in Price
  PROVE  p \in Nat /\ BuyerPerShare(p) \in Nat
<1>1. p \in Nat /\ ContractUnit * p \in Nat
  BY Scales, ContractUnitAssumption DEF Price
<1>2. QED  BY <1>1, Scales, DivNat DEF BuyerPerShare

\* A higher price costs the buyer no less per contract.
LEMMA BuyerMonotone ==
  ASSUME NEW p \in Price, NEW q \in Price, p <= q
  PROVE  BuyerPerShare(p) <= BuyerPerShare(q)
<1>1. p \in Nat /\ q \in Nat /\ ContractUnit \in Nat
  BY BuyerType, ContractUnitAssumption
<1>2. ContractUnit * p <= ContractUnit * q /\ ContractUnit * p \in Int /\ ContractUnit * q \in Int
  BY <1>1, ProductMonotone
<1>3. QED  BY <1>2, Scales, DivMonotone DEF BuyerPerShare

\* Each side of a precise price pays something, and the two sides together pay
\* exactly the contract unit.
LEMMA PerShareType ==
  ASSUME NEW p \in Price, WithinPrecision(p), NEW side
  PROVE  /\ PerShare(side, p) \in Nat /\ PerShare(side, p) > 0
         /\ PerShare("buy", p) + PerShare("sell", p) = ContractUnit
<1>1. BuyerPerShare(p) \in Nat
  BY BuyerType
<1>2. QED  BY <1>1, ContractUnitAssumption DEF PerShare, WithinPrecision

\* A fee per contract is a natural number.
LEMMA FeeType ==
  ASSUME NEW p \in Price, WithinPrecision(p), NEW side
  PROVE  FeePerShare(side, p) \in Nat
<1> DEFINE n == PerShare(side, p) * FeeBps + BPS_SCALE - 1
<1>1. PerShare(side, p) \in Nat /\ FeeBps \in Nat
  BY PerShareType, FeeBpsAssumption
<1>2. PerShare(side, p) * FeeBps \in Nat
  BY <1>1
<1>3. n \in Nat
  BY <1>2, Scales
<1> HIDE DEF n
<1>4. n \div BPS_SCALE \in Nat
  BY <1>3, Scales, DivNat
<1>5. QED  BY <1>4 DEF FeePerShare, CeilDiv, n

\* What one contract costs a side at a price.
UnitCost(side, p) == PerShare(side, p) + FeePerShare(side, p)

\* A contract costs something, on either side.
LEMMA UnitCostType ==
  ASSUME NEW p \in Price, WithinPrecision(p), NEW side
  PROVE  UnitCost(side, p) \in Nat /\ UnitCost(side, p) > 0
BY PerShareType, FeeType DEF UnitCost

\* Cost and reservation are per contract: they grow with the quantity, without rounding again.
LEMMA CostIsUnits ==
  ASSUME NEW p \in Price, WithinPrecision(p), NEW side, NEW q \in Nat
  PROVE  /\ FillCost(side, q, p) = q * UnitCost(side, p)
         /\ ReservationRequired(side, q, p) = q * UnitCost(side, p)
         /\ q > 0 => ReservationRequired(side, q, p) \div q = UnitCost(side, p)
<1>1. PerShare(side, p) \in Nat /\ FeePerShare(side, p) \in Nat
  BY PerShareType, FeeType
<1>2. q * PerShare(side, p) + q * FeePerShare(side, p) = q * UnitCost(side, p)
  BY <1>1 DEF UnitCost
<1>3. /\ FillCost(side, q, p) = q * UnitCost(side, p)
      /\ ReservationRequired(side, q, p) = q * UnitCost(side, p)
  BY <1>2 DEF FillCost, ReservationRequired, ContractCollateral, ExecutionFee
<1>4. q > 0 => (q * UnitCost(side, p)) \div q = UnitCost(side, p)
  BY UnitCostType, DivProduct
<1>5. QED  BY <1>3, <1>4

\* Both sides of a fill together pay one contract unit per contract.
LEMMA EscrowIsUnits ==
  ASSUME NEW p \in Price, WithinPrecision(p), NEW q \in Nat
  PROVE  ContractCollateral("buy", q, p) + ContractCollateral("sell", q, p) = q * ContractUnit
<1>1. /\ PerShare("buy", p) \in Nat /\ PerShare("sell", p) \in Nat
      /\ PerShare("buy", p) + PerShare("sell", p) = ContractUnit
  BY PerShareType
<1>2. q * PerShare("buy", p) + q * PerShare("sell", p) = q * (PerShare("buy", p) + PerShare("sell", p))
  BY <1>1
<1>3. QED  BY <1>1, <1>2 DEF ContractCollateral

(***************************************************************************)
(* The price of a fill is never worse than the limit: an order that        *)
(* reserved the cost of its limit can pay every price its limit admits.    *)
(***************************************************************************)
LEMMA LimitCoversFill ==
  ASSUME NEW limit \in Price, WithinPrecision(limit), NEW p \in Price, WithinPrecision(p),
         NEW side \in OrderSide, Crosses(side, limit, p)
  PROVE  UnitCost(side, p) <= UnitCost(side, limit)
<1>1. PerShare(side, p) <= PerShare(side, limit)
  <2>1. /\ limit \in Nat /\ p \in Nat /\ ContractUnit \in Nat
        /\ BuyerPerShare(p) \in Nat /\ BuyerPerShare(limit) \in Nat
    BY BuyerType, ContractUnitAssumption
  <2>2. CASE side = "buy"
    BY <2>1, <2>2, BuyerMonotone DEF Crosses, PerShare
  <2>3. CASE side = "sell"
    BY <2>1, <2>3, BuyerMonotone DEF Crosses, PerShare
  <2>4. QED  BY <2>2, <2>3 DEF OrderSide
<1> DEFINE a == PerShare(side, p)
           c == PerShare(side, limit)
           n == a * FeeBps + BPS_SCALE - 1
           k == c * FeeBps + BPS_SCALE - 1
<1>2. a \in Nat /\ c \in Nat /\ FeeBps \in Nat /\ a <= c
  BY <1>1, PerShareType, FeeBpsAssumption
<1>3. FeeBps * a <= FeeBps * c
  <2> HIDE DEF a, c
  <2>1. QED  BY <1>2, ProductMonotone
<1>4. n \in Int /\ k \in Int /\ n <= k
  <2> HIDE DEF a, c
  <2>1. a * FeeBps = FeeBps * a /\ c * FeeBps = FeeBps * c /\ FeeBps * a \in Nat /\ FeeBps * c \in Nat
    BY <1>2
  <2>2. QED  BY <1>3, <2>1, Scales
<1>5. n \div BPS_SCALE <= k \div BPS_SCALE
  <2> HIDE DEF n, k
  <2>1. QED  BY <1>4, Scales, DivMonotone
<1>6. FeePerShare(side, p) <= FeePerShare(side, limit)
  BY <1>5 DEF FeePerShare, CeilDiv
<1>7. FeePerShare(side, p) \in Nat /\ FeePerShare(side, limit) \in Nat
  BY FeeType
<1> HIDE DEF a, c, n, k
<1>8. QED  BY <1>1, <1>2, <1>6, <1>7, PerShareType DEF UnitCost

\* Prices are integers; the scale itself is kept out of every other proof.
LEMMA PriceInt ==
  ASSUME NEW p \in Price
  PROVE  PRICE_SCALE \in Nat /\ p \in Nat /\ 0 < p /\ p < PRICE_SCALE
<1>1. PRICE_SCALE \in Nat
  BY SMT DEF PRICE_SCALE
<1>2. QED  BY <1>1 DEF Price

-------------------------------------------------------------------------------
(* Layer 1: books and orders.                                                *)

\* Every book that was ever activated has used up its first sequence number.
BookInv ==
  /\ status \in [Books -> {"absent", "halted", "open"}]
  /\ next \in [Books -> Nat \ {0}]
  /\ closed \subseteq Books
  /\ eligible \subseteq Users
  /\ \A b \in Books : status[b] = "halted" => next[b] > 1

\* An order holds, per contract, exactly what a contract costs at its limit.
OrderSound(o) ==
  /\ WithinPrecision(o.price)
  /\ o.quantity > 0 /\ o.remaining <= o.quantity
  /\ o.reservedPerShare = UnitCost(o.side, o.price)
  /\ o.state = "open" => o.remaining > 0
  /\ o.state = "filled" => o.remaining = 0
  /\ o.seq < next[o.book]

\* What no step ever changes in an order.
SameTerms(p, o) ==
  /\ p.owner = o.owner /\ p.book = o.book /\ p.outcome = o.outcome /\ p.side = o.side
  /\ p.price = o.price /\ p.quantity = o.quantity
  /\ p.reservedPerShare = o.reservedPerShare /\ p.seq = o.seq

\* Sequence numbers rank the orders of a book.
Ranked ==
  \A j, k \in DOMAIN orders :
    j # k /\ orders[j].book = orders[k].book => orders[j].seq # orders[k].seq

OrderInv ==
  /\ DOMAIN orders \subseteq OrderIds
  /\ orders \in [DOMAIN orders -> Order]
  /\ \A k \in DOMAIN orders : OrderSound(orders[k])
  /\ Ranked

\* Types of the fields of an order, one by one.
LEMMA OrderFields ==
  ASSUME OrderInv, NEW k \in DOMAIN orders
  PROVE  /\ orders[k] \in Order
         /\ orders[k].owner \in Users /\ orders[k].book \in Books
         /\ orders[k].side \in OrderSide /\ orders[k].price \in Price
         /\ orders[k].quantity \in Nat /\ orders[k].remaining \in Nat
         /\ orders[k].reservedPerShare \in Nat /\ orders[k].seq \in Nat
         /\ orders[k].state \in OrderState
<1>1. orders[k] \in Order
  BY DEF OrderInv
<1>2. QED  BY <1>1, PricesAssumption DEF Order

\* There are finitely many orders.
LEMMA OrdersFinite == ASSUME OrderInv PROVE IsFiniteSet(DOMAIN orders)
BY OrderIdsAssumption, FS_Subset DEF OrderInv

\* The makers of every incoming order can be ranked.
LEMMA MakersRankable ==
  ASSUME OrderInv, NEW u, NEW b, NEW outcome, NEW side, NEW price
  PROVE  /\ Makers(u, b, outcome, side, price) \in SUBSET DOMAIN orders
         /\ IsFiniteSet(Makers(u, b, outcome, side, price))
         /\ Rankable(orders, Makers(u, b, outcome, side, price))
<1> DEFINE makers == Makers(u, b, outcome, side, price)
<1>1. makers \in SUBSET DOMAIN orders /\ \A m \in makers : orders[m].book = b
  BY DEF Makers
<1>2. IsFiniteSet(makers)
  BY <1>1, OrdersFinite, FS_Subset
<1>3. \A m \in makers : orders[m].remaining \in Nat /\ orders[m].price \in Int /\ orders[m].seq \in Int
  <2> TAKE m \in makers
  <2>1. m \in DOMAIN orders
    BY <1>1
  <2>2. QED  BY <2>1, OrderFields, PriceInt
<1>4. \A m, n \in makers : m # n => orders[m].seq # orders[n].seq
  <2> HIDE DEF makers
  <2>1. QED  BY <1>1 DEF OrderInv, Ranked
<1> HIDE DEF makers
<1>5. QED  BY <1>1, <1>2, <1>3, <1>4 DEF Rankable, makers

\* What matching an incoming order gives.
LEMMA SubmitMatch ==
  ASSUME OrderInv, NEW u, NEW b, NEW outcome, NEW side, NEW price, NEW quantity \in Quantities,
         NEW makers, makers = Makers(u, b, outcome, side, price),
         NEW filled, filled = MatchPriceTime(side, quantity, orders, makers)
  PROVE  /\ makers \in SUBSET DOMAIN orders /\ IsFiniteSet(makers)
         /\ quantity \in Nat /\ quantity > 0
         /\ \A m \in makers : filled[m] \in Nat /\ filled[m] <= orders[m].remaining
         /\ SumFunctionOnSet(filled, makers) \in Nat
         /\ SumFunctionOnSet(filled, makers) <= quantity
         /\ SumFunctionOnSet(filled, makers) # quantity
              => \A m \in makers : filled[m] = orders[m].remaining
<1>1. makers \in SUBSET DOMAIN orders /\ IsFiniteSet(makers) /\ Rankable(orders, makers)
  BY MakersRankable
<1>2. quantity \in Nat /\ quantity > 0
  BY QuantitiesAssumption
<1>3. \A m \in makers : filled[m] \in Nat /\ filled[m] <= orders[m].remaining
  BY <1>1, <1>2, MatchBounds
<1>4. /\ Depth(orders, makers) \in Nat
      /\ SumFunctionOnSet(filled, makers)
           = IF quantity <= Depth(orders, makers) THEN quantity ELSE Depth(orders, makers)
  BY <1>1, <1>2, MatchTotal
<1>5. SumFunctionOnSet(filled, makers) # quantity => \A m \in makers : filled[m] = orders[m].remaining
  BY <1>1, <1>2, MatchExhausts
<1>6. QED  BY <1>1, <1>2, <1>3, <1>4, <1>5

\* Layer 1 holds of an empty exchange.
LEMMA Layer1Init == Init => BookInv /\ OrderInv
<1> SUFFICES ASSUME Init PROVE BookInv /\ OrderInv
  OBVIOUS
<1>1. BookInv
  BY DEF Init, BookInv
<1>2. OrderInv
  BY DEF Init, OrderInv, Ranked
<1>3. QED  BY <1>1, <1>2

\* Sequence numbers only grow, so a step that leaves the orders alone leaves
\* them sound.
LEMMA OrdersStaySound ==
  ASSUME BookInv, OrderInv, UNCHANGED orders, next' \in [Books -> Nat \ {0}],
         \A b \in Books : next[b] <= next'[b]
  PROVE  OrderInv'
<1>1. \A k \in DOMAIN orders : OrderSound(orders[k])'
  <2> TAKE k \in DOMAIN orders
  <2>1. orders[k].book \in Books /\ orders[k].seq \in Nat
    BY OrderFields
  <2>2. /\ next[orders[k].book] \in Nat /\ next'[orders[k].book] \in Nat
        /\ next[orders[k].book] <= next'[orders[k].book]
    BY <2>1 DEF BookInv
  <2>3. OrderSound(orders[k])
    BY DEF OrderInv
  <2>4. QED  BY <2>1, <2>2, <2>3 DEF OrderSound
<1>2. QED  BY <1>1 DEF OrderInv, Ranked

\* Releasing a set of orders changes nothing in their rows but the state.
LEMMA ReleasedRows ==
  ASSUME OrderInv, NEW S \in SUBSET DOMAIN orders, ReleaseOrders(S)
  PROVE  /\ DOMAIN orders' = DOMAIN orders
         /\ orders' = [k \in DOMAIN orders' |-> orders'[k]]
         /\ \A k \in DOMAIN orders :
              /\ orders'[k] \in Order /\ SameTerms(orders'[k], orders[k])
              /\ orders'[k].remaining = orders[k].remaining
              /\ orders'[k].state = IF k \in S THEN "cancelled" ELSE orders[k].state
<1>1. orders' = [k \in DOMAIN orders |->
                  IF k \in S THEN [orders[k] EXCEPT !.state = "cancelled"] ELSE orders[k]]
  BY DEF ReleaseOrders
<1>2. DOMAIN orders' = DOMAIN orders
  BY <1>1
<1>3. \A k \in DOMAIN orders :
        /\ orders'[k] \in Order /\ SameTerms(orders'[k], orders[k])
        /\ orders'[k].remaining = orders[k].remaining
        /\ orders'[k].state = IF k \in S THEN "cancelled" ELSE orders[k].state
  <2> TAKE k \in DOMAIN orders
  <2>1. orders[k] \in Order
    BY OrderFields
  <2>2. CASE k \in S
    <3>1. orders'[k] = [orders[k] EXCEPT !.state = "cancelled"]
      BY <1>1, <2>2
    <3>2. "cancelled" \in OrderState
      BY DEF OrderState
    <3>3. QED  BY <2>1, <2>2, <3>1, <3>2 DEF Order, SameTerms
  <2>3. CASE k \notin S
    <3>1. orders'[k] = orders[k]
      BY <1>1, <2>3
    <3>2. QED  BY <2>1, <2>3, <3>1 DEF SameTerms
  <2>4. QED  BY <2>2, <2>3
<1>4. orders' = [k \in DOMAIN orders' |-> orders'[k]]
  BY <1>1
<1>5. QED  BY <1>2, <1>3, <1>4

\* Cancelling a set of orders leaves the order table sound.
LEMMA OrdersCancelled ==
  ASSUME BookInv, OrderInv, NEW S \in SUBSET DOMAIN orders, ReleaseOrders(S),
         next' \in [Books -> Nat \ {0}], \A b \in Books : next[b] <= next'[b]
  PROVE  OrderInv'
<1>1. DOMAIN orders' = DOMAIN orders /\ orders' = [k \in DOMAIN orders' |-> orders'[k]]
  BY ReleasedRows
<1>2. \A k \in DOMAIN orders :
        /\ orders'[k] \in Order /\ SameTerms(orders'[k], orders[k])
        /\ orders'[k].remaining = orders[k].remaining
        /\ orders'[k].state = IF k \in S THEN "cancelled" ELSE orders[k].state
  BY ReleasedRows
<1>4. \A k \in DOMAIN orders : OrderSound(orders[k])'
  <2> TAKE k \in DOMAIN orders
  <2>1. OrderSound(orders[k])
    BY DEF OrderInv
  <2>2. orders[k].book \in Books /\ orders[k].seq \in Nat
    BY OrderFields
  <2>3. /\ next[orders[k].book] \in Nat /\ next'[orders[k].book] \in Nat
        /\ next[orders[k].book] <= next'[orders[k].book]
    BY <2>2 DEF BookInv
  <2>4. QED  BY <1>2, <2>1, <2>2, <2>3 DEF OrderSound, SameTerms
<1>5. Ranked'
  BY <1>1, <1>2 DEF OrderInv, Ranked, SameTerms
<1>6. orders' \in [DOMAIN orders' -> Order]
  BY <1>1, <1>2
<1>7. QED  BY <1>1, <1>4, <1>5, <1>6 DEF OrderInv

\* The row of a new order of which `taken` was matched, and the row of an order
\* of which a fill takes q.
NewRow(u, b, outcome, side, price, quantity, taken) ==
  [owner |-> u, book |-> b, outcome |-> outcome, side |-> side, price |-> price,
   quantity |-> quantity, remaining |-> quantity - taken,
   reservedPerShare |-> UnitCost(side, price), seq |-> next[b],
   state |-> IF taken = quantity THEN "filled" ELSE "open"]

FilledRow(o, q) ==
  [o EXCEPT !.remaining = @ - q, !.state = IF o.remaining = q THEN "filled" ELSE "open"]

\* What an incoming order does to the order table.
LEMMA OrdersSubmitted ==
  ASSUME BookInv, OrderInv,
         NEW u \in Users, NEW b \in Books, NEW outcome \in Outcomes, NEW side \in OrderSide,
         NEW price \in Prices, NEW quantity \in Quantities, NEW id \in OrderIds,
         NextId(id), SubmitOrder(u, b, outcome, side, price, quantity, id),
         NEW makers, makers = Makers(u, b, outcome, side, price),
         NEW filled, filled = MatchPriceTime(side, quantity, orders, makers)
  PROVE  /\ WithinPrecision(price) /\ price \in Price /\ id \notin DOMAIN orders
         /\ DOMAIN orders' = DOMAIN orders \cup {id}
         /\ orders'[id] = NewRow(u, b, outcome, side, price, quantity,
                                 SumFunctionOnSet(filled, makers))
         /\ \A k \in makers : filled[k] > 0 => orders'[k] = FilledRow(orders[k], filled[k])
         /\ \A k \in DOMAIN orders : ~ (k \in makers /\ filled[k] > 0) => orders'[k] = orders[k]
         /\ orders' = [k \in DOMAIN orders' |-> orders'[k]]
<1> DEFINE taken == SumFunctionOnSet(filled, makers)
           matched == {m \in makers : filled[m] > 0}
           order == [owner |-> u, book |-> b, outcome |-> outcome, side |-> side,
                     price |-> price, quantity |-> quantity, remaining |-> quantity - taken,
                     reservedPerShare |-> ReservationRequired(side, quantity, price) \div quantity,
                     seq |-> next[b], state |-> IF taken = quantity THEN "filled" ELSE "open"]
<1>1. orders' = [k \in DOMAIN orders \cup {id} |->
           IF k = id THEN order
           ELSE IF k \in matched THEN FilledRow(orders[k], filled[k])
           ELSE orders[k]]
  BY DEF SubmitOrder, FilledRow
<1>2. WithinPrecision(price) /\ price \in Price /\ id \notin DOMAIN orders
  BY PricesAssumption DEF SubmitOrder, NextId
<1>3. ReservationRequired(side, quantity, price) \div quantity = UnitCost(side, price)
  BY <1>2, QuantitiesAssumption, CostIsUnits
<1>4. orders'[id] = order
  <2> HIDE DEF order, matched
  <2>1. QED  BY <1>1
<1>5. makers \in SUBSET DOMAIN orders
  BY MakersRankable
<1>6. orders'[id] = NewRow(u, b, outcome, side, price, quantity, taken)
  <2> HIDE DEF taken
  <2>1. QED  BY <1>3, <1>4 DEF NewRow
<1> HIDE DEF taken, order
<1>7. QED  BY <1>1, <1>2, <1>5, <1>6 DEF taken

\* An incoming order takes one sequence number and one more for each fill.
LEMMA NextSubmitted ==
  ASSUME BookInv, OrderInv,
         NEW u \in Users, NEW b \in Books, NEW outcome \in Outcomes, NEW side \in OrderSide,
         NEW price \in Prices, NEW quantity \in Quantities, NEW id \in OrderIds,
         SubmitOrder(u, b, outcome, side, price, quantity, id)
  PROVE  /\ next' \in [Books -> Nat \ {0}]
         /\ \A c \in Books : next[c] <= next'[c]
         /\ next[b] < next'[b]
<1> DEFINE makers == Makers(u, b, outcome, side, price)
           filled == MatchPriceTime(side, quantity, orders, makers)
           matched == {m \in makers : filled[m] > 0}
<1>1. next' = [next EXCEPT ![b] = @ + 1 + Cardinality(matched)]
  BY DEF SubmitOrder
<1>2. Cardinality(matched) \in Nat
  <2>1. IsFiniteSet(makers)
    BY MakersRankable
  <2>2. IsFiniteSet(matched)
    BY <2>1, FS_Subset
  <2>3. QED  BY <2>2, FS_CardinalityType
<1> HIDE DEF matched
<1>3. QED  BY <1>1, <1>2 DEF BookInv

\* A submission keeps the order rows sound.
LEMMA OrdersStepSubmit ==
  ASSUME BookInv, OrderInv,
         NEW u \in Users, NEW b \in Books, NEW outcome \in Outcomes, NEW side \in OrderSide,
         NEW price \in Prices, NEW quantity \in Quantities, NEW id \in OrderIds,
         NextId(id), SubmitOrder(u, b, outcome, side, price, quantity, id)
  PROVE  OrderInv'
<1>1. PICK makers : makers = Makers(u, b, outcome, side, price)
  OBVIOUS
<1>2. PICK filled : filled = MatchPriceTime(side, quantity, orders, makers)
  OBVIOUS
<1> DEFINE taken == SumFunctionOnSet(filled, makers)
<1>3. /\ makers \in SUBSET DOMAIN orders
      /\ quantity \in Nat /\ quantity > 0
      /\ \A m \in makers : filled[m] \in Nat /\ filled[m] <= orders[m].remaining
      /\ taken \in Nat /\ taken <= quantity
  BY <1>1, <1>2, SubmitMatch
<1>4. /\ WithinPrecision(price) /\ price \in Price
      /\ id \notin DOMAIN orders /\ DOMAIN orders' = DOMAIN orders \cup {id}
      /\ orders'[id] = NewRow(u, b, outcome, side, price, quantity, taken)
      /\ \A k \in makers : filled[k] > 0 => orders'[k] = FilledRow(orders[k], filled[k])
      /\ \A k \in DOMAIN orders : ~ (k \in makers /\ filled[k] > 0) => orders'[k] = orders[k]
      /\ orders' = [k \in DOMAIN orders' |-> orders'[k]]
  BY <1>1, <1>2, OrdersSubmitted
<1> HIDE DEF taken
<1>5. /\ next' \in [Books -> Nat \ {0}] /\ next[b] < next'[b]
      /\ \A c \in Books : next[c] <= next'[c]
  BY NextSubmitted
<1>6. OrderSound(orders[id])' /\ orders'[id] \in Order
  <2>1. UnitCost(side, price) \in Nat
    BY <1>4, UnitCostType
  <2>2. next[b] \in Nat /\ next'[b] \in Nat
    BY <1>5 DEF BookInv
  <2>3. "filled" \in OrderState /\ "open" \in OrderState
    BY DEF OrderState
  <2>4. quantity - taken \in Nat /\ quantity - taken <= quantity
        /\ (taken # quantity => quantity - taken > 0)
    BY <1>3
  <2>5. orders'[id] \in Order
    BY <1>3, <1>4, <2>1, <2>2, <2>3, <2>4 DEF Order, NewRow
  <2>6. OrderSound(orders[id])'
    <3>1. /\ orders'[id].book = b /\ orders'[id].side = side /\ orders'[id].price = price
          /\ orders'[id].quantity = quantity /\ orders'[id].remaining = quantity - taken
          /\ orders'[id].reservedPerShare = UnitCost(side, price) /\ orders'[id].seq = next[b]
          /\ orders'[id].state = IF taken = quantity THEN "filled" ELSE "open"
      BY <1>4 DEF NewRow
    <3>2. QED  BY <1>3, <1>4, <1>5, <2>2, <2>4, <3>1 DEF OrderSound
  <2>7. QED  BY <2>5, <2>6
<1>7. \A k \in DOMAIN orders :
        /\ OrderSound(orders[k])' /\ orders'[k] \in Order
        /\ orders'[k].book = orders[k].book /\ orders'[k].seq = orders[k].seq
  <2> TAKE k \in DOMAIN orders
  <2>1. /\ OrderSound(orders[k]) /\ orders[k] \in Order
        /\ orders[k].book \in Books /\ orders[k].seq \in Nat /\ orders[k].remaining \in Nat
        /\ orders[k].quantity \in Nat
    BY OrderFields DEF OrderInv
  <2>2. /\ next[orders[k].book] \in Nat /\ next'[orders[k].book] \in Nat
        /\ next[orders[k].book] <= next'[orders[k].book]
    BY <1>5, <2>1 DEF BookInv
  <2>3. CASE k \in makers /\ filled[k] > 0
    <3> DEFINE state == IF orders[k].remaining = filled[k] THEN "filled" ELSE "open"
               rest == orders[k].remaining - filled[k]
    <3>1. orders'[k] = [orders[k] EXCEPT !.remaining = rest, !.state = state]
      BY <1>4, <2>3 DEF FilledRow
    <3>2. /\ rest \in Nat /\ rest <= orders[k].quantity
          /\ state = "open" => rest > 0
          /\ state = "filled" => rest = 0
          /\ state \in OrderState
      BY <1>3, <2>1, <2>3 DEF OrderSound, OrderState
    <3> HIDE DEF rest, state
    <3>3. /\ orders'[k].book = orders[k].book /\ orders'[k].seq = orders[k].seq
          /\ orders'[k].side = orders[k].side /\ orders'[k].price = orders[k].price
          /\ orders'[k].quantity = orders[k].quantity
          /\ orders'[k].reservedPerShare = orders[k].reservedPerShare
          /\ orders'[k].remaining = rest /\ orders'[k].state = state
      BY <2>1, <3>1 DEF Order
    <3>4. orders'[k] \in Order
      BY <2>1, <3>1, <3>2 DEF Order
    <3>5. OrderSound(orders[k])'
      BY <2>1, <2>2, <3>2, <3>3 DEF OrderSound
    <3>6. QED  BY <3>3, <3>4, <3>5
  <2>4. CASE ~ (k \in makers /\ filled[k] > 0)
    <3>1. orders'[k] = orders[k]
      BY <1>4, <2>4
    <3>2. QED  BY <2>1, <2>2, <3>1 DEF OrderSound
  <2>5. QED  BY <2>3, <2>4
<1>8. Ranked'
  <2>1. \A k \in DOMAIN orders : orders[k].book = b => orders[k].seq # next[b]
    <3> TAKE k \in DOMAIN orders
    <3>1. orders[k].seq < next[orders[k].book] /\ orders[k].seq \in Nat /\ next[b] \in Nat
      BY OrderFields DEF OrderInv, OrderSound, BookInv
    <3>2. QED  BY <3>1
  <2>2. orders'[id].book = b /\ orders'[id].seq = next[b]
    BY <1>4 DEF NewRow
  <2>3. \A k \in DOMAIN orders : orders'[k].book = b => orders'[k].seq # next[b]
    BY <1>7, <2>1
  <2>4. DOMAIN orders' = DOMAIN orders \cup {id}
    BY <1>4
  <2>5. \A j, k \in DOMAIN orders :
          j # k /\ orders'[j].book = orders'[k].book => orders'[j].seq # orders'[k].seq
    <3> TAKE j, k \in DOMAIN orders
    <3>1. /\ orders'[j].book = orders[j].book /\ orders'[j].seq = orders[j].seq
          /\ orders'[k].book = orders[k].book /\ orders'[k].seq = orders[k].seq
      BY <1>7
    <3>2. QED  BY <3>1 DEF OrderInv, Ranked
  <2>6. QED  BY <2>2, <2>3, <2>4, <2>5 DEF Ranked
<1>9. DOMAIN orders' \subseteq OrderIds /\ orders' \in [DOMAIN orders' -> Order]
  <2>1. \A k \in DOMAIN orders' : orders'[k] \in Order
    BY <1>4, <1>6, <1>7
  <2>2. orders' = [k \in DOMAIN orders' |-> orders'[k]]
    BY <1>4
  <2>3. DOMAIN orders' \subseteq OrderIds
    BY <1>4 DEF OrderInv
  <2>4. QED  BY <2>1, <2>2, <2>3
<1>10. \A k \in DOMAIN orders' : OrderSound(orders[k])'
  BY <1>4, <1>6, <1>7
<1>11. QED  BY <1>8, <1>9, <1>10 DEF OrderInv

\* What the actions on a book alone, and of a user, do to the first layer.
LEMMA BookSteps ==
  ASSUME BookInv,
         \/ \E b \in Books : ActivateClob(b) \/ HaltClob(b) \/ TradingCutoff(b)
         \/ \E u \in Users : SetEligibility(u)
         \/ UNCHANGED vars
  PROVE  /\ BookInv' /\ orders' = orders
         /\ \A b \in Books : next[b] <= next'[b]
         /\ \A b \in Books : status[b] = "halted" => status'[b] = "halted"
<1>1. CASE \E b \in Books : ActivateClob(b)
  BY <1>1 DEF BookInv, ActivateClob
<1>2. CASE \E b \in Books : HaltClob(b)
  BY <1>2 DEF BookInv, HaltClob
<1>3. CASE \E b \in Books : TradingCutoff(b)
  BY <1>3 DEF BookInv, TradingCutoff
<1>4. CASE \E u \in Users : SetEligibility(u)
  BY <1>4 DEF BookInv, SetEligibility, books
<1>5. CASE UNCHANGED vars
  BY <1>5 DEF BookInv, vars, books
<1>6. QED  BY <1>1, <1>2, <1>3, <1>4, <1>5

\* A cancellation releases a set of open orders and only adds to next.
LEMMA ReleaseSteps ==
  ASSUME BookInv, OrderInv,
         \/ \E k \in DOMAIN orders : CancelOrder(k)
         \/ \E b \in Books : CloseResolutionBook(b)
  PROVE  /\ BookInv'
         /\ \E S \in SUBSET {k \in DOMAIN orders : Open(k)} : ReleaseOrders(S)
         /\ \A b \in Books : next[b] <= next'[b]
         /\ \A b \in Books : status[b] = "halted" => status'[b] = "halted"
<1>1. ASSUME NEW k \in DOMAIN orders, CancelOrder(k)
      PROVE  /\ BookInv'
             /\ \E S \in SUBSET {j \in DOMAIN orders : Open(j)} : ReleaseOrders(S)
             /\ \A b \in Books : next[b] <= next'[b]
             /\ \A b \in Books : status[b] = "halted" => status'[b] = "halted"
  <2>1. /\ Open(k) /\ ReleaseOrders({k}) /\ status' = status
        /\ next' = [next EXCEPT ![orders[k].book] = @ + 1]
    BY <1>1 DEF CancelOrder
  <2>2. closed' = closed /\ eligible' = eligible
    BY <2>1 DEF ReleaseOrders
  <2>3. {k} \in SUBSET {j \in DOMAIN orders : Open(j)}
    BY <2>1
  <2>4. BookInv' /\ \A b \in Books : next[b] <= next'[b]
    <3>1. status' = status /\ next' = [next EXCEPT ![orders[k].book] = @ + 1]
      BY <2>1
    <3>2. orders[k].book \in Books
      BY OrderFields
    <3>3. QED  BY <2>2, <3>1, <3>2 DEF BookInv
  <2>5. \A b \in Books : status[b] = "halted" => status'[b] = "halted"
    BY <2>1
  <2>6. QED  BY <2>1, <2>3, <2>4, <2>5
<1>2. ASSUME NEW b \in Books, CloseResolutionBook(b)
      PROVE  /\ BookInv'
             /\ \E S \in SUBSET {j \in DOMAIN orders : Open(j)} : ReleaseOrders(S)
             /\ \A c \in Books : next[c] <= next'[c]
             /\ \A c \in Books : status[c] = "halted" => status'[c] = "halted"
  <2> DEFINE oldest == {k \in OpenIn(b) :
                   Cardinality({j \in OpenIn(b) : orders[j].seq < orders[k].seq}) < CloseBatch}
             halt == IF status[b] = "open" THEN 1 ELSE 0
  <2>1. /\ status[b] # "absent" /\ status' = [status EXCEPT ![b] = "halted"]
        /\ ReleaseOrders(oldest)
        /\ next' = [next EXCEPT ![b] = @ + Cardinality(oldest) + halt]
    BY <1>2 DEF CloseResolutionBook
  <2>2. oldest \in SUBSET {j \in DOMAIN orders : Open(j)}
    BY DEF OpenIn
  <2>3. Cardinality(oldest) \in Nat
    <3> HIDE DEF oldest
    <3>1. IsFiniteSet(oldest)
      BY <2>2, OrdersFinite, FS_Subset
    <3>2. QED  BY <3>1, FS_CardinalityType
  <2>4. closed' = closed /\ eligible' = eligible
    BY <2>1 DEF ReleaseOrders
  <2> HIDE DEF oldest
  <2>5. BookInv' /\ \A c \in Books : next[c] <= next'[c]
    BY <2>1, <2>3, <2>4 DEF BookInv
  <2>6. \A c \in Books : status[c] = "halted" => status'[c] = "halted"
    BY <2>1 DEF BookInv
  <2>7. QED  BY <2>1, <2>2, <2>5, <2>6
<1>3. QED  BY <1>1, <1>2

\* Every step is an order entry, a release of open orders, or leaves the orders
\* alone.
LEMMA StepKinds ==
  ASSUME [Next]_vars
  PROVE  \/ \E b \in Books : ActivateClob(b) \/ HaltClob(b) \/ TradingCutoff(b)
         \/ \E u \in Users : SetEligibility(u)
         \/ UNCHANGED vars
         \/ \E k \in DOMAIN orders : CancelOrder(k)
         \/ \E b \in Books : CloseResolutionBook(b)
         \/ \E u \in Users, b \in Books, outcome \in Outcomes, side \in OrderSide,
               price \in Prices, quantity \in Quantities, id \in OrderIds :
               NextId(id) /\ SubmitOrder(u, b, outcome, side, price, quantity, id)
BY DEF Next

\* Every step keeps layer 1, and no step leaves "halted".
LEMMA Layer1Step ==
  ASSUME BookInv, OrderInv, [Next]_vars
  PROVE  /\ BookInv' /\ OrderInv'
         /\ \A b \in Books : status[b] = "halted" => status'[b] = "halted"
<1>1. CASE \/ \E b \in Books : ActivateClob(b) \/ HaltClob(b) \/ TradingCutoff(b)
           \/ \E u \in Users : SetEligibility(u)
           \/ UNCHANGED vars
  <2>1. /\ BookInv' /\ orders' = orders
        /\ \A b \in Books : next[b] <= next'[b]
        /\ \A b \in Books : status[b] = "halted" => status'[b] = "halted"
    BY <1>1, BookSteps
  <2>2. next' \in [Books -> Nat \ {0}]
    BY <2>1 DEF BookInv
  <2>3. QED  BY <2>1, <2>2, OrdersStaySound
<1>2. CASE \/ \E k \in DOMAIN orders : CancelOrder(k)
           \/ \E b \in Books : CloseResolutionBook(b)
  <2>1. /\ BookInv'
        /\ \A b \in Books : next[b] <= next'[b]
        /\ \A b \in Books : status[b] = "halted" => status'[b] = "halted"
    BY <1>2, ReleaseSteps
  <2>2. PICK S \in SUBSET {k \in DOMAIN orders : Open(k)} : ReleaseOrders(S)
    BY <1>2, ReleaseSteps
  <2>3. next' \in [Books -> Nat \ {0}]
    BY <2>1 DEF BookInv
  <2>4. S \in SUBSET DOMAIN orders
    OBVIOUS
  <2>5. OrderInv'
    BY <2>1, <2>2, <2>3, <2>4, OrdersCancelled
  <2>6. QED  BY <2>1, <2>5
<1>3. ASSUME NEW u \in Users, NEW b \in Books, NEW outcome \in Outcomes, NEW side \in OrderSide,
             NEW price \in Prices, NEW quantity \in Quantities, NEW id \in OrderIds,
             NextId(id), SubmitOrder(u, b, outcome, side, price, quantity, id)
      PROVE  /\ BookInv' /\ OrderInv'
             /\ \A c \in Books : status[c] = "halted" => status'[c] = "halted"
  <2>1. status' = status /\ closed' = closed /\ eligible' = eligible
    BY <1>3 DEF SubmitOrder
  <2>2. /\ next' \in [Books -> Nat \ {0}]
        /\ \A c \in Books : next[c] <= next'[c]
    BY <1>3, NextSubmitted
  <2>3. BookInv'
    BY <2>1, <2>2 DEF BookInv
  <2>4. OrderInv'
    BY <1>3, OrdersStepSubmit
  <2>5. QED  BY <2>1, <2>3, <2>4
<1>4. QED  BY <1>1, <1>2, <1>3, StepKinds

\* Layer 1: books and order rows.
LEMMA Layer1 == Spec => [](BookInv /\ OrderInv)
<1>1. Init => BookInv /\ OrderInv
  BY Layer1Init
<1>2. BookInv /\ OrderInv /\ [Next]_vars => (BookInv /\ OrderInv)'
  BY Layer1Step
<1>3. QED  BY <1>1, <1>2, PTL DEF Spec

\* A book that was halted stays halted, whatever activations are attempted:
\* activateClob only opens a book whose sequence is still at its first value.
THEOREM HaltFinal == Spec => HaltIsFinal
<1>1. BookInv /\ OrderInv /\ [Next]_vars
        => [\A b \in Books : status[b] = "halted" => status'[b] = "halted"]_vars
  BY Layer1Step
<1>2. QED  BY <1>1, Layer1, PTL DEF Spec, HaltIsFinal

-------------------------------------------------------------------------------
(* What an incoming order leaves in the book.                                *)

\* A fill keeps the terms of the maker, and a filled maker is only open while
\* something of it is left.
LEMMA FilledFields ==
  ASSUME OrderInv, NEW k \in DOMAIN orders, NEW q \in Nat, q <= orders[k].remaining
  PROVE  LET o == FilledRow(orders[k], q)
         IN  /\ SameTerms(o, orders[k]) /\ o.remaining = orders[k].remaining - q
             /\ o.state = "open" <=> orders[k].remaining # q
BY OrderFields DEF FilledRow, SameTerms, Order

\* The old orders keep their terms; one that is still open was open before; and
\* if the new order stays open, none of its makers does.
LEMMA SubmitFrame ==
  ASSUME BookInv, OrderInv,
         NEW u \in Users, NEW b \in Books, NEW outcome \in Outcomes, NEW side \in OrderSide,
         NEW price \in Prices, NEW quantity \in Quantities, NEW id \in OrderIds,
         NextId(id), SubmitOrder(u, b, outcome, side, price, quantity, id)
  PROVE  /\ id \notin DOMAIN orders /\ DOMAIN orders' = DOMAIN orders \cup {id}
         /\ orders'[id].owner = u /\ orders'[id].book = b /\ orders'[id].outcome = outcome
         /\ orders'[id].side = side /\ orders'[id].price = price
         /\ \A k \in DOMAIN orders :
              /\ SameTerms(orders'[k], orders[k])
              /\ orders'[k].state = "open" => Open(k)
         /\ orders'[id].state = "open" =>
              \A k \in Makers(u, b, outcome, side, price) : orders'[k].state # "open"
<1>1. PICK makers : makers = Makers(u, b, outcome, side, price)
  OBVIOUS
<1>2. PICK filled : filled = MatchPriceTime(side, quantity, orders, makers)
  OBVIOUS
<1> DEFINE taken == SumFunctionOnSet(filled, makers)
<1>3. /\ makers \in SUBSET DOMAIN orders
      /\ \A m \in makers : filled[m] \in Nat /\ filled[m] <= orders[m].remaining
      /\ taken # quantity => \A m \in makers : filled[m] = orders[m].remaining
  BY <1>1, <1>2, SubmitMatch
<1>4. /\ WithinPrecision(price) /\ price \in Price
      /\ id \notin DOMAIN orders /\ DOMAIN orders' = DOMAIN orders \cup {id}
      /\ orders'[id] = NewRow(u, b, outcome, side, price, quantity, taken)
      /\ \A k \in makers : filled[k] > 0 => orders'[k] = FilledRow(orders[k], filled[k])
      /\ \A k \in DOMAIN orders : ~ (k \in makers /\ filled[k] > 0) => orders'[k] = orders[k]
      /\ orders' = [k \in DOMAIN orders' |-> orders'[k]]
  BY <1>1, <1>2, OrdersSubmitted
<1> HIDE DEF taken
<1>5. \A k \in makers : Open(k) /\ orders[k].remaining \in Nat /\ orders[k].remaining > 0
  <2> TAKE k \in makers
  <2>1. Open(k) /\ k \in DOMAIN orders
    BY <1>1 DEF Makers
  <2>2. QED  BY <2>1, OrderFields DEF OrderInv, OrderSound, Open
<1>6. /\ orders'[id].owner = u /\ orders'[id].book = b /\ orders'[id].outcome = outcome
      /\ orders'[id].side = side /\ orders'[id].price = price
      /\ orders'[id].state = IF taken = quantity THEN "filled" ELSE "open"
  BY <1>4 DEF NewRow
<1>7. \A k \in DOMAIN orders :
        /\ SameTerms(orders'[k], orders[k])
        /\ orders'[k].state = "open" => Open(k)
  <2> TAKE k \in DOMAIN orders
  <2>1. CASE k \in makers /\ filled[k] > 0
    <3>1. orders'[k] = FilledRow(orders[k], filled[k]) /\ Open(k)
      BY <1>4, <1>5, <2>1
    <3>2. QED  BY <1>3, <2>1, <3>1, FilledFields
  <2>2. CASE ~ (k \in makers /\ filled[k] > 0)
    <3>1. orders'[k] = orders[k]
      BY <1>4, <2>2
    <3>2. QED  BY <3>1 DEF SameTerms, Open
  <2>3. QED  BY <2>1, <2>2
<1>8. ASSUME orders'[id].state = "open"
      PROVE  \A k \in makers : orders'[k].state # "open"
  <2> TAKE k \in makers
  <2>1. filled[k] = orders[k].remaining /\ filled[k] > 0 /\ filled[k] \in Nat /\ k \in DOMAIN orders
    BY <1>3, <1>5, <1>6, <1>8
  <2>2. orders'[k] = FilledRow(orders[k], filled[k])
    BY <1>4, <2>1
  <2>3. QED  BY <2>1, <2>2, FilledFields
<1>9. QED  BY <1>1, <1>4, <1>6, <1>7, <1>8

\* A step that is not an order entry keeps the table's terms and opens nothing.
LEMMA RestFrame ==
  ASSUME BookInv, OrderInv,
         \/ \E b \in Books : ActivateClob(b) \/ HaltClob(b) \/ TradingCutoff(b)
         \/ \E u \in Users : SetEligibility(u)
         \/ UNCHANGED vars
         \/ \E k \in DOMAIN orders : CancelOrder(k)
         \/ \E b \in Books : CloseResolutionBook(b)
  PROVE  /\ DOMAIN orders' = DOMAIN orders
         /\ \A k \in DOMAIN orders :
              /\ SameTerms(orders'[k], orders[k])
              /\ orders'[k].state = "open" => Open(k)
<1>1. CASE \/ \E b \in Books : ActivateClob(b) \/ HaltClob(b) \/ TradingCutoff(b)
           \/ \E u \in Users : SetEligibility(u)
           \/ UNCHANGED vars
  <2>1. orders' = orders
    BY <1>1, BookSteps
  <2>2. QED  BY <2>1 DEF SameTerms, Open
<1>2. CASE \/ \E k \in DOMAIN orders : CancelOrder(k)
           \/ \E b \in Books : CloseResolutionBook(b)
  <2>1. PICK S \in SUBSET {k \in DOMAIN orders : Open(k)} : ReleaseOrders(S)
    BY <1>2, ReleaseSteps
  <2>2. S \in SUBSET DOMAIN orders
    OBVIOUS
  <2>3. /\ DOMAIN orders' = DOMAIN orders
        /\ \A k \in DOMAIN orders :
             /\ SameTerms(orders'[k], orders[k])
             /\ orders'[k].state = IF k \in S THEN "cancelled" ELSE orders[k].state
    BY <2>1, <2>2, ReleasedRows
  <2>4. \A k \in DOMAIN orders : orders'[k].state = "open" => Open(k)
    BY <2>3 DEF Open
  <2>5. QED  BY <2>3, <2>4
<1>3. QED  BY <1>1, <1>2

\* The row of a submitted order has the terms it was submitted with.
LEMMA SubmitTerms ==
  ASSUME BookInv, OrderInv,
         NEW u \in Users, NEW b \in Books, NEW outcome \in Outcomes, NEW side \in OrderSide,
         NEW price \in Prices, NEW quantity \in Quantities, NEW id \in OrderIds,
         NextId(id), SubmitOrder(u, b, outcome, side, price, quantity, id)
  PROVE  /\ orders'[id].owner = u /\ orders'[id].book = b /\ orders'[id].outcome = outcome
         /\ orders'[id].side = side /\ orders'[id].price = price
<1>1. /\ id \notin DOMAIN orders /\ DOMAIN orders' = DOMAIN orders \cup {id}
      /\ orders'[id].owner = u /\ orders'[id].book = b /\ orders'[id].outcome = outcome
      /\ orders'[id].side = side /\ orders'[id].price = price
      /\ \A k \in DOMAIN orders :
           /\ SameTerms(orders'[k], orders[k])
           /\ orders'[k].state = "open" => Open(k)
      /\ orders'[id].state = "open" =>
           \A k \in Makers(u, b, outcome, side, price) : orders'[k].state # "open"
  BY SubmitFrame, SMTT(60)
<1>2. QED  BY <1>1

\* No step leaves two crossing orders of different owners open.
LEMMA NoCrossedStep ==
  ASSUME BookInv, OrderInv, NoCrossedBook, [Next]_vars
  PROVE  NoCrossedBook'
<1>1. CASE \/ \E b \in Books : ActivateClob(b) \/ HaltClob(b) \/ TradingCutoff(b)
           \/ \E u \in Users : SetEligibility(u)
           \/ UNCHANGED vars
           \/ \E k \in DOMAIN orders : CancelOrder(k)
           \/ \E b \in Books : CloseResolutionBook(b)
  <2>1. /\ DOMAIN orders' = DOMAIN orders
        /\ \A k \in DOMAIN orders :
             /\ SameTerms(orders'[k], orders[k])
             /\ orders'[k].state = "open" => Open(k)
    BY <1>1, RestFrame
  <2>2. QED  BY <2>1 DEF NoCrossedBook, SameTerms, Open
<1>2. ASSUME NEW u \in Users, NEW b \in Books, NEW outcome \in Outcomes, NEW side \in OrderSide,
             NEW price \in Prices, NEW quantity \in Quantities, NEW id \in OrderIds,
             NextId(id), SubmitOrder(u, b, outcome, side, price, quantity, id)
      PROVE  NoCrossedBook'
  <2>1. /\ id \notin DOMAIN orders /\ DOMAIN orders' = DOMAIN orders \cup {id}
        /\ orders'[id].owner = u /\ orders'[id].book = b /\ orders'[id].outcome = outcome
        /\ orders'[id].side = side /\ orders'[id].price = price
        /\ \A k \in DOMAIN orders :
             /\ SameTerms(orders'[k], orders[k])
             /\ orders'[k].state = "open" => Open(k)
        /\ orders'[id].state = "open" =>
             \A k \in Makers(u, b, outcome, side, price) : orders'[k].state # "open"
    BY <1>2, SubmitFrame
  <2>2. \A k \in DOMAIN orders :
          ~ /\ orders'[id].state = "open" /\ orders'[k].state = "open"
            /\ orders'[k].book = b /\ orders'[k].outcome = outcome
            /\ orders'[k].side # side /\ orders'[k].owner # u
            /\ Crosses(side, price, orders'[k].price)
    <3> SUFFICES ASSUME NEW k \in DOMAIN orders,
                        orders'[id].state = "open", orders'[k].state = "open",
                        orders'[k].book = b, orders'[k].outcome = outcome,
                        orders'[k].side # side, orders'[k].owner # u,
                        Crosses(side, price, orders'[k].price)
                 PROVE  FALSE
      OBVIOUS
    <3>1. SameTerms(orders'[k], orders[k]) /\ Open(k)
      BY <2>1
    <3>2. k \in Makers(u, b, outcome, side, price)
      BY <3>1 DEF Makers, SameTerms
    <3>3. QED  BY <2>1, <3>2
  <2>3. price \in Price /\ \A k \in DOMAIN orders : orders'[k].price \in Price
    BY <2>1, OrderFields, PricesAssumption DEF SameTerms
  <2>4. ASSUME NEW j \in DOMAIN orders', NEW k \in DOMAIN orders',
               orders'[j].state = "open", orders'[k].state = "open",
               orders'[j].book = orders'[k].book, orders'[j].outcome = orders'[k].outcome,
               orders'[j].side = "buy", orders'[k].side = "sell",
               orders'[j].owner # orders'[k].owner, orders'[j].price >= orders'[k].price
        PROVE  FALSE
    <3>1. CASE j \in DOMAIN orders /\ k \in DOMAIN orders
      BY <2>1, <2>4, <3>1 DEF NoCrossedBook, SameTerms, Open
    <3>2. CASE j = id /\ k \in DOMAIN orders
      <4>1. Crosses(side, price, orders'[k].price)
        BY <2>1, <2>4, <3>2 DEF Crosses
      <4>2. QED  BY <2>1, <2>2, <2>4, <3>2, <4>1
    <3>3. CASE k = id /\ j \in DOMAIN orders
      <4>1. price \in Int /\ orders'[j].price \in Int /\ side = "sell" /\ price <= orders'[j].price
        BY <2>1, <2>3, <2>4, <3>3, PriceInt
      <4>2. Crosses(side, price, orders'[j].price)
        BY <4>1 DEF Crosses
      <4>3. QED  BY <2>1, <2>2, <2>4, <3>3, <4>2
    <3>4. CASE j = id /\ k = id
      BY <2>4, <3>4
    <3>5. QED  BY <2>1, <3>1, <3>2, <3>3, <3>4
  <2>5. QED  BY <2>4 DEF NoCrossedBook, Open
<1>3. QED  BY <1>1, <1>2, StepKinds

\* After every transaction no two open orders of different owners could trade
\* with each other: the matching loop of submitOrder never stops early.
THEOREM NoCross == Spec => []NoCrossedBook
<1>1. Init => NoCrossedBook
  BY DEF Init, NoCrossedBook
<1>2. BookInv /\ OrderInv /\ NoCrossedBook /\ [Next]_vars => NoCrossedBook'
  BY NoCrossedStep
<1>3. QED  BY <1>1, <1>2, Layer1, PTL DEF Spec

\* The collateral reserved per contract at an order's limit covers the cost of a
\* contract at every price the limit admits, both rounded as the code rounds
\* them, for every contract unit and fee.
THEOREM ReservationCovers == Spec => []ExecutionWithinReservation
<1>1. ASSUME OrderInv PROVE ExecutionWithinReservation
  <2> SUFFICES ASSUME NEW k \in DOMAIN orders, NEW p \in Prices, WithinPrecision(p),
                      Crosses(orders[k].side, orders[k].price, p)
               PROVE  FillCost(orders[k].side, 1, p) <= orders[k].reservedPerShare
    BY DEF ExecutionWithinReservation
  <2>1. /\ orders[k].price \in Price /\ orders[k].side \in OrderSide /\ p \in Price
        /\ WithinPrecision(orders[k].price)
        /\ orders[k].reservedPerShare = UnitCost(orders[k].side, orders[k].price)
    BY <1>1, OrderFields, PricesAssumption DEF OrderInv, OrderSound
  <2>2. UnitCost(orders[k].side, p) <= UnitCost(orders[k].side, orders[k].price)
    BY <2>1, LimitCoversFill
  <2>3. FillCost(orders[k].side, 1, p) = 1 * UnitCost(orders[k].side, p)
    BY <2>1, CostIsUnits
  <2>4. UnitCost(orders[k].side, p) \in Nat
    BY <2>1, UnitCostType
  <2>5. QED  BY <2>1, <2>2, <2>3, <2>4
<1>2. QED  BY <1>1, Layer1, PTL

-------------------------------------------------------------------------------
(* Price-time priority.                                                      *)

\* Only an order entry adds fills, one for every maker it matched.
LEMMA RestFills ==
  ASSUME \/ \E b \in Books : ActivateClob(b) \/ HaltClob(b) \/ TradingCutoff(b)
         \/ \E u \in Users : SetEligibility(u)
         \/ UNCHANGED vars
         \/ \E k \in DOMAIN orders : CancelOrder(k)
         \/ \E b \in Books : CloseResolutionBook(b)
  PROVE  fills' = fills /\ escrow' = escrow /\ fees' = fees
BY DEF ActivateClob, HaltClob, TradingCutoff, SetEligibility, vars, CancelOrder,
       CloseResolutionBook, ReleaseOrders, ledger

\* The new fills of an order entry.
LEMMA NewFills ==
  ASSUME NEW u, NEW b, NEW outcome, NEW side, NEW price, NEW quantity, NEW id,
         SubmitOrder(u, b, outcome, side, price, quantity, id),
         NEW makers, makers = Makers(u, b, outcome, side, price),
         NEW filled, filled = MatchPriceTime(side, quantity, orders, makers)
  PROVE  fills' = fills \cup
           {FillRow(m, id, filled[m],
                    next[b] + 1 + Cardinality(AheadOf(side, orders, {n \in makers : filled[n] > 0}, m)))
            : m \in {n \in makers : filled[n] > 0}}
BY DEF SubmitOrder

\* A submission that fills a maker leaves nothing of any that ranks before it.
LEMMA PriorityStep ==
  ASSUME BookInv, OrderInv,
         NEW u \in Users, NEW b \in Books, NEW outcome \in Outcomes, NEW side \in OrderSide,
         NEW price \in Prices, NEW quantity \in Quantities, NEW id \in OrderIds,
         NextId(id), SubmitOrder(u, b, outcome, side, price, quantity, id),
         NEW m \in Makers(u, b, outcome, side, price),
         MatchPriceTime(side, quantity, orders, Makers(u, b, outcome, side, price))[m] > 0,
         NEW k \in DOMAIN orders, Open(k), orders[k].owner # u, orders[k].side = orders[m].side,
         orders[k].book = b, orders[k].outcome = outcome,
         \/ IF side = "buy" THEN orders[k].price < orders[m].price
                           ELSE orders[k].price > orders[m].price
         \/ orders[k].price = orders[m].price /\ orders[k].seq < orders[m].seq
  PROVE  orders'[k].remaining = 0
<1>1. PICK makers : makers = Makers(u, b, outcome, side, price)
  OBVIOUS
<1>2. PICK filled : filled = MatchPriceTime(side, quantity, orders, makers)
  OBVIOUS
<1>3. /\ m \in makers /\ m \in DOMAIN orders
      /\ orders[m].side # side /\ Crosses(side, price, orders[m].price) /\ filled[m] > 0
  BY <1>1, <1>2 DEF Makers
<1>4. /\ price \in Int /\ orders[m].price \in Int /\ orders[k].price \in Int
      /\ orders[m].seq \in Int /\ orders[k].seq \in Int
  BY <1>3, OrderFields, PriceInt, PricesAssumption
<1>5. Crosses(side, price, orders[k].price)
  BY <1>3, <1>4 DEF Crosses
<1>6. k \in makers
  BY <1>1, <1>3, <1>5 DEF Makers
<1>7. Before(side, orders[k], orders[m])
  BY <1>4 DEF Before, Crosses
<1>8. Rankable(orders, makers)
  BY <1>1, MakersRankable
<1>9. filled[k] = orders[k].remaining
  <2>1. quantity \in Nat
    BY QuantitiesAssumption
  <2>2. QED  BY <1>2, <1>3, <1>6, <1>7, <1>8, <2>1, MatchPriority
<1>10. orders[k].remaining \in Nat /\ orders[k].remaining > 0
  BY OrderFields DEF OrderInv, OrderSound, Open
<1> DEFINE taken == SumFunctionOnSet(filled, makers)
<1>11. /\ WithinPrecision(price) /\ price \in Price
       /\ id \notin DOMAIN orders /\ DOMAIN orders' = DOMAIN orders \cup {id}
       /\ orders'[id] = NewRow(u, b, outcome, side, price, quantity, taken)
       /\ \A j \in makers : filled[j] > 0 => orders'[j] = FilledRow(orders[j], filled[j])
       /\ \A j \in DOMAIN orders : ~ (j \in makers /\ filled[j] > 0) => orders'[j] = orders[j]
       /\ orders' = [j \in DOMAIN orders' |-> orders'[j]]
  BY <1>1, <1>2, OrdersSubmitted
<1>12. orders'[k] = FilledRow(orders[k], filled[k])
  BY <1>6, <1>9, <1>10, <1>11
<1>13. orders'[k].remaining = orders[k].remaining - filled[k]
  BY <1>9, <1>10, <1>12, FilledFields
<1>14. QED  BY <1>9, <1>10, <1>13

\* When an order entry fills a maker, every order that ranks before that maker
\* and could have traded is exhausted by the same entry.
THEOREM Priority == Spec => PriceTimePriority
<1> DEFINE respected ==
      \A f \in fills' \ fills :
        LET t == orders'[f.taker]
            m == orders[f.maker]
            outranks(o) == \/ IF t.side = "buy" THEN o.price < m.price ELSE o.price > m.price
                           \/ o.price = m.price /\ o.seq < m.seq
        IN  \A k \in DOMAIN orders :
              /\ Open(k) /\ orders[k].owner # t.owner /\ orders[k].side = m.side
              /\ orders[k].book = t.book /\ orders[k].outcome = t.outcome
              /\ outranks(orders[k])
              => orders'[k].remaining = 0
<1>1. ASSUME BookInv, OrderInv, [Next]_vars PROVE respected
  <2>1. CASE \/ \E b \in Books : ActivateClob(b) \/ HaltClob(b) \/ TradingCutoff(b)
             \/ \E u \in Users : SetEligibility(u)
             \/ UNCHANGED vars
             \/ \E k \in DOMAIN orders : CancelOrder(k)
             \/ \E b \in Books : CloseResolutionBook(b)
    BY <2>1, RestFills
  <2>2. ASSUME NEW u \in Users, NEW b \in Books, NEW outcome \in Outcomes,
               NEW side \in OrderSide, NEW price \in Prices, NEW quantity \in Quantities,
               NEW id \in OrderIds,
               NextId(id), SubmitOrder(u, b, outcome, side, price, quantity, id)
        PROVE  respected
    <3>1. PICK makers : makers = Makers(u, b, outcome, side, price)
      OBVIOUS
    <3>2. PICK filled : filled = MatchPriceTime(side, quantity, orders, makers)
      OBVIOUS
    <3> HIDE DEF respected
    <3>3. \A f \in fills' \ fills : f.taker = id /\ f.maker \in makers /\ filled[f.maker] > 0
      <4>1. fills' = fills \cup
              {FillRow(m, id, filled[m],
                    next[b] + 1 + Cardinality(AheadOf(side, orders, {n \in makers : filled[n] > 0}, m)))
               : m \in {n \in makers : filled[n] > 0}}
        BY <2>2, <3>1, <3>2, NewFills
      <4>2. ASSUME NEW f \in fills' \ fills
            PROVE  f.taker = id /\ f.maker \in makers /\ filled[f.maker] > 0
        <5>1. PICK m \in {n \in makers : filled[n] > 0} :
                f = FillRow(m, id, filled[m],
                      next[b] + 1 + Cardinality(AheadOf(side, orders, {n \in makers : filled[n] > 0}, m)))
          BY <4>1
        <5>2. f.taker = id /\ f.maker = m
          BY <5>1 DEF FillRow
        <5>3. QED  BY <5>2
      <4>3. QED  BY <4>2
    <3>4. /\ orders'[id].owner = u /\ orders'[id].book = b /\ orders'[id].outcome = outcome
          /\ orders'[id].side = side /\ orders'[id].price = price
      BY <1>1, <2>2, SubmitTerms
    <3>5. ASSUME NEW f \in fills' \ fills, NEW k \in DOMAIN orders, Open(k),
                 orders[k].owner # orders'[f.taker].owner,
                 orders[k].side = orders[f.maker].side,
                 orders[k].book = orders'[f.taker].book,
                 orders[k].outcome = orders'[f.taker].outcome,
                 \/ IF orders'[f.taker].side = "buy"
                    THEN orders[k].price < orders[f.maker].price
                    ELSE orders[k].price > orders[f.maker].price
                 \/ /\ orders[k].price = orders[f.maker].price
                    /\ orders[k].seq < orders[f.maker].seq
          PROVE  orders'[k].remaining = 0
      <4>1. f.taker = id /\ f.maker \in makers /\ filled[f.maker] > 0
        BY <3>3
      <4>2. QED  BY <1>1, <2>2, <3>1, <3>2, <3>4, <3>5, <4>1, PriorityStep
    <3>6. QED  BY <3>5 DEF respected
  <2>3. QED  BY <1>1, <2>1, <2>2, StepKinds
<1>2. BookInv /\ OrderInv /\ [Next]_vars => [respected]_vars
  BY <1>1
<1> HIDE DEF respected
<1>3. Spec => [][respected]_vars
  BY <1>2, Layer1, PTL DEF Spec
<1>4. QED  BY <1>3 DEF PriceTimePriority, respected

-------------------------------------------------------------------------------
(***************************************************************************)
(* The money of the central limit order book, for every instance: the      *)
(* reservation behind each order, the reserved bucket of each user, the    *)
(* types of the ledger, and the market escrow behind the fills.            *)
(*                                                                         *)
(* Each layer is invariant given the layers before it; the first, books    *)
(* and order table, is Layer1.                                             *)
(***************************************************************************)
(* Layer 2: the reservation behind each order.                               *)

ReservationSound(r, o) ==
  /\ r \in Reservation
  /\ r.amount = o.quantity * o.reservedPerShare
  /\ r.amount - r.consumed - r.released
       = IF o.state = "open" THEN o.remaining * o.reservedPerShare ELSE 0
  /\ r.state = CASE o.state = "filled"    -> "consumed"
                 [] o.state = "cancelled" -> "released"
                 [] o.state = "open" /\ o.remaining = o.quantity -> "held"
                 [] OTHER -> "partially_consumed"

ReservationInv ==
  /\ reservations = [k \in DOMAIN orders |-> reservations[k]]
  /\ \A k \in DOMAIN orders : ReservationSound(reservations[k], orders[k])

\* A product by a positive number determines the other factor.
LEMMA ProductCancels ==
  ASSUME NEW a \in Nat, NEW b \in Nat, NEW c \in Nat, c > 0, a * c = b * c
  PROVE  a = b
<1>1. ASSUME NEW x \in Nat, NEW y \in Nat, x < y PROVE x * c < y * c
  <2>1. (y - x) * c >= c
    <3>1. PICK d \in Nat : y = x + 1 + d
      <4>1. y - x - 1 \in Nat /\ y = x + 1 + (y - x - 1)
        BY <1>1
      <4>2. QED  BY <4>1
    <3>2. y - x = 1 + d /\ (1 + d) * c = c + d * c /\ d * c >= 0
      BY <3>1
    <3>3. QED  BY <3>2
  <2>2. y * c = x * c + (y - x) * c
    BY <1>1
  <2>3. QED  BY <1>1, <2>1, <2>2
<1>2. ~ (a < b) /\ ~ (b < a)
  BY <1>1
<1>3. QED  BY <1>2

\* An order row as the proofs below need it.
SoundRow(o) ==
  /\ o.quantity \in Nat /\ o.remaining \in Nat /\ o.reservedPerShare \in Nat
  /\ o.reservedPerShare > 0 /\ o.quantity > 0 /\ o.remaining <= o.quantity
  /\ o.state \in OrderState /\ o.state = "open" => o.remaining > 0

\* OrderInv, one order at a time.
LEMMA RowsSound == ASSUME OrderInv, NEW k \in DOMAIN orders PROVE SoundRow(orders[k])
<1>1. /\ orders[k].price \in Price /\ WithinPrecision(orders[k].price)
      /\ orders[k].reservedPerShare = UnitCost(orders[k].side, orders[k].price)
      /\ orders[k].quantity > 0 /\ orders[k].remaining <= orders[k].quantity
      /\ orders[k].state = "open" => orders[k].remaining > 0
  BY OrderFields DEF OrderInv, OrderSound
<1>2. orders[k].reservedPerShare > 0
  BY <1>1, UnitCostType
<1>3. QED  BY <1>1, <1>2, OrderFields DEF SoundRow

\* Charging a fill of q contracts to the reservation of an open order.
LEMMA ChargeSound ==
  ASSUME NEW r, NEW o, ReservationSound(r, o), SoundRow(o), o.state = "open",
         NEW q \in Nat, q > 0, q <= o.remaining,
         NEW cost \in Nat, cost <= q * o.reservedPerShare,
         NEW p, p.quantity = o.quantity, p.reservedPerShare = o.reservedPerShare,
         p.remaining = o.remaining - q,
         p.state = IF o.remaining = q THEN "filled" ELSE "open"
  PROVE  ReservationSound(Charge(r, q * o.reservedPerShare, cost), p)
<1> DEFINE held == q * o.reservedPerShare
           whole == o.remaining * o.reservedPerShare
           rest == (o.remaining - q) * o.reservedPerShare
           s == Charge(r, held, cost)
<1>1. /\ r \in Reservation /\ r.amount \in Nat /\ r.consumed \in Nat /\ r.released \in Nat
      /\ r.amount = o.quantity * o.reservedPerShare
      /\ r.amount - r.consumed - r.released = whole
  BY DEF ReservationSound, Reservation
<1>2. /\ held \in Nat /\ cost <= held /\ whole \in Nat
      /\ rest = whole - held
  BY DEF SoundRow
<1>3. held = whole => q = o.remaining
  BY ProductCancels DEF SoundRow
<1> HIDE DEF held, whole, rest
<1>4. s = [r EXCEPT !.consumed = r.consumed + cost, !.released = r.released + (held - cost),
                    !.state = IF r.consumed + cost + (r.released + (held - cost)) = r.amount
                              THEN "consumed" ELSE "partially_consumed"]
  BY DEF Charge
<1> HIDE DEF s
<1>5. /\ s.amount = r.amount /\ s.consumed = r.consumed + cost
      /\ s.released = r.released + (held - cost)
      /\ s.state = IF r.consumed + cost + (r.released + (held - cost)) = r.amount
                   THEN "consumed" ELSE "partially_consumed"
      /\ s \in Reservation
  <2> DEFINE c == r.consumed + cost
             l == r.released + (held - cost)
             t == IF c + l = r.amount THEN "consumed" ELSE "partially_consumed"
  <2>1. c \in Nat /\ l \in Nat /\ t \in ReservationState
    BY <1>1, <1>2 DEF ReservationState
  <2>2. s = [r EXCEPT !.consumed = c, !.released = l, !.state = t]
    BY <1>4
  <2> HIDE DEF c, l, t
  <2>3. s \in Reservation /\ s.amount = r.amount /\ s.consumed = c /\ s.released = l /\ s.state = t
    BY <1>1, <2>1, <2>2 DEF Reservation
  <2>4. QED  BY <2>3 DEF c, l, t
<1>6. /\ s.amount - s.consumed - s.released = rest
      /\ s.state = IF held = whole THEN "consumed" ELSE "partially_consumed"
  BY <1>1, <1>2, <1>5
<1>7. CASE o.remaining = q
  <2>1. held = whole /\ rest = 0
    BY <1>2, <1>7 DEF held, whole
  <2>2. p.state = "filled"
    BY <1>7
  <2>3. ReservationSound(s, p)
    BY <1>1, <1>5, <1>6, <2>1, <2>2 DEF ReservationSound
  <2>4. QED  BY <2>3 DEF s, held
<1>8. CASE o.remaining # q
  <2>1. p.remaining # p.quantity /\ p.state = "open"
    BY <1>8 DEF SoundRow
  <2>2. held # whole /\ rest = p.remaining * p.reservedPerShare
    BY <1>3, <1>8 DEF rest
  <2>3. ReservationSound(s, p)
    BY <1>1, <1>5, <1>6, <2>1, <2>2 DEF ReservationSound
  <2>4. QED  BY <2>3 DEF s, held
<1>9. QED  BY <1>7, <1>8

\* What the fills of an incoming order are held for and cost, maker by maker.
MakerHeld(makers, filled) == [m \in makers |-> filled[m] * orders[m].reservedPerShare]
MakerCost(makers, filled) == [m \in makers |-> FillCost(orders[m].side, filled[m], orders[m].price)]
TakerHeld(makers, filled, unit) == [m \in makers |-> filled[m] * unit]
TakerCost(makers, filled, side) == [m \in makers |-> FillCost(side, filled[m], orders[m].price)]

\* A maker pays exactly what was held for it, a taker at most that.
LEMMA FillMoney ==
  ASSUME OrderInv, NEW u, NEW b, NEW outcome, NEW side \in OrderSide,
         NEW price \in Price, WithinPrecision(price),
         NEW makers, makers = Makers(u, b, outcome, side, price),
         NEW filled, \A m \in makers : filled[m] \in Nat
  PROVE  \A m \in makers :
           /\ MakerHeld(makers, filled)[m] \in Nat
           /\ MakerCost(makers, filled)[m] = MakerHeld(makers, filled)[m]
           /\ TakerHeld(makers, filled, UnitCost(side, price))[m] \in Nat
           /\ TakerCost(makers, filled, side)[m] \in Nat
           /\ TakerCost(makers, filled, side)[m] <= TakerHeld(makers, filled, UnitCost(side, price))[m]
<1> TAKE m \in makers
<1>1. m \in DOMAIN orders /\ Crosses(side, price, orders[m].price) /\ filled[m] \in Nat
  BY DEF Makers
<1>2. /\ orders[m].price \in Price /\ WithinPrecision(orders[m].price)
      /\ orders[m].reservedPerShare = UnitCost(orders[m].side, orders[m].price)
  BY <1>1, OrderFields DEF OrderInv, OrderSound
<1> DEFINE unit == UnitCost(side, price)
           best == UnitCost(side, orders[m].price)
           own == UnitCost(orders[m].side, orders[m].price)
<1>3. unit \in Nat /\ best \in Nat /\ own \in Nat /\ best <= unit
  BY <1>1, <1>2, UnitCostType, LimitCoversFill
<1>4. /\ FillCost(orders[m].side, filled[m], orders[m].price) = filled[m] * own
      /\ FillCost(side, filled[m], orders[m].price) = filled[m] * best
  BY <1>1, <1>2, CostIsUnits
<1> HIDE DEF unit, best, own
<1>5. /\ filled[m] * own \in Nat /\ filled[m] * best \in Nat /\ filled[m] * unit \in Nat
      /\ filled[m] * best <= filled[m] * unit
  BY <1>1, <1>3, ProductMonotone
<1>6. /\ MakerHeld(makers, filled)[m] = filled[m] * own
      /\ MakerCost(makers, filled)[m] = filled[m] * own
      /\ TakerHeld(makers, filled, unit)[m] = filled[m] * unit
      /\ TakerCost(makers, filled, side)[m] = filled[m] * best
  BY <1>2, <1>4 DEF MakerHeld, MakerCost, TakerHeld, TakerCost, own
<1>7. QED  BY <1>5, <1>6 DEF unit

\* The totals over the makers.
Totals(makers, filled, taken, unit, side, quantity) ==
  /\ IsFiniteSet(makers) /\ taken \in Nat /\ taken <= quantity /\ unit \in Nat
  /\ SumFunctionOnSet(TakerHeld(makers, filled, unit), makers) = taken * unit
  /\ SumFunctionOnSet(TakerCost(makers, filled, side), makers) \in Nat
  /\ SumFunctionOnSet(TakerCost(makers, filled, side), makers) <= taken * unit
  /\ taken = 0 <=> \A m \in makers : ~ (filled[m] > 0)

\* What a match takes in all: at most the quantity, and of no maker more than it has.
LEMMA FillTotals ==
  ASSUME OrderInv, NEW u, NEW b, NEW outcome, NEW side \in OrderSide,
         NEW price \in Price, WithinPrecision(price), NEW quantity \in Quantities,
         NEW makers, makers = Makers(u, b, outcome, side, price),
         NEW filled, filled = MatchPriceTime(side, quantity, orders, makers),
         NEW taken, taken = SumFunctionOnSet(filled, makers),
         NEW unit, unit = UnitCost(side, price)
  PROVE  Totals(makers, filled, taken, unit, side, quantity)
<1>1. /\ makers \in SUBSET DOMAIN orders /\ IsFiniteSet(makers)
      /\ \A m \in makers : filled[m] \in Nat
      /\ taken \in Nat /\ taken <= quantity
  BY SubmitMatch
<1>2. unit \in Nat
  BY UnitCostType
<1> DEFINE held == TakerHeld(makers, filled, unit)
           cost == TakerCost(makers, filled, side)
<1>3. \A m \in makers : held[m] \in Nat /\ cost[m] \in Nat /\ cost[m] <= held[m]
  BY <1>1, FillMoney
<1>4. \A m \in makers : filled[m] \in Int /\ held[m] = unit * filled[m]
  BY <1>1, <1>2 DEF TakerHeld
<1> HIDE DEF held, cost
<1>5. SumFunctionOnSet(held, makers) = unit * taken
  BY <1>1, <1>2, <1>4, SumScale
<1>6. SumFunctionOnSet(cost, makers) \in Nat
  BY <1>1, <1>3, SumNat
<1>7. SumFunctionOnSet(cost, makers) <= SumFunctionOnSet(held, makers)
  <2>1. \A m \in makers : cost[m] \in Int /\ held[m] \in Int /\ cost[m] <= held[m]
    BY <1>3
  <2>2. QED  BY <1>1, <2>1, SumLeq
<1>8. taken = 0 <=> \A m \in makers : ~ (filled[m] > 0)
  <2>1. ASSUME NEW m \in makers, filled[m] > 0 PROVE taken # 0
    <3>1. filled[m] <= taken
      BY <1>1, SumBound
    <3>2. QED  BY <1>1, <2>1, <3>1
  <2>2. ASSUME \A m \in makers : ~ (filled[m] > 0) PROVE taken = 0
    <3>1. \A m \in makers : filled[m] = 0
      BY <1>1, <2>2
    <3>2. QED  BY <1>1, <3>1, SumZero
  <2>3. QED  BY <2>1, <2>2
<1>9. taken * unit = unit * taken
  BY <1>1, <1>2
<1>10. QED  BY <1>1, <1>2, <1>5, <1>6, <1>7, <1>8, <1>9 DEF held, cost, Totals

\* What an incoming order does to the reservations.
FreshReservation(quantity, unit) ==
  [amount |-> quantity * unit, consumed |-> 0, released |-> 0, state |-> "held"]

SubmittedReservations(makers, filled, side, price, quantity, id) ==
  LET required == ReservationRequired(side, quantity, price)
      fresh    == [amount |-> required, consumed |-> 0, released |-> 0, state |-> "held"]
  IN  [k \in DOMAIN orders \cup {id} |->
         IF k = id
         THEN IF {m \in makers : filled[m] > 0} = {} THEN fresh
              ELSE Charge(fresh,
                          SumFunctionOnSet(TakerHeld(makers, filled, required \div quantity), makers),
                          SumFunctionOnSet(TakerCost(makers, filled, side), makers))
         ELSE IF k \in {m \in makers : filled[m] > 0}
         THEN Charge(reservations[k], MakerHeld(makers, filled)[k], MakerCost(makers, filled)[k])
         ELSE reservations[k]]

ReservationsAfter(makers, filled, taken, unit, side, quantity, id) ==
  /\ reservations'[id] =
       IF taken = 0 THEN FreshReservation(quantity, unit)
       ELSE Charge(FreshReservation(quantity, unit), taken * unit,
                   SumFunctionOnSet(TakerCost(makers, filled, side), makers))
  /\ \A k \in makers : filled[k] > 0 =>
       reservations'[k] = Charge(reservations[k], filled[k] * orders[k].reservedPerShare,
                                 MakerCost(makers, filled)[k])
  /\ \A k \in DOMAIN orders : ~ (k \in makers /\ filled[k] > 0) =>
       reservations'[k] = reservations[k]
  /\ reservations' = [k \in DOMAIN orders \cup {id} |-> reservations'[k]]

\* The reservations after a submission, row by row.
LEMMA ReservationsSubmitted ==
  ASSUME OrderInv, NEW u, NEW b, NEW outcome, NEW side \in OrderSide,
         NEW price \in Price, WithinPrecision(price), NEW quantity \in Quantities, NEW id,
         SubmitOrder(u, b, outcome, side, price, quantity, id), id \notin DOMAIN orders,
         NEW makers, makers = Makers(u, b, outcome, side, price),
         NEW filled, filled = MatchPriceTime(side, quantity, orders, makers),
         NEW taken, taken = SumFunctionOnSet(filled, makers),
         NEW unit, unit = UnitCost(side, price)
  PROVE  ReservationsAfter(makers, filled, taken, unit, side, quantity, id)
<1>0. /\ SumFunctionOnSet(TakerHeld(makers, filled, unit), makers) = taken * unit
      /\ taken = 0 <=> \A m \in makers : ~ (filled[m] > 0)
  <2>1. Totals(makers, filled, taken, unit, side, quantity)
    BY FillTotals
  <2>2. QED  BY <2>1 DEF Totals
<1> DEFINE required == ReservationRequired(side, quantity, price)
           matched == {m \in makers : filled[m] > 0}
           fresh == [amount |-> required, consumed |-> 0, released |-> 0, state |-> "held"]
           held0 == TakerHeld(makers, filled, required \div quantity)
           cost0 == TakerCost(makers, filled, side)
           charged == Charge(fresh, SumFunctionOnSet(held0, makers), SumFunctionOnSet(cost0, makers))
<1>1. required = quantity * unit /\ required \div quantity = unit
  BY QuantitiesAssumption, CostIsUnits
<1>2. reservations' = [k \in DOMAIN orders \cup {id} |->
           IF k = id THEN IF matched = {} THEN fresh ELSE charged
           ELSE IF k \in matched
           THEN Charge(reservations[k], MakerHeld(makers, filled)[k], MakerCost(makers, filled)[k])
           ELSE reservations[k]]
  <2> DEFINE M == Makers(u, b, outcome, side, price)
             F == MatchPriceTime(side, quantity, orders, M)
  <2>1. reservations' = SubmittedReservations(M, F, side, price, quantity, id)
    BY DEF SubmitOrder, SubmittedReservations, MakerHeld, MakerCost, TakerHeld, TakerCost
  <2>2. M = makers /\ F = filled
    OBVIOUS
  <2> HIDE DEF M, F
  <2>3. reservations' = SubmittedReservations(makers, filled, side, price, quantity, id)
    BY <2>1, <2>2
  <2>4. QED  BY <2>3 DEF SubmittedReservations
<1>3. makers \in SUBSET DOMAIN orders
  BY MakersRankable
<1>4. \A k \in makers : MakerHeld(makers, filled)[k] = filled[k] * orders[k].reservedPerShare
  BY DEF MakerHeld
<1>5. /\ taken = 0 <=> matched = {}
      /\ SumFunctionOnSet(TakerHeld(makers, filled, unit), makers) = taken * unit
  BY <1>0
<1>6. fresh = FreshReservation(quantity, unit)
  BY <1>1 DEF FreshReservation
<1>7. held0 = TakerHeld(makers, filled, unit)
  BY <1>1
<1> HIDE DEF fresh, held0, cost0, required
<1>8. charged = Charge(FreshReservation(quantity, unit), taken * unit, SumFunctionOnSet(cost0, makers))
  BY <1>5, <1>6, <1>7
<1> HIDE DEF charged
<1>9. reservations'[id] = IF matched = {} THEN fresh ELSE charged
  BY <1>2
<1>10. reservations'[id] =
              IF taken = 0 THEN FreshReservation(quantity, unit)
              ELSE Charge(FreshReservation(quantity, unit), taken * unit,
                          SumFunctionOnSet(TakerCost(makers, filled, side), makers))
  BY <1>5, <1>6, <1>8, <1>9 DEF cost0
<1>11. \A k \in makers : filled[k] > 0 =>
              reservations'[k] = Charge(reservations[k], filled[k] * orders[k].reservedPerShare,
                                        MakerCost(makers, filled)[k])
  BY <1>2, <1>3, <1>4
<1>12. \A k \in DOMAIN orders : ~ (k \in makers /\ filled[k] > 0) =>
              reservations'[k] = reservations[k]
  BY <1>2
<1>13. reservations' = [k \in DOMAIN orders \cup {id} |-> reservations'[k]]
  BY <1>2
<1>14. QED  BY <1>10, <1>11, <1>12, <1>13 DEF ReservationsAfter

\* A submission keeps every reservation equal to what its order may cost.
LEMMA ReservationStepSubmit ==
  ASSUME BookInv, OrderInv, ReservationInv,
         NEW u \in Users, NEW b \in Books, NEW outcome \in Outcomes, NEW side \in OrderSide,
         NEW price \in Prices, NEW quantity \in Quantities, NEW id \in OrderIds,
         NextId(id), SubmitOrder(u, b, outcome, side, price, quantity, id)
  PROVE  ReservationInv'
<1>1. PICK makers : makers = Makers(u, b, outcome, side, price)
  OBVIOUS
<1>2. PICK filled : filled = MatchPriceTime(side, quantity, orders, makers)
  OBVIOUS
<1> DEFINE total == SumFunctionOnSet(filled, makers)
<1>3. /\ WithinPrecision(price) /\ price \in Price /\ id \notin DOMAIN orders
      /\ DOMAIN orders' = DOMAIN orders \cup {id}
      /\ orders'[id] = NewRow(u, b, outcome, side, price, quantity, total)
      /\ \A k \in makers : filled[k] > 0 => orders'[k] = FilledRow(orders[k], filled[k])
      /\ \A k \in DOMAIN orders : ~ (k \in makers /\ filled[k] > 0) => orders'[k] = orders[k]
      /\ orders' = [k \in DOMAIN orders' |-> orders'[k]]
  BY <1>1, <1>2, OrdersSubmitted
<1>4. PICK taken : taken = total
  OBVIOUS
<1>5. PICK unit : unit = UnitCost(side, price)
  OBVIOUS
<1>a. /\ WithinPrecision(price) /\ price \in Price /\ id \notin DOMAIN orders
      /\ taken = SumFunctionOnSet(filled, makers)
  BY <1>3, <1>4
<1>b. ReservationsAfter(makers, filled, taken, unit, side, quantity, id)
  BY <1>1, <1>2, <1>a, <1>5, ReservationsSubmitted, SMTT(60)
<1>6. /\ reservations'[id] =
           IF taken = 0 THEN FreshReservation(quantity, unit)
           ELSE Charge(FreshReservation(quantity, unit), taken * unit,
                       SumFunctionOnSet(TakerCost(makers, filled, side), makers))
      /\ \A k \in makers : filled[k] > 0 =>
           reservations'[k] = Charge(reservations[k], filled[k] * orders[k].reservedPerShare,
                                     MakerCost(makers, filled)[k])
      /\ \A k \in DOMAIN orders : ~ (k \in makers /\ filled[k] > 0) =>
           reservations'[k] = reservations[k]
      /\ reservations' = [k \in DOMAIN orders \cup {id} |-> reservations'[k]]
  BY <1>b DEF ReservationsAfter
<1> DEFINE cost0 == SumFunctionOnSet(TakerCost(makers, filled, side), makers)
<1>7. taken \in Nat /\ taken <= quantity /\ unit \in Nat /\ cost0 \in Nat /\ cost0 <= taken * unit
  <2>1. Totals(makers, filled, taken, unit, side, quantity)
    BY <1>1, <1>2, <1>a, <1>5, FillTotals
  <2>2. QED  BY <2>1 DEF Totals
<1>8. quantity \in Nat /\ quantity > 0 /\ unit > 0
  BY <1>3, <1>5, UnitCostType, QuantitiesAssumption
<1>9. /\ makers \in SUBSET DOMAIN orders
      /\ \A m \in makers : filled[m] \in Nat /\ filled[m] <= orders[m].remaining
  BY <1>1, <1>2, SubmitMatch
<1> HIDE DEF total, cost0
<1>10. /\ orders'[id].quantity = quantity /\ orders'[id].remaining = quantity - taken
       /\ orders'[id].reservedPerShare = unit
       /\ orders'[id].state = IF taken = quantity THEN "filled" ELSE "open"
  BY <1>3, <1>4, <1>5 DEF NewRow
<1>11. ReservationSound(reservations'[id], orders'[id])
  <2> DEFINE fresh == FreshReservation(quantity, unit)
             entered == [quantity |-> quantity, remaining |-> quantity,
                         reservedPerShare |-> unit, state |-> "open"]
  <2>1. SoundRow(entered)
    BY <1>7, <1>8 DEF SoundRow, OrderState
  <2>2. ReservationSound(fresh, entered)
    <3>1. quantity * unit \in Nat
      BY <1>7, <1>8
    <3>2. QED  BY <3>1 DEF ReservationSound, FreshReservation, Reservation, ReservationState
  <2>3. CASE taken = 0
    <3>1. orders'[id].remaining = quantity /\ orders'[id].state = "open"
      BY <1>8, <1>10, <2>3
    <3>2. reservations'[id] = fresh
      BY <1>6, <2>3
    <3> HIDE DEF fresh
    <3>3. QED  BY <1>10, <2>2, <3>1, <3>2 DEF ReservationSound
  <2>4. CASE taken # 0
    <3>1. reservations'[id] = Charge(fresh, taken * entered.reservedPerShare, cost0)
      BY <1>6, <2>4 DEF cost0
    <3>2. /\ taken \in Nat /\ taken > 0 /\ taken <= entered.remaining
          /\ cost0 \in Nat /\ cost0 <= taken * entered.reservedPerShare
          /\ entered.state = "open"
          /\ orders'[id].quantity = entered.quantity
          /\ orders'[id].reservedPerShare = entered.reservedPerShare
          /\ orders'[id].remaining = entered.remaining - taken
          /\ orders'[id].state = IF entered.remaining = taken THEN "filled" ELSE "open"
      BY <1>7, <1>10, <2>4
    <3> HIDE DEF fresh, entered
    <3>3. QED  BY <2>1, <2>2, <3>1, <3>2, ChargeSound
  <2>5. QED  BY <2>3, <2>4
<1>12. \A k \in DOMAIN orders : ReservationSound(reservations'[k], orders'[k])
  <2> TAKE k \in DOMAIN orders
  <2>1. ReservationSound(reservations[k], orders[k]) /\ SoundRow(orders[k])
    BY RowsSound DEF ReservationInv
  <2>2. CASE k \in makers /\ filled[k] > 0
    <3> DEFINE q == filled[k]
               cost == MakerCost(makers, filled)[k]
    <3>1. reservations'[k] = Charge(reservations[k], q * orders[k].reservedPerShare, cost)
      BY <1>6, <2>2
    <3>2. MakerHeld(makers, filled)[k] = q * orders[k].reservedPerShare
      BY <2>2 DEF MakerHeld
    <3>3. cost = MakerHeld(makers, filled)[k] /\ MakerHeld(makers, filled)[k] \in Nat
      BY <1>1, <1>3, <1>9, <2>2, FillMoney
    <3>4. cost \in Nat /\ cost <= q * orders[k].reservedPerShare
      BY <3>2, <3>3
    <3>5. /\ SameTerms(orders'[k], orders[k]) /\ orders'[k].remaining = orders[k].remaining - q
          /\ orders'[k].state = IF orders[k].remaining = q THEN "filled" ELSE "open"
      <4>1. orders'[k] = FilledRow(orders[k], q) /\ orders[k] \in Order
        BY <1>3, <2>2, OrderFields
      <4> HIDE DEF q
      <4>2. QED  BY <4>1 DEF FilledRow, SameTerms, Order
    <3>6. Open(k) /\ q \in Nat /\ q > 0 /\ q <= orders[k].remaining
      BY <1>1, <1>9, <2>2 DEF Makers
    <3> HIDE DEF q, cost
    <3>7. QED  BY <2>1, <3>1, <3>4, <3>5, <3>6, ChargeSound DEF SameTerms, Open
  <2>3. CASE ~ (k \in makers /\ filled[k] > 0)
    <3>1. reservations'[k] = reservations[k] /\ orders'[k] = orders[k]
      BY <1>3, <1>6, <2>3
    <3>2. QED  BY <2>1, <3>1
  <2>4. QED  BY <2>2, <2>3
<1>13. /\ DOMAIN orders' = DOMAIN orders \cup {id}
       /\ reservations' = [k \in DOMAIN orders \cup {id} |-> reservations'[k]]
  BY <1>3, <1>6
<1>14. QED  BY <1>11, <1>12, <1>13 DEF ReservationInv

\* So does the release of any set of open orders, by a cancellation or a close.
LEMMA ReservationStepRelease ==
  ASSUME BookInv, OrderInv, ReservationInv,
         NEW S \in SUBSET {k \in DOMAIN orders : Open(k)}, ReleaseOrders(S)
  PROVE  ReservationInv'
<1>1. S \in SUBSET DOMAIN orders /\ \A k \in S : Open(k)
  OBVIOUS
<1>2. /\ DOMAIN orders' = DOMAIN orders
      /\ \A k \in DOMAIN orders :
           /\ SameTerms(orders'[k], orders[k])
           /\ orders'[k].remaining = orders[k].remaining
           /\ orders'[k].state = IF k \in S THEN "cancelled" ELSE orders[k].state
  BY <1>1, ReleasedRows
<1>3. reservations' = [k \in DOMAIN orders |->
           IF k \in S
           THEN [reservations[k] EXCEPT
                   !.released = reservations[k].released + Unmatched(k),
                   !.state = IF reservations[k].consumed + (reservations[k].released + Unmatched(k))
                                  = reservations[k].amount
                             THEN "released" ELSE "release_pending"]
           ELSE reservations[k]]
  BY DEF ReleaseOrders
<1>4. ASSUME NEW k \in DOMAIN orders
      PROVE  ReservationSound(reservations'[k], orders'[k])
  <2>1. ReservationSound(reservations[k], orders[k]) /\ SoundRow(orders[k])
    BY RowsSound DEF ReservationInv
  <2>2. CASE k \in S
    <3> DEFINE r == reservations[k]
               rest == Unmatched(k)
    <3>1. /\ r \in Reservation /\ r.amount \in Nat /\ r.consumed \in Nat /\ r.released \in Nat
          /\ r.amount = orders[k].quantity * orders[k].reservedPerShare
          /\ r.amount - r.consumed - r.released = rest
      BY <1>1, <2>1, <2>2 DEF ReservationSound, Reservation, Unmatched, Open
    <3>2. rest \in Nat
      BY <2>1 DEF Unmatched, SoundRow
    <3>3. r.consumed + (r.released + rest) = r.amount
      <4> HIDE DEF r, rest
      <4>1. QED  BY <3>1, <3>2
    <3>4. reservations'[k] = [r EXCEPT !.released = r.released + rest, !.state = "released"]
      <4>1. reservations'[k] = [r EXCEPT !.released = r.released + rest,
                                  !.state = IF r.consumed + (r.released + rest) = r.amount
                                            THEN "released" ELSE "release_pending"]
        BY <1>3, <2>2
      <4> HIDE DEF r, rest
      <4>2. QED  BY <3>3, <4>1
    <3> HIDE DEF r, rest
    <3>5. /\ reservations'[k] \in Reservation /\ reservations'[k].amount = r.amount
          /\ reservations'[k].consumed = r.consumed
          /\ reservations'[k].released = r.released + rest
          /\ reservations'[k].state = "released"
      <4> DEFINE l == r.released + rest
      <4>1. l \in Nat /\ "released" \in ReservationState
        BY <3>1, <3>2 DEF ReservationState
      <4> HIDE DEF l
      <4>2. reservations'[k] = [r EXCEPT !.released = l, !.state = "released"]
        BY <3>4 DEF l
      <4>3. /\ reservations'[k] \in Reservation /\ reservations'[k].amount = r.amount
            /\ reservations'[k].consumed = r.consumed /\ reservations'[k].released = l
            /\ reservations'[k].state = "released"
        BY <3>1, <4>1, <4>2 DEF Reservation
      <4>4. QED  BY <4>3 DEF l
    <3>6. SameTerms(orders'[k], orders[k]) /\ orders'[k].state = "cancelled"
      BY <1>2, <2>2
    <3>7. QED  BY <3>1, <3>2, <3>5, <3>6 DEF ReservationSound, SameTerms
  <2>3. CASE k \notin S
    <3>1. reservations'[k] = reservations[k]
      BY <1>3, <2>3
    <3>2. /\ SameTerms(orders'[k], orders[k]) /\ orders'[k].remaining = orders[k].remaining
          /\ orders'[k].state = orders[k].state
      BY <1>2, <2>3
    <3>3. QED  BY <2>1, <3>1, <3>2 DEF ReservationSound, SameTerms
  <2>4. QED  BY <2>2, <2>3
<1>5. DOMAIN orders' = DOMAIN orders /\ reservations' = [k \in DOMAIN orders |-> reservations'[k]]
  BY <1>2, <1>3
<1>6. QED  BY <1>4, <1>5 DEF ReservationInv

\* Steps of books and eligibility touch no order and no money.
LEMMA BookStepsMoney ==
  ASSUME \/ \E b \in Books : ActivateClob(b) \/ HaltClob(b) \/ TradingCutoff(b)
         \/ \E u \in Users : SetEligibility(u)
         \/ UNCHANGED vars
  PROVE  /\ orders' = orders /\ reservations' = reservations /\ fills' = fills
         /\ available' = available /\ reserved' = reserved /\ escrow' = escrow /\ fees' = fees
BY DEF ActivateClob, HaltClob, TradingCutoff, SetEligibility, vars, ledger

\* Every step keeps layer 2.
LEMMA ReservationStep ==
  ASSUME BookInv, OrderInv, ReservationInv, [Next]_vars
  PROVE  ReservationInv'
<1>1. CASE \/ \E b \in Books : ActivateClob(b) \/ HaltClob(b) \/ TradingCutoff(b)
           \/ \E u \in Users : SetEligibility(u)
           \/ UNCHANGED vars
  <2>1. orders' = orders /\ reservations' = reservations
    BY <1>1, BookStepsMoney
  <2>2. QED  BY <2>1 DEF ReservationInv
<1>2. CASE \/ \E k \in DOMAIN orders : CancelOrder(k)
           \/ \E b \in Books : CloseResolutionBook(b)
  BY <1>2, ReleaseSteps, ReservationStepRelease
<1>3. ASSUME NEW u \in Users, NEW b \in Books, NEW outcome \in Outcomes, NEW side \in OrderSide,
             NEW price \in Prices, NEW quantity \in Quantities, NEW id \in OrderIds,
             NextId(id), SubmitOrder(u, b, outcome, side, price, quantity, id)
      PROVE  ReservationInv'
  BY <1>3, ReservationStepSubmit
<1>4. QED  BY <1>1, <1>2, <1>3, StepKinds

\* Layer 2: reservations follow orders.
LEMMA Layer2 == Spec => []ReservationInv
<1>1. Init => ReservationInv
  BY DEF Init, ReservationInv
<1>2. BookInv /\ OrderInv /\ ReservationInv /\ [Next]_vars => ReservationInv'
  BY ReservationStep
<1>3. QED  BY <1>1, <1>2, Layer1, PTL DEF Spec

\* The row in collateral_reservations and the order it backs agree at every
\* moment, whatever fills, price improvements and cancellations happened.
THEOREM ReservationsFollow == Spec => []ReservationFollowsOrder
<1>1. ASSUME OrderInv, ReservationInv PROVE ReservationFollowsOrder
  <2>1. \A k \in DOMAIN orders : ReservationSound(reservations[k], orders[k])
    BY <1>1 DEF ReservationInv
  <2>2. QED  BY <2>1 DEF ReservationSound, ReservationFollowsOrder, Open, Holding
<1>2. QED  BY <1>1, Layer1, Layer2, PTL

-------------------------------------------------------------------------------
(* The ledger postings of an order entry.                                    *)

\* The postings as submitOrder makes them...
Postings(makers, filled, side, price, quantity, u) ==
  LET required == ReservationRequired(side, quantity, price)
      held     == MakerHeld(makers, filled)
      cost     == MakerCost(makers, filled)
      allHeld0 == SumFunctionOnSet(TakerHeld(makers, filled, required \div quantity), makers)
      allCost0 == SumFunctionOnSet(TakerCost(makers, filled, side), makers)
  IN  /\ required <= available[u]
      /\ available' = [w \in Users |->
           available[w]
           + OwnedBy(w, makers, [m \in makers |-> Improvement(held[m], cost[m])])
           + (IF w = u THEN Improvement(allHeld0, allCost0) - required ELSE 0)]
      /\ reserved' = [w \in Users |->
           reserved[w] - OwnedBy(w, makers, held)
           + (IF w = u THEN required - allHeld0 ELSE 0)]

\* ... and what they amount to: makers trade at their own price and get nothing
\* back; the taker's reservation, less what matched, stays reserved.
PostingsInUnits(makers, filled, taken, unit, side, quantity, u) ==
  /\ quantity * unit <= available[u]
  /\ available' = [w \in Users |-> available[w]
       + (IF w = u
          THEN taken * unit - SumFunctionOnSet(TakerCost(makers, filled, side), makers) - quantity * unit
          ELSE 0)]
  /\ reserved' = [w \in Users |->
       reserved[w] - OwnedBy(w, makers, MakerHeld(makers, filled))
       + (IF w = u THEN quantity * unit - taken * unit ELSE 0)]

\* The postings of a submission in units of contracts.
LEMMA SubmitPostings ==
  ASSUME OrderInv, available \in [Users -> Nat],
         NEW u, NEW b, NEW outcome, NEW side \in OrderSide,
         NEW price \in Price, WithinPrecision(price), NEW quantity \in Quantities, NEW id,
         SubmitOrder(u, b, outcome, side, price, quantity, id),
         NEW makers, makers = Makers(u, b, outcome, side, price),
         NEW filled, filled = MatchPriceTime(side, quantity, orders, makers),
         NEW taken, taken = SumFunctionOnSet(filled, makers),
         NEW unit, unit = UnitCost(side, price)
  PROVE  PostingsInUnits(makers, filled, taken, unit, side, quantity, u)
<1>1. Postings(makers, filled, side, price, quantity, u)
  <2> DEFINE M == Makers(u, b, outcome, side, price)
             F == MatchPriceTime(side, quantity, orders, M)
  <2>1. Postings(M, F, side, price, quantity, u)
    BY DEF SubmitOrder, SufficientCollateral, Postings, MakerHeld, MakerCost, TakerHeld, TakerCost
  <2>2. M = makers /\ F = filled
    OBVIOUS
  <2> HIDE DEF M, F
  <2>3. QED  BY <2>1, <2>2
<1>2. /\ makers \in SUBSET DOMAIN orders /\ IsFiniteSet(makers)
      /\ \A m \in makers : filled[m] \in Nat
  BY SubmitMatch
<1>3. \A m \in makers :
        /\ MakerHeld(makers, filled)[m] \in Nat
        /\ MakerCost(makers, filled)[m] = MakerHeld(makers, filled)[m]
  BY <1>2, FillMoney
<1>4. /\ taken \in Nat /\ unit \in Nat
      /\ SumFunctionOnSet(TakerHeld(makers, filled, unit), makers) = taken * unit
      /\ SumFunctionOnSet(TakerCost(makers, filled, side), makers) \in Nat
  <2>1. Totals(makers, filled, taken, unit, side, quantity)
    BY FillTotals
  <2>2. QED  BY <2>1 DEF Totals
<1>5. /\ ReservationRequired(side, quantity, price) = quantity * unit
      /\ ReservationRequired(side, quantity, price) \div quantity = unit
  BY QuantitiesAssumption, CostIsUnits
<1> DEFINE gain == [m \in makers |-> Improvement(MakerHeld(makers, filled)[m], MakerCost(makers, filled)[m])]
<1>6. \A m \in makers : gain[m] = 0
  BY <1>3 DEF Improvement
<1> HIDE DEF gain
<1>7. \A w \in Users : OwnedBy(w, makers, gain) = 0
  <2> TAKE w \in Users
  <2> DEFINE T == {k \in makers : orders[k].owner = w}
  <2>1. IsFiniteSet(T) /\ \A m \in T : gain[m] = 0
    BY <1>2, <1>6, FS_Subset
  <2> HIDE DEF T
  <2>2. SumFunctionOnSet(gain, T) = 0
    BY <2>1, SumZero
  <2>3. QED  BY <2>2 DEF OwnedBy, T
<1>8. /\ quantity * unit <= available[u]
      /\ available' = [w \in Users |->
           available[w] + OwnedBy(w, makers, gain)
           + (IF w = u
              THEN Improvement(taken * unit,
                               SumFunctionOnSet(TakerCost(makers, filled, side), makers)) - quantity * unit
              ELSE 0)]
      /\ reserved' = [w \in Users |->
           reserved[w] - OwnedBy(w, makers, MakerHeld(makers, filled))
           + (IF w = u THEN quantity * unit - taken * unit ELSE 0)]
  BY <1>1, <1>4, <1>5 DEF Postings, gain
<1> DEFINE cost0 == SumFunctionOnSet(TakerCost(makers, filled, side), makers)
<1>9. available' = [w \in Users |-> available[w]
        + (IF w = u THEN taken * unit - cost0 - quantity * unit ELSE 0)]
  <2> DEFINE t == taken * unit
             q == quantity * unit
  <2>1. t \in Nat /\ q \in Nat /\ cost0 \in Nat
    BY <1>4, QuantitiesAssumption
  <2>2. available' = [w \in Users |->
           available[w] + OwnedBy(w, makers, gain) + (IF w = u THEN Improvement(t, cost0) - q ELSE 0)]
    BY <1>8
  <2> HIDE DEF t, q, cost0
  <2>3. \A w \in Users :
          available[w] + OwnedBy(w, makers, gain) + (IF w = u THEN Improvement(t, cost0) - q ELSE 0)
            = available[w] + (IF w = u THEN t - cost0 - q ELSE 0)
    BY <1>7, <2>1 DEF Improvement
  <2>4. available' = [w \in Users |-> available[w] + (IF w = u THEN t - cost0 - q ELSE 0)]
    BY <2>2, <2>3
  <2>5. QED  BY <2>4 DEF t, q
<1>10. QED  BY <1>8, <1>9 DEF PostingsInUnits

-------------------------------------------------------------------------------
(* Layer 3: the wallets.                                                     *)

\* What every order holds, and the orders of a user.
Held == [k \in DOMAIN orders |-> IF Open(k) THEN Holding(k) ELSE 0]
Owned(w) == {k \in DOMAIN orders : orders[k].owner = w}

WalletInv ==
  /\ available \in [Users -> Nat]
  /\ reserved = [w \in Users |-> SumFunctionOnSet(Held, Owned(w))]

\* What orders hold are natural numbers, over finite sets.
LEMMA HeldNat ==
  ASSUME OrderInv
  PROVE  /\ \A k \in DOMAIN orders : Held[k] \in Nat
         /\ \A w : IsFiniteSet(Owned(w)) /\ Owned(w) \in SUBSET DOMAIN orders
<1>1. \A k \in DOMAIN orders : Held[k] \in Nat
  BY OrderFields DEF Held, Holding
<1>2. \A w : Owned(w) \in SUBSET DOMAIN orders
  BY DEF Owned
<1>3. \A w : IsFiniteSet(Owned(w))
  BY <1>2, OrdersFinite, FS_Subset
<1>4. QED  BY <1>1, <1>2, <1>3

\* The sum over open orders, as the sum of one function.
LEMMA HeldSum ==
  ASSUME OrderInv, NEW w
  PROVE  SumFunctionOnSet([k \in OpenOf(w) |-> Holding(k)], OpenOf(w))
           = SumFunctionOnSet(Held, Owned(w))
<1> DEFINE f == [k \in OpenOf(w) |-> Holding(k)]
           T == OpenOf(w)
           S == Owned(w)
<1>1. IsFiniteSet(S) /\ S \in SUBSET DOMAIN orders
  BY HeldNat
<1>2. T \in SUBSET S /\ \A k \in S \ T : ~ Open(k)
  BY DEF OpenOf, Owned
<1>3. \A k \in T : f[k] \in Int /\ Held[k] = f[k]
  <2> TAKE k \in T
  <2>1. k \in DOMAIN orders /\ Open(k) /\ f[k] = Holding(k)
    BY DEF OpenOf
  <2>2. Held[k] \in Nat
    BY <2>1, HeldNat
  <2>3. QED  BY <2>1, <2>2 DEF Held
<1>4. \A k \in S \ T : Held[k] = 0
  BY <1>1, <1>2 DEF Held
<1> HIDE DEF f, T, S
<1>5. SumFunctionOnSet(Held, S) = SumFunctionOnSet(f, T)
  BY <1>1, <1>2, <1>3, <1>4, SumRestrict
<1>6. QED  BY <1>5 DEF f, T, S

\* Every item of S loses d on D and nothing elsewhere.
Falls(S, D, d, f, g) ==
  /\ IsFiniteSet(S)
  /\ \A x \in S : f[x] \in Int /\ (x \in D => d[x] \in Int)
  /\ \A x \in S : g[x] = f[x] - (IF x \in D THEN d[x] ELSE 0)

\* A sum of which some terms fall falls by what they lose.
LEMMA SumFall ==
  ASSUME NEW S, NEW D, NEW d, NEW f, NEW g, Falls(S, D, d, f, g)
  PROVE  SumFunctionOnSet(g, S) = SumFunctionOnSet(f, S) - SumFunctionOnSet(d, S \cap D)
<1>0. /\ IsFiniteSet(S)
      /\ \A x \in S : f[x] \in Int /\ (x \in D => d[x] \in Int)
      /\ \A x \in S : g[x] = f[x] - (IF x \in D THEN d[x] ELSE 0)
  BY DEF Falls
<1> DEFINE T == S \cap D
           e == [x \in S |-> IF x \in D THEN d[x] ELSE 0]
<1>1. \A x \in S : g[x] \in Int /\ e[x] \in Int /\ f[x] = g[x] + e[x]
  BY <1>0
<1>2. T \in SUBSET S /\ (\A x \in T : d[x] \in Int /\ e[x] = d[x]) /\ \A x \in S \ T : e[x] = 0
  BY <1>0
<1> HIDE DEF e, T
<1>3. SumFunctionOnSet(f, S) = SumFunctionOnSet(g, S) + SumFunctionOnSet(e, S)
  BY <1>0, <1>1, SumPlus
<1>4. SumFunctionOnSet(e, S) = SumFunctionOnSet(d, T)
  BY <1>0, <1>2, SumRestrict
<1>5. SumFunctionOnSet(g, S) \in Int /\ SumFunctionOnSet(e, S) \in Int
  BY <1>0, <1>1, SumType
<1>6. QED  BY <1>3, <1>4, <1>5 DEF T

\* The wallets when a set of orders is released.
LEMMA WalletStepRelease ==
  ASSUME BookInv, OrderInv, WalletInv,
         NEW S \in SUBSET {k \in DOMAIN orders : Open(k)}, ReleaseOrders(S)
  PROVE  WalletInv'
<1>1. S \in SUBSET DOMAIN orders /\ \A k \in S : Open(k)
  OBVIOUS
<1> DEFINE rest == [k \in S |-> Unmatched(k)]
<1>2. /\ available' = [w \in Users |-> available[w] + OwnedBy(w, S, rest)]
      /\ reserved' = [w \in Users |-> reserved[w] - OwnedBy(w, S, rest)]
  BY DEF ReleaseOrders
<1>3. /\ DOMAIN orders' = DOMAIN orders
      /\ \A k \in DOMAIN orders :
           /\ SameTerms(orders'[k], orders[k])
           /\ orders'[k].remaining = orders[k].remaining
           /\ orders'[k].state = IF k \in S THEN "cancelled" ELSE orders[k].state
  BY <1>1, ReleasedRows
<1>4. \A k \in S : rest[k] = Held[k]
  BY <1>1 DEF Held, Unmatched, Holding
<1>5. \A k \in DOMAIN orders : Held'[k] = Held[k] - (IF k \in S THEN rest[k] ELSE 0)
  <2> TAKE k \in DOMAIN orders
  <2>1. Held[k] \in Nat
    BY HeldNat
  <2>2. Held'[k] = IF k \in S THEN 0 ELSE Held[k]
    BY <1>3 DEF Held, Holding, Open, SameTerms
  <2> HIDE DEF rest
  <2>3. QED  BY <1>4, <2>1, <2>2
<1>6. ASSUME NEW w \in Users
      PROVE  /\ Owned(w)' = Owned(w)
             /\ SumFunctionOnSet(Held', Owned(w))
                  = SumFunctionOnSet(Held, Owned(w)) - OwnedBy(w, S, rest)
             /\ OwnedBy(w, S, rest) \in Nat
  <2>1. Owned(w)' = Owned(w)
    BY <1>3 DEF Owned, SameTerms
  <2> DEFINE T == {k \in S : orders[k].owner = w}
             O == Owned(w)
  <2>2. IsFiniteSet(O) /\ O \in SUBSET DOMAIN orders /\ T = O \cap S /\ T \in SUBSET S
    BY <1>1, HeldNat DEF Owned
  <2>3. IsFiniteSet(T)
    BY <2>2, FS_Subset
  <2>4. \A k \in S : rest[k] \in Nat
    <3> HIDE DEF rest
    <3>1. QED  BY <1>1, <1>4, HeldNat
  <2>5. \A k \in O : Held[k] \in Int
    BY <2>2, HeldNat
  <2> HIDE DEF T, O, rest
  <2>6. SumFunctionOnSet(Held', O) = SumFunctionOnSet(Held, O) - SumFunctionOnSet(rest, T)
    <3> DEFINE h == Held'
               f == Held
    <3>1. \A x \in O : f[x] \in Int /\ (x \in S => rest[x] \in Int)
      BY <2>2, <2>4, <2>5
    <3>2. \A x \in O : h[x] = f[x] - (IF x \in S THEN rest[x] ELSE 0)
      BY <1>5, <2>2
    <3> HIDE DEF h, f
    <3>3. SumFunctionOnSet(h, O) = SumFunctionOnSet(f, O) - SumFunctionOnSet(rest, O \cap S)
      <4>1. Falls(O, S, rest, f, h)
        BY <2>2, <3>1, <3>2 DEF Falls
      <4>2. QED  BY <4>1, SumFall
    <3>4. QED  BY <2>2, <3>3 DEF h, f
  <2>7. SumFunctionOnSet(rest, T) \in Nat
    <3>1. \A k \in T : rest[k] \in Nat
      BY <2>2, <2>4
    <3>2. QED  BY <2>3, <3>1, SumNat
  <2>8. OwnedBy(w, S, rest) = SumFunctionOnSet(rest, T)
    BY DEF OwnedBy, T
  <2>9. QED  BY <2>1, <2>6, <2>7, <2>8 DEF O
<1> HIDE DEF rest
<1>7. available' \in [Users -> Nat]
  BY <1>2, <1>6 DEF WalletInv
<1>8. reserved' = [w \in Users |-> SumFunctionOnSet(Held', Owned(w)')]
  BY <1>2, <1>6 DEF WalletInv
<1>9. QED  BY <1>7, <1>8 DEF WalletInv

\* What every order holds after an order entry.
LEMMA HeldSubmitted ==
  ASSUME BookInv, OrderInv,
         NEW u \in Users, NEW b \in Books, NEW outcome \in Outcomes, NEW side \in OrderSide,
         NEW price \in Prices, NEW quantity \in Quantities, NEW id \in OrderIds,
         NextId(id), SubmitOrder(u, b, outcome, side, price, quantity, id),
         NEW makers, makers = Makers(u, b, outcome, side, price),
         NEW filled, filled = MatchPriceTime(side, quantity, orders, makers),
         NEW taken, taken = SumFunctionOnSet(filled, makers),
         NEW unit, unit = UnitCost(side, price)
  PROVE  /\ id \notin DOMAIN orders /\ DOMAIN orders' = DOMAIN orders \cup {id}
         /\ orders'[id].owner = u
         /\ Held'[id] = (quantity - taken) * unit
         /\ \A k \in DOMAIN orders :
              /\ orders'[k].owner = orders[k].owner
              /\ Held'[k] = Held[k] - (IF k \in makers THEN MakerHeld(makers, filled)[k] ELSE 0)
<1>1. /\ WithinPrecision(price) /\ price \in Price /\ id \notin DOMAIN orders
      /\ DOMAIN orders' = DOMAIN orders \cup {id}
      /\ orders'[id] = NewRow(u, b, outcome, side, price, quantity, SumFunctionOnSet(filled, makers))
      /\ \A k \in makers : filled[k] > 0 => orders'[k] = FilledRow(orders[k], filled[k])
      /\ \A k \in DOMAIN orders : ~ (k \in makers /\ filled[k] > 0) => orders'[k] = orders[k]
      /\ orders' = [k \in DOMAIN orders' |-> orders'[k]]
  BY OrdersSubmitted, SMTT(30)
<1>2. /\ makers \in SUBSET DOMAIN orders
      /\ \A m \in makers : filled[m] \in Nat /\ filled[m] <= orders[m].remaining
      /\ quantity \in Nat /\ taken \in Nat /\ taken <= quantity
  BY SubmitMatch
<1>3. unit \in Nat
  BY <1>1, UnitCostType
<1>4. /\ orders'[id].owner = u /\ orders'[id].remaining = quantity - taken
      /\ orders'[id].reservedPerShare = unit
      /\ orders'[id].state = IF taken = quantity THEN "filled" ELSE "open"
  BY <1>1 DEF NewRow
<1>5. Held'[id] = (quantity - taken) * unit
  <2>1. Held'[id] = IF orders'[id].state = "open"
                    THEN orders'[id].remaining * orders'[id].reservedPerShare ELSE 0
    BY <1>1 DEF Held, Open, Holding
  <2>2. CASE taken = quantity
    <3>1. (quantity - taken) * unit = 0
      BY <1>2, <1>3, <2>2
    <3>2. QED  BY <1>4, <2>1, <2>2, <3>1
  <2>3. CASE taken # quantity
    BY <1>4, <2>1, <2>3
  <2>4. QED  BY <2>2, <2>3
<1>6. ASSUME NEW k \in DOMAIN orders
      PROVE  /\ orders'[k].owner = orders[k].owner
             /\ Held'[k] = Held[k] - (IF k \in makers THEN MakerHeld(makers, filled)[k] ELSE 0)
  <2>1. Held'[k] = IF orders'[k].state = "open"
                   THEN orders'[k].remaining * orders'[k].reservedPerShare ELSE 0
    BY <1>1 DEF Held, Open, Holding
  <2>2. Held[k] \in Nat
    BY HeldNat
  <2>3. orders[k].remaining \in Nat /\ orders[k].reservedPerShare \in Nat
    BY OrderFields
  <2>4. CASE k \in makers /\ filled[k] > 0
    <3> DEFINE q == filled[k]
               n == orders[k].remaining
               c == orders[k].reservedPerShare
    <3>1. /\ orders'[k].owner = orders[k].owner /\ orders'[k].remaining = n - q
          /\ orders'[k].reservedPerShare = c
          /\ orders'[k].state = IF n = q THEN "filled" ELSE "open"
      <4>1. orders'[k] = FilledRow(orders[k], q) /\ orders[k] \in Order
        BY <1>1, <2>4, OrderFields
      <4> HIDE DEF q
      <4>2. QED  BY <4>1 DEF FilledRow, Order
    <3>2. Open(k)
      BY <2>4 DEF Makers
    <3>3. Held[k] = n * c /\ MakerHeld(makers, filled)[k] = q * c
      BY <2>4, <3>2 DEF Held, Holding, MakerHeld
    <3>4. (n - q) * c = n * c - q * c /\ (n = q => (n - q) * c = 0)
      BY <1>2, <2>3, <2>4
    <3> HIDE DEF q, n, c
    <3>5. Held'[k] = (n - q) * c
      BY <2>1, <3>1, <3>4
    <3>6. QED  BY <2>4, <3>1, <3>3, <3>4, <3>5
  <2>5. CASE k \in makers /\ ~ (filled[k] > 0)
    <3>1. orders'[k] = orders[k] /\ filled[k] = 0
      BY <1>1, <1>2, <2>5
    <3>2. MakerHeld(makers, filled)[k] = 0
      BY <2>3, <2>5, <3>1 DEF MakerHeld
    <3>3. Held'[k] = Held[k]
      BY <2>1, <3>1 DEF Held, Open, Holding
    <3>4. QED  BY <2>2, <2>5, <3>1, <3>2, <3>3
  <2>6. CASE k \notin makers
    <3>1. orders'[k] = orders[k]
      BY <1>1, <2>6
    <3>2. Held'[k] = Held[k]
      BY <2>1, <3>1 DEF Held, Open, Holding
    <3>3. QED  BY <2>2, <2>6, <3>1, <3>2
  <2>7. QED  BY <2>4, <2>5, <2>6
<1>7. QED  BY <1>1, <1>4, <1>5, <1>6

\* A submission keeps the reserved bucket the sum of what open orders hold.
LEMMA WalletStepSubmit ==
  ASSUME BookInv, OrderInv, WalletInv,
         NEW u \in Users, NEW b \in Books, NEW outcome \in Outcomes, NEW side \in OrderSide,
         NEW price \in Prices, NEW quantity \in Quantities, NEW id \in OrderIds,
         NextId(id), SubmitOrder(u, b, outcome, side, price, quantity, id)
  PROVE  WalletInv'
<1>1. PICK makers : makers = Makers(u, b, outcome, side, price)
  OBVIOUS
<1>2. PICK filled : filled = MatchPriceTime(side, quantity, orders, makers)
  OBVIOUS
<1>3. PICK taken : taken = SumFunctionOnSet(filled, makers)
  OBVIOUS
<1>4. PICK unit : unit = UnitCost(side, price)
  OBVIOUS
<1>5. price \in Price /\ WithinPrecision(price) /\ quantity \in Nat
  BY PricesAssumption, QuantitiesAssumption DEF SubmitOrder
<1>6. PostingsInUnits(makers, filled, taken, unit, side, quantity, u)
  BY <1>1, <1>2, <1>3, <1>4, <1>5, SubmitPostings DEF WalletInv
<1>7. /\ IsFiniteSet(makers) /\ taken \in Nat /\ taken <= quantity /\ unit \in Nat
      /\ SumFunctionOnSet(TakerCost(makers, filled, side), makers) \in Nat
      /\ SumFunctionOnSet(TakerCost(makers, filled, side), makers) <= taken * unit
  <2>1. Totals(makers, filled, taken, unit, side, quantity)
    BY <1>1, <1>2, <1>3, <1>4, <1>5, FillTotals
  <2>2. QED  BY <2>1 DEF Totals
<1>8. /\ id \notin DOMAIN orders /\ DOMAIN orders' = DOMAIN orders \cup {id}
      /\ orders'[id].owner = u
      /\ Held'[id] = (quantity - taken) * unit
      /\ \A k \in DOMAIN orders :
           /\ orders'[k].owner = orders[k].owner
           /\ Held'[k] = Held[k] - (IF k \in makers THEN MakerHeld(makers, filled)[k] ELSE 0)
  BY <1>1, <1>2, <1>3, <1>4, HeldSubmitted
<1> DEFINE spent == SumFunctionOnSet(TakerCost(makers, filled, side), makers)
           whole == quantity * unit
           used == taken * unit
<1>9. whole \in Nat /\ used \in Nat /\ (quantity - taken) * unit = whole - used
  BY <1>5, <1>7
<1>10. /\ whole <= available[u]
       /\ available' = [w \in Users |-> available[w] + (IF w = u THEN used - spent - whole ELSE 0)]
       /\ reserved' = [w \in Users |->
            reserved[w] - OwnedBy(w, makers, MakerHeld(makers, filled))
            + (IF w = u THEN whole - used ELSE 0)]
  BY <1>6 DEF PostingsInUnits
<1>11. spent \in Nat /\ spent <= used
  BY <1>7
<1> HIDE DEF spent, whole, used
<1>12. available' \in [Users -> Nat]
  BY <1>9, <1>10, <1>11 DEF WalletInv
<1>13. ASSUME NEW w \in Users
       PROVE  SumFunctionOnSet(Held', Owned(w)') = reserved'[w]
  <2> DEFINE O == Owned(w)
             held == MakerHeld(makers, filled)
             h == Held'
             f == Held
             T == {k \in makers : orders[k].owner = w}
  <2>1. IsFiniteSet(O) /\ O \in SUBSET DOMAIN orders /\ (\A k \in O : f[k] \in Int)
    BY HeldNat
  <2>2. makers \in SUBSET DOMAIN orders /\ \A m \in makers : filled[m] \in Nat
    BY <1>1, <1>2, SubmitMatch
  <2>3. \A k \in makers : held[k] \in Int
    BY <1>1, <1>5, <2>2, FillMoney
  <2>4. T = O \cap makers
    BY <2>2 DEF Owned
  <2>5. id \notin O /\ Owned(w)' = IF w = u THEN O \cup {id} ELSE O
    BY <1>8 DEF Owned
  <2>6. \A k \in O : h[k] = f[k] - (IF k \in makers THEN held[k] ELSE 0)
    BY <1>8, <2>1
  <2>7. h[id] = whole - used
    BY <1>8, <1>9
  <2>8. OwnedBy(w, makers, held) = SumFunctionOnSet(held, T)
    BY DEF OwnedBy
  <2>9. reserved[w] = SumFunctionOnSet(f, O)
    BY DEF WalletInv
  <2> HIDE DEF O, held, h, f, T
  <2>10. SumFunctionOnSet(h, O) = SumFunctionOnSet(f, O) - SumFunctionOnSet(held, T)
    <3>1. \A x \in O : f[x] \in Int /\ (x \in makers => held[x] \in Int)
      BY <2>1, <2>3
    <3>2. \A x \in O : h[x] = f[x] - (IF x \in makers THEN held[x] ELSE 0)
      BY <2>6
    <3>3. IsFiniteSet(O)
      BY <2>1
    <3>4. SumFunctionOnSet(h, O) = SumFunctionOnSet(f, O) - SumFunctionOnSet(held, O \cap makers)
      <4>1. Falls(O, makers, held, f, h)
        BY <3>1, <3>2, <3>3 DEF Falls
      <4>2. QED  BY <4>1, SumFall
    <3>5. QED  BY <2>4, <3>4
  <2>11. \A k \in O : h[k] \in Int
    BY <2>1, <2>3, <2>6
  <2>12. SumFunctionOnSet(h, O) \in Int
    BY <2>1, <2>11, SumType
  <2>13. reserved'[w] = SumFunctionOnSet(h, O) + (IF w = u THEN whole - used ELSE 0)
    BY <1>10, <2>8, <2>9, <2>10 DEF held
  <2>14. SumFunctionOnSet(h, Owned(w)') = SumFunctionOnSet(h, O) + (IF w = u THEN whole - used ELSE 0)
    <3>1. CASE w = u
      <4>1. \A k \in O \cup {id} : h[k] \in Int
        BY <1>9, <2>7, <2>11
      <4>2. SumFunctionOnSet(h, O \cup {id}) = h[id] + SumFunctionOnSet(h, O)
        BY <2>1, <2>5, <4>1, SumAdd
      <4>3. QED  BY <1>9, <2>5, <2>7, <2>12, <3>1, <4>2
    <3>2. CASE w # u
      BY <2>5, <2>12, <3>2
    <3>3. QED  BY <3>1, <3>2
  <2>15. QED  BY <2>13, <2>14 DEF h
<1>14. reserved' = [w \in Users |-> reserved'[w]]
  BY <1>10
<1>15. reserved' = [w \in Users |-> SumFunctionOnSet(Held', Owned(w)')]
  BY <1>13, <1>14
<1>16. QED  BY <1>12, <1>15 DEF WalletInv

\* Every step keeps layer 3.
LEMMA WalletStep ==
  ASSUME BookInv, OrderInv, WalletInv, [Next]_vars
  PROVE  WalletInv'
<1>1. CASE \/ \E b \in Books : ActivateClob(b) \/ HaltClob(b) \/ TradingCutoff(b)
           \/ \E u \in Users : SetEligibility(u)
           \/ UNCHANGED vars
  <2>1. orders' = orders /\ available' = available /\ reserved' = reserved
    BY <1>1, BookStepsMoney
  <2>2. Held' = Held /\ \A w : Owned(w)' = Owned(w)
    BY <2>1 DEF Held, Owned, Open, Holding
  <2>3. QED  BY <2>1, <2>2 DEF WalletInv
<1>2. CASE \/ \E k \in DOMAIN orders : CancelOrder(k)
           \/ \E b \in Books : CloseResolutionBook(b)
  BY <1>2, ReleaseSteps, WalletStepRelease
<1>3. ASSUME NEW u \in Users, NEW b \in Books, NEW outcome \in Outcomes, NEW side \in OrderSide,
             NEW price \in Prices, NEW quantity \in Quantities, NEW id \in OrderIds,
             NextId(id), SubmitOrder(u, b, outcome, side, price, quantity, id)
      PROVE  WalletInv'
  BY <1>3, WalletStepSubmit
<1>4. QED  BY <1>1, <1>2, <1>3, StepKinds

\* Layer 3: wallets.
LEMMA Layer3 == Spec => []WalletInv
<1>1. ASSUME Init PROVE WalletInv
  <2>1. available \in [Users -> Nat] /\ reserved = [w \in Users |-> 0]
    BY <1>1, FundsAssumption DEF Init
  <2>2. \A w : Owned(w) = {}
    BY <1>1 DEF Init, Owned
  <2>3. \A w : SumFunctionOnSet(Held, Owned(w)) = 0
    BY <2>2, SumEmpty
  <2>4. QED  BY <2>1, <2>3 DEF WalletInv
<1>2. BookInv /\ OrderInv /\ WalletInv /\ [Next]_vars => WalletInv'
  BY WalletStep
<1>3. QED  BY <1>1, <1>2, Layer1, PTL DEF Spec

\* A user's reserved bucket is what the user's open orders hold, to the minor
\* unit: no fill, improvement or cancellation leaves money behind, and none
\* frees money another order needs.
THEOREM ReservedBacks == Spec => []ReservedBacksOrders
<1>1. ASSUME OrderInv, WalletInv PROVE ReservedBacksOrders
  <2> SUFFICES ASSUME NEW w \in Users
               PROVE  reserved[w] = SumFunctionOnSet([k \in OpenOf(w) |-> Holding(k)], OpenOf(w))
    BY DEF ReservedBacksOrders
  <2>1. reserved[w] = SumFunctionOnSet(Held, Owned(w))
    BY <1>1 DEF WalletInv
  <2>2. QED  BY <1>1, <2>1, HeldSum
<1>2. QED  BY <1>1, Layer1, Layer3, PTL

-------------------------------------------------------------------------------
(* Layer 4: the fills, market escrow and fees.                               *)

FillInv ==
  /\ IsFiniteSet(fills)
  /\ \A f \in fills : f \in Fill /\ f.taker \in DOMAIN orders
  /\ escrow = ContractUnit * SumFunctionOnSet([f \in fills |-> f.quantity], fills)
  /\ fees \in Nat

\* What the two sides of a fill pay at a precise price.
LEMMA CreditType ==
  ASSUME NEW p \in Price, WithinPrecision(p), NEW q \in Nat
  PROVE  /\ \A side : /\ ContractCollateral(side, q, p) \in Nat
                      /\ ExecutionFee(side, q, p) \in Nat
                      /\ FillCost(side, q, p) = ContractCollateral(side, q, p) + ExecutionFee(side, q, p)
         /\ EscrowCredit(q, p) = ContractUnit * q
         /\ FeeCredit(q, p) \in Nat
         /\ EscrowCredit(q, p) + FeeCredit(q, p) = FillCost("buy", q, p) + FillCost("sell", q, p)
<1>1. \A side : /\ PerShare(side, p) \in Nat /\ FeePerShare(side, p) \in Nat
  BY PerShareType, FeeType
<1>2. \A side : /\ ContractCollateral(side, q, p) \in Nat /\ ExecutionFee(side, q, p) \in Nat
  BY <1>1 DEF ContractCollateral, ExecutionFee
<1>3. \A side : FillCost(side, q, p) = ContractCollateral(side, q, p) + ExecutionFee(side, q, p)
  BY DEF FillCost
<1>4. EscrowCredit(q, p) = q * ContractUnit /\ ContractUnit \in Nat
  BY EscrowIsUnits, ContractUnitAssumption DEF EscrowCredit
<1>5. EscrowCredit(q, p) = ContractUnit * q
  BY <1>4
<1>6. /\ FeeCredit(q, p) \in Nat
      /\ EscrowCredit(q, p) + FeeCredit(q, p) = FillCost("buy", q, p) + FillCost("sell", q, p)
  BY <1>2, <1>3 DEF FeeCredit, EscrowCredit
<1>7. QED  BY <1>2, <1>3, <1>5, <1>6

\* Escrow and fees as submitOrder posts them.
Credits(makers, filled) ==
  /\ escrow' = escrow + SumFunctionOnSet(
        [m \in makers |-> EscrowCredit(filled[m], orders[m].price)], makers)
  /\ fees' = fees + SumFunctionOnSet(
        [m \in makers |-> FeeCredit(filled[m], orders[m].price)], makers)

\* What a submission adds to escrow and fees.
LEMMA SubmitCredits ==
  ASSUME NEW u, NEW b, NEW outcome, NEW side, NEW price, NEW quantity, NEW id,
         SubmitOrder(u, b, outcome, side, price, quantity, id),
         NEW makers, makers = Makers(u, b, outcome, side, price),
         NEW filled, filled = MatchPriceTime(side, quantity, orders, makers)
  PROVE  Credits(makers, filled)
<1> DEFINE M == Makers(u, b, outcome, side, price)
           F == MatchPriceTime(side, quantity, orders, M)
<1>1. Credits(M, F)
  BY DEF SubmitOrder, Credits
<1>2. M = makers /\ F = filled
  OBVIOUS
<1> HIDE DEF M, F
<1>3. QED  BY <1>1, <1>2

\* A maker's price is precise, and a maker is on the other side.
LEMMA MakerTerms ==
  ASSUME OrderInv, NEW u, NEW b, NEW outcome, NEW side \in OrderSide, NEW price,
         NEW m \in Makers(u, b, outcome, side, price)
  PROVE  /\ m \in DOMAIN orders /\ m \in OrderIds
         /\ orders[m].price \in Price /\ orders[m].price \in Prices
         /\ WithinPrecision(orders[m].price)
         /\ \/ orders[m].side = "buy" /\ side = "sell"
            \/ orders[m].side = "sell" /\ side = "buy"
<1>1. m \in DOMAIN orders /\ orders[m].side # side
  BY DEF Makers
<1>2. orders[m] \in Order /\ OrderSound(orders[m]) /\ m \in OrderIds
  BY <1>1 DEF OrderInv
<1>3. QED  BY <1>1, <1>2, OrderFields DEF OrderSound, Order, OrderSide

\* The fills of an order entry: one new row for every matched maker.
RowsAdded(row, filled, matched, id) ==
  /\ fills' = fills \cup {row[m] : m \in matched}
  /\ \A m \in matched : /\ row[m] \in Fill /\ row[m] \notin fills
                        /\ row[m].maker = m /\ row[m].taker = id
                        /\ row[m].quantity = filled[m]

\* The fill rows a submission appends: one per maker that gave something.
LEMMA FillRows ==
  ASSUME BookInv, OrderInv, FillInv,
         NEW u \in Users, NEW b \in Books, NEW outcome \in Outcomes, NEW side \in OrderSide,
         NEW price \in Prices, NEW quantity \in Quantities, NEW id \in OrderIds,
         NextId(id), SubmitOrder(u, b, outcome, side, price, quantity, id),
         NEW makers, makers = Makers(u, b, outcome, side, price),
         NEW filled, filled = MatchPriceTime(side, quantity, orders, makers)
  PROVE  \E row : RowsAdded(row, filled, {n \in makers : filled[n] > 0}, id)
<1>1. /\ makers \in SUBSET DOMAIN orders /\ IsFiniteSet(makers)
      /\ \A m \in makers : filled[m] \in Nat
  BY SubmitMatch
<1>2. id \notin DOMAIN orders /\ DOMAIN orders' = DOMAIN orders \cup {id}
  BY SubmitFrame, SMTT(30)
<1> DEFINE matched == {n \in makers : filled[n] > 0}
           num(m) == next[b] + 1 + Cardinality(AheadOf(side, orders, matched, m))
           row == [m \in matched |-> FillRow(m, id, filled[m], num(m))]
           New == {row[m] : m \in matched}
<1>3. fills' = fills \cup New
  <2>1. fills' = fills \cup {FillRow(m, id, filled[m], num(m)) : m \in matched}
    BY NewFills
  <2> HIDE DEF num
  <2>2. QED  BY <2>1
<1>4. IsFiniteSet(matched) /\ matched \in SUBSET makers
  BY <1>1, FS_Subset
<1>5. \A m \in matched : num(m) \in Nat
  <2> TAKE m \in matched
  <2>1. IsFiniteSet(AheadOf(side, orders, matched, m))
    <3>1. AheadOf(side, orders, matched, m) \in SUBSET matched
      <4> HIDE DEF matched
      <4>1. QED  BY DEF AheadOf
    <3>2. QED  BY <1>4, <3>1, FS_Subset
  <2>2. Cardinality(AheadOf(side, orders, matched, m)) \in Nat
    BY <2>1, FS_CardinalityType
  <2>3. next[b] \in Nat
    BY DEF BookInv
  <2> HIDE DEF matched
  <2>4. QED  BY <2>2, <2>3
<1>6. \A m \in matched : /\ row[m] \in Fill /\ row[m].maker = m /\ row[m].taker = id
                         /\ row[m].quantity = filled[m]
  <2> TAKE m \in matched
  <2>1. m \in makers /\ filled[m] \in Nat
    BY <1>1
  <2>2. /\ m \in OrderIds /\ orders[m].price \in Prices /\ orders[m].price \in Price
        /\ WithinPrecision(orders[m].price)
    BY <2>1, MakerTerms
  <2>3. /\ ContractCollateral("buy", filled[m], orders[m].price) \in Nat
        /\ ContractCollateral("sell", filled[m], orders[m].price) \in Nat
        /\ ExecutionFee("buy", filled[m], orders[m].price) \in Nat
        /\ ExecutionFee("sell", filled[m], orders[m].price) \in Nat
    BY <2>1, <2>2, CreditType
  <2>4. row[m] = FillRow(m, id, filled[m], num(m)) /\ num(m) \in Nat
    BY <1>5
  <2> HIDE DEF num, row, matched
  <2>5. QED  BY <2>1, <2>2, <2>3, <2>4 DEF FillRow, Fill
<1> HIDE DEF matched, num, row
<1>7. \A m \in matched : row[m] \notin fills
  BY <1>2, <1>6 DEF FillInv
<1>8. RowsAdded(row, filled, matched, id)
  BY <1>3, <1>6, <1>7 DEF RowsAdded
<1>9. QED  BY <1>8 DEF matched

\* The new fills are new rows, and together they record what was taken.
LEMMA FillsSubmitted ==
  ASSUME BookInv, OrderInv, FillInv,
         NEW u \in Users, NEW b \in Books, NEW outcome \in Outcomes, NEW side \in OrderSide,
         NEW price \in Prices, NEW quantity \in Quantities, NEW id \in OrderIds,
         NextId(id), SubmitOrder(u, b, outcome, side, price, quantity, id),
         NEW makers, makers = Makers(u, b, outcome, side, price),
         NEW filled, filled = MatchPriceTime(side, quantity, orders, makers)
  PROVE  /\ IsFiniteSet(fills')
         /\ \A f \in fills' : f \in Fill /\ f.taker \in DOMAIN orders'
         /\ SumFunctionOnSet([f \in fills' |-> f.quantity], fills')
              = SumFunctionOnSet([f \in fills |-> f.quantity], fills)
                + SumFunctionOnSet(filled, makers)
<1>1. /\ makers \in SUBSET DOMAIN orders /\ IsFiniteSet(makers)
      /\ \A m \in makers : filled[m] \in Nat
  BY SubmitMatch
<1>2. id \notin DOMAIN orders /\ DOMAIN orders' = DOMAIN orders \cup {id}
  BY SubmitFrame, SMTT(60)
<1>r. PICK row : RowsAdded(row, filled, {n \in makers : filled[n] > 0}, id)
  BY FillRows
<1> DEFINE matched == {n \in makers : filled[n] > 0}
           New == {row[m] : m \in matched}
           q == [f \in fills |-> f.quantity]
           p == [f \in fills' |-> f.quantity]
<1>3. /\ fills' = fills \cup New
      /\ \A m \in matched : /\ row[m] \in Fill /\ row[m] \notin fills
                            /\ row[m].maker = m /\ row[m].taker = id
                            /\ row[m].quantity = filled[m]
  BY <1>r DEF RowsAdded
<1>4. IsFiniteSet(matched) /\ matched \in SUBSET makers
  BY <1>1, FS_Subset
<1> HIDE DEF matched
<1>7. \A f \in New : f \in Fill /\ f.taker = id /\ f \notin fills
  BY <1>3
<1>8. /\ IsFiniteSet(New)
      /\ SumFunctionOnSet(p, New) = SumFunctionOnSet(filled, matched)
  <2>1. \A x, y \in matched : row[x] = row[y] => x = y
    BY <1>3
  <2>2. \A x \in matched : filled[x] \in Int
    BY <1>1, <1>4
  <2>3. \A x \in matched : p[row[x]] = filled[x]
    BY <1>3, <1>3
  <2> HIDE DEF p
  <2>4. QED  BY <1>4, <2>1, <2>2, <2>3, SumImage
<1>9. IsFiniteSet(fills')
  BY <1>3, <1>8, FS_Union DEF FillInv
<1>10. \A f \in fills' : f \in Fill /\ f.taker \in DOMAIN orders'
  BY <1>2, <1>3, <1>7 DEF FillInv
<1>11. \A f \in fills' : p[f] \in Int
  BY <1>10 DEF Fill
<1>12. fills \in SUBSET fills' /\ fills' \ fills = New
  <2> HIDE DEF New
  <2>1. QED  BY <1>3, <1>7
<1>13. SumFunctionOnSet(p, fills') = SumFunctionOnSet(p, fills) + SumFunctionOnSet(p, New)
  <2> HIDE DEF p, New
  <2>1. SumFunctionOnSet(p, fills') = SumFunctionOnSet(p, fills) + SumFunctionOnSet(p, fills' \ fills)
    BY <1>9, <1>11, <1>12, SumSplit
  <2>2. QED  BY <1>12, <2>1
<1>14. SumFunctionOnSet(p, fills) = SumFunctionOnSet(q, fills)
  <2>1. \A f \in fills : q[f] \in Int /\ p[f] = q[f]
    BY <1>11, <1>12
  <2>2. IsFiniteSet(fills)
    BY DEF FillInv
  <2> HIDE DEF p, q
  <2>3. QED  BY <2>1, <2>2, SumEqual
<1>15. SumFunctionOnSet(filled, makers) = SumFunctionOnSet(filled, matched)
  <2>1. \A m \in matched : filled[m] \in Int
    BY <1>1, <1>4
  <2>2. \A m \in makers \ matched : filled[m] = 0
    BY <1>1 DEF matched
  <2>3. QED  BY <1>1, <1>4, <2>1, <2>2, SumRestrict
<1>16. QED  BY <1>8, <1>9, <1>10, <1>13, <1>14, <1>15

\* A submission keeps escrow the value of the fills.
LEMMA FillStepSubmit ==
  ASSUME BookInv, OrderInv, FillInv,
         NEW u \in Users, NEW b \in Books, NEW outcome \in Outcomes, NEW side \in OrderSide,
         NEW price \in Prices, NEW quantity \in Quantities, NEW id \in OrderIds,
         NextId(id), SubmitOrder(u, b, outcome, side, price, quantity, id)
  PROVE  FillInv'
<1>1. PICK makers : makers = Makers(u, b, outcome, side, price)
  OBVIOUS
<1>2. PICK filled : filled = MatchPriceTime(side, quantity, orders, makers)
  OBVIOUS
<1> DEFINE old == SumFunctionOnSet([f \in fills |-> f.quantity], fills)
           new == SumFunctionOnSet([f \in fills' |-> f.quantity], fills')
           taken == SumFunctionOnSet(filled, makers)
           escrowed == [m \in makers |-> EscrowCredit(filled[m], orders[m].price)]
           charged == [m \in makers |-> FeeCredit(filled[m], orders[m].price)]
<1>3. /\ IsFiniteSet(fills')
      /\ \A f \in fills' : f \in Fill /\ f.taker \in DOMAIN orders'
      /\ new = old + taken
  BY <1>1, <1>2, FillsSubmitted
<1>4. Credits(makers, filled)
  BY <1>1, <1>2, SubmitCredits
<1>5. escrow' = escrow + SumFunctionOnSet(escrowed, makers)
      /\ fees' = fees + SumFunctionOnSet(charged, makers)
  BY <1>4 DEF Credits
<1>6. /\ makers \in SUBSET DOMAIN orders /\ IsFiniteSet(makers)
      /\ \A m \in makers : filled[m] \in Nat
      /\ taken \in Nat
  BY <1>1, <1>2, SubmitMatch
<1>7. \A m \in makers : escrowed[m] = ContractUnit * filled[m] /\ charged[m] \in Nat
  <2> TAKE m \in makers
  <2>1. orders[m].price \in Price /\ WithinPrecision(orders[m].price) /\ filled[m] \in Nat
    BY <1>1, <1>6, MakerTerms
  <2>2. /\ EscrowCredit(filled[m], orders[m].price) = ContractUnit * filled[m]
        /\ FeeCredit(filled[m], orders[m].price) \in Nat
    BY <2>1, CreditType
  <2>3. QED  BY <2>2
<1>8. old \in Int
  <2>1. \A f \in fills : [g \in fills |-> g.quantity][f] \in Int
    BY DEF FillInv, Fill
  <2>2. IsFiniteSet(fills)
    BY DEF FillInv
  <2>3. QED  BY <2>1, <2>2, SumType
<1> HIDE DEF escrowed, charged
<1>9. SumFunctionOnSet(escrowed, makers) = ContractUnit * taken
  <2>1. ContractUnit \in Int /\ \A m \in makers : filled[m] \in Int /\ escrowed[m] = ContractUnit * filled[m]
    BY <1>6, <1>7, ContractUnitAssumption
  <2>2. QED  BY <1>6, <2>1, SumScale
<1>10. SumFunctionOnSet(charged, makers) \in Nat
  BY <1>6, <1>7, SumNat
<1> HIDE DEF old, new, taken
<1>11. escrow' = ContractUnit * new
  <2>1. escrow = ContractUnit * old
    BY DEF FillInv, old
  <2>2. ContractUnit * (old + taken) = ContractUnit * old + ContractUnit * taken
    BY <1>6, <1>8, ContractUnitAssumption
  <2>3. QED  BY <1>3, <1>5, <1>9, <2>1, <2>2
<1>12. fees' \in Nat
  BY <1>5, <1>10 DEF FillInv
<1>13. QED  BY <1>3, <1>11, <1>12 DEF FillInv, new

\* Every step keeps layer 4.
LEMMA FillStep ==
  ASSUME BookInv, OrderInv, FillInv, [Next]_vars
  PROVE  FillInv'
<1>1. CASE \/ \E b \in Books : ActivateClob(b) \/ HaltClob(b) \/ TradingCutoff(b)
           \/ \E u \in Users : SetEligibility(u)
           \/ UNCHANGED vars
           \/ \E k \in DOMAIN orders : CancelOrder(k)
           \/ \E b \in Books : CloseResolutionBook(b)
  <2>1. fills' = fills /\ escrow' = escrow /\ fees' = fees
    BY <1>1, RestFills
  <2>2. DOMAIN orders' = DOMAIN orders
    BY <1>1, RestFrame
  <2>3. QED  BY <2>1, <2>2 DEF FillInv
<1>2. ASSUME NEW u \in Users, NEW b \in Books, NEW outcome \in Outcomes, NEW side \in OrderSide,
             NEW price \in Prices, NEW quantity \in Quantities, NEW id \in OrderIds,
             NextId(id), SubmitOrder(u, b, outcome, side, price, quantity, id)
      PROVE  FillInv'
  BY <1>2, FillStepSubmit
<1>3. QED  BY <1>1, <1>2, StepKinds

\* Layer 4: fills and escrow.
LEMMA Layer4 == Spec => []FillInv
<1>1. ASSUME Init PROVE FillInv
  <2>1. fills = {} /\ escrow = 0 /\ fees = 0
    BY <1>1 DEF Init
  <2>2. SumFunctionOnSet([f \in fills |-> f.quantity], fills) = 0
    BY <2>1, SumEmpty
  <2>3. ContractUnit * 0 = 0
    BY ContractUnitAssumption
  <2>4. QED  BY <2>1, <2>2, <2>3, FS_EmptySet DEF FillInv
<1>2. BookInv /\ OrderInv /\ FillInv /\ [Next]_vars => FillInv'
  BY FillStep
<1>3. QED  BY <1>1, <1>2, Layer1, PTL DEF Spec

\* Market escrow holds the full payout of every matched contract, at every
\* price, however the collateral of its two sides was rounded.
THEOREM EscrowBacks == Spec => []EscrowBacksFills
<1>1. FillInv => EscrowBacksFills
  BY DEF FillInv, EscrowBacksFills
<1>2. QED  BY <1>1, Layer4, PTL

\* Every variable keeps its type; in particular no ledger bucket ever goes
\* negative, so the balance check of postJournal never fails.
THEOREM ClobTypeOK == Spec => []TypeOK
<1>1. ASSUME BookInv, OrderInv, ReservationInv, WalletInv, FillInv
      PROVE  TypeOK
  <2>1. reservations \in [DOMAIN orders -> Reservation]
    <3>1. \A k \in DOMAIN orders : reservations[k] \in Reservation
      BY <1>1 DEF ReservationInv, ReservationSound
    <3>2. QED  BY <1>1, <3>1 DEF ReservationInv
  <2>2. reserved \in [Users -> Nat]
    <3>1. ASSUME NEW w \in Users PROVE SumFunctionOnSet(Held, Owned(w)) \in Nat
      <4>1. IsFiniteSet(Owned(w)) /\ \A k \in Owned(w) : Held[k] \in Nat
        BY <1>1, HeldNat
      <4>2. QED  BY <4>1, SumNat
    <3>2. QED  BY <1>1, <3>1 DEF WalletInv
  <2>3. escrow \in Nat
    <3> DEFINE q == [f \in fills |-> f.quantity]
    <3>1. IsFiniteSet(fills) /\ \A f \in fills : q[f] \in Nat
      BY <1>1 DEF FillInv, Fill
    <3>2. escrow = ContractUnit * SumFunctionOnSet(q, fills)
      BY <1>1 DEF FillInv
    <3> HIDE DEF q
    <3>3. SumFunctionOnSet(q, fills) \in Nat
      BY <3>1, SumNat
    <3>4. QED  BY <3>2, <3>3, ContractUnitAssumption
  <2>4. QED  BY <1>1, <2>1, <2>2, <2>3 DEF TypeOK, BookInv, OrderInv, WalletInv, FillInv
<1>2. QED  BY <1>1, Layer1, Layer2, Layer3, Layer4, PTL

-------------------------------------------------------------------------------
(* Conservation.                                                             *)

Wealth == [w \in Users |-> available[w] + reserved[w]]

\* All money of the asset, with the two wallets of a user taken together.
Conserved ==
  SumFunctionOnSet(Wealth, Users) + escrow + fees = SumFunctionOnSet(Funds, Users)

\* What users have is what is available and what is reserved.
LEMMA WealthSum ==
  ASSUME TypeOK
  PROVE  /\ \A w \in Users : Wealth[w] \in Int
         /\ SumFunctionOnSet(Wealth, Users)
              = SumFunctionOnSet(available, Users) + SumFunctionOnSet(reserved, Users)
<1>1. \A w \in Users : /\ available[w] \in Int /\ reserved[w] \in Int
                       /\ Wealth[w] = available[w] + reserved[w]
  BY DEF TypeOK, Wealth
<1>2. QED  BY <1>1, UsersAssumption, SumPlus

\* A release moves money between the wallets of one user.
LEMMA ConservedRelease ==
  ASSUME BookInv, OrderInv, WalletInv, TypeOK, Conserved,
         NEW S \in SUBSET {k \in DOMAIN orders : Open(k)}, ReleaseOrders(S)
  PROVE  Conserved'
<1> DEFINE rest == [k \in S |-> Unmatched(k)]
<1>1. /\ available' = [w \in Users |-> available[w] + OwnedBy(w, S, rest)]
      /\ reserved' = [w \in Users |-> reserved[w] - OwnedBy(w, S, rest)]
      /\ escrow' = escrow /\ fees' = fees
  BY DEF ReleaseOrders
<1>2. ASSUME NEW w \in Users PROVE OwnedBy(w, S, rest) \in Int
  <2> DEFINE T == {k \in S : orders[k].owner = w}
  <2>1. T \in SUBSET DOMAIN orders /\ T \in SUBSET S
    OBVIOUS
  <2>2. IsFiniteSet(T)
    BY <2>1, OrdersFinite, FS_Subset
  <2>3. \A k \in T : rest[k] \in Int
    <3> TAKE k \in T
    <3>1. orders[k].remaining \in Nat /\ orders[k].reservedPerShare \in Nat
      BY OrderFields
    <3>2. QED  BY <3>1 DEF Unmatched
  <2> HIDE DEF T, rest
  <2>4. SumFunctionOnSet(rest, T) \in Int
    BY <2>2, <2>3, SumType
  <2>5. QED  BY <2>4 DEF OwnedBy, T
<1> HIDE DEF rest
<1>3. Wealth' = Wealth
  BY <1>1, <1>2 DEF Wealth, TypeOK
<1>4. QED  BY <1>1, <1>3 DEF Conserved

\* What the makers of an order entry and its taker pay is what escrow and fees
\* receive.
LEMMA PaymentsReceived ==
  ASSUME OrderInv, NEW u, NEW b, NEW outcome, NEW side \in OrderSide,
         NEW price \in Price, WithinPrecision(price),
         NEW makers, makers = Makers(u, b, outcome, side, price), IsFiniteSet(makers),
         NEW filled, \A m \in makers : filled[m] \in Nat
  PROVE  LET received(f(_, _)) ==
               SumFunctionOnSet([m \in makers |-> f(filled[m], orders[m].price)], makers)
         IN  /\ received(EscrowCredit) \in Int /\ received(FeeCredit) \in Int
             /\ SumFunctionOnSet(MakerHeld(makers, filled), makers)
                 + SumFunctionOnSet(TakerCost(makers, filled, side), makers)
                 = received(EscrowCredit) + received(FeeCredit)
<1> DEFINE held == MakerHeld(makers, filled)
           cost == TakerCost(makers, filled, side)
           e == [m \in makers |-> EscrowCredit(filled[m], orders[m].price)]
           f == [m \in makers |-> FeeCredit(filled[m], orders[m].price)]
           all == [m \in makers |-> held[m] + cost[m]]
<1>1. ASSUME NEW m \in makers
      PROVE  /\ held[m] \in Int /\ cost[m] \in Int /\ e[m] \in Int /\ f[m] \in Int
             /\ all[m] = held[m] + cost[m] /\ all[m] = e[m] + f[m]
  <2> DEFINE p == orders[m].price
             q == filled[m]
  <2>1. /\ p \in Price /\ WithinPrecision(p) /\ q \in Nat
        /\ \/ orders[m].side = "buy" /\ side = "sell"
           \/ orders[m].side = "sell" /\ side = "buy"
    BY MakerTerms
  <2>2. /\ EscrowCredit(q, p) \in Int /\ FeeCredit(q, p) \in Int
        /\ EscrowCredit(q, p) + FeeCredit(q, p) = FillCost("buy", q, p) + FillCost("sell", q, p)
        /\ FillCost("buy", q, p) \in Int /\ FillCost("sell", q, p) \in Int
    <3> HIDE DEF p, q, held, cost, e, f, all
    <3>1. /\ EscrowCredit(q, p) = ContractUnit * q /\ FeeCredit(q, p) \in Nat
          /\ EscrowCredit(q, p) + FeeCredit(q, p) = FillCost("buy", q, p) + FillCost("sell", q, p)
          /\ FillCost("buy", q, p) \in Nat /\ FillCost("sell", q, p) \in Nat
      <4>1. /\ \A s : ContractCollateral(s, q, p) \in Nat /\ ExecutionFee(s, q, p) \in Nat
            /\ \A s : FillCost(s, q, p) = ContractCollateral(s, q, p) + ExecutionFee(s, q, p)
            /\ EscrowCredit(q, p) = ContractUnit * q /\ FeeCredit(q, p) \in Nat
            /\ EscrowCredit(q, p) + FeeCredit(q, p) = FillCost("buy", q, p) + FillCost("sell", q, p)
        BY <2>1, CreditType
      <4>2. \A s : FillCost(s, q, p) \in Nat
        BY <4>1
      <4>3. QED  BY <4>1, <4>2
    <3>2. ContractUnit * q \in Nat
      BY <2>1, ContractUnitAssumption
    <3>3. QED  BY <3>1, <3>2
  <2>3. held[m] = FillCost(orders[m].side, q, p)
    <3>1. MakerCost(makers, filled)[m] = held[m]
      BY FillMoney
    <3>2. QED  BY <3>1 DEF MakerCost
  <2>4. cost[m] = FillCost(side, q, p)
    BY DEF TakerCost
  <2>5. e[m] = EscrowCredit(q, p) /\ f[m] = FeeCredit(q, p) /\ all[m] = held[m] + cost[m]
    OBVIOUS
  <2> HIDE DEF p, q, held, cost, e, f, all
  <2>6. QED  BY <2>1, <2>2, <2>3, <2>4, <2>5
<1> HIDE DEF held, cost, e, f, all
<1>2. SumFunctionOnSet(all, makers) = SumFunctionOnSet(held, makers) + SumFunctionOnSet(cost, makers)
  BY <1>1, SumPlus
<1>3. SumFunctionOnSet(all, makers) = SumFunctionOnSet(e, makers) + SumFunctionOnSet(f, makers)
  BY <1>1, SumPlus
<1>4. SumFunctionOnSet(e, makers) \in Int /\ SumFunctionOnSet(f, makers) \in Int
  BY <1>1, SumType
<1>5. QED  BY <1>2, <1>3, <1>4 DEF held, cost, e, f

\* The wallets of all users lose what the makers and the taker pay.
LEMMA WealthPaid ==
  ASSUME OrderInv, TypeOK, NEW u \in Users,
         NEW makers, makers \in SUBSET DOMAIN orders, IsFiniteSet(makers),
         NEW held, \A m \in makers : held[m] \in Int, NEW spent \in Int,
         \A w \in Users : Wealth'[w] = Wealth[w] - OwnedBy(w, makers, held)
                                        - (IF w = u THEN spent ELSE 0)
  PROVE  SumFunctionOnSet(Wealth', Users)
           = SumFunctionOnSet(Wealth, Users) - SumFunctionOnSet(held, makers) - spent
<1> DEFINE after == Wealth'
           before == Wealth
           paid == [w \in Users |-> SumFunctionOnSet(held, {m \in makers : orders[m].owner = w})]
           taker == [w \in Users |-> IF w = u THEN spent ELSE 0]
           kept == [w \in Users |-> after[w] + taker[w]]
<1>1. \A w \in Users : OwnedBy(w, makers, held) = paid[w]
  BY DEF OwnedBy
<1>2. \A w \in Users : paid[w] \in Int
  <2> TAKE w \in Users
  <2> DEFINE T == {m \in makers : orders[m].owner = w}
  <2>1. IsFiniteSet(T) /\ \A m \in T : held[m] \in Int
    BY FS_Subset
  <2> HIDE DEF T
  <2>2. SumFunctionOnSet(held, T) \in Int
    BY <2>1, SumType
  <2>3. QED  BY <2>2 DEF T
<1>3. \A w \in Users : before[w] \in Int
  BY WealthSum
<1>4. \A w \in Users : after[w] = before[w] - paid[w] - taker[w] /\ taker[w] \in Int
  BY <1>1
<1>5. SumFunctionOnSet(paid, Users) = SumFunctionOnSet(held, makers)
  <2> DEFINE own == [m \in makers |-> orders[m].owner]
  <2>1. \A m \in makers : own[m] \in Users /\ own[m] = orders[m].owner
    BY OrderFields
  <2> HIDE DEF own
  <2>2. SumFunctionOnSet([w \in Users |-> SumFunctionOnSet(held, {m \in makers : own[m] = w})], Users)
          = SumFunctionOnSet(held, makers)
    BY <2>1, UsersAssumption, SumGroup
  <2>3. \A w \in Users : {m \in makers : own[m] = w} = {m \in makers : orders[m].owner = w}
    BY <2>1
  <2>4. paid = [w \in Users |-> SumFunctionOnSet(held, {m \in makers : own[m] = w})]
    BY <2>3
  <2>5. QED  BY <2>2, <2>4
<1>6. SumFunctionOnSet(taker, Users) = spent
  <2>1. (\A w \in Users \ {u} : taker[w] = 0) /\ taker[u] = spent
    OBVIOUS
  <2>2. IsFiniteSet(Users \ {u})
    BY UsersAssumption, FS_Subset
  <2> HIDE DEF taker
  <2>3. SumFunctionOnSet(taker, Users) = taker[u] + SumFunctionOnSet(taker, Users \ {u})
    BY <1>4, UsersAssumption, SumRemove
  <2>4. SumFunctionOnSet(taker, Users \ {u}) = 0
    BY <2>1, <2>2, SumZero
  <2>5. QED  BY <2>1, <2>3, <2>4
<1> HIDE DEF after, before, paid, taker
<1>7. \A w \in Users : /\ after[w] \in Int /\ taker[w] \in Int /\ kept[w] = after[w] + taker[w]
                       /\ kept[w] \in Int /\ paid[w] \in Int /\ before[w] = kept[w] + paid[w]
  BY <1>2, <1>3, <1>4
<1> HIDE DEF kept
<1>8. SumFunctionOnSet(kept, Users) = SumFunctionOnSet(after, Users) + SumFunctionOnSet(taker, Users)
  BY <1>7, UsersAssumption, SumPlus
<1>9. SumFunctionOnSet(before, Users) = SumFunctionOnSet(kept, Users) + SumFunctionOnSet(paid, Users)
  BY <1>7, UsersAssumption, SumPlus
<1>10. SumFunctionOnSet(after, Users) \in Int /\ SumFunctionOnSet(held, makers) \in Int
  BY <1>7, UsersAssumption, SumType
<1>11. QED  BY <1>5, <1>6, <1>8, <1>9, <1>10 DEF after, before

\* A submission conserves money.
LEMMA ConservedSubmit ==
  ASSUME BookInv, OrderInv, WalletInv, TypeOK, Conserved,
         NEW u \in Users, NEW b \in Books, NEW outcome \in Outcomes, NEW side \in OrderSide,
         NEW price \in Prices, NEW quantity \in Quantities, NEW id \in OrderIds,
         NextId(id), SubmitOrder(u, b, outcome, side, price, quantity, id)
  PROVE  Conserved'
<1>1. PICK makers : makers = Makers(u, b, outcome, side, price)
  OBVIOUS
<1>2. PICK filled : filled = MatchPriceTime(side, quantity, orders, makers)
  OBVIOUS
<1>3. PICK taken : taken = SumFunctionOnSet(filled, makers)
  OBVIOUS
<1>4. PICK unit : unit = UnitCost(side, price)
  OBVIOUS
<1>5. price \in Price /\ WithinPrecision(price) /\ quantity \in Nat
  BY PricesAssumption, QuantitiesAssumption DEF SubmitOrder
<1>6. PostingsInUnits(makers, filled, taken, unit, side, quantity, u)
  BY <1>1, <1>2, <1>3, <1>4, <1>5, SubmitPostings DEF WalletInv
<1>7. /\ taken \in Nat /\ unit \in Nat
      /\ SumFunctionOnSet(TakerCost(makers, filled, side), makers) \in Nat
  <2>1. Totals(makers, filled, taken, unit, side, quantity)
    BY <1>1, <1>2, <1>3, <1>4, <1>5, FillTotals
  <2>2. QED  BY <2>1 DEF Totals
<1>8. /\ makers \in SUBSET DOMAIN orders /\ IsFiniteSet(makers)
      /\ \A m \in makers : filled[m] \in Nat
  BY <1>1, <1>2, SubmitMatch
<1> DEFINE spent == SumFunctionOnSet(TakerCost(makers, filled, side), makers)
           held == MakerHeld(makers, filled)
           whole == quantity * unit
           used == taken * unit
           escrowed == SumFunctionOnSet([m \in makers |-> EscrowCredit(filled[m], orders[m].price)], makers)
           charged == SumFunctionOnSet([m \in makers |-> FeeCredit(filled[m], orders[m].price)], makers)
<1>9. /\ available' = [w \in Users |-> available[w] + (IF w = u THEN used - spent - whole ELSE 0)]
      /\ reserved' = [w \in Users |->
           reserved[w] - OwnedBy(w, makers, held) + (IF w = u THEN whole - used ELSE 0)]
  BY <1>6 DEF PostingsInUnits
<1>10. whole \in Nat /\ used \in Nat /\ spent \in Nat
  BY <1>5, <1>7
<1>11. \A m \in makers : held[m] \in Int
  BY <1>1, <1>5, <1>8, FillMoney
<1>12. /\ escrowed \in Int /\ charged \in Int
       /\ SumFunctionOnSet(held, makers) + spent = escrowed + charged
  BY <1>1, <1>5, <1>8, PaymentsReceived
<1>13. Credits(makers, filled)
  BY <1>1, <1>2, SubmitCredits
<1>14. escrow' = escrow + escrowed /\ fees' = fees + charged
  BY <1>13 DEF Credits
<1> HIDE DEF spent, held, whole, used, escrowed, charged
<1>15. \A w \in Users : OwnedBy(w, makers, held) \in Int
  <2> TAKE w \in Users
  <2> DEFINE T == {m \in makers : orders[m].owner = w}
  <2>1. IsFiniteSet(T) /\ \A m \in T : held[m] \in Int
    BY <1>8, <1>11, FS_Subset
  <2> HIDE DEF T
  <2>2. SumFunctionOnSet(held, T) \in Int
    BY <2>1, SumType
  <2>3. QED  BY <2>2 DEF OwnedBy, T
<1>16. \A w \in Users : Wealth'[w] = Wealth[w] - OwnedBy(w, makers, held)
                                     - (IF w = u THEN spent ELSE 0)
  <2> TAKE w \in Users
  <2>1. available[w] \in Int /\ reserved[w] \in Int /\ OwnedBy(w, makers, held) \in Int
    BY <1>15 DEF TypeOK
  <2>2. /\ Wealth[w] = available[w] + reserved[w]
        /\ Wealth'[w] = available'[w] + reserved'[w]
    BY DEF Wealth
  <2>3. /\ available'[w] = available[w] + (IF w = u THEN used - spent - whole ELSE 0)
        /\ reserved'[w] = reserved[w] - OwnedBy(w, makers, held) + (IF w = u THEN whole - used ELSE 0)
    BY <1>9
  <2>4. QED  BY <1>10, <2>1, <2>2, <2>3
<1>17. SumFunctionOnSet(Wealth', Users)
           = SumFunctionOnSet(Wealth, Users) - SumFunctionOnSet(held, makers) - spent
  BY <1>8, <1>10, <1>11, <1>16, WealthPaid
<1>18. /\ SumFunctionOnSet(Wealth, Users) \in Int /\ SumFunctionOnSet(held, makers) \in Int
       /\ escrow \in Int /\ fees \in Int
  BY <1>8, <1>11, WealthSum, UsersAssumption, SumType DEF TypeOK
<1>19. QED  BY <1>10, <1>12, <1>14, <1>17, <1>18 DEF Conserved

\* User wallets, market escrow and fees of the asset together are always the
\* finalised deposits: trading neither creates nor loses a minor unit.
THEOREM Conservation == Spec => []CollateralConserved
<1>1. ASSUME Init PROVE Conserved
  <2>1. /\ available = Funds /\ reserved = [w \in Users |-> 0] /\ escrow = 0 /\ fees = 0
    BY <1>1 DEF Init
  <2>2. \A w \in Users : Funds[w] \in Int /\ Wealth[w] = Funds[w]
    BY <2>1, FundsAssumption DEF Wealth
  <2>3. SumFunctionOnSet(Wealth, Users) = SumFunctionOnSet(Funds, Users)
    BY <2>2, UsersAssumption, SumEqual
  <2>4. SumFunctionOnSet(Funds, Users) \in Int
    BY <2>2, UsersAssumption, SumType
  <2>5. QED  BY <2>1, <2>3, <2>4 DEF Conserved
<1>2. ASSUME BookInv, OrderInv, WalletInv, TypeOK, Conserved, [Next]_vars
      PROVE  Conserved'
  <2>1. CASE \/ \E b \in Books : ActivateClob(b) \/ HaltClob(b) \/ TradingCutoff(b)
             \/ \E u \in Users : SetEligibility(u)
             \/ UNCHANGED vars
    <3>1. /\ available' = available /\ reserved' = reserved
          /\ escrow' = escrow /\ fees' = fees
      BY <2>1, BookStepsMoney
    <3>2. QED  BY <1>2, <3>1 DEF Conserved, Wealth
  <2>2. CASE \/ \E k \in DOMAIN orders : CancelOrder(k)
             \/ \E b \in Books : CloseResolutionBook(b)
    BY <1>2, <2>2, ReleaseSteps, ConservedRelease
  <2>3. ASSUME NEW u \in Users, NEW b \in Books, NEW outcome \in Outcomes,
               NEW side \in OrderSide, NEW price \in Prices, NEW quantity \in Quantities,
               NEW id \in OrderIds,
               NextId(id), SubmitOrder(u, b, outcome, side, price, quantity, id)
        PROVE  Conserved'
    BY <1>2, <2>3, ConservedSubmit
  <2>4. QED  BY <1>2, <2>1, <2>2, <2>3, StepKinds
<1>3. TypeOK /\ Conserved => CollateralConserved
  BY WealthSum DEF Conserved, CollateralConserved
<1>4. QED  BY <1>1, <1>2, <1>3, Layer1, Layer3, ClobTypeOK, PTL DEF Spec

-------------------------------------------------------------------------------
(* Layer 5: the position every user has in every book.                       *)

Own(w, c) == {k \in DOMAIN orders : orders[k].owner = w /\ orders[k].book = c}

\* The fills of book c that user w is a side of.
Traded(w, c) ==
  {f \in fills : /\ orders[f.maker].book = c
                 /\ w \in {orders[f.maker].owner, orders[f.taker].owner}}

Lots      == [f \in fills |-> f.quantity]
Executed  == [k \in DOMAIN orders |-> orders[k].quantity - orders[k].remaining]
CountedOf == [k \in DOMAIN orders |-> Counted(k)]

\* The fills of a user and the user's orders tell the same position, and what
\* WithinExposure counts is within the limit.  The limit on open orders and
\* fills is not inductive alone: the guard of an order reads the orders only.
PositionInv ==
  /\ \A f \in fills : f.maker \in DOMAIN orders
  /\ \A w \in Users, c \in Books :
       /\ SumFunctionOnSet(Lots, Traded(w, c)) = SumFunctionOnSet(Executed, Own(w, c))
       /\ ContractUnit * SumFunctionOnSet(CountedOf, Own(w, c)) <= ExposureLimit

\* What has been executed of an order and what counts of it are quantities.
LEMMA PositionTypes ==
  ASSUME OrderInv
  PROVE  /\ \A k \in DOMAIN orders : Executed[k] \in Nat /\ CountedOf[k] \in Nat
         /\ \A w, c : Own(w, c) \in SUBSET DOMAIN orders /\ IsFiniteSet(Own(w, c))
<1>1. \A k \in DOMAIN orders : Executed[k] \in Nat /\ CountedOf[k] \in Nat
  <2> TAKE k \in DOMAIN orders
  <2>1. /\ orders[k].quantity \in Nat /\ orders[k].remaining \in Nat
        /\ orders[k].remaining <= orders[k].quantity
    BY OrderFields DEF OrderInv, OrderSound
  <2>2. QED  BY <2>1 DEF Executed, CountedOf, Counted
<1>2. \A w, c : Own(w, c) \in SUBSET DOMAIN orders /\ IsFiniteSet(Own(w, c))
  <2> TAKE w, c
  <2>1. Own(w, c) \in SUBSET DOMAIN orders
    BY DEF Own
  <2>2. QED  BY <2>1, OrdersFinite, FS_Subset
<1>3. QED  BY <1>1, <1>2

\* Nobody has a position at the start.
LEMMA PositionInit == Init => PositionInv
<1> SUFFICES ASSUME Init, NEW w \in Users, NEW c \in Books
    PROVE  /\ SumFunctionOnSet(Lots, Traded(w, c)) = SumFunctionOnSet(Executed, Own(w, c))
           /\ ContractUnit * SumFunctionOnSet(CountedOf, Own(w, c)) <= ExposureLimit
  BY DEF PositionInv, Init
<1>1. Traded(w, c) = {} /\ Own(w, c) = {}
  BY DEF Init, Traded, Own
<1>2. /\ SumFunctionOnSet(Lots, {}) = 0 /\ SumFunctionOnSet(Executed, {}) = 0
      /\ SumFunctionOnSet(CountedOf, {}) = 0
  BY SumEmpty
<1>3. ContractUnit * 0 <= ExposureLimit
  BY ContractUnitAssumption, ExposureLimitAssumption
<1>4. QED  BY <1>1, <1>2, <1>3

\* A step that trades nothing, and opens nothing, keeps every position and can
\* only lower what counts.
LEMMA PositionsKept ==
  ASSUME OrderInv, FillInv, PositionInv, fills' = fills, DOMAIN orders' = DOMAIN orders,
         \A k \in DOMAIN orders : /\ SameTerms(orders'[k], orders[k])
                                  /\ orders'[k].remaining = orders[k].remaining
                                  /\ orders'[k].state = "open" => Open(k)
  PROVE  PositionInv'
<1>1. Lots' = Lots
  BY DEF Lots
<1>2. Executed' = Executed
  BY DEF Executed, SameTerms
<1>3. \A w, c : Own(w, c)' = Own(w, c)
  BY DEF Own, SameTerms
<1>4. \A f \in fills : f.maker \in DOMAIN orders /\ f.taker \in DOMAIN orders
  BY DEF PositionInv, FillInv
<1>5. \A w, c : Traded(w, c)' = Traded(w, c)
  BY <1>4 DEF Traded, SameTerms
<1>6. \A k \in DOMAIN orders : CountedOf'[k] \in Nat /\ CountedOf'[k] <= CountedOf[k]
  <2> TAKE k \in DOMAIN orders
  <2>1. /\ orders[k].quantity \in Nat /\ orders[k].remaining \in Nat
        /\ orders[k].remaining <= orders[k].quantity
    BY OrderFields DEF OrderInv, OrderSound
  <2>2. QED  BY <2>1 DEF CountedOf, Counted, Open, SameTerms
<1>7. ASSUME NEW w \in Users, NEW c \in Books
      PROVE  ContractUnit * SumFunctionOnSet(CountedOf', Own(w, c)) <= ExposureLimit
  <2> DEFINE f == CountedOf
             g == CountedOf'
             S == Own(w, c)
             old == SumFunctionOnSet(f, S)
             new == SumFunctionOnSet(g, S)
  <2>1. IsFiniteSet(S) /\ \A k \in S : f[k] \in Nat /\ g[k] \in Nat /\ g[k] <= f[k]
    BY <1>6, PositionTypes
  <2>2. ContractUnit * old <= ExposureLimit
    BY DEF PositionInv
  <2> HIDE DEF f, g, S
  <2>3. new <= old
    BY <2>1, SumLeq
  <2>4. old \in Nat /\ new \in Nat
    BY <2>1, SumNat
  <2> HIDE DEF old, new
  <2>5. ContractUnit * new <= ContractUnit * old
    BY <2>3, <2>4, ContractUnitAssumption, ProductMonotone
  <2>6. ContractUnit * new \in Int /\ ContractUnit * old \in Int
    BY <2>4, ContractUnitAssumption
  <2>7. QED  BY <2>2, <2>5, <2>6, ExposureLimitAssumption DEF new, g, S
<1>8. QED  BY <1>1, <1>2, <1>3, <1>4, <1>5, <1>7 DEF PositionInv

\* What an order entry executes of every order, and what it makes count: what
\* the makers lose in remaining quantity is executed, the new order counts whole.
LEMMA ExecutedSubmitted ==
  ASSUME BookInv, OrderInv,
         NEW u \in Users, NEW b \in Books, NEW outcome \in Outcomes, NEW side \in OrderSide,
         NEW price \in Prices, NEW quantity \in Quantities, NEW id \in OrderIds,
         NextId(id), SubmitOrder(u, b, outcome, side, price, quantity, id),
         NEW makers, makers = Makers(u, b, outcome, side, price),
         NEW filled, filled = MatchPriceTime(side, quantity, orders, makers)
  PROVE  /\ \A k \in makers : Executed'[k] = Executed[k] + filled[k]
         /\ \A k \in DOMAIN orders \ makers : Executed'[k] = Executed[k]
         /\ Executed'[id] = SumFunctionOnSet(filled, makers)
         /\ \A k \in DOMAIN orders : CountedOf'[k] = CountedOf[k]
         /\ CountedOf'[id] = quantity
<1> DEFINE taken == SumFunctionOnSet(filled, makers)
<1>1. /\ makers \in SUBSET DOMAIN orders /\ quantity \in Nat /\ taken \in Nat /\ taken <= quantity
      /\ \A m \in makers : filled[m] \in Nat /\ filled[m] <= orders[m].remaining
  BY SubmitMatch
<1>2. /\ id \notin DOMAIN orders /\ DOMAIN orders' = DOMAIN orders \cup {id}
      /\ orders'[id] = NewRow(u, b, outcome, side, price, quantity, taken)
      /\ \A k \in makers : filled[k] > 0 => orders'[k] = FilledRow(orders[k], filled[k])
      /\ \A k \in DOMAIN orders : ~ (k \in makers /\ filled[k] > 0) => orders'[k] = orders[k]
  BY OrdersSubmitted, SMTT(60)
<1> HIDE DEF taken
<1>3. /\ orders'[id].quantity = quantity /\ orders'[id].remaining = quantity - taken
      /\ orders'[id].state = IF taken = quantity THEN "filled" ELSE "open"
  BY <1>2 DEF NewRow
<1>4. Executed'[id] = taken /\ CountedOf'[id] = quantity
  BY <1>1, <1>2, <1>3 DEF Executed, CountedOf, Counted, Open
<1>5. ASSUME NEW k \in makers, filled[k] > 0
      PROVE  Executed'[k] = Executed[k] + filled[k] /\ CountedOf'[k] = CountedOf[k]
  <2>1. k \in DOMAIN orders /\ filled[k] \in Nat /\ filled[k] <= orders[k].remaining
        /\ orders'[k] = FilledRow(orders[k], filled[k])
    BY <1>1, <1>2, <1>5
  <2>2. /\ orders[k].quantity \in Nat /\ orders[k].remaining \in Nat /\ orders[k] \in Order
    BY <2>1, OrderFields
  <2>3. orders[k].state = "open"
    BY <1>5 DEF Makers, Open
  <2>4. /\ orders'[k].quantity = orders[k].quantity
        /\ orders'[k].remaining = orders[k].remaining - filled[k]
        /\ orders'[k].state = "open" <=> orders[k].remaining # filled[k]
    BY <2>1, FilledFields DEF SameTerms
  <2>5. Executed'[k] = Executed[k] + filled[k]
    BY <1>2, <2>1, <2>2, <2>4 DEF Executed
  <2>6. CountedOf'[k] = CountedOf[k]
    BY <1>2, <2>1, <2>2, <2>3, <2>4 DEF CountedOf, Counted, Open
  <2>7. QED  BY <2>5, <2>6
<1>6. ASSUME NEW k \in DOMAIN orders, ~ (k \in makers /\ filled[k] > 0)
      PROVE  Executed'[k] = Executed[k] /\ CountedOf'[k] = CountedOf[k]
  <2>1. orders'[k] = orders[k] /\ k \in DOMAIN orders'
    BY <1>2, <1>6
  <2>2. QED  BY <2>1 DEF Executed, CountedOf, Counted, Open
<1>7. \A k \in makers : Executed'[k] = Executed[k] + filled[k]
  <2> TAKE k \in makers
  <2>1. CASE filled[k] > 0
    BY <1>5, <2>1
  <2>2. CASE ~ filled[k] > 0
    <3>1. filled[k] = 0 /\ k \in DOMAIN orders /\ Executed[k] \in Nat
      BY <1>1, <2>2, PositionTypes
    <3>2. Executed'[k] = Executed[k]
      BY <1>6, <2>2, <3>1
    <3>3. QED  BY <3>1, <3>2
  <2>3. QED  BY <2>1, <2>2
<1>8. \A k \in DOMAIN orders : CountedOf'[k] = CountedOf[k]
  BY <1>1, <1>5, <1>6
<1>9. QED  BY <1>4, <1>6, <1>7, <1>8 DEF taken

\* The makers that trade for user w in book c when u's order enters book b:
\* all of them when w is u, those w owns otherwise.
Share(w, c, u, b, matched) == {m \in matched : c = b /\ (w = u \/ orders[m].owner = w)}

\* The orders of w in book c after an order entry have executed what they had
\* executed before, and w's share of what was taken.
LEMMA OwnSubmitted ==
  ASSUME BookInv, OrderInv,
         NEW u \in Users, NEW b \in Books, NEW outcome \in Outcomes, NEW side \in OrderSide,
         NEW price \in Prices, NEW quantity \in Quantities, NEW id \in OrderIds,
         NextId(id), SubmitOrder(u, b, outcome, side, price, quantity, id),
         NEW makers, makers = Makers(u, b, outcome, side, price),
         NEW filled, filled = MatchPriceTime(side, quantity, orders, makers),
         NEW matched, matched = {n \in makers : filled[n] > 0},
         NEW w \in Users, NEW c \in Books
  PROVE  SumFunctionOnSet(Executed', Own(w, c)')
           = SumFunctionOnSet(Executed, Own(w, c))
             + SumFunctionOnSet(filled, Share(w, c, u, b, matched))
<1>1. /\ makers \in SUBSET DOMAIN orders /\ IsFiniteSet(makers)
      /\ \A m \in makers : filled[m] \in Nat
      /\ SumFunctionOnSet(filled, makers) \in Nat
  BY SubmitMatch
<1>2. /\ id \notin DOMAIN orders /\ DOMAIN orders' = DOMAIN orders \cup {id}
      /\ orders'[id].owner = u /\ orders'[id].book = b
      /\ \A k \in DOMAIN orders : SameTerms(orders'[k], orders[k])
  BY SubmitFrame, SMTT(60)
<1>3. \A m \in makers : orders[m].book = b /\ orders[m].owner # u
  BY DEF Makers
<1>4. Own(w, c)' = Own(w, c) \cup (IF w = u /\ c = b THEN {id} ELSE {})
  BY <1>2 DEF Own, SameTerms
<1>5. /\ \A k \in makers : Executed'[k] = Executed[k] + filled[k]
      /\ \A k \in DOMAIN orders \ makers : Executed'[k] = Executed[k]
      /\ Executed'[id] = SumFunctionOnSet(filled, makers)
  BY ExecutedSubmitted
<1>6. /\ \A k \in DOMAIN orders : Executed[k] \in Nat
      /\ Own(w, c) \in SUBSET DOMAIN orders /\ IsFiniteSet(Own(w, c))
  BY PositionTypes
<1>7. matched \in SUBSET makers /\ IsFiniteSet(matched)
  BY <1>1, FS_Subset
<1> DEFINE f == Executed
           g == Executed'
           S == Own(w, c)
           part == Share(w, c, u, b, matched)
           before == SumFunctionOnSet(f, S)
           shared == SumFunctionOnSet(filled, part)
<1>8. before \in Int
  BY <1>6, SumType
<1>9. CASE c # b
  <2>1. part = {} /\ Own(w, c)' = S
    BY <1>4, <1>9 DEF Share
  <2>2. \A k \in S : f[k] \in Int /\ g[k] = f[k]
    BY <1>3, <1>5, <1>6, <1>9 DEF Own
  <2>3. shared = 0
    BY <2>1, SumEmpty
  <2> HIDE DEF f, g, S, part
  <2>4. SumFunctionOnSet(g, S) = SumFunctionOnSet(f, S)
    BY <1>6, <2>2, SumEqual DEF S
  <2> HIDE DEF before, shared
  <2>5. QED  BY <1>8, <2>1, <2>3, <2>4 DEF before, shared, f, g, S, part
<1>10. CASE c = b /\ w = u
  <2>1. part = matched /\ Own(w, c)' = S \cup {id} /\ id \notin S
    BY <1>2, <1>4, <1>6, <1>10 DEF Share
  <2>2. \A k \in S : f[k] \in Int /\ g[k] = f[k]
    BY <1>3, <1>5, <1>6, <1>10 DEF Own
  <2>3. SumFunctionOnSet(filled, makers) = SumFunctionOnSet(filled, matched)
    <3>1. \A m \in matched : filled[m] \in Int
      BY <1>1, <1>7
    <3>2. \A m \in makers \ matched : filled[m] = 0
      BY <1>1
    <3>3. QED  BY <1>1, <1>7, <3>1, <3>2, SumRestrict
  <2>4. g[id] = shared /\ shared \in Int
    BY <1>1, <1>5, <2>1, <2>3
  <2> HIDE DEF f, g, S, part
  <2>5. SumFunctionOnSet(g, S) = SumFunctionOnSet(f, S)
    BY <1>6, <2>2, SumEqual DEF S
  <2> HIDE DEF shared
  <2>6. \A k \in S \cup {id} : g[k] \in Int
    BY <2>2, <2>4
  <2>7. SumFunctionOnSet(g, S \cup {id}) = g[id] + SumFunctionOnSet(g, S)
    BY <1>6, <2>1, <2>6, SumAdd DEF S
  <2>8. SumFunctionOnSet(g, S) = before
    BY <2>5
  <2> HIDE DEF before
  <2>9. SumFunctionOnSet(g, S \cup {id}) = before + shared
    BY <1>8, <2>4, <2>7, <2>8
  <2>10. QED  BY <2>1, <2>9 DEF before, shared, f, g, S, part
<1>11. CASE c = b /\ w # u
  <2> DEFINE e == [k \in S |-> IF k \in part THEN filled[k] ELSE 0]
  <2>1. Own(w, c)' = S /\ part \in SUBSET S
    BY <1>1, <1>3, <1>4, <1>7, <1>11 DEF Share, Own
  <2>2. \A k \in S : f[k] \in Int /\ e[k] \in Int /\ g[k] = f[k] + e[k]
    <3> TAKE k \in S
    <3>1. k \in DOMAIN orders /\ f[k] \in Nat /\ orders[k].owner = w
      BY <1>6 DEF Own
    <3>2. CASE k \in part
      <4>1. k \in makers
        BY <1>7, <3>2 DEF Share
      <4>2. g[k] = f[k] + filled[k] /\ filled[k] \in Nat
        BY <1>1, <1>5, <4>1
      <4>3. e[k] = filled[k]
        BY <3>2
      <4> HIDE DEF e, f, g
      <4>4. QED  BY <3>1, <4>2, <4>3
    <3>3. CASE k \notin part
      <4>1. e[k] = 0
        BY <3>3
      <4>2. g[k] = f[k]
        <5>1. CASE k \in makers
          <6>1. ~ filled[k] > 0
            BY <1>11, <3>1, <3>3, <5>1 DEF Share
          <6>2. filled[k] = 0 /\ g[k] = f[k] + filled[k]
            BY <1>1, <1>5, <5>1, <6>1
          <6> HIDE DEF f, g
          <6>3. QED  BY <3>1, <6>2
        <5>2. CASE k \notin makers
          BY <1>5, <3>1, <5>2
        <5>3. QED  BY <5>1, <5>2
      <4> HIDE DEF e, f, g
      <4>3. QED  BY <3>1, <4>1, <4>2
    <3>4. QED  BY <3>2, <3>3
  <2>3. (\A k \in part : filled[k] \in Int /\ e[k] = filled[k]) /\ \A k \in S \ part : e[k] = 0
    BY <1>1, <1>7, <2>1 DEF Share
  <2> HIDE DEF f, g, S, part, e
  <2>4. SumFunctionOnSet(g, S) = SumFunctionOnSet(f, S) + SumFunctionOnSet(e, S)
    BY <1>6, <2>2, SumPlus DEF S
  <2>5. SumFunctionOnSet(e, S) = SumFunctionOnSet(filled, part)
    BY <1>6, <2>1, <2>3, SumRestrict DEF S
  <2>6. QED  BY <2>1, <2>4, <2>5 DEF f, g, S, part
<1>12. QED  BY <1>9, <1>10, <1>11

\* The fills of w in book c after an order entry are those before it and the
\* new ones with the makers w trades with or as.
LEMMA TradedSubmitted ==
  ASSUME BookInv, OrderInv, FillInv, PositionInv,
         NEW u \in Users, NEW b \in Books, NEW outcome \in Outcomes, NEW side \in OrderSide,
         NEW price \in Prices, NEW quantity \in Quantities, NEW id \in OrderIds,
         NextId(id), SubmitOrder(u, b, outcome, side, price, quantity, id),
         NEW makers, makers = Makers(u, b, outcome, side, price),
         NEW filled, filled = MatchPriceTime(side, quantity, orders, makers),
         NEW matched, matched = {n \in makers : filled[n] > 0},
         NEW w \in Users, NEW c \in Books
  PROVE  /\ \A f \in fills' : f.maker \in DOMAIN orders'
         /\ SumFunctionOnSet(Lots', Traded(w, c)')
              = SumFunctionOnSet(Lots, Traded(w, c))
                + SumFunctionOnSet(filled, Share(w, c, u, b, matched))
<1>1. /\ makers \in SUBSET DOMAIN orders /\ IsFiniteSet(makers)
      /\ \A m \in makers : filled[m] \in Nat
  BY SubmitMatch
<1>2. /\ id \notin DOMAIN orders /\ DOMAIN orders' = DOMAIN orders \cup {id}
      /\ orders'[id].owner = u
      /\ \A k \in DOMAIN orders : SameTerms(orders'[k], orders[k])
  BY SubmitFrame, SMTT(60)
<1>3. \A m \in makers : orders[m].book = b
  BY DEF Makers
<1>4. PICK row : RowsAdded(row, filled, matched, id)
  BY FillRows
<1>5. /\ fills' = fills \cup {row[m] : m \in matched}
      /\ \A m \in matched : /\ row[m] \in Fill /\ row[m] \notin fills
                            /\ row[m].maker = m /\ row[m].taker = id
                            /\ row[m].quantity = filled[m]
  BY <1>4 DEF RowsAdded
<1>6. matched \in SUBSET makers /\ IsFiniteSet(matched)
  BY <1>1, FS_Subset
<1>7. \A f \in fills : /\ f.maker \in DOMAIN orders /\ f.taker \in DOMAIN orders
                       /\ f.quantity \in Nat
  BY DEF PositionInv, FillInv, Fill
<1> DEFINE part == Share(w, c, u, b, matched)
           New == {row[m] : m \in part}
           Old == Traded(w, c)
           f0 == Lots
           g == Lots'
<1>8. part \in SUBSET matched /\ IsFiniteSet(part)
  BY <1>6, FS_Subset DEF Share
<1>9. \A m \in matched : orders'[m].book = b /\ orders'[m].owner = orders[m].owner
  BY <1>1, <1>2, <1>3, <1>6 DEF SameTerms
<1>10. Traded(w, c)' = Old \cup New
  <2>1. ASSUME NEW f \in fills
        PROVE  f \in Traded(w, c)' <=> f \in Old
    <3>1. f \in fills' /\ f.maker \in DOMAIN orders /\ f.taker \in DOMAIN orders
      BY <1>5, <1>7
    <3>2. SameTerms(orders'[f.maker], orders[f.maker]) /\ SameTerms(orders'[f.taker], orders[f.taker])
      BY <1>2, <3>1
    <3>3. QED  BY <3>1, <3>2 DEF Traded, SameTerms
  <2>2. ASSUME NEW m \in matched
        PROVE  row[m] \in Traded(w, c)' <=> m \in part
    <3>1. row[m] \in fills' /\ row[m].maker = m /\ row[m].taker = id
      BY <1>5
    <3>2. row[m] \in Traded(w, c)' <=> b = c /\ (w = orders[m].owner \/ w = u)
      BY <1>2, <1>9, <3>1 DEF Traded
    <3>3. QED  BY <3>2 DEF Share
  <2>3. Traded(w, c)' \subseteq fills' /\ Old \subseteq fills
    BY DEF Traded
  <2>4. \A m \in part : m \in matched
    BY <1>8
  <2>5. \A m \in matched : row[m] \in New => m \in part
    BY <1>5, <1>8
  <2> HIDE DEF part, Old
  <2>6. QED  BY <1>5, <2>1, <2>2, <2>3, <2>4
<1>11. IsFiniteSet(Old) /\ Old \in SUBSET fills /\ \A f \in Old : f0[f] \in Int /\ g[f] = f0[f]
  <2>1. Old \in SUBSET fills
    BY DEF Traded
  <2>2. IsFiniteSet(Old)
    BY <2>1, FS_Subset DEF FillInv
  <2>3. \A f \in Old : f \in fills /\ f \in fills' /\ f.quantity \in Int
    BY <1>5, <1>7, <2>1
  <2> HIDE DEF Old
  <2>4. QED  BY <2>1, <2>2, <2>3 DEF Lots
<1>12. /\ \A m \in part : filled[m] \in Nat /\ g[row[m]] = filled[m]
       /\ \A m, n \in part : row[m] = row[n] => m = n
  <2>1. \A m \in part : m \in matched
    BY <1>8
  <2>2. \A m \in part : row[m] \in fills' /\ row[m].maker = m /\ row[m].quantity = filled[m]
    BY <1>5, <2>1
  <2>3. \A m \in part : filled[m] \in Nat
    BY <1>1, <1>6, <2>1
  <2> HIDE DEF part
  <2>4. QED  BY <2>2, <2>3 DEF Lots
<1>13. \A f \in New : f \notin Old
  BY <1>5, <1>8, <1>11
<1> HIDE DEF f0, g, part, Old
<1>14. IsFiniteSet(New) /\ SumFunctionOnSet(g, New) = SumFunctionOnSet(filled, part)
  <2>1. IsFiniteSet(part) /\ \A m \in part : filled[m] \in Int
    BY <1>8, <1>12
  <2>2. QED  BY <1>12, <2>1, SumImage
<1>15. SumFunctionOnSet(g, Old) = SumFunctionOnSet(f0, Old)
  BY <1>11, SumEqual
<1> DEFINE All == Old \cup New
<1>16. IsFiniteSet(All) /\ Old \in SUBSET All /\ All \ Old = New
  <2>1. IsFiniteSet(All)
    BY <1>11, <1>14, FS_Union
  <2> HIDE DEF New
  <2>2. QED  BY <1>13, <2>1
<1>17. \A f \in All : g[f] \in Int
  <2>1. \A f \in Old : g[f] \in Int
    BY <1>11
  <2>2. \A f \in New : g[f] \in Int
    BY <1>12
  <2>3. QED  BY <2>1, <2>2
<1> HIDE DEF New
<1>18. SumFunctionOnSet(g, All) = SumFunctionOnSet(g, Old) + SumFunctionOnSet(g, New)
  <2> HIDE DEF All
  <2>1. QED  BY <1>16, <1>17, SumSplit
<1>19. \A f \in fills' : f.maker \in DOMAIN orders'
  BY <1>1, <1>2, <1>5, <1>6, <1>7
<1>20. QED  BY <1>10, <1>14, <1>15, <1>18, <1>19 DEF f0, g, part, Old

\* An order enters only within its owner's exposure.
LEMMA ExposureGuard ==
  ASSUME NEW u, NEW b, NEW outcome, NEW side, NEW price, NEW quantity, NEW id,
         SubmitOrder(u, b, outcome, side, price, quantity, id)
  PROVE  WithinExposure(u, b, quantity)
BY Zenon DEF SubmitOrder

\* What counts for w in book c after an order entry is within the limit: the
\* guard of the entry closes it for u in b, and nothing changes elsewhere.
LEMMA CountedSubmitted ==
  ASSUME BookInv, OrderInv, PositionInv,
         NEW u \in Users, NEW b \in Books, NEW outcome \in Outcomes, NEW side \in OrderSide,
         NEW price \in Prices, NEW quantity \in Quantities, NEW id \in OrderIds,
         NextId(id), SubmitOrder(u, b, outcome, side, price, quantity, id),
         NEW w \in Users, NEW c \in Books
  PROVE  ContractUnit * SumFunctionOnSet(CountedOf', Own(w, c)') <= ExposureLimit
<1>1. PICK makers : makers = Makers(u, b, outcome, side, price)
  OBVIOUS
<1>2. PICK filled : filled = MatchPriceTime(side, quantity, orders, makers)
  OBVIOUS
<1>3. /\ id \notin DOMAIN orders /\ DOMAIN orders' = DOMAIN orders \cup {id}
      /\ orders'[id].owner = u /\ orders'[id].book = b
      /\ \A k \in DOMAIN orders : SameTerms(orders'[k], orders[k])
  BY SubmitFrame, SMTT(60)
<1>4. /\ \A k \in DOMAIN orders : CountedOf'[k] = CountedOf[k]
      /\ CountedOf'[id] = quantity
  BY <1>1, <1>2, ExecutedSubmitted
<1>5. /\ \A k \in DOMAIN orders : CountedOf[k] \in Nat
      /\ Own(w, c) \in SUBSET DOMAIN orders /\ IsFiniteSet(Own(w, c))
      /\ Own(u, b) \in SUBSET DOMAIN orders /\ IsFiniteSet(Own(u, b))
  BY PositionTypes
<1>6. quantity \in Nat /\ ContractUnit \in Nat
  BY QuantitiesAssumption, ContractUnitAssumption
<1> DEFINE f == CountedOf
           g == CountedOf'
           S == Own(w, c)
<1>7. \A k \in S : f[k] \in Nat /\ g[k] = f[k]
  BY <1>4, <1>5
<1>8. SumFunctionOnSet(g, S) = SumFunctionOnSet(f, S)
  <2> HIDE DEF f, g, S
  <2>1. \A k \in S : f[k] \in Int /\ g[k] = f[k]
    BY <1>7
  <2>2. QED  BY <1>5, <2>1, SumEqual DEF S
<1>9. CASE ~ (w = u /\ c = b)
  <2>1. Own(w, c)' = S
    BY <1>3, <1>9 DEF Own, SameTerms
  <2>2. ContractUnit * SumFunctionOnSet(f, S) <= ExposureLimit
    BY DEF PositionInv
  <2> HIDE DEF f, g, S
  <2>3. QED  BY <1>8, <2>1, <2>2 DEF g
<1>10. CASE w = u /\ c = b
  <2> DEFINE own == {k \in DOMAIN orders : orders[k].owner = u /\ orders[k].book = b}
             h == [k \in own |-> Counted(k)]
  <2>1. Own(w, c)' = S \cup {id} /\ id \notin S
    BY <1>3, <1>5, <1>10 DEF Own, SameTerms
  <2>2. S = own /\ \A k \in S : h[k] = f[k]
    BY <1>10 DEF Own, CountedOf
  <2>3. ContractUnit * SumFunctionOnSet(h, own) + quantity * ContractUnit <= ExposureLimit
    <3>1. WithinExposure(u, b, quantity)
      BY ExposureGuard
    <3>2. QED  BY <3>1 DEF WithinExposure
  <2>4. g[id] = quantity
    BY <1>4
  <2> HIDE DEF f, g, S, h, own
  <2>5. SumFunctionOnSet(h, own) = SumFunctionOnSet(f, S)
    <3>1. \A k \in S : f[k] \in Int /\ h[k] = f[k]
      BY <1>7, <2>2
    <3>2. SumFunctionOnSet(h, S) = SumFunctionOnSet(f, S)
      BY <1>5, <3>1, SumEqual DEF S
    <3>3. QED  BY <2>2, <3>2
  <2>6. SumFunctionOnSet(g, S \cup {id}) = g[id] + SumFunctionOnSet(g, S)
    <3>1. \A k \in S \cup {id} : g[k] \in Int
      BY <1>6, <1>7, <2>4
    <3>2. QED  BY <1>5, <2>1, <3>1, SumAdd DEF S
  <2> DEFINE old == SumFunctionOnSet(f, S)
             new == SumFunctionOnSet(g, S \cup {id})
  <2>7. old \in Nat
    BY <1>5, <1>7, SumNat DEF S
  <2>8. new = quantity + old
    BY <1>8, <2>4, <2>6
  <2>9. ContractUnit * old + quantity * ContractUnit <= ExposureLimit
    BY <2>3, <2>5
  <2> HIDE DEF old, new
  <2>10. ContractUnit * new = ContractUnit * old + quantity * ContractUnit
    BY <1>6, <2>7, <2>8
  <2>11. ContractUnit * new <= ExposureLimit
    BY <2>9, <2>10
  <2>12. QED  BY <2>1, <2>11 DEF new, g
<1>11. QED  BY <1>9, <1>10

\* A submission keeps exposure within the limit.
LEMMA PositionStepSubmit ==
  ASSUME BookInv, OrderInv, FillInv, PositionInv,
         NEW u \in Users, NEW b \in Books, NEW outcome \in Outcomes, NEW side \in OrderSide,
         NEW price \in Prices, NEW quantity \in Quantities, NEW id \in OrderIds,
         NextId(id), SubmitOrder(u, b, outcome, side, price, quantity, id)
  PROVE  PositionInv'
<1>1. PICK makers : makers = Makers(u, b, outcome, side, price)
  OBVIOUS
<1>2. PICK filled : filled = MatchPriceTime(side, quantity, orders, makers)
  OBVIOUS
<1>3. PICK matched : matched = {n \in makers : filled[n] > 0}
  OBVIOUS
<1>4. ASSUME NEW w \in Users, NEW c \in Books
      PROVE  SumFunctionOnSet(Lots', Traded(w, c)') = SumFunctionOnSet(Executed', Own(w, c)')
  <2>1. SumFunctionOnSet(Lots', Traded(w, c)')
          = SumFunctionOnSet(Lots, Traded(w, c))
            + SumFunctionOnSet(filled, Share(w, c, u, b, matched))
    BY <1>1, <1>2, <1>3, TradedSubmitted
  <2>2. SumFunctionOnSet(Executed', Own(w, c)')
          = SumFunctionOnSet(Executed, Own(w, c))
            + SumFunctionOnSet(filled, Share(w, c, u, b, matched))
    BY <1>1, <1>2, <1>3, OwnSubmitted
  <2>3. SumFunctionOnSet(Lots, Traded(w, c)) = SumFunctionOnSet(Executed, Own(w, c))
    BY DEF PositionInv
  <2>4. QED  BY <2>1, <2>2, <2>3, Zenon
<1>5. \A w \in Users, c \in Books :
        ContractUnit * SumFunctionOnSet(CountedOf', Own(w, c)') <= ExposureLimit
  BY CountedSubmitted
<1>6. \A f \in fills' : f.maker \in DOMAIN orders'
  <2>1. u \in Users /\ b \in Books
    OBVIOUS
  <2>2. QED  BY <1>1, <1>2, <1>3, <2>1, TradedSubmitted
<1>7. QED  BY <1>4, <1>5, <1>6 DEF PositionInv

\* Every step keeps layer 5.
LEMMA PositionStep ==
  ASSUME BookInv, OrderInv, FillInv, PositionInv, [Next]_vars
  PROVE  PositionInv'
<1>1. CASE \/ \E b \in Books : ActivateClob(b) \/ HaltClob(b) \/ TradingCutoff(b)
           \/ \E u \in Users : SetEligibility(u)
           \/ UNCHANGED vars
  <2>1. orders' = orders
    BY <1>1, BookSteps
  <2>2. fills' = fills
    BY <1>1, RestFills
  <2>3. \A k \in DOMAIN orders : /\ SameTerms(orders'[k], orders[k])
                                 /\ orders'[k].remaining = orders[k].remaining
                                 /\ orders'[k].state = "open" => Open(k)
    BY <2>1 DEF SameTerms, Open
  <2>4. QED  BY <2>1, <2>2, <2>3, PositionsKept
<1>2. CASE \/ \E k \in DOMAIN orders : CancelOrder(k)
           \/ \E b \in Books : CloseResolutionBook(b)
  <2>1. PICK S \in SUBSET {k \in DOMAIN orders : Open(k)} : ReleaseOrders(S)
    BY <1>2, ReleaseSteps
  <2>2. S \in SUBSET DOMAIN orders
    OBVIOUS
  <2>3. /\ DOMAIN orders' = DOMAIN orders
        /\ \A k \in DOMAIN orders :
             /\ SameTerms(orders'[k], orders[k])
             /\ orders'[k].remaining = orders[k].remaining
             /\ orders'[k].state = IF k \in S THEN "cancelled" ELSE orders[k].state
    BY <2>1, <2>2, ReleasedRows
  <2>4. fills' = fills
    BY <1>2, RestFills
  <2>5. \A k \in DOMAIN orders : /\ SameTerms(orders'[k], orders[k])
                                 /\ orders'[k].remaining = orders[k].remaining
                                 /\ orders'[k].state = "open" => Open(k)
    BY <2>3 DEF Open
  <2>6. QED  BY <2>3, <2>4, <2>5, PositionsKept
<1>3. ASSUME NEW u \in Users, NEW b \in Books, NEW outcome \in Outcomes, NEW side \in OrderSide,
             NEW price \in Prices, NEW quantity \in Quantities, NEW id \in OrderIds,
             NextId(id), SubmitOrder(u, b, outcome, side, price, quantity, id)
      PROVE  PositionInv'
  BY <1>3, PositionStepSubmit
<1>4. QED  BY <1>1, <1>2, <1>3, StepKinds

\* Layer 5: positions.
LEMMA Layer5 == Spec => []PositionInv
<1>1. BookInv /\ OrderInv /\ FillInv /\ PositionInv /\ [Next]_vars => PositionInv'
  BY PositionStep
<1>2. QED  BY <1>1, PositionInit, Layer1, Layer4, PTL DEF Spec

\* What w has open and what w has traded in book c is what counts of w's orders.
LEMMA ExposureCounted ==
  ASSUME OrderInv, FillInv, PositionInv, NEW w \in Users, NEW c \in Books
  PROVE  LET open == {k \in OpenOf(w) : orders[k].book = c}
             mine == {f \in fills : /\ orders[f.maker].book = c
                                    /\ w \in {orders[f.maker].owner, orders[f.taker].owner}}
         IN  SumFunctionOnSet([k \in open |-> orders[k].remaining], open)
             + SumFunctionOnSet([f \in mine |-> f.quantity], mine)
               = SumFunctionOnSet(CountedOf, Own(w, c))
<1> DEFINE open == {k \in OpenOf(w) : orders[k].book = c}
           mine == {f \in fills : /\ orders[f.maker].book = c
                                  /\ w \in {orders[f.maker].owner, orders[f.taker].owner}}
           rest == [k \in open |-> orders[k].remaining]
           lots == [f \in mine |-> f.quantity]
           e == [k \in DOMAIN orders |-> IF Open(k) THEN orders[k].remaining ELSE 0]
           S == Own(w, c)
<1>1. /\ \A k \in DOMAIN orders : Executed[k] \in Nat
      /\ S \in SUBSET DOMAIN orders /\ IsFiniteSet(S)
  BY PositionTypes
<1>2. \A k \in S : e[k] \in Int /\ Executed[k] \in Int /\ CountedOf[k] = e[k] + Executed[k]
  <2> TAKE k \in S
  <2>1. /\ k \in DOMAIN orders
        /\ orders[k].quantity \in Nat /\ orders[k].remaining \in Nat
    BY <1>1, OrderFields
  <2>2. QED  BY <2>1 DEF CountedOf, Counted, Executed
<1>3. open \in SUBSET S
  BY DEF OpenOf, Own
<1>4. (\A k \in open : rest[k] \in Int /\ e[k] = rest[k]) /\ \A k \in S \ open : e[k] = 0
  <2>1. \A k \in open : k \in DOMAIN orders /\ Open(k) /\ orders[k].remaining \in Nat
    BY OrderFields DEF OpenOf
  <2>2. \A k \in S \ open : k \in DOMAIN orders /\ ~ Open(k)
    BY <1>1 DEF Own, OpenOf
  <2>3. \A k \in open : rest[k] \in Int /\ e[k] = rest[k]
    BY <2>1
  <2>4. \A k \in S \ open : e[k] = 0
    BY <2>2
  <2>5. QED  BY <2>3, <2>4
<1>5. mine = Traded(w, c) /\ mine \in SUBSET fills
  BY DEF Traded
<1>6. IsFiniteSet(mine) /\ \A f \in mine : Lots[f] \in Int /\ lots[f] = Lots[f]
  <2>1. IsFiniteSet(mine)
    BY <1>5, FS_Subset DEF FillInv
  <2>2. \A f \in mine : f \in fills /\ f.quantity \in Int
    BY DEF FillInv, Fill
  <2>3. QED  BY <2>1, <2>2 DEF Lots
<1>7. SumFunctionOnSet(Lots, Traded(w, c)) = SumFunctionOnSet(Executed, S)
  BY DEF PositionInv
<1> HIDE DEF open, mine, rest, lots, e, S
<1>8. SumFunctionOnSet(CountedOf, S) = SumFunctionOnSet(e, S) + SumFunctionOnSet(Executed, S)
  BY <1>1, <1>2, SumPlus
<1>9. SumFunctionOnSet(e, S) = SumFunctionOnSet(rest, open)
  BY <1>1, <1>3, <1>4, SumRestrict
<1>10. SumFunctionOnSet(lots, mine) = SumFunctionOnSet(Lots, mine)
  BY <1>6, SumEqual
<1>11. SumFunctionOnSet(rest, open) + SumFunctionOnSet(lots, mine) = SumFunctionOnSet(CountedOf, S)
  BY <1>5, <1>7, <1>8, <1>9, <1>10
<1>12. QED  BY <1>11 DEF open, mine, rest, lots, S

\* The open quantity and the executed position of a user together never exceed
\* the published limit in any book, although assertExposure reads the orders
\* only: over any sequence of submissions, fills on either side, cancellations
\* and closes, the fills of a user and the user's orders tell one position.
THEOREM ExposureLimited == Spec => []ExposureWithinLimit
<1>1. ASSUME OrderInv, FillInv, PositionInv
      PROVE  ExposureWithinLimit
  <2>1. \A w \in Users, c \in Books :
          ContractUnit * SumFunctionOnSet(CountedOf, Own(w, c)) <= ExposureLimit
    BY <1>1 DEF PositionInv
  <2>2. QED  BY <1>1, <2>1, ExposureCounted DEF ExposureWithinLimit
<1>2. QED  BY <1>1, Layer1, Layer4, Layer5, PTL

(***************************************************************************)
(* The realtime stream of the books, for every set of markets, page limit  *)
(* and log: what a client is told, when it subscribes once a connection.   *)
(* The invariant is built in layers: the shapes of the state; what was     *)
(* told to a client before; where each coroutine of the server stands; the *)
(* stream of the frames on the wire.                                       *)
(***************************************************************************)
Followed == [market : Markets, after : Nat]
TaskState ==
  {Idle, Unsent}
  \cup [at : {"initial"}, market : Markets, after : Nat]
  \cup [at : {"install"}, market : Markets, after : Nat, items : BOOLEAN]
  \cup [at : {"page"}, market : Markets, after : Nat]
  \cup [at : {"events"}, after : Nat, upto : Nat]
  \cup [at : {"books"}, market : Markets]
  \cup [at : {"book"}, market : Markets, seen : Nat]
  \cup [at : {"positions"}, market : Markets, label : Nat]
  \cup [at : {"position"}, market : Markets, label : Nat, seen : Nat]

\* The coroutine works for the subscription.
Serving(t) == tasks[t].at \in {"page", "events", "books", "book", "positions", "position"}

\* The client has a market for what is at place i: it was told before.
Told(i) == view \in Followed \/ \E j \in 1..(i - 1) : wire[j].type = "subscribed"

ShapesInv ==
  /\ log \in [Markets -> Nat] /\ retained \in [Markets -> Nat]
  /\ socket \in {"none", "open", "closing"} /\ connections \in Nat
  /\ subscription \in Cursor /\ view \in Cursor
  /\ tasks \in [Task -> TaskState] /\ wire \in Seq(Frame)
  /\ working \in BOOLEAN /\ (working <=> tasks[Publisher] # Idle)
ToldInv ==
  /\ \A t \in Task : Serving(t) => subscription # NoSubscription
  /\ socket = "open" /\ subscription # NoSubscription => Told(Len(wire) + 1)
  /\ \A i \in DOMAIN wire : wire[i].type = "market_event" => Told(i)

\* The publisher is no request.
LEMMA TaskNames == Publisher \in Task /\ Publisher \notin Requests /\ Requests \subseteq Task
BY SubscribeAssumption DEF Publisher, Task, Requests

\* A cursor that is none follows a market.
LEMMA CursorCases == \A x \in Cursor : x # NoSubscription <=> x \in Followed
BY MarketsAssumption DEF Cursor, Followed, NoSubscription

\* What is sent to the client is on the wire, or dropped.
LEMMA SentFrames ==
  ASSUME wire \in Seq(Frame), NEW new \in Seq(Frame)
  PROVE  /\ Sent(new) \in Seq(Frame)
         /\ socket = "open" => Sent(new) = wire \o new
         /\ socket # "open" => Sent(new) = wire
BY DEF Sent

\* A coroutine that goes on.
LEMMA TaskSet ==
  ASSUME tasks \in [Task -> TaskState], NEW t \in Task, NEW x \in TaskState
  PROVE  /\ [tasks EXCEPT ![t] = x] \in [Task -> TaskState]
         /\ [tasks EXCEPT ![t] = x][t] = x
         /\ \A u \in Task : u # t => [tasks EXCEPT ![t] = x][u] = tasks[u]
OBVIOUS

\* The states a coroutine can be put in.
LEMMA TaskStates ==
  ASSUME NEW m \in Markets, NEW n \in Nat, NEW k \in Nat, NEW b \in BOOLEAN
  PROVE  /\ Idle \in TaskState /\ Unsent \in TaskState
         /\ [at |-> "initial", market |-> m, after |-> n] \in TaskState
         /\ [at |-> "install", market |-> m, after |-> n, items |-> b] \in TaskState
         /\ [at |-> "page", market |-> m, after |-> n] \in TaskState
         /\ [at |-> "events", after |-> n, upto |-> k] \in TaskState
         /\ [at |-> "books", market |-> m] \in TaskState
         /\ [at |-> "book", market |-> m, seen |-> k] \in TaskState
         /\ [at |-> "positions", market |-> m, label |-> n] \in TaskState
         /\ [at |-> "position", market |-> m, label |-> n, seen |-> k] \in TaskState
<1>1. /\ Idle \in TaskState /\ Unsent \in TaskState
      /\ [at |-> "initial", market |-> m, after |-> n] \in TaskState
      /\ [at |-> "install", market |-> m, after |-> n, items |-> b] \in TaskState
      /\ [at |-> "page", market |-> m, after |-> n] \in TaskState
  BY DEF TaskState
<1>2. /\ [at |-> "events", after |-> n, upto |-> k] \in TaskState
      /\ [at |-> "books", market |-> m] \in TaskState
      /\ [at |-> "book", market |-> m, seen |-> k] \in TaskState
  BY DEF TaskState
<1>3. /\ [at |-> "positions", market |-> m, label |-> n] \in TaskState
      /\ [at |-> "position", market |-> m, label |-> n, seen |-> k] \in TaskState
  BY DEF TaskState
<1>4. QED  BY <1>1, <1>2, <1>3

\* What the fields of a coroutine's state are.
LEMMA TaskFields ==
  ASSUME NEW x \in TaskState
  PROVE  /\ x.at \in {"initial", "install", "page"} => x.market \in Markets /\ x.after \in Nat
         /\ x.at = "install" => x.items \in BOOLEAN
         /\ x.at = "events" => x.after \in Nat /\ x.upto \in Nat
         /\ x.at \in {"books", "book", "positions", "position"} => x.market \in Markets
         /\ x.at \in {"book", "position"} => x.seen \in Nat
         /\ x.at \in {"positions", "position"} => x.label \in Nat
         /\ x.at = "idle" <=> x = Idle
         /\ x.at = "unsent" <=> x = Unsent
<1>1. x \in {Idle, Unsent} \/ x.at \notin {"idle", "unsent"}
  BY DEF TaskState
<1>2. (x.at = "idle" <=> x = Idle) /\ (x.at = "unsent" <=> x = Unsent)
  BY <1>1 DEF Idle, Unsent
<1>3. /\ x.at \in {"initial", "install", "page"} => x.market \in Markets /\ x.after \in Nat
      /\ x.at = "install" => x.items \in BOOLEAN
      /\ x.at = "events" => x.after \in Nat /\ x.upto \in Nat
  BY DEF TaskState, Idle, Unsent
<1>4. /\ x.at \in {"books", "book", "positions", "position"} => x.market \in Markets
      /\ x.at \in {"book", "position"} => x.seen \in Nat
      /\ x.at \in {"positions", "position"} => x.label \in Nat
  BY DEF TaskState, Idle, Unsent
<1>5. QED  BY <1>2, <1>3, <1>4

\* What is on the wire is a frame.
LEMMA FrameFields ==
  ASSUME NEW x \in Frame
  PROVE  /\ x.market \in Markets /\ x.sequence \in Nat
         /\ x.type \in {"subscribed", "market_event", "book_snapshot", "position_snapshot"}
         /\ x.type = "position_snapshot" => x.reflects \in Nat
BY DEF Frame

\* The frames the server sends.
LEMMA FramesMade ==
  ASSUME NEW m \in Markets, NEW n \in Nat, NEW k \in Nat
  PROVE  /\ Subscribed(m, n) \in Frame /\ MarketEvent(m, n) \in Frame
         /\ BookSnapshot(m, n) \in Frame /\ PositionSnapshot(m, n, k) \in Frame
         /\ Subscribed(m, n).type = "subscribed" /\ MarketEvent(m, n).type = "market_event"
         /\ BookSnapshot(m, n).type = "book_snapshot"
         /\ PositionSnapshot(m, n, k).type = "position_snapshot"
BY DEF Subscribed, MarketEvent, BookSnapshot, PositionSnapshot, Frame

\* Publishing gives the client up, or starts with a page for its subscription.
LEMMA PublishBegins ==
  ASSUME NEW sub \in Followed, NEW buffer, NEW ts \in [Task -> TaskState],
         working \in BOOLEAN, working <=> ts[Publisher] # Idle, BeginPublish(sub, buffer, ts)
  PROVE  /\ tasks' \in [Task -> TaskState] /\ working' \in BOOLEAN
         /\ working' <=> tasks'[Publisher] # Idle
         /\ \/ socket' = "closing" /\ tasks' = ts
            \/ socket' = socket /\ tasks' = [ts EXCEPT ![Publisher] = StartPublish(sub)]
               /\ tasks'[Publisher] = StartPublish(sub)
         /\ \A t \in Task : t # Publisher => tasks'[t] = ts[t]
         /\ \A t \in Task : tasks'[t] \in {ts[t], StartPublish(sub)}
<1>1. StartPublish(sub) \in TaskState /\ StartPublish(sub) # Idle
  <2>1. sub.market \in Markets /\ sub.after \in Nat
    BY DEF Followed
  <2>2. StartPublish(sub) \in TaskState
    BY <2>1, TaskStates DEF StartPublish
  <2>3. StartPublish(sub).at = "page" /\ Idle.at = "idle"
    BY DEF StartPublish, Idle
  <2>4. QED  BY <2>2, <2>3
<1>2. CASE socket' = "closing" /\ tasks' = ts /\ UNCHANGED working
  BY <1>2
<1>3. CASE working' = TRUE /\ tasks' = [ts EXCEPT ![Publisher] = StartPublish(sub)] /\ UNCHANGED socket
  <2>1. PICK x \in TaskState : x = StartPublish(sub)
    BY <1>1
  <2>2. /\ tasks' \in [Task -> TaskState] /\ tasks'[Publisher] = x
        /\ \A t \in Task : t # Publisher => tasks'[t] = ts[t]
    BY <1>3, <2>1, TaskNames
  <2>3. QED  BY <1>1, <1>3, <2>1, <2>2
<1>4. QED  BY <1>2, <1>3 DEF BeginPublish

\* The client stays told, and frames that follow what it was told are in order.
LEMMA ToldAppended ==
  ASSUME ShapesInv, \A i \in DOMAIN wire : wire[i].type = "market_event" => Told(i),
         NEW new \in Seq(Frame), wire' \in {wire, wire \o new}, UNCHANGED view,
         wire' = wire \/ Told(Len(wire) + 1) \/ \A j \in DOMAIN new : new[j].type # "market_event"
  PROVE  /\ wire' \in Seq(Frame)
         /\ \A i \in DOMAIN wire' : wire'[i].type = "market_event" => Told(i)'
         /\ Told(Len(wire) + 1) => Told(Len(wire) + 1)'
<1> DEFINE n == Len(wire)
<1>1. wire \in Seq(Frame) /\ n \in Nat
  BY DEF ShapesInv
<1>2. /\ wire' \in Seq(Frame) /\ Len(wire') \in Nat /\ n <= Len(wire')
      /\ \A j \in 1..n : wire'[j] = wire[j]
  <2>1. CASE wire' = wire
    BY <1>1, <2>1
  <2>2. CASE wire' = wire \o new
    BY <1>1, <2>2
  <2>3. QED  BY <2>1, <2>2
<1>3. ASSUME NEW i \in 1..(n + 1), NEW k \in Nat, i <= k, Told(i) PROVE Told(k)'
  <2>1. CASE view \in Followed
    BY <2>1 DEF Told
  <2>2. CASE view \notin Followed
    <3>1. PICK j \in 1..(i - 1) : wire[j].type = "subscribed"
      BY <1>3, <2>2 DEF Told
    <3>2. j \in 1..n /\ j \in 1..(k - 1)
      BY <1>1, <1>3, <3>1
    <3>3. wire'[j].type = "subscribed"
      BY <1>2, <3>1, <3>2
    <3>4. QED  BY <3>2, <3>3 DEF Told
  <2>3. QED  BY <2>1, <2>2
<1>4. ASSUME NEW i \in DOMAIN wire', wire'[i].type = "market_event" PROVE Told(i)'
  <2>1. CASE i \in 1..Len(wire)
    <3>1. i \in DOMAIN wire /\ i \in Nat /\ i <= i /\ i \in 1..(n + 1)
      BY <1>1, <2>1
    <3>2. wire'[i] = wire[i]
      BY <1>2, <2>1
    <3>3. Told(i)
      BY <1>4, <3>1, <3>2
    <3>4. QED  BY <1>3, <3>1, <3>3
  <2>2. CASE i \notin 1..Len(wire)
    <3>1. /\ wire' = wire \o new /\ i - Len(wire) \in DOMAIN new /\ wire'[i] = new[i - Len(wire)]
          /\ i \in Nat /\ Len(wire) + 1 <= i
      <4>1. i \in Nat /\ n + 1 <= i
        BY <1>1, <1>2, <2>2
      <4>2. wire' = wire \o new
        BY <1>1, <2>2
      <4>3. \A w \in Seq(Frame) : \A j \in DOMAIN (w \o new) :
              j > Len(w) => j - Len(w) \in DOMAIN new /\ (w \o new)[j] = new[j - Len(w)]
        OBVIOUS
      <4>4. QED  BY <1>1, <4>1, <4>2, <4>3
    <3>2. Told(Len(wire) + 1)
      <4>1. wire' # wire
        BY <1>1, <2>2
      <4>2. new[i - Len(wire)].type = "market_event"
        BY <1>4, <3>1
      <4>3. QED  BY <3>1, <4>1, <4>2
    <3>3. PICK k : k = Len(wire) + 1
      OBVIOUS
    <3>4. k \in 1..(n + 1) /\ k <= i /\ Told(k)
      BY <1>1, <3>1, <3>2, <3>3
    <3>5. QED  BY <1>3, <3>1, <3>4
  <2>3. QED  BY <2>1, <2>2
<1>5. ASSUME Told(Len(wire) + 1) PROVE Told(Len(wire) + 1)'
  <2>1. PICK k, l : k = n + 1 /\ l = Len(wire') + 1
    OBVIOUS
  <2>2. k \in 1..(n + 1) /\ l \in Nat /\ k <= l /\ Told(k)
    BY <1>1, <1>2, <1>5, <2>1
  <2>3. Told(l)'
    BY <1>3, <2>2
  <2>4. QED  BY <2>1, <2>3
<1>6. QED  BY <1>2, <1>4, <1>5

\* A frame the client reads.
LEMMA ReceiveKeepsShapes ==
  ASSUME ShapesInv, ToldInv, Receive
  PROVE  ShapesInv' /\ ToldInv'
<1>1. /\ wire \in Seq(Frame) /\ wire # <<>> /\ wire' = Tail(wire)
      /\ wire' \in Seq(Frame) /\ Len(wire') \in Nat /\ Len(wire) \in Nat
      /\ Len(wire) = Len(wire') + 1 /\ \A j \in 1..Len(wire') : wire'[j] = wire[j + 1]
  BY DEF ShapesInv, Receive
<1>2. PICK frame \in Frame : frame = wire[1]
  BY <1>1
<1>3. frame = Head(wire) /\ 1 \in DOMAIN wire
  BY <1>1, <1>2
<1>4. /\ frame.market \in Markets /\ frame.sequence \in Nat
  BY FrameFields
<1>5. /\ frame.type = "subscribed" => view' = [market |-> frame.market, after |-> frame.sequence]
      /\ frame.type = "market_event" => view' = [view EXCEPT !.after = frame.sequence]
      /\ frame.type \notin {"subscribed", "market_event"} => view' = view
  BY <1>3 DEF Receive
<1>6. frame.type = "subscribed" \/ view \in Followed => view' \in Followed
  BY <1>4, <1>5 DEF Followed
<1>7. frame.type = "market_event" => view \in Followed
  BY <1>1, <1>2, <1>3 DEF ToldInv, Told
<1>8. view' \in Cursor /\ (view \in Followed => view' \in Followed)
  BY <1>5, <1>6, <1>7 DEF ShapesInv, Cursor, Followed
<1>9. retained' \in [Markets -> Nat]
  <2>1. retained \in [Markets -> Nat]
    BY DEF ShapesInv
  <2>2. CASE UNCHANGED retained
    BY <2>1, <2>2
  <2>3. CASE retained' = [retained EXCEPT ![frame.market] = @ + 1]
    BY <1>4, <2>1, <2>3
  <2>4. QED  BY <1>3, <2>2, <2>3 DEF Receive
<1>10. UNCHANGED <<log, socket, connections, subscription, working, tasks>>
  BY DEF Receive, server
<1>11. ASSUME NEW i \in 1..Len(wire), Told(i + 1) PROVE Told(i)'
  <2>1. CASE view \in Followed \/ frame.type = "subscribed"
    BY <1>6, <2>1 DEF Told
  <2>2. CASE ~(view \in Followed \/ frame.type = "subscribed")
    <3>1. PICK j \in 1..i : wire[j].type = "subscribed"
      BY <1>11, <2>2 DEF Told
    <3>2. j # 1
      BY <1>2, <2>2, <3>1
    <3>3. j - 1 \in 1..Len(wire') /\ j - 1 \in 1..(i - 1)
      BY <1>1, <3>1, <3>2
    <3>4. wire'[j - 1].type = "subscribed"
      BY <1>1, <3>1, <3>3
    <3>5. QED  BY <3>3, <3>4 DEF Told
  <2>3. QED  BY <2>1, <2>2
<1>12. ShapesInv'
  BY <1>1, <1>8, <1>9, <1>10 DEF ShapesInv
<1>13. ASSUME socket' = "open", subscription' # NoSubscription PROVE Told(Len(wire) + 1)'
  <2>1. Told(Len(wire) + 1)
    BY <1>10, <1>13 DEF ToldInv
  <2>2. PICK k \in 1..Len(wire) : k = Len(wire)
    <3>1. Len(wire) \in 1..Len(wire)
      BY <1>1
    <3>2. QED  BY <3>1
  <2>3. Told(k)'
    BY <1>11, <2>1, <2>2
  <2>4. k = Len(wire') + 1
    BY <1>1, <2>2
  <2>5. QED  BY <2>3, <2>4
<1>14. ASSUME NEW i \in DOMAIN wire', wire'[i].type = "market_event" PROVE Told(i)'
  <2>1. i \in 1..Len(wire) /\ i + 1 \in DOMAIN wire /\ wire[i + 1].type = "market_event"
    BY <1>1, <1>14
  <2>2. Told(i + 1)
    BY <2>1 DEF ToldInv
  <2>3. QED  BY <1>11, <2>1, <2>2
<1>15. \A t \in Task : Serving(t)' => subscription' # NoSubscription
  BY <1>10 DEF ToldInv, Serving
<1>16. QED  BY <1>12, <1>13, <1>14, <1>15 DEF ToldInv

\* One coroutine goes on, and may send frames.
LEMMA OneGoesOn ==
  ASSUME ShapesInv, ToldInv, NEW t \in Task, NEW x \in TaskState, NEW new \in Seq(Frame),
         tasks' = [tasks EXCEPT ![t] = x], wire' \in {wire, wire \o new},
         UNCHANGED <<log, socket, connections, subscription, client>>,
         working' \in BOOLEAN, t = Publisher => (working' <=> x # Idle), t # Publisher => UNCHANGED working,
         \A j \in DOMAIN new : new[j].type # "market_event",
         x.at \in {"page", "events", "books", "book", "positions", "position"} => subscription # NoSubscription
  PROVE  ShapesInv' /\ ToldInv'
<1>1. /\ tasks' \in [Task -> TaskState] /\ tasks'[t] = x
      /\ \A u \in Task : u # t => tasks'[u] = tasks[u]
  BY DEF ShapesInv
<1>2. /\ wire' \in Seq(Frame)
      /\ \A i \in DOMAIN wire' : wire'[i].type = "market_event" => Told(i)'
      /\ Told(Len(wire) + 1) => Told(Len(wire) + 1)'
  BY ToldAppended DEF ToldInv, client
<1>3. working' <=> tasks'[Publisher] # Idle
  BY <1>1, TaskNames DEF ShapesInv
<1>4. ShapesInv'
  BY <1>1, <1>2, <1>3 DEF ShapesInv, client
<1>5. \A u \in Task : Serving(u)' => subscription' # NoSubscription
  BY <1>1 DEF ToldInv, Serving
<1>6. QED  BY <1>2, <1>4, <1>5 DEF ToldInv

\* Nothing is sent.
LEMMA NoFrames == <<>> \in Seq(Frame) /\ DOMAIN <<>> = {}
<1>1. Len(<<>>) = 0
  OBVIOUS
<1>2. DOMAIN <<>> = 1..0
  BY <1>1
<1>3. QED  BY <1>2

\* A coroutine that reads sends nothing.
LEMMA OneReads ==
  ASSUME ShapesInv, ToldInv, NEW t \in Task, NEW x \in TaskState,
         tasks' = [tasks EXCEPT ![t] = x], UNCHANGED <<log, socket, connections, subscription, working, wire, client>>,
         t = Publisher => (tasks[t] # Idle <=> x # Idle),
         x.at \in {"page", "events", "books", "book", "positions", "position"} => subscription # NoSubscription
  PROVE  ShapesInv' /\ ToldInv'
<1>1. <<>> \in Seq(Frame) /\ \A j \in DOMAIN <<>> : <<>>[j].type # "market_event"
  BY NoFrames
<1>2. working' \in BOOLEAN /\ (t = Publisher => (working' <=> x # Idle))
  BY DEF ShapesInv
<1>3. QED  BY <1>1, <1>2, OneGoesOn

\* A subscribe frame is sent.
LEMMA SendSubscribeKeepsShapes ==
  ASSUME ShapesInv, ToldInv, NEW r \in Requests, NEW m \in Markets, SendSubscribe(r, m)
  PROVE  ShapesInv' /\ ToldInv'
<1>1. retained[m] \in Nat /\ r \in Task /\ r # Publisher
  BY TaskNames DEF ShapesInv
<1>2. PICK x : x = [at |-> "initial", market |-> m, after |-> retained[m]]
  OBVIOUS
<1>3. x \in TaskState /\ x.at = "initial"
  BY <1>1, <1>2, TaskStates
<1>4. tasks' = [tasks EXCEPT ![r] = x] /\ UNCHANGED <<log, socket, connections, subscription, working, wire, client>>
  BY <1>2 DEF SendSubscribe
<1>5. QED  BY <1>1, <1>3, <1>4, OneReads

\* The first page of a subscription is read.
LEMMA ReadInitialKeepsShapes ==
  ASSUME ShapesInv, ToldInv, NEW r \in Requests, ReadInitial(r)
  PROVE  ShapesInv' /\ ToldInv'
<1>1. r \in Task /\ r # Publisher /\ tasks[r] \in TaskState /\ log \in [Markets -> Nat]
  BY TaskNames DEF ShapesInv
<1>2. tasks[r].market \in Markets /\ tasks[r].after \in Nat
  BY <1>1, TaskFields DEF ReadInitial
<1>3. PICK m \in Markets, after \in Nat : m = tasks[r].market /\ after = tasks[r].after
  BY <1>2
<1>4. PICK b \in BOOLEAN : b = (after < log[m])
  <2>1. (after < log[m]) \in BOOLEAN
    BY <1>1, <1>3
  <2>2. QED  BY <2>1, Zenon
<1>5. PICK x : x = IF after <= log[m]
                     THEN [at |-> "install", market |-> m, after |-> after, items |-> b] ELSE Idle
  OBVIOUS
<1>6. x \in TaskState /\ x.at \in {"install", "idle"}
  BY <1>3, <1>4, <1>5, TaskStates DEF Idle
<1>7. tasks' = [tasks EXCEPT ![r] = x] /\ UNCHANGED <<log, socket, connections, subscription, working, wire, client>>
  BY <1>3, <1>4, <1>5 DEF ReadInitial
<1>8. QED  BY <1>1, <1>6, <1>7, OneReads

\* The publisher reads a page.
LEMMA ReadPageKeepsShapes ==
  ASSUME ShapesInv, ToldInv, ReadPage
  PROVE  ShapesInv' /\ ToldInv'
<1>1. Publisher \in Task /\ tasks[Publisher] \in TaskState /\ log \in [Markets -> Nat]
  BY TaskNames DEF ShapesInv
<1>2. /\ tasks[Publisher].at = "page" /\ tasks[Publisher].market \in Markets /\ tasks[Publisher].after \in Nat
      /\ tasks[Publisher] # Idle /\ subscription # NoSubscription
  BY <1>1, TaskFields DEF ReadPage, Idle, ToldInv, Serving
<1>3. PICK after, upto : /\ after = tasks[Publisher].after /\ after \in Nat
                         /\ upto = Least(log[tasks[Publisher].market], after + PageLimit)
  BY <1>2
<1>4. upto \in Nat
  <2>1. log[tasks[Publisher].market] \in Nat /\ after + PageLimit \in Nat
    BY <1>1, <1>2, <1>3, PageLimitAssumption
  <2>2. QED  BY <1>3, <2>1 DEF Least
<1>5. PICK x : x = [at |-> "events", after |-> after, upto |-> upto]
  OBVIOUS
<1>6. x \in TaskState /\ x.at = "events" /\ x # Idle
  <2>1. after \in Nat
    BY <1>3
  <2>2. [at |-> "events", after |-> after, upto |-> upto] \in TaskState
    <3>1. PICK m \in Markets : m = tasks[Publisher].market
      BY <1>2
    <3>2. TRUE \in BOOLEAN
      OBVIOUS
    <3>3. QED  BY <1>4, <2>1, <3>2, TaskStates
  <2>3. QED  BY <1>5, <2>2 DEF Idle
<1>7. /\ tasks' = [tasks EXCEPT ![Publisher] = x]
      /\ UNCHANGED <<log, socket, connections, subscription, working, wire, client>>
  BY <1>3, <1>5 DEF ReadPage
<1>8. QED  BY <1>1, <1>2, <1>6, <1>7, OneReads

\* The publisher has read nothing and stops.
LEMMA EmptyPageKeepsShapes ==
  ASSUME ShapesInv, ToldInv, EmptyPage
  PROVE  ShapesInv' /\ ToldInv'
<1>1. Publisher \in Task /\ Idle \in TaskState /\ Idle.at = "idle" /\ <<>> \in Seq(Frame)
  BY TaskNames DEF TaskState, Idle
<1>2. /\ tasks' = [tasks EXCEPT ![Publisher] = Idle] /\ working' = FALSE
      /\ UNCHANGED <<log, socket, connections, subscription, wire, client>>
  BY DEF EmptyPage
<1>3. \A j \in DOMAIN <<>> : <<>>[j].type # "market_event"
  BY NoFrames
<1>4. QED  BY <1>1, <1>2, <1>3, OneGoesOn

\* A snapshot is read.
LEMMA ReadSnapshotKeepsShapes ==
  ASSUME ShapesInv, ToldInv, NEW t \in Task, ReadSnapshot(t)
  PROVE  ShapesInv' /\ ToldInv'
<1>1. tasks[t] \in TaskState /\ log \in [Markets -> Nat]
  BY DEF ShapesInv
<1>2. /\ tasks[t].at \in {"books", "positions"} /\ tasks[t].market \in Markets
      /\ tasks[t].at = "positions" => tasks[t].label \in Nat
      /\ tasks[t] # Idle /\ subscription # NoSubscription
  BY <1>1, TaskFields DEF ReadSnapshot, Idle, ToldInv, Serving
<1>3. PICK m \in Markets, seen \in Nat : m = tasks[t].market /\ seen = log[m]
  BY <1>1, <1>2
<1>4. PICK x : x = IF tasks[t].at = "books" THEN [at |-> "book", market |-> m, seen |-> seen]
                   ELSE [at |-> "position", market |-> m, label |-> tasks[t].label, seen |-> seen]
  OBVIOUS
<1>5. x \in TaskState /\ x.at \in {"book", "position"} /\ x # Idle
  <2>1. CASE tasks[t].at = "books"
    <3>1. x = [at |-> "book", market |-> m, seen |-> seen]
      BY <1>4, <2>1
    <3>2. x \in TaskState
      BY <3>1, TaskStates
    <3>3. QED  BY <3>1, <3>2 DEF Idle
  <2>2. CASE tasks[t].at = "positions"
    <3>1. PICK label \in Nat : label = tasks[t].label
      BY <1>2, <2>2
    <3>2. x = [at |-> "position", market |-> m, label |-> label, seen |-> seen]
      BY <1>4, <2>2, <3>1
    <3>3. x \in TaskState
      BY <3>2, TaskStates
    <3>4. QED  BY <3>2, <3>3 DEF Idle
  <2>3. QED  BY <1>2, <2>1, <2>2
<1>6. tasks' = [tasks EXCEPT ![t] = x] /\ UNCHANGED <<log, socket, connections, subscription, working, wire, client>>
  BY <1>3, <1>4 DEF ReadSnapshot
<1>7. QED  BY <1>2, <1>5, <1>6, OneReads

\* A snapshot of the book is sent.
LEMMA SendBookKeepsShapes ==
  ASSUME ShapesInv, ToldInv, NEW t \in Task, SendBook(t)
  PROVE  ShapesInv' /\ ToldInv'
<1>1. tasks[t] \in TaskState /\ tasks[t].at = "book" /\ subscription # NoSubscription /\ subscription \in Cursor
  BY DEF ShapesInv, SendBook, ToldInv, Serving
<1>2. /\ tasks[t].market \in Markets /\ tasks[t].seen \in Nat /\ tasks[t] # Idle
      /\ subscription.market \in Markets /\ subscription.after \in Nat
  BY <1>1, TaskFields, CursorCases DEF Idle, Followed
<1>3. PICK x : x = [at |-> "positions", market |-> subscription.market, label |-> subscription.after]
  OBVIOUS
<1>4. x \in TaskState /\ x.at = "positions" /\ x # Idle
  BY <1>2, <1>3, TaskStates DEF Idle
<1>5. PICK frame \in Frame : frame = BookSnapshot(tasks[t].market, tasks[t].seen) /\ frame.type = "book_snapshot"
  BY <1>2, FramesMade
<1>6. <<frame>> \in Seq(Frame) /\ \A j \in DOMAIN <<frame>> : <<frame>>[j].type # "market_event"
  BY <1>5
<1>7. /\ tasks' = [tasks EXCEPT ![t] = x] /\ wire' \in {wire, wire \o <<frame>>}
      /\ UNCHANGED <<log, socket, connections, subscription, working, client>>
  BY <1>3, <1>5 DEF SendBook, Sent
<1>8. working' \in BOOLEAN /\ (t = Publisher => (working' <=> x # Idle))
  BY <1>2, <1>4, <1>7 DEF ShapesInv
<1>9. QED  BY <1>1, <1>4, <1>6, <1>7, <1>8, OneGoesOn

\* A snapshot of the positions is sent.
LEMMA SendPositionsKeepsShapes ==
  ASSUME ShapesInv, ToldInv, NEW t \in Task, SendPositions(t)
  PROVE  ShapesInv' /\ ToldInv'
<1>1. tasks[t] \in TaskState /\ tasks[t].at = "position"
  BY DEF ShapesInv, SendPositions
<1>2. tasks[t].market \in Markets /\ tasks[t].seen \in Nat /\ tasks[t].label \in Nat
  BY <1>1, TaskFields
<1>3. PICK frame \in Frame : /\ frame = PositionSnapshot(tasks[t].market, tasks[t].label, tasks[t].seen)
                             /\ frame.type = "position_snapshot"
  BY <1>2, FramesMade
<1>4. <<frame>> \in Seq(Frame) /\ \A j \in DOMAIN <<frame>> : <<frame>>[j].type # "market_event"
  BY <1>3
<1>5. /\ tasks' = [tasks EXCEPT ![t] = Idle] /\ wire' \in {wire, wire \o <<frame>>}
      /\ working' = (working /\ t # Publisher)
      /\ UNCHANGED <<log, socket, connections, subscription, client>>
  BY <1>3 DEF SendPositions, Sent
<1>6. Idle \in TaskState /\ Idle.at = "idle"
  BY DEF TaskState, Idle
<1>7. /\ working' \in BOOLEAN /\ (t = Publisher => (working' <=> Idle # Idle))
      /\ t # Publisher => UNCHANGED working
  BY <1>5 DEF ShapesInv
<1>8. QED  BY <1>4, <1>5, <1>6, <1>7, OneGoesOn

\* A page of events is sent.
LEMMA SendEventsKeepsShapes ==
  ASSUME ShapesInv, ToldInv, SendEvents
  PROVE  ShapesInv' /\ ToldInv'
<1>1. /\ Publisher \in Task /\ tasks[Publisher] \in TaskState /\ tasks[Publisher].at = "events"
      /\ wire \in Seq(Frame) /\ tasks \in [Task -> TaskState]
  BY TaskNames DEF ShapesInv, SendEvents
<1>2. PICK after \in Nat, upto \in Nat : /\ after = tasks[Publisher].after /\ upto = tasks[Publisher].upto
                                         /\ upto > after
  BY <1>1, TaskFields DEF SendEvents
<1>3. subscription \in Followed /\ subscription # NoSubscription
  BY <1>1, CursorCases DEF ToldInv, Serving, ShapesInv
<1>4. PICK m \in Markets : m = subscription.market
  BY <1>3 DEF Followed
<1>5. PICK n \in Nat : n = upto - after
  BY <1>2
<1>6. PICK new : new = [i \in 1..n |-> MarketEvent(m, after + i)]
  OBVIOUS
<1>7. new \in Seq(Frame)
  <2>1. \A i \in 1..n : MarketEvent(m, after + i) \in Frame
    BY FramesMade
  <2>2. new \in [1..n -> Frame]
    BY <1>6, <2>1
  <2>3. QED  BY <2>2
<1>8. PICK sub : sub = [subscription EXCEPT !.after = upto]
  OBVIOUS
<1>9. sub \in Followed /\ sub.market = m /\ sub.after = upto
  BY <1>3, <1>4, <1>8 DEF Followed
<1>10. PICK x : x = StartSnapshots(sub)
  OBVIOUS
<1>11. x \in TaskState /\ x # Idle
  <2>1. x = [at |-> "books", market |-> m]
    BY <1>9, <1>10 DEF StartSnapshots
  <2>2. x \in TaskState
    BY <1>2, <2>1, TaskStates
  <2>3. QED  BY <2>1, <2>2 DEF Idle
<1>12. /\ wire' \in {wire, wire \o new} /\ (socket # "open" => wire' = wire) /\ subscription' = sub
       /\ tasks' = [tasks EXCEPT ![Publisher] = x]
       /\ UNCHANGED <<log, socket, connections, working, client>>
  BY <1>2, <1>4, <1>5, <1>6, <1>8, <1>10 DEF SendEvents, Sent
<1>13. wire' = wire \/ Told(Len(wire) + 1)
  BY <1>3, <1>12 DEF ToldInv
<1>14. /\ wire' \in Seq(Frame)
       /\ \A i \in DOMAIN wire' : wire'[i].type = "market_event" => Told(i)'
       /\ Told(Len(wire) + 1) => Told(Len(wire) + 1)'
  BY <1>7, <1>12, <1>13, ToldAppended DEF ToldInv, client
<1>15. tasks' \in [Task -> TaskState] /\ tasks'[Publisher] = x
  BY <1>1, <1>11, <1>12
<1>16. sub # NoSubscription /\ sub \in Cursor
  BY <1>9, CursorCases DEF Cursor, Followed
<1>17. working' <=> tasks'[Publisher] # Idle
  BY <1>1, <1>11, <1>12, <1>15 DEF ShapesInv, Idle
<1>18. ShapesInv'
  BY <1>12, <1>14, <1>15, <1>16, <1>17 DEF ShapesInv, client
<1>19. QED  BY <1>3, <1>12, <1>14, <1>16, <1>18 DEF ToldInv

\* The subscription is replaced.
LEMMA InstallKeepsShapes ==
  ASSUME ShapesInv, ToldInv, NEW r \in Requests, Install(r)
  PROVE  ShapesInv' /\ ToldInv'
<1>1. /\ r \in Task /\ Publisher \in Task /\ r # Publisher /\ tasks[r] \in TaskState
      /\ tasks[r].at = "install" /\ wire \in Seq(Frame) /\ tasks \in [Task -> TaskState]
  BY TaskNames DEF ShapesInv, Install
<1>2. PICK m \in Markets, n \in Nat : m = tasks[r].market /\ n = tasks[r].after
  BY <1>1, TaskFields
<1>3. PICK sub : sub = [market |-> m, after |-> n]
  OBVIOUS
<1>4. sub \in Followed /\ sub \in Cursor /\ sub # NoSubscription
  <2>1. sub \in Followed /\ sub \in Cursor
    BY <1>3 DEF Followed, Cursor
  <2>2. QED  BY <2>1, CursorCases
<1>5. PICK frame \in Frame : frame = Subscribed(m, n) /\ frame.type = "subscribed"
  BY <1>2, FramesMade
<1>6. PICK new \in Seq(Frame) : new = <<frame>>
  <2>1. <<frame>> \in Seq(Frame)
    BY <1>5
  <2>2. QED  BY <2>1
<1>7. /\ subscription' = sub /\ wire' = Sent(new) /\ UNCHANGED <<log, connections, client>>
      /\ \/ /\ ~working /\ BeginPublish(sub, wire', [tasks EXCEPT ![r] = Idle])
         \/ /\ tasks' = [tasks EXCEPT ![r] = Idle] /\ UNCHANGED <<socket, working>>
         \/ /\ tasks' = [tasks EXCEPT ![r] = StartSnapshots(sub)] /\ UNCHANGED <<socket, working>>
  BY <1>2, <1>3, <1>5, <1>6 DEF Install
<1>8. /\ wire' \in {wire, wire \o new}
      /\ socket = "open" => wire' = wire \o new
  BY <1>7 DEF Sent
<1>9. /\ wire' \in Seq(Frame)
      /\ \A i \in DOMAIN wire' : wire'[i].type = "market_event" => Told(i)'
  <2>1. \A j \in DOMAIN new : new[j].type # "market_event"
    BY <1>5, <1>6
  <2>2. QED  BY <1>7, <1>8, <2>1, ToldAppended DEF ToldInv, client
<1>10. /\ tasks' \in [Task -> TaskState] /\ working' \in BOOLEAN
       /\ working' <=> tasks'[Publisher] # Idle
       /\ socket' \in {socket, "closing"}
  <2>1. Idle \in TaskState
    BY DEF TaskState
  <2>2. PICK ts \in [Task -> TaskState] : ts = [tasks EXCEPT ![r] = Idle]
    BY <1>1, <2>1
  <2>3. ts[Publisher] = tasks[Publisher] /\ working \in BOOLEAN /\ (working <=> ts[Publisher] # Idle)
    BY <1>1, <2>2 DEF ShapesInv
  <2>4. CASE BeginPublish(sub, wire', ts)
    BY <1>4, <2>3, <2>4, PublishBegins
  <2>5. CASE tasks' = ts /\ UNCHANGED <<socket, working>>
    BY <2>3, <2>5
  <2>6. CASE tasks' = [tasks EXCEPT ![r] = StartSnapshots(sub)] /\ UNCHANGED <<socket, working>>
    <3>1. PICK x : x = StartSnapshots(sub)
      OBVIOUS
    <3>2. x = [at |-> "books", market |-> m]
      BY <1>3, <3>1 DEF StartSnapshots
    <3>3. x \in TaskState
      BY <1>2, <3>2, TaskStates
    <3>4. tasks' = [tasks EXCEPT ![r] = x]
      BY <2>6, <3>1
    <3>5. tasks' \in [Task -> TaskState] /\ tasks'[Publisher] = tasks[Publisher]
      BY <1>1, <3>3, <3>4
    <3>6. QED  BY <2>6, <3>5 DEF ShapesInv
  <2>7. QED  BY <1>7, <2>2, <2>4, <2>5, <2>6
<1>11. ShapesInv'
  BY <1>4, <1>7, <1>9, <1>10 DEF ShapesInv, client
<1>12. ASSUME socket' = "open" PROVE Told(Len(wire) + 1)'
  <2>1. wire' = wire \o new
    BY <1>8, <1>10, <1>12
  <2>2. PICK k : k = Len(wire')
    OBVIOUS
  <2>3. k \in 1..(k + 1 - 1) /\ wire'[k] = frame
    BY <1>1, <1>5, <1>6, <2>1, <2>2
  <2>4. QED  BY <1>5, <2>2, <2>3 DEF Told
<1>13. QED  BY <1>4, <1>7, <1>9, <1>11, <1>12 DEF ToldInv

\* The interval fires.
LEMMA PollKeepsShapes ==
  ASSUME ShapesInv, ToldInv, Poll
  PROVE  ShapesInv' /\ ToldInv'
<1>1. /\ subscription \in Followed /\ BeginPublish(subscription, wire, tasks)
      /\ tasks \in [Task -> TaskState] /\ working \in BOOLEAN /\ (working <=> tasks[Publisher] # Idle)
  BY CursorCases DEF ShapesInv, Poll
<1>2. /\ tasks' \in [Task -> TaskState] /\ working' \in BOOLEAN /\ (working' <=> tasks'[Publisher] # Idle)
      /\ socket' \in {socket, "closing"}
  BY <1>1, PublishBegins
<1>3. UNCHANGED <<log, connections, subscription, wire, client>> /\ subscription # NoSubscription
  BY DEF Poll
<1>4. ShapesInv'
  BY <1>2, <1>3 DEF ShapesInv, client
<1>5. QED  BY <1>2, <1>3, <1>4 DEF ToldInv, Told, client

\* Connections that open and close.
LEMMA ConnectKeepsShapes ==
  ASSUME ShapesInv, ToldInv, Connect \/ Disconnect
  PROVE  ShapesInv' /\ ToldInv'
<1>1. /\ wire' = <<>> /\ subscription' = NoSubscription /\ working' = FALSE
      /\ tasks' \in {[t \in Task |-> IF t = Publisher THEN Idle ELSE Unsent], [t \in Task |-> Idle]}
      /\ view' \in {view, NoSubscription} /\ socket' \in {"none", "open"}
      /\ connections' \in {connections, connections + 1} /\ UNCHANGED <<log, retained>>
  BY DEF Connect, Disconnect, client
<1>2. /\ tasks' \in [Task -> TaskState] /\ tasks'[Publisher] = Idle
      /\ \A t \in Task : tasks'[t] \in {Idle, Unsent}
  <2>1. Idle \in TaskState /\ Unsent \in TaskState
    BY DEF TaskState
  <2>2. QED  BY <1>1, <2>1, TaskNames
<1>3. wire' \in Seq(Frame) /\ DOMAIN wire' = {} /\ NoSubscription \in Cursor
  BY <1>1, NoFrames DEF Cursor
<1>4. ShapesInv'
  <2>1. /\ connections' \in Nat /\ view' \in Cursor /\ subscription' \in Cursor
        /\ log' \in [Markets -> Nat] /\ retained' \in [Markets -> Nat]
    BY <1>1, <1>3 DEF ShapesInv
  <2>2. working' \in BOOLEAN /\ (working' <=> tasks'[Publisher] # Idle)
    BY <1>1, <1>2
  <2>3. QED  BY <1>1, <1>2, <1>3, <2>1, <2>2 DEF ShapesInv
<1>5. \A t \in Task : ~Serving(t)'
  BY <1>2 DEF Serving, Idle, Unsent
<1>6. QED  BY <1>1, <1>3, <1>4, <1>5 DEF ToldInv

\* An event is committed.
LEMMA CommitKeepsShapes ==
  ASSUME ShapesInv, ToldInv, NEW m \in Markets, CommitEvent(m)
  PROVE  ShapesInv' /\ ToldInv'
<1>1. log' = [log EXCEPT ![m] = @ + 1] /\ UNCHANGED <<socket, connections, server, wire, client>>
  BY DEF CommitEvent
<1>2. log' \in [Markets -> Nat]
  BY <1>1 DEF ShapesInv
<1>3. QED  BY <1>1, <1>2 DEF ShapesInv, ToldInv, Told, Serving, server, client

\* Shapes are kept, and no event is sent to a client that was not told its market.
LEMMA ShapesHold == StreamSpec => [](ShapesInv /\ ToldInv)
<1>1. StreamInit => ShapesInv /\ ToldInv
  <2> SUFFICES ASSUME StreamInit PROVE ShapesInv /\ ToldInv
    OBVIOUS
  <2>1. Idle \in TaskState /\ Unsent \in TaskState /\ NoSubscription \in Cursor
    BY DEF TaskState, Cursor
  <2>2. /\ tasks \in [Task -> TaskState] /\ tasks[Publisher] = Idle
        /\ \A t \in Task : tasks[t] \in {Idle, Unsent}
    BY <2>1, TaskNames DEF StreamInit
  <2>3. ShapesInv
    BY <2>1, <2>2, NoFrames DEF StreamInit, ShapesInv
  <2>4. QED  BY <2>2, <2>3, NoFrames DEF StreamInit, ToldInv, Serving, Idle, Unsent
<1>2. ShapesInv /\ ToldInv /\ [StreamNext]_streamVars => ShapesInv' /\ ToldInv'
  <2> SUFFICES ASSUME ShapesInv, ToldInv, [StreamNext]_streamVars PROVE ShapesInv' /\ ToldInv'
    OBVIOUS
  <2>1. CASE UNCHANGED streamVars
    BY <2>1 DEF streamVars, ShapesInv, ToldInv, Told, Serving, server, client
  <2>2. CASE \E m \in Markets : CommitEvent(m)
    BY <2>2, CommitKeepsShapes
  <2>3. CASE Connect \/ Disconnect
    BY <2>3, ConnectKeepsShapes
  <2>4. CASE \E r \in Requests, m \in Markets : SendSubscribe(r, m)
    BY <2>4, SendSubscribeKeepsShapes
  <2>5. CASE \E r \in Requests : ReadInitial(r) \/ Install(r)
    BY <2>5, ReadInitialKeepsShapes, InstallKeepsShapes
  <2>6. CASE Poll \/ Receive
    BY <2>6, PollKeepsShapes, ReceiveKeepsShapes
  <2>7. CASE Publish
    BY <2>7, ReadPageKeepsShapes, EmptyPageKeepsShapes, SendEventsKeepsShapes DEF Publish
  <2>8. CASE \E t \in Task : Advance(t)
    BY <2>8, ReadSnapshotKeepsShapes, SendBookKeepsShapes, SendPositionsKeepsShapes DEF Advance
  <2>9. QED  BY <2>1, <2>2, <2>3, <2>4, <2>5, <2>6, <2>7, <2>8 DEF StreamNext
<1>3. QED  BY <1>1, <1>2, PTL DEF StreamSpec

\* Every variable keeps its shape, and the publishing coroutine runs exactly while
\* the working flag is set, for any number of subscriptions.
THEOREM StreamTypeCorrect == StreamSpec => []StreamTypeOK
<1>1. ShapesInv => StreamTypeOK
  BY DEF ShapesInv, StreamTypeOK
<1>2. QED  BY <1>1, ShapesHold, PTL

(***************************************************************************)
(* The stream.                                                             *)
(***************************************************************************)

\* Where the stream stands before place i, for frames w a client with view v has
\* not read yet: StreamedBefore of any wire and view.
StreamAt(w, v, i) ==
  LET streamed == {j \in 1..(i - 1) : w[j].type \in {"subscribed", "market_event"}}
  IN IF streamed = {} THEN v
     ELSE LET j == CHOOSE j \in streamed : \A k \in streamed : k <= j
          IN [market |-> w[j].market, after |-> w[j].sequence]

\* StreamedBefore is StreamAt of the wire and the view, in a state and in the next.
LEMMA StreamedAt == \A i : StreamedBefore(i) = StreamAt(wire, view, i)
BY DEF StreamedBefore, StreamAt

\* The same of the next state.
LEMMA StreamedAtNext == \A i : StreamedBefore(i)' = StreamAt(wire', view', i)
BY DEF StreamedBefore, StreamAt

\* Only frames of the stream move it.
Moved(frame, cursor) ==
  IF frame.type \in {"subscribed", "market_event"}
    THEN [market |-> frame.market, after |-> frame.sequence] ELSE cursor

\* Each frame moves the stream that stood before it.
LEMMA StreamMoves ==
  ASSUME NEW w \in Seq(Frame), NEW v, NEW i \in Nat \ {0}
  PROVE  StreamAt(w, v, 1) = v /\ StreamAt(w, v, i + 1) = Moved(w[i], StreamAt(w, v, i))
<1> DEFINE S(n) == {j \in 1..(n - 1) : w[j].type \in {"subscribed", "market_event"}}
<1>1. S(1) = {}
  OBVIOUS
<1>2. StreamAt(w, v, 1) = v
  BY <1>1 DEF StreamAt
<1>3. CASE w[i].type \in {"subscribed", "market_event"}
  <2>1. i \in S(i + 1) /\ \A k \in S(i + 1) : k <= i /\ k \in Nat
    BY <1>3
  <2>2. PICK j : j = CHOOSE p \in S(i + 1) : \A k \in S(i + 1) : k <= p
    OBVIOUS
  <2>3. j \in S(i + 1) /\ \A k \in S(i + 1) : k <= j
    <3> HIDE DEF S
    <3>1. QED  BY <2>1, <2>2
  <2>4. j = i
    BY <2>1, <2>3
  <2>5. StreamAt(w, v, i + 1) = [market |-> w[j].market, after |-> w[j].sequence]
    BY <2>1, <2>2 DEF StreamAt
  <2>6. QED  BY <1>2, <1>3, <2>4, <2>5 DEF Moved
<1>4. CASE w[i].type \notin {"subscribed", "market_event"}
  <2>1. S(i + 1) = S(i)
    BY <1>4
  <2>2. StreamAt(w, v, i + 1) = StreamAt(w, v, i)
    BY <2>1 DEF StreamAt
  <2>3. QED  BY <1>2, <1>4, <2>2 DEF Moved
<1>5. QED  BY <1>3, <1>4

\* What is appended does not change where the stream stood before.
LEMMA StreamAppended ==
  ASSUME NEW w \in Seq(Frame), NEW u \in Seq(Frame), NEW v
  PROVE  \A i \in 1..(Len(w) + 1) : StreamAt(w \o u, v, i) = StreamAt(w, v, i)
<1>1. PICK n \in Nat : n = Len(w)
  OBVIOUS
<1>2. PICK x \in Seq(Frame) : x = w \o u
  <2>1. w \o u \in Seq(Frame)
    OBVIOUS
  <2>2. QED  BY <2>1
<1>3. \A j \in 1..n : x[j] = w[j]
  BY <1>1, <1>2
<1>4. PICK G : G = {i \in Nat : StreamAt(x, v, i + 1) = StreamAt(w, v, i + 1)}
  OBVIOUS
<1>5. 0 \in G
  <2>1. StreamAt(x, v, 1) = v /\ StreamAt(w, v, 1) = v
    BY StreamMoves
  <2>2. QED  BY <1>4, <2>1
<1>6. ASSUME NEW m \in 1..n, m - 1 \in G PROVE m \in G
  <2>1. m \in Nat \ {0} /\ (m - 1) + 1 = m /\ x[m] = w[m]
    BY <1>3
  <2>2. StreamAt(x, v, m) = StreamAt(w, v, m)
    BY <1>4, <1>6, <2>1
  <2>3. StreamAt(x, v, m + 1) = StreamAt(w, v, m + 1)
    BY <2>1, <2>2, StreamMoves
  <2>4. QED  BY <1>4, <2>1, <2>3
<1>7. \A m \in 0..n : m \in G
  BY <1>5, <1>6, Climbing
<1>8. ASSUME NEW i \in 1..(n + 1) PROVE StreamAt(x, v, i) = StreamAt(w, v, i)
  <2>1. i - 1 \in 0..n /\ (i - 1) + 1 = i
    OBVIOUS
  <2>2. QED  BY <1>4, <1>7, <2>1
<1>9. QED  BY <1>1, <1>2, <1>8

\* A client that reads a frame of the stream stands where the stream stood after it.
LEMMA StreamRead ==
  ASSUME NEW w \in Seq(Frame), w # <<>>, NEW v
  PROVE  \A i \in 1..Len(w) : StreamAt(Tail(w), Moved(w[1], v), i) = StreamAt(w, v, i + 1)
<1>1. PICK n \in Nat : n + 1 = Len(w)
  <2>1. PICK k : k = Len(w) - 1
    OBVIOUS
  <2>2. k \in Nat /\ k + 1 = Len(w)
    BY <2>1
  <2>3. QED  BY <2>2
<1>2. PICK x \in Seq(Frame) : x = Tail(w)
  <2>1. Tail(w) \in Seq(Frame)
    OBVIOUS
  <2>2. QED  BY <2>1
<1>3. \A j \in 1..n : x[j] = w[j + 1]
  BY <1>1, <1>2
<1>4. PICK y : y = Moved(w[1], v)
  OBVIOUS
<1>5. PICK G : G = {i \in Nat : StreamAt(x, y, i + 1) = StreamAt(w, v, i + 2)}
  OBVIOUS
<1>6. 0 \in G
  <2>1. StreamAt(x, y, 1) = y /\ StreamAt(w, v, 1) = v /\ 1 + 1 = 2
    BY StreamMoves
  <2>2. StreamAt(w, v, 1 + 1) = y
    BY <1>4, <2>1, StreamMoves
  <2>3. QED  BY <1>5, <2>1, <2>2
<1>7. ASSUME NEW m \in 1..n, m - 1 \in G PROVE m \in G
  <2>1. /\ m \in Nat \ {0} /\ m + 1 \in Nat \ {0} /\ (m - 1) + 1 = m /\ (m - 1) + 2 = m + 1
        /\ (m + 1) + 1 = m + 2 /\ x[m] = w[m + 1]
    BY <1>3
  <2>2. StreamAt(x, y, m) = StreamAt(w, v, m + 1)
    BY <1>5, <1>7, <2>1
  <2>3. /\ StreamAt(x, y, m + 1) = Moved(x[m], StreamAt(x, y, m))
        /\ StreamAt(w, v, (m + 1) + 1) = Moved(w[m + 1], StreamAt(w, v, m + 1))
    BY <2>1, StreamMoves
  <2>4. QED  BY <1>5, <2>1, <2>2, <2>3
<1>8. \A m \in 0..n : m \in G
  BY <1>6, <1>7, Climbing
<1>9. ASSUME NEW i \in 1..(n + 1) PROVE StreamAt(x, y, i) = StreamAt(w, v, i + 1)
  <2>1. i - 1 \in 0..n /\ (i - 1) + 1 = i /\ (i - 1) + 2 = i + 1
    OBVIOUS
  <2>2. QED  BY <1>5, <1>8, <2>1
<1>10. QED  BY <1>1, <1>2, <1>4, <1>9

Awaited == tasks[1].at \in {"unsent", "initial", "install"}

\* A coroutine in state x works for the subscription, and within the log.
CursorOK(t, x) ==
  /\ x.at \in {"page", "events"} => t = Publisher /\ x.after = subscription.after
  /\ x.at = "page" => x.market = subscription.market
  /\ x.at = "events" => x.upto <= log[subscription.market]
  /\ x.at = "install" => x.after <= log[x.market]
  /\ x.at \in {"books", "book", "positions", "position"} => x.market = subscription.market
  /\ x.at \in {"positions", "position"} => x.label <= subscription.after
  /\ x.at = "position" => x.label <= x.seen

CursorsInv ==
  /\ SubscribeLimit = 1
  /\ Awaited => subscription = NoSubscription /\ tasks[Publisher] = Idle
  /\ subscription # NoSubscription => subscription.after <= log[subscription.market]
  /\ \A t \in Task : CursorOK(t, tasks[t])
WireInv ==
  /\ socket = "open" => StreamedBefore(Len(wire) + 1) = subscription
  /\ NoSkippedHistory /\ SnapshotsCoverTheirSequence

\* With one subscribe there are two coroutines.
LEMMA TwoTasks == SubscribeLimit = 1 => Task = {Publisher, 1} /\ Requests = {1} /\ Publisher # 1
BY DEF Task, Requests, Publisher

\* One coroutine goes on under the same subscription.
LEMMA CursorsOneGoesOn ==
  ASSUME ShapesInv, CursorsInv, NEW t \in Task, NEW x \in TaskState, CursorOK(t, x),
         tasks' = [tasks EXCEPT ![t] = x], UNCHANGED <<log, subscription>>,
         x.at \in {"unsent", "initial", "install"} => t = 1 /\ Awaited,
         t = Publisher => x = Idle \/ tasks[Publisher] # Idle
  PROVE  CursorsInv'
<1>1. /\ tasks' \in [Task -> TaskState] /\ tasks'[t] = x
      /\ \A u \in Task : u # t => tasks'[u] = tasks[u]
  BY DEF ShapesInv
<1>2. Task = {Publisher, 1} /\ Publisher # 1
  BY TwoTasks DEF CursorsInv
<1>3. \A u \in Task : CursorOK(u, tasks[u])' <=> CursorOK(u, tasks'[u])
  BY DEF CursorOK
<1>4. \A u \in Task : CursorOK(u, tasks'[u])
  BY <1>1 DEF CursorsInv
<1>5. ASSUME Awaited' PROVE subscription' = NoSubscription /\ tasks'[Publisher] = Idle
  <2>1. Awaited
    BY <1>1, <1>2, <1>5 DEF Awaited
  <2>2. QED  BY <1>1, <1>2, <2>1 DEF CursorsInv
<1>6. QED  BY <1>3, <1>4, <1>5 DEF CursorsInv

\* Nothing is sent, and the subscription stands.
LEMMA WireKept ==
  ASSUME WireInv, UNCHANGED <<wire, view>>,
         socket' = "open" => socket = "open" /\ UNCHANGED subscription
  PROVE  WireInv'
<1>1. \A i : StreamedBefore(i)' = StreamedBefore(i)
  BY DEF StreamedBefore
<1>2. NoSkippedHistory' /\ SnapshotsCoverTheirSequence'
  BY <1>1 DEF WireInv, NoSkippedHistory, SnapshotsCoverTheirSequence
<1>3. ASSUME socket' = "open" PROVE (StreamedBefore(Len(wire) + 1) = subscription)'
  <2>1. StreamedBefore(Len(wire) + 1) = subscription /\ UNCHANGED subscription
    BY <1>3 DEF WireInv
  <2>2. QED  BY <2>1 DEF StreamedBefore
<1>4. QED  BY <1>2, <1>3 DEF WireInv

\* Frames that are sent: the others keep their place, and the new ones must fit
\* where the stream stands.
LEMMA WireExtended ==
  ASSUME ShapesInv, WireInv, NEW new \in Seq(Frame), wire' = wire \o new, UNCHANGED view,
         \A k \in 1..Len(new) : new[k].type = "market_event" =>
           StreamAt(wire', view, Len(wire) + k) = [market |-> new[k].market, after |-> new[k].sequence - 1],
         \A k \in 1..Len(new) : new[k].type = "position_snapshot" =>
           /\ new[k].reflects >= new[k].sequence
           /\ StreamAt(wire', view, Len(wire) + k).market = new[k].market
           /\ StreamAt(wire', view, Len(wire) + k).after >= new[k].sequence
  PROVE  /\ NoSkippedHistory' /\ SnapshotsCoverTheirSequence'
         /\ \A i \in 1..(Len(wire) + 1) : StreamAt(wire', view, i) = StreamedBefore(i)
<1>1. /\ wire \in Seq(Frame) /\ wire' \in Seq(Frame) /\ Len(wire) \in Nat /\ Len(new) \in Nat
      /\ DOMAIN wire' = 1..(Len(wire) + Len(new))
      /\ \A j \in 1..Len(wire) : wire'[j] = wire[j]
      /\ \A k \in 1..Len(new) : wire'[Len(wire) + k] = new[k]
  BY DEF ShapesInv
<1>2. \A i \in 1..(Len(wire) + 1) : StreamAt(wire', view, i) = StreamedBefore(i)
  BY <1>1, StreamAppended, StreamedAt
<1>3. \A i : StreamedBefore(i)' = StreamAt(wire', view, i)
  BY StreamedAtNext
<1>4. ASSUME NEW i \in DOMAIN wire', wire'[i].type = "market_event"
      PROVE  StreamedBefore(i)' = [market |-> wire'[i].market, after |-> wire'[i].sequence - 1]
  <2>1. CASE i \in 1..Len(wire)
    <3>1. wire'[i] = wire[i] /\ i \in DOMAIN wire /\ StreamedBefore(i)' = StreamedBefore(i)
      BY <1>1, <1>2, <1>3, <2>1
    <3>2. QED  BY <1>4, <3>1 DEF WireInv, NoSkippedHistory
  <2>2. CASE i \notin 1..Len(wire)
    <3>1. PICK k \in 1..Len(new) : i = Len(wire) + k
      <4>1. i - Len(wire) \in 1..Len(new) /\ i = Len(wire) + (i - Len(wire))
        BY <1>1, <2>2
      <4>2. QED  BY <4>1
    <3>2. QED  BY <1>1, <1>3, <1>4, <3>1
  <2>3. QED  BY <2>1, <2>2
<1>5. ASSUME NEW i \in DOMAIN wire', wire'[i].type = "position_snapshot"
      PROVE  /\ wire'[i].reflects >= wire'[i].sequence
             /\ StreamedBefore(i)'.market = wire'[i].market /\ StreamedBefore(i)'.after >= wire'[i].sequence
  <2>1. CASE i \in 1..Len(wire)
    <3>1. wire'[i] = wire[i] /\ i \in DOMAIN wire /\ StreamedBefore(i)' = StreamedBefore(i)
      BY <1>1, <1>2, <1>3, <2>1
    <3>2. QED  BY <1>5, <3>1 DEF WireInv, SnapshotsCoverTheirSequence
  <2>2. CASE i \notin 1..Len(wire)
    <3>1. PICK k \in 1..Len(new) : i = Len(wire) + k
      <4>1. i - Len(wire) \in 1..Len(new) /\ i = Len(wire) + (i - Len(wire))
        BY <1>1, <2>2
      <4>2. QED  BY <4>1
    <3>2. QED  BY <1>1, <1>3, <1>5, <3>1
  <2>3. QED  BY <2>1, <2>2
<1>6. QED  BY <1>2, <1>4, <1>5 DEF NoSkippedHistory, SnapshotsCoverTheirSequence

\* One frame is sent that is no event.
LEMMA WireOneSent ==
  ASSUME ShapesInv, WireInv, NEW frame \in Frame, frame.type # "market_event",
         wire' = Sent(<<frame>>), UNCHANGED view, socket' = "open" => socket = "open",
         frame.type = "position_snapshot" =>
           /\ frame.reflects >= frame.sequence
           /\ subscription.market = frame.market /\ subscription.after >= frame.sequence,
         socket' = "open" => subscription' = Moved(frame, subscription)
  PROVE  WireInv'
<1>1. CASE socket # "open"
  BY <1>1, WireKept DEF Sent
<1>2. CASE socket = "open"
  <2>1. PICK new \in Seq(Frame) : new = <<frame>> /\ Len(new) = 1 /\ new[1] = frame
    <3>1. <<frame>> \in Seq(Frame) /\ Len(<<frame>>) = 1 /\ <<frame>>[1] = frame
      OBVIOUS
    <3>2. QED  BY <3>1
  <2>2. PICK n \in Nat : n = Len(wire)
    BY DEF ShapesInv
  <2>3. /\ wire \in Seq(Frame) /\ wire' = wire \o new /\ wire' \in Seq(Frame) /\ Len(wire') = n + 1
        /\ wire'[n + 1] = frame
    BY <1>2, <2>1, <2>2 DEF ShapesInv, Sent
  <2>4. StreamAt(wire', view, n + 1) = subscription
    <3>1. StreamedBefore(n + 1) = subscription /\ StreamedBefore(n + 1) = StreamAt(wire, view, n + 1)
      BY <1>2, <2>2, StreamedAt DEF WireInv
    <3>2. n + 1 \in 1..(Len(wire) + 1)
      BY <2>2
    <3>3. StreamAt(wire \o new, view, n + 1) = StreamAt(wire, view, n + 1)
      BY <2>3, <3>2, StreamAppended
    <3>4. QED  BY <2>3, <3>1, <3>3
  <2>5. NoSkippedHistory' /\ SnapshotsCoverTheirSequence'
    <3>1. \A k \in 1..Len(new) : new[k] = frame /\ StreamAt(wire', view, Len(wire) + k) = subscription
      BY <2>1, <2>2, <2>4
    <3>2. QED  BY <2>3, <3>1, WireExtended
  <2>6. ASSUME socket' = "open" PROVE (StreamedBefore(Len(wire) + 1) = subscription)'
    <3>1. n + 1 \in Nat \ {0}
      OBVIOUS
    <3>2. StreamAt(wire', view, (n + 1) + 1) = Moved(frame, subscription)
      <4>1. PICK w, v : w \in Seq(Frame) /\ w = wire' /\ v = view
        BY <2>3
      <4>2. StreamAt(w, v, (n + 1) + 1) = Moved(w[n + 1], StreamAt(w, v, n + 1))
        BY <3>1, <4>1, StreamMoves
      <4>3. QED  BY <2>3, <2>4, <4>1, <4>2
    <3>3. StreamAt(wire', view', Len(wire') + 1) = subscription'
      BY <2>3, <2>6, <3>2
    <3>4. QED  BY <3>3 DEF StreamedBefore, StreamAt
  <2>7. QED  BY <2>5, <2>6 DEF WireInv
<1>3. QED  BY <1>1, <1>2

\* What the invariants say together.
StreamInv == ShapesInv /\ ToldInv /\ CursorsInv /\ WireInv

\* A subscription that is installed follows a market, within its log.
LEMMA InstalledFacts ==
  ASSUME StreamInv, NEW t \in Task, Serving(t)
  PROVE  /\ subscription # NoSubscription /\ subscription \in Followed /\ ~Awaited
         /\ subscription.market \in Markets /\ subscription.after \in Nat
         /\ log[subscription.market] \in Nat /\ subscription.after <= log[subscription.market]
<1>1. subscription # NoSubscription
  BY DEF StreamInv, ToldInv
<1>2. subscription \in Followed
  BY <1>1, CursorCases DEF StreamInv, ShapesInv
<1>3. subscription.market \in Markets /\ subscription.after \in Nat
  BY <1>2 DEF Followed
<1>4. QED  BY <1>1, <1>2, <1>3 DEF StreamInv, CursorsInv, ShapesInv

\* The subscribe frame and what its handler reads.
LEMMA SubscribeKeeps ==
  ASSUME StreamInv, NEW r \in Requests, ReadInitial(r) \/ \E m \in Markets : SendSubscribe(r, m)
  PROVE  CursorsInv' /\ WireInv'
<1>1. r = 1 /\ r \in Task /\ r # Publisher /\ tasks[r] \in TaskState
  BY TwoTasks, TaskNames DEF StreamInv, CursorsInv, ShapesInv
<1>2. UNCHANGED <<log, socket, subscription, wire, view>>
  BY DEF ReadInitial, SendSubscribe, client
<1>3. WireInv'
  BY <1>2, WireKept DEF StreamInv
<1>4. CASE ReadInitial(r)
  <2>1. /\ tasks[r].at = "initial" /\ tasks[r].market \in Markets /\ tasks[r].after \in Nat /\ Awaited
    BY <1>1, <1>4, TaskFields DEF ReadInitial, Awaited
  <2>2. PICK m \in Markets, after \in Nat : m = tasks[r].market /\ after = tasks[r].after
    BY <2>1
  <2>3. PICK b \in BOOLEAN : b = (after < log[m])
    <3>1. (after < log[m]) \in BOOLEAN
      BY <2>2 DEF StreamInv, ShapesInv
    <3>2. QED  BY <3>1, Zenon
  <2>4. PICK x : x = IF after <= log[m]
                       THEN [at |-> "install", market |-> m, after |-> after, items |-> b] ELSE Idle
    OBVIOUS
  <2>5. x \in TaskState /\ x.at \in {"install", "idle"} /\ CursorOK(r, x)
    BY <2>2, <2>3, <2>4, TaskStates DEF Idle, CursorOK
  <2>6. tasks' = [tasks EXCEPT ![r] = x]
    BY <1>4, <2>2, <2>3, <2>4 DEF ReadInitial
  <2>7. QED  BY <1>1, <1>2, <1>3, <2>1, <2>5, <2>6, CursorsOneGoesOn DEF StreamInv
<1>5. CASE \E m \in Markets : SendSubscribe(r, m)
  <2>1. PICK m \in Markets : SendSubscribe(r, m)
    BY <1>5
  <2>2. retained[m] \in Nat
    BY DEF StreamInv, ShapesInv
  <2>3. PICK x : x = [at |-> "initial", market |-> m, after |-> retained[m]]
    OBVIOUS
  <2>4. x \in TaskState /\ x.at = "initial" /\ CursorOK(r, x)
    BY <2>2, <2>3, TaskStates DEF CursorOK
  <2>5. tasks' = [tasks EXCEPT ![r] = x] /\ Awaited
    BY <1>1, <2>1, <2>3 DEF SendSubscribe, Awaited, Unsent
  <2>6. QED  BY <1>1, <1>2, <1>3, <2>4, <2>5, CursorsOneGoesOn DEF StreamInv
<1>6. QED  BY <1>4, <1>5

\* The publisher reads a page, or stops.
LEMMA PageKeeps ==
  ASSUME StreamInv, ReadPage \/ EmptyPage
  PROVE  CursorsInv' /\ WireInv'
<1>1. Publisher \in Task /\ tasks[Publisher] \in TaskState /\ tasks[Publisher].at \in {"page", "events"}
  BY TaskNames DEF StreamInv, ShapesInv, ReadPage, EmptyPage
<1>2. UNCHANGED <<log, socket, subscription, wire, view>>
  BY DEF ReadPage, EmptyPage, client
<1>3. WireInv'
  BY <1>2, WireKept DEF StreamInv
<1>4. tasks[Publisher] # Idle
  BY <1>1 DEF Idle
<1>5. CASE EmptyPage
  <2>1. Idle \in TaskState /\ Idle.at = "idle" /\ CursorOK(Publisher, Idle)
    BY DEF TaskState, Idle, CursorOK
  <2>2. QED  BY <1>1, <1>2, <1>3, <1>5, <2>1, CursorsOneGoesOn DEF StreamInv, EmptyPage
<1>6. CASE ReadPage
  <2>1. /\ tasks[Publisher].at = "page" /\ CursorOK(Publisher, tasks[Publisher])
    BY <1>1, <1>6 DEF ReadPage, StreamInv, CursorsInv
  <2>2. Serving(Publisher)
    BY <2>1 DEF Serving
  <2>3. /\ tasks[Publisher].market = subscription.market /\ tasks[Publisher].after = subscription.after
    BY <2>1 DEF CursorOK
  <2>4. PICK n \in Nat, l \in Nat : n = subscription.after /\ l = log[subscription.market] /\ n <= l
    BY <1>1, <2>2, InstalledFacts
  <2>5. PICK k : k = Least(l, n + PageLimit)
    OBVIOUS
  <2>6. k \in Nat /\ k <= l
    BY <2>5, PageLimitAssumption DEF Least
  <2>7. PICK x : x = [at |-> "events", after |-> n, upto |-> k]
    OBVIOUS
  <2>8. x \in TaskState
    <3>1. subscription.market \in Markets
      BY <1>1, <2>2, InstalledFacts
    <3>2. QED  BY <2>6, <2>7, <3>1, TaskStates
  <2>9. x.at = "events" /\ CursorOK(Publisher, x)
    BY <2>4, <2>6, <2>7 DEF CursorOK
  <2>10. tasks' = [tasks EXCEPT ![Publisher] = x]
    BY <1>6, <2>3, <2>4, <2>5, <2>7 DEF ReadPage
  <2>11. QED  BY <1>1, <1>2, <1>3, <1>4, <2>8, <2>9, <2>10, CursorsOneGoesOn DEF StreamInv
<1>7. QED  BY <1>5, <1>6

\* A snapshot is read: it shows all the log has, which is past the cursor.
LEMMA SnapshotKeeps ==
  ASSUME StreamInv, NEW t \in Task, ReadSnapshot(t)
  PROVE  CursorsInv' /\ WireInv'
<1>1. /\ tasks[t] \in TaskState /\ tasks[t].at \in {"books", "positions"} /\ Serving(t)
      /\ CursorOK(t, tasks[t])
  BY DEF StreamInv, ShapesInv, ReadSnapshot, Serving, CursorsInv
<1>2. UNCHANGED <<log, socket, subscription, wire, view>>
  BY DEF ReadSnapshot, client
<1>3. WireInv'
  BY <1>2, WireKept DEF StreamInv
<1>4. tasks[t] # Idle
  BY <1>1 DEF Idle
<1>5. PICK m \in Markets, l \in Nat : m = tasks[t].market /\ l = log[m] /\ m = subscription.market
  BY <1>1, InstalledFacts DEF CursorOK
<1>6. CASE tasks[t].at = "books"
  <2>1. PICK x : x = [at |-> "book", market |-> m, seen |-> l]
    OBVIOUS
  <2>2. x \in TaskState /\ x.at = "book" /\ CursorOK(t, x)
    BY <1>5, <2>1, TaskStates DEF CursorOK
  <2>3. tasks' = [tasks EXCEPT ![t] = x]
    BY <1>5, <1>6, <2>1 DEF ReadSnapshot
  <2>4. QED  BY <1>2, <1>3, <1>4, <2>2, <2>3, CursorsOneGoesOn DEF StreamInv
<1>7. CASE tasks[t].at = "positions"
  <2>1. PICK n \in Nat : n = tasks[t].label
    BY <1>1, <1>7, TaskFields
  <2>2. n <= subscription.after /\ n <= l
    BY <1>1, <1>5, <1>7, <2>1, InstalledFacts DEF CursorOK
  <2>3. PICK x : x = [at |-> "position", market |-> m, label |-> n, seen |-> l]
    OBVIOUS
  <2>4. x \in TaskState /\ x.at = "position" /\ CursorOK(t, x)
    BY <1>5, <2>2, <2>3, TaskStates DEF CursorOK
  <2>5. tasks' = [tasks EXCEPT ![t] = x]
    BY <1>5, <1>7, <2>1, <2>3 DEF ReadSnapshot
  <2>6. QED  BY <1>2, <1>3, <1>4, <2>4, <2>5, CursorsOneGoesOn DEF StreamInv
<1>8. QED  BY <1>1, <1>6, <1>7

\* A snapshot of the book is sent; the next is labelled with the cursor.
LEMMA BookKeeps ==
  ASSUME StreamInv, NEW t \in Task, SendBook(t)
  PROVE  CursorsInv' /\ WireInv'
<1>1. tasks[t] \in TaskState /\ tasks[t].at = "book" /\ Serving(t) /\ tasks[t] # Idle
  BY DEF StreamInv, ShapesInv, SendBook, Serving, Idle
<1>2. /\ subscription.market \in Markets /\ subscription.after \in Nat
      /\ tasks[t].market \in Markets /\ tasks[t].seen \in Nat
  BY <1>1, InstalledFacts, TaskFields
<1>3. PICK x : x = [at |-> "positions", market |-> subscription.market, label |-> subscription.after]
  OBVIOUS
<1>4. x \in TaskState /\ x.at = "positions" /\ CursorOK(t, x)
  <2>1. x \in TaskState
    BY <1>2, <1>3, TaskStates
  <2>2. x.at = "positions" /\ x.market = subscription.market /\ x.label = subscription.after
    BY <1>3
  <2>3. QED  BY <1>2, <2>1, <2>2 DEF CursorOK
<1>5. tasks' = [tasks EXCEPT ![t] = x] /\ UNCHANGED <<log, socket, subscription, view>>
  BY <1>3 DEF SendBook, client
<1>6. CursorsInv'
  BY <1>1, <1>4, <1>5, CursorsOneGoesOn DEF StreamInv
<1>7. PICK frame \in Frame : /\ frame = BookSnapshot(tasks[t].market, tasks[t].seen)
                             /\ frame.type = "book_snapshot"
  BY <1>2, FramesMade
<1>8. wire' = Sent(<<frame>>) /\ Moved(frame, subscription) = subscription
  BY <1>7 DEF SendBook, Moved
<1>9. WireInv'
  BY <1>5, <1>7, <1>8, WireOneSent DEF StreamInv
<1>10. QED  BY <1>6, <1>9

\* A snapshot of the positions is sent.
LEMMA PositionsKeep ==
  ASSUME StreamInv, NEW t \in Task, SendPositions(t)
  PROVE  CursorsInv' /\ WireInv'
<1>1. /\ tasks[t] \in TaskState /\ tasks[t].at = "position" /\ Serving(t) /\ CursorOK(t, tasks[t])
  BY DEF StreamInv, ShapesInv, SendPositions, Serving, CursorsInv
<1>2. tasks[t].market \in Markets /\ tasks[t].seen \in Nat /\ tasks[t].label \in Nat
  BY <1>1, TaskFields
<1>3. PICK frame \in Frame : frame = PositionSnapshot(tasks[t].market, tasks[t].label, tasks[t].seen)
  BY <1>2, FramesMade
<1>4. /\ frame.type = "position_snapshot" /\ frame.market = tasks[t].market
      /\ frame.sequence = tasks[t].label /\ frame.reflects = tasks[t].seen
  BY <1>3 DEF PositionSnapshot
<1>5. /\ frame.reflects >= frame.sequence
      /\ subscription.market = frame.market /\ subscription.after >= frame.sequence
  <2>1. subscription.after \in Nat
    BY <1>1, InstalledFacts
  <2>2. QED  BY <1>1, <1>2, <1>4, <2>1 DEF CursorOK
<1>6. /\ tasks' = [tasks EXCEPT ![t] = Idle] /\ UNCHANGED <<log, socket, subscription, view>>
      /\ wire' = Sent(<<frame>>)
  BY <1>3 DEF SendPositions, client
<1>7. Idle \in TaskState /\ Idle.at = "idle" /\ CursorOK(t, Idle)
  BY DEF TaskState, Idle, CursorOK
<1>8. CursorsInv'
  BY <1>6, <1>7, CursorsOneGoesOn DEF StreamInv
<1>9. Moved(frame, subscription) = subscription
  BY <1>4 DEF Moved
<1>10. WireInv'
  BY <1>4, <1>5, <1>6, <1>9, WireOneSent DEF StreamInv
<1>11. QED  BY <1>8, <1>10

\* Frames behind others.
LEMMA JoinedLen ==
  ASSUME NEW w \in Seq(Frame), NEW u \in Seq(Frame)
  PROVE  Len(w \o u) = Len(w) + Len(u)
OBVIOUS

\* A page is sent: its events follow the cursor, which moves to the last of them.
LEMMA EventsKeep ==
  ASSUME StreamInv, SendEvents
  PROVE  CursorsInv' /\ WireInv'
<1>1. /\ Publisher \in Task /\ tasks[Publisher] \in TaskState /\ tasks[Publisher].at = "events"
      /\ Serving(Publisher) /\ CursorOK(Publisher, tasks[Publisher]) /\ tasks \in [Task -> TaskState]
      /\ Task = {Publisher, 1} /\ Publisher # 1
  BY TaskNames, TwoTasks DEF StreamInv, ShapesInv, SendEvents, Serving, CursorsInv
<1>2. PICK after \in Nat, upto \in Nat : /\ after = tasks[Publisher].after /\ upto = tasks[Publisher].upto
                                         /\ upto > after
  BY <1>1, TaskFields DEF SendEvents
<1>3. /\ subscription \in Followed /\ subscription.after = after /\ ~Awaited
      /\ upto <= log[subscription.market]
  BY <1>1, <1>2, InstalledFacts DEF CursorOK
<1>4. PICK m \in Markets : m = subscription.market
  BY <1>3 DEF Followed
<1>5. PICK n \in Nat \ {0} : n = upto - after
  <2>1. upto - after \in Nat \ {0}
    BY <1>2
  <2>2. QED  BY <2>1
<1>6. PICK new : new = [i \in 1..n |-> MarketEvent(m, after + i)]
  OBVIOUS
<1>7. new \in Seq(Frame) /\ Len(new) = n
  <2>1. \A i \in 1..n : MarketEvent(m, after + i) \in Frame
    BY FramesMade
  <2>2. new \in [1..n -> Frame]
    BY <1>6, <2>1
  <2>3. QED  BY <1>5, <2>2
<1>8. PICK sub : sub = [subscription EXCEPT !.after = upto]
  OBVIOUS
<1>9. sub = [market |-> m, after |-> upto]
  BY <1>3, <1>4, <1>8 DEF Followed
<1>10. PICK x : x = StartSnapshots(sub)
  OBVIOUS
<1>11. x = [at |-> "books", market |-> m]
  BY <1>9, <1>10 DEF StartSnapshots
<1>12. /\ wire' = Sent(new) /\ subscription' = sub /\ tasks' = [tasks EXCEPT ![Publisher] = x]
       /\ UNCHANGED <<log, socket, view>>
  BY <1>2, <1>4, <1>5, <1>6, <1>8, <1>10 DEF SendEvents, client
<1>13. tasks'[Publisher] = x /\ tasks'[1] = tasks[1]
  BY <1>1, <1>12
<1>14. CursorsInv'
  <2>1. ~Awaited'
    BY <1>3, <1>13 DEF Awaited
  <2>2. CursorOK(Publisher, tasks[Publisher])'
    BY <1>9, <1>11, <1>12, <1>13 DEF CursorOK
  <2>3. CursorOK(1, tasks[1])'
    <3>1. CursorOK(1, tasks[1]) /\ tasks[1] \in TaskState
      BY <1>1 DEF StreamInv, CursorsInv, ShapesInv
    <3>2. tasks[1].at \notin {"page", "events"}
      BY <1>1, <3>1 DEF CursorOK
    <3>3. tasks[1].at \in {"positions", "position"} => tasks[1].label \in Nat /\ tasks[1].label <= upto
      BY <1>2, <1>3, <3>1, TaskFields DEF CursorOK
    <3>4. QED  BY <1>4, <1>9, <1>12, <1>13, <3>1, <3>2, <3>3 DEF CursorOK
  <2>4. QED  BY <1>1, <1>3, <1>4, <1>9, <1>12, <2>1, <2>2, <2>3 DEF StreamInv, CursorsInv
<1>15. CASE socket # "open"
  <2>1. wire' = wire /\ socket' # "open"
    BY <1>12, <1>15 DEF Sent
  <2>2. QED  BY <1>12, <1>14, <2>1, WireKept DEF StreamInv
<1>16. CASE socket = "open"
  <2>1. PICK l \in Nat : l = Len(wire)
    BY DEF StreamInv, ShapesInv
  <2>2. PICK w \in Seq(Frame) : w = wire'
    <3>1. wire' \in Seq(Frame)
      BY <1>7, <1>12, <1>16 DEF Sent, StreamInv, ShapesInv
    <3>2. QED  BY <3>1
  <2>3. /\ wire \in Seq(Frame) /\ wire' = wire \o new /\ Len(w) = l + n
        /\ \A k \in 1..n : w[l + k] = new[k]
    <3>1. wire \in Seq(Frame) /\ w = wire \o new
      BY <1>12, <1>16, <2>2 DEF Sent, StreamInv, ShapesInv
    <3>2. Len(w) = l + n
      <4>1. Len(wire \o new) = Len(wire) + Len(new)
        BY <1>7, <3>1, JoinedLen
      <4>2. QED  BY <1>7, <2>1, <3>1, <4>1
    <3>3. ASSUME NEW k \in 1..n PROVE w[l + k] = new[k]
      <4>1. l + k \in 1..(l + n) /\ l + k > l /\ (l + k) - l = k
        OBVIOUS
      <4>2. QED  BY <1>7, <2>1, <3>1, <4>1
    <3>4. QED  BY <2>2, <3>1, <3>2, <3>3
  <2>4. StreamAt(w, view, l + 1) = subscription
    <3>1. StreamedBefore(l + 1) = subscription /\ StreamedBefore(l + 1) = StreamAt(wire, view, l + 1)
      BY <1>16, <2>1, StreamedAt DEF StreamInv, WireInv
    <3>2. l + 1 \in 1..(Len(wire) + 1)
      BY <2>1
    <3>3. StreamAt(wire \o new, view, l + 1) = StreamAt(wire, view, l + 1)
      BY <1>7, <2>3, <3>2, StreamAppended
    <3>4. QED  BY <2>2, <2>3, <3>1, <3>3
  <2>5. \A k \in 1..n : /\ new[k].type = "market_event" /\ new[k].market = m /\ new[k].sequence = after + k
    BY <1>6 DEF MarketEvent
  <2>6. ASSUME NEW k \in 1..n
        PROVE  StreamAt(w, view, (l + k) + 1) = [market |-> m, after |-> after + k]
    <3>1. l + k \in Nat \ {0} /\ w[l + k] = new[k]
      BY <2>3
    <3>2. StreamAt(w, view, (l + k) + 1) = Moved(new[k], StreamAt(w, view, l + k))
      <4>1. PICK i \in Nat \ {0} : i = l + k
        BY <3>1
      <4>2. StreamAt(w, view, i + 1) = Moved(w[i], StreamAt(w, view, i))
        BY StreamMoves
      <4>3. QED  BY <3>1, <4>1, <4>2
    <3>3. QED  BY <2>5, <3>2 DEF Moved
  <2>7. ASSUME NEW k \in 1..n
        PROVE  StreamAt(w, view, l + k) = [market |-> new[k].market, after |-> new[k].sequence - 1]
    <3>1. new[k].market = m /\ new[k].sequence - 1 = after + (k - 1)
      BY <2>5
    <3>2. CASE k = 1
      <4>1. subscription = [market |-> m, after |-> after + (k - 1)]
        BY <1>3, <1>4, <3>2 DEF Followed
      <4>2. QED  BY <2>4, <3>1, <3>2, <4>1
    <3>3. CASE k # 1
      <4>1. k - 1 \in 1..n /\ (l + (k - 1)) + 1 = l + k
        BY <3>3
      <4>2. StreamAt(w, view, (l + (k - 1)) + 1) = [market |-> m, after |-> after + (k - 1)]
        BY <2>6, <4>1
      <4>3. QED  BY <3>1, <4>1, <4>2
    <3>4. QED  BY <3>2, <3>3
  <2>8. NoSkippedHistory' /\ SnapshotsCoverTheirSequence'
    <3>1. \A k \in 1..Len(new) : new[k].type # "position_snapshot"
      BY <1>7, <2>5
    <3>2. \A k \in 1..Len(new) :
            StreamAt(wire', view, Len(wire) + k) = [market |-> new[k].market, after |-> new[k].sequence - 1]
      BY <1>7, <2>1, <2>2, <2>7
    <3>3. QED  BY <1>7, <1>12, <2>3, <3>1, <3>2, WireExtended DEF StreamInv
  <2>9. (StreamedBefore(Len(wire) + 1) = subscription)'
    <3>1. n \in 1..n /\ (l + n) + 1 = Len(w) + 1 /\ after + n = upto
      <4>1. n \in 1..n /\ after + n = upto
        BY <1>2, <1>5
      <4>2. QED  BY <2>3, <4>1
    <3>2. StreamAt(w, view, (l + n) + 1) = [market |-> m, after |-> after + n]
      BY <2>6, <3>1
    <3>3. StreamAt(wire', view', Len(wire') + 1) = subscription'
      BY <1>9, <1>12, <2>2, <3>1, <3>2
    <3>4. QED  BY <3>3 DEF StreamedBefore, StreamAt
  <2>10. QED  BY <1>14, <2>8, <2>9 DEF WireInv
<1>17. QED  BY <1>15, <1>16, <1>14

\* The subscription is installed, while the publisher is at rest.
LEMMA InstallKeeps ==
  ASSUME StreamInv, NEW r \in Requests, Install(r)
  PROVE  CursorsInv' /\ WireInv'
<1>1. /\ r = 1 /\ r \in Task /\ Publisher \in Task /\ r # Publisher /\ tasks[r] \in TaskState
      /\ tasks[r].at = "install" /\ wire \in Seq(Frame) /\ tasks \in [Task -> TaskState]
      /\ Task = {Publisher, 1} /\ CursorOK(r, tasks[r]) /\ Awaited /\ tasks[Publisher] = Idle
  BY TaskNames, TwoTasks DEF StreamInv, ShapesInv, Install, CursorsInv, Awaited
<1>2. PICK m \in Markets, n \in Nat : m = tasks[r].market /\ n = tasks[r].after
  BY <1>1, TaskFields
<1>3. n <= log[m]
  BY <1>1, <1>2 DEF CursorOK
<1>4. PICK sub : sub = [market |-> m, after |-> n]
  OBVIOUS
<1>5. PICK frame \in Frame : /\ frame = Subscribed(m, n) /\ frame.type = "subscribed"
                             /\ frame.market = m /\ frame.sequence = n
  <2>1. Subscribed(m, n).market = m /\ Subscribed(m, n).sequence = n
    BY DEF Subscribed
  <2>2. QED  BY <1>2, <2>1, FramesMade
<1>6. /\ subscription' = sub /\ wire' = Sent(<<frame>>) /\ UNCHANGED <<log, view>>
      /\ \/ BeginPublish(sub, wire', [tasks EXCEPT ![r] = Idle])
         \/ tasks' = [tasks EXCEPT ![r] = Idle] /\ UNCHANGED <<socket, working>>
         \/ tasks' = [tasks EXCEPT ![r] = StartSnapshots(sub)] /\ UNCHANGED <<socket, working>>
  BY <1>2, <1>4, <1>5 DEF Install, client
<1>7. /\ socket' \in {socket, "closing"}
      /\ tasks'[r] \in {Idle, StartSnapshots(sub)} /\ tasks'[Publisher] \in {Idle, StartPublish(sub)}
  <2>1. PICK ts : ts = [tasks EXCEPT ![r] = Idle]
    OBVIOUS
  <2>2. ts[r] = Idle /\ ts[Publisher] = Idle /\ \A x : [ts EXCEPT ![Publisher] = x][r] = Idle
    BY <1>1, <2>1
  <2>3. \A x : [ts EXCEPT ![Publisher] = x][Publisher] = x
    BY <1>1, <2>1
  <2>4. CASE BeginPublish(sub, wire', ts)
    BY <2>2, <2>3, <2>4 DEF BeginPublish
  <2>5. CASE tasks' = ts /\ UNCHANGED <<socket, working>>
    BY <2>2, <2>5
  <2>6. CASE tasks' = [tasks EXCEPT ![r] = StartSnapshots(sub)] /\ UNCHANGED <<socket, working>>
    BY <1>1, <2>6
  <2>7. QED  BY <1>6, <2>1, <2>4, <2>5, <2>6
<1>8. CursorsInv'
  <2>1. ~Awaited'
    BY <1>1, <1>7 DEF Awaited, Idle, StartSnapshots
  <2>2. CursorOK(r, tasks[r])'
    <3>1. tasks'[r] = Idle \/ tasks'[r] = [at |-> "books", market |-> m]
      BY <1>4, <1>7 DEF StartSnapshots
    <3>2. QED  BY <1>4, <1>6, <3>1 DEF CursorOK, Idle
  <2>3. CursorOK(Publisher, tasks[Publisher])'
    <3>1. tasks'[Publisher] = Idle \/ tasks'[Publisher] = [at |-> "page", market |-> m, after |-> n]
      BY <1>4, <1>7 DEF StartPublish
    <3>2. QED  BY <1>4, <1>6, <3>1 DEF CursorOK, Idle
  <2>4. subscription'.after <= log'[subscription'.market]
    BY <1>3, <1>4, <1>6
  <2>5. QED  BY <1>1, <2>1, <2>2, <2>3, <2>4 DEF StreamInv, CursorsInv
<1>9. Moved(frame, subscription) = sub
  BY <1>4, <1>5 DEF Moved
<1>10. WireInv'
  <2>1. socket' = "open" => socket = "open"
    BY <1>7
  <2>2. QED  BY <1>5, <1>6, <1>9, <2>1, WireOneSent DEF StreamInv
<1>11. QED  BY <1>8, <1>10

\* The interval fires once there is a subscription.
LEMMA PollKeeps ==
  ASSUME StreamInv, Poll
  PROVE  CursorsInv' /\ WireInv'
<1>1. /\ subscription # NoSubscription /\ BeginPublish(subscription, wire, tasks)
      /\ UNCHANGED <<log, subscription, wire, view>>
      /\ Publisher \in Task /\ tasks \in [Task -> TaskState] /\ Task = {Publisher, 1} /\ Publisher # 1
  BY TaskNames, TwoTasks DEF Poll, StreamInv, ShapesInv, CursorsInv, client
<1>2. ~Awaited
  BY <1>1 DEF StreamInv, CursorsInv
<1>3. /\ socket' \in {socket, "closing"} /\ tasks'[1] = tasks[1]
      /\ tasks'[Publisher] \in {tasks[Publisher], StartPublish(subscription)}
  BY <1>1 DEF BeginPublish
<1>4. WireInv'
  BY <1>1, <1>3, WireKept DEF StreamInv
<1>5. ~Awaited'
  BY <1>2, <1>3 DEF Awaited
<1>6. \A t \in Task : CursorOK(t, tasks[t])'
  <2>1. CursorOK(1, tasks[1])'
    BY <1>1, <1>3 DEF StreamInv, CursorsInv, CursorOK
  <2>2. CursorOK(Publisher, tasks[Publisher])'
    <3>1. CASE tasks'[Publisher] = tasks[Publisher]
      BY <1>1, <3>1 DEF StreamInv, CursorsInv, CursorOK
    <3>2. CASE tasks'[Publisher] = StartPublish(subscription)
      BY <1>1, <3>2 DEF CursorOK, StartPublish
    <3>3. QED  BY <1>3, <3>1, <3>2
  <2>3. QED  BY <1>1, <2>1, <2>2
<1>7. QED  BY <1>1, <1>4, <1>5, <1>6 DEF StreamInv, CursorsInv

\* A frame is read: the client stands where the stream stood after it.
LEMMA ReceiveKeeps ==
  ASSUME StreamInv, Receive
  PROVE  CursorsInv' /\ WireInv'
<1>1. UNCHANGED <<log, socket, subscription, tasks>>
  BY DEF Receive, server
<1>2. CursorsInv'
  BY <1>1 DEF StreamInv, CursorsInv, CursorOK, Awaited
<1>3. /\ wire \in Seq(Frame) /\ wire # <<>> /\ wire' = Tail(wire) /\ wire' \in Seq(Frame)
      /\ Len(wire) \in Nat /\ Len(wire') \in Nat /\ Len(wire) = Len(wire') + 1
      /\ \A i \in 1..Len(wire') : wire'[i] = wire[i + 1] /\ i + 1 \in DOMAIN wire
      /\ 1 \in DOMAIN wire /\ Head(wire) = wire[1]
  BY DEF StreamInv, ShapesInv, Receive
<1>4. PICK frame \in Frame : frame = wire[1]
  BY <1>3
<1>5. view' = Moved(frame, view)
  <2>1. CASE frame.type = "subscribed"
    BY <1>3, <1>4, <2>1 DEF Receive, Moved
  <2>2. CASE frame.type = "market_event"
    <3>1. StreamedBefore(1) = [market |-> frame.market, after |-> frame.sequence - 1]
      BY <1>3, <1>4, <2>2 DEF StreamInv, WireInv, NoSkippedHistory
    <3>2. StreamedBefore(1) = view
      <4>1. 1 \in Nat \ {0}
        OBVIOUS
      <4>2. StreamAt(wire, view, 1) = view
        BY <1>3, <4>1, StreamMoves
      <4>3. QED  BY <4>2, StreamedAt
    <3>3. view' = [view EXCEPT !.after = frame.sequence]
      BY <1>3, <1>4, <2>2 DEF Receive
    <3>4. QED  BY <2>2, <3>1, <3>2, <3>3 DEF Moved
  <2>3. CASE frame.type \notin {"subscribed", "market_event"}
    BY <1>3, <1>4, <2>3 DEF Receive, Moved
  <2>4. QED  BY <2>1, <2>2, <2>3
<1>6. \A i \in 1..Len(wire) : StreamedBefore(i)' = StreamedBefore(i + 1)
  <2>1. \A i \in 1..Len(wire) : StreamAt(Tail(wire), Moved(wire[1], view), i) = StreamAt(wire, view, i + 1)
    BY <1>3, StreamRead
  <2>2. QED  BY <1>3, <1>4, <1>5, <2>1, StreamedAt, StreamedAtNext
<1>7. NoSkippedHistory'
  <2>1. ASSUME NEW i \in DOMAIN wire', wire'[i].type = "market_event"
        PROVE  StreamedBefore(i)' = [market |-> wire'[i].market, after |-> wire'[i].sequence - 1]
    <3>1. i \in 1..Len(wire') /\ i \in 1..Len(wire) /\ wire'[i] = wire[i + 1] /\ i + 1 \in DOMAIN wire
      BY <1>3, <2>1
    <3>2. StreamedBefore(i + 1) = [market |-> wire[i + 1].market, after |-> wire[i + 1].sequence - 1]
      BY <2>1, <3>1 DEF StreamInv, WireInv, NoSkippedHistory
    <3>3. QED  BY <1>6, <3>1, <3>2
  <2>2. QED  BY <2>1 DEF NoSkippedHistory
<1>8. SnapshotsCoverTheirSequence'
  <2>1. ASSUME NEW i \in DOMAIN wire', wire'[i].type = "position_snapshot"
        PROVE  /\ wire'[i].reflects >= wire'[i].sequence
               /\ StreamedBefore(i)'.market = wire'[i].market /\ StreamedBefore(i)'.after >= wire'[i].sequence
    <3>1. i \in 1..Len(wire') /\ i \in 1..Len(wire) /\ wire'[i] = wire[i + 1] /\ i + 1 \in DOMAIN wire
      BY <1>3, <2>1
    <3>2. /\ wire[i + 1].reflects >= wire[i + 1].sequence
          /\ StreamedBefore(i + 1).market = wire[i + 1].market
          /\ StreamedBefore(i + 1).after >= wire[i + 1].sequence
      BY <2>1, <3>1 DEF StreamInv, WireInv, SnapshotsCoverTheirSequence
    <3>3. QED  BY <1>6, <3>1, <3>2
  <2>2. QED  BY <2>1 DEF SnapshotsCoverTheirSequence
<1>9. ASSUME socket' = "open" PROVE (StreamedBefore(Len(wire) + 1) = subscription)'
  <2>1. StreamedBefore(Len(wire) + 1) = subscription
    BY <1>1, <1>9 DEF StreamInv, WireInv
  <2>2. PICK n \in 1..Len(wire) : n = Len(wire)
    <3>1. Len(wire) \in 1..Len(wire)
      BY <1>3
    <3>2. QED  BY <3>1
  <2>3. StreamedBefore(n)' = subscription'
    BY <1>1, <1>6, <2>1, <2>2
  <2>4. StreamAt(wire', view', Len(wire') + 1) = subscription'
    BY <1>3, <2>2, <2>3, StreamedAtNext
  <2>5. QED  BY <2>4 DEF StreamedBefore, StreamAt
<1>10. QED  BY <1>2, <1>7, <1>8, <1>9 DEF WireInv

\* The log only grows.
LEMMA CommitKeeps ==
  ASSUME StreamInv, NEW m \in Markets, CommitEvent(m)
  PROVE  CursorsInv' /\ WireInv'
<1>1. /\ log' = [log EXCEPT ![m] = @ + 1] /\ UNCHANGED <<socket, subscription, tasks, wire, view>>
      /\ log \in [Markets -> Nat]
  BY DEF CommitEvent, server, client, StreamInv, ShapesInv
<1>2. WireInv'
  BY <1>1, WireKept DEF StreamInv
<1>3. \A x \in Markets : log[x] \in Nat /\ log'[x] \in Nat /\ log[x] <= log'[x]
  BY <1>1
<1>4. ASSUME NEW t \in Task PROVE CursorOK(t, tasks[t])'
  <2>1. CursorOK(t, tasks[t]) /\ tasks[t] \in TaskState
    BY DEF StreamInv, CursorsInv, ShapesInv
  <2>2. tasks[t].at = "events" => tasks[t].upto <= log'[subscription.market]
    <3>1. ASSUME tasks[t].at = "events" PROVE tasks[t].upto <= log'[subscription.market]
      <4>1. subscription.market \in Markets /\ tasks[t].upto \in Nat
        BY <2>1, <3>1, InstalledFacts, TaskFields DEF Serving
      <4>2. QED  BY <1>3, <2>1, <3>1, <4>1 DEF CursorOK
    <3>2. QED  BY <3>1
  <2>3. tasks[t].at = "install" => tasks[t].after <= log'[tasks[t].market]
    <3>1. ASSUME tasks[t].at = "install" PROVE tasks[t].after <= log'[tasks[t].market]
      <4>1. tasks[t].market \in Markets /\ tasks[t].after \in Nat
        BY <2>1, <3>1, TaskFields
      <4>2. QED  BY <1>3, <2>1, <3>1, <4>1 DEF CursorOK
    <3>2. QED  BY <3>1
  <2>4. QED  BY <1>1, <2>1, <2>2, <2>3 DEF CursorOK
<1>5. subscription # NoSubscription => subscription.after <= log'[subscription.market]
  <2>1. ASSUME subscription # NoSubscription PROVE subscription.after <= log'[subscription.market]
    <3>1. subscription \in Followed
      BY <2>1, CursorCases DEF StreamInv, ShapesInv
    <3>2. subscription.market \in Markets /\ subscription.after \in Nat
      BY <3>1 DEF Followed
    <3>3. subscription.after <= log[subscription.market]
      BY <2>1 DEF StreamInv, CursorsInv
    <3>4. QED  BY <1>3, <3>2, <3>3
  <2>2. QED  BY <2>1
<1>6. QED  BY <1>1, <1>2, <1>4, <1>5 DEF StreamInv, CursorsInv, Awaited

\* A connection starts with nothing sent, and ends with nothing to come.
LEMMA ConnectKeeps ==
  ASSUME StreamInv, Connect \/ Disconnect
  PROVE  CursorsInv' /\ WireInv'
<1>1. /\ wire' = <<>> /\ subscription' = NoSubscription
      /\ tasks' \in {[t \in Task |-> IF t = Publisher THEN Idle ELSE Unsent], [t \in Task |-> Idle]}
      /\ socket' = "open" => view' = NoSubscription
  BY DEF Connect, Disconnect
<1>2. tasks'[Publisher] = Idle /\ \A t \in Task : tasks'[t] \in {Idle, Unsent}
  BY <1>1, TaskNames
<1>3. \A t \in Task : CursorOK(t, tasks[t])'
  BY <1>2 DEF CursorOK, Idle, Unsent
<1>4. CursorsInv'
  BY <1>1, <1>2, <1>3 DEF StreamInv, CursorsInv
<1>5. DOMAIN wire' = {} /\ Len(wire') = 0 /\ wire' \in Seq(Frame)
  BY <1>1, NoFrames
<1>6. StreamAt(wire', view', Len(wire') + 1) = view'
  <2>1. PICK w \in Seq(Frame) : w = wire'
    BY <1>5
  <2>2. PICK v : v = view'
    OBVIOUS
  <2>3. StreamAt(w, v, 1) = v
    <3>1. 1 \in Nat \ {0}
      OBVIOUS
    <3>2. QED  BY <3>1, StreamMoves
  <2>4. Len(wire') + 1 = 1
    BY <1>5
  <2>5. QED  BY <2>1, <2>2, <2>3, <2>4
<1>7. QED  BY <1>1, <1>4, <1>5, <1>6
           DEF WireInv, NoSkippedHistory, SnapshotsCoverTheirSequence, StreamedBefore, StreamAt

\* With one subscribe a connection the stream is continuous.
LEMMA StreamHolds == SubscribeLimit = 1 /\ StreamSpec => []StreamInv
<1>1. SubscribeLimit = 1 /\ StreamInit /\ ShapesInv /\ ToldInv => StreamInv
  <2> SUFFICES ASSUME SubscribeLimit = 1, StreamInit, ShapesInv, ToldInv PROVE CursorsInv /\ WireInv
    BY DEF StreamInv
  <2>1. /\ tasks[Publisher] = Idle /\ \A t \in Task : tasks[t] \in {Idle, Unsent}
        /\ subscription = NoSubscription /\ socket = "none" /\ wire = <<>>
    BY TaskNames DEF StreamInit
  <2>2. \A t \in Task : CursorOK(t, tasks[t])
    BY <2>1 DEF CursorOK, Idle, Unsent
  <2>3. QED  BY <2>1, <2>2, NoFrames DEF CursorsInv, WireInv, NoSkippedHistory, SnapshotsCoverTheirSequence
<1>2. StreamInv /\ [StreamNext]_streamVars => CursorsInv' /\ WireInv'
  <2> SUFFICES ASSUME StreamInv, [StreamNext]_streamVars PROVE CursorsInv' /\ WireInv'
    OBVIOUS
  <2>1. CASE UNCHANGED streamVars
    <3>1. UNCHANGED <<log, socket, subscription, tasks, wire, view>>
      BY <2>1 DEF streamVars, server, client
    <3>2. WireInv'
      BY <3>1, WireKept DEF StreamInv
    <3>3. QED  BY <3>1, <3>2 DEF StreamInv, CursorsInv, CursorOK, Awaited
  <2>2. CASE \E m \in Markets : CommitEvent(m)
    BY <2>2, CommitKeeps
  <2>3. CASE Connect \/ Disconnect
    BY <2>3, ConnectKeeps
  <2>4. CASE \E r \in Requests, m \in Markets : SendSubscribe(r, m)
    BY <2>4, SubscribeKeeps
  <2>5. CASE \E r \in Requests : ReadInitial(r) \/ Install(r)
    BY <2>5, SubscribeKeeps, InstallKeeps
  <2>6. CASE Poll \/ Receive
    BY <2>6, PollKeeps, ReceiveKeeps
  <2>7. CASE Publish
    BY <2>7, PageKeeps, EventsKeep DEF Publish
  <2>8. CASE \E t \in Task : Advance(t)
    BY <2>8, SnapshotKeeps, BookKeeps, PositionsKeep DEF Advance
  <2>9. QED  BY <2>1, <2>2, <2>3, <2>4, <2>5, <2>6, <2>7, <2>8 DEF StreamNext
<1>3. ShapesInv' /\ ToldInv' /\ CursorsInv' /\ WireInv' => StreamInv'
  BY DEF StreamInv
<1>4. QED  BY <1>1, <1>2, <1>3, ShapesHold, PTL DEF StreamSpec

\* A client that subscribes once a connection, and reconnects from the last event it
\* has, is sent each event strictly after its cursor, in order and none twice,
\* whatever polls, pages and lost connections come between.
THEOREM HistoryContinuous == SubscribeLimit = 1 /\ StreamSpec => []NoSkippedHistory
<1>1. StreamInv => NoSkippedHistory
  BY DEF StreamInv, WireInv
<1>2. QED  BY <1>1, StreamHolds, PTL

\* The position snapshots it is sent show at least the events sent before them.
THEOREM SnapshotsCover == SubscribeLimit = 1 /\ StreamSpec => []SnapshotsCoverTheirSequence
<1>1. StreamInv => SnapshotsCoverTheirSequence
  BY DEF StreamInv, WireInv
<1>2. QED  BY <1>1, StreamHolds, PTL
===============================================================================
