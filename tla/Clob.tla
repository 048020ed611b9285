--------------------------------- MODULE Clob ---------------------------------
(***************************************************************************)
(* The central limit order book of one collateral asset: the trading books *)
(* of several markets, the orders resting in them, the reservation behind  *)
(* each order, and the ledger buckets the orders move money between.       *)
(*                                                                         *)
(* Every action is one database transaction.  A transaction that touches a *)
(* book holds the book's row lock from its first statement to its commit,  *)
(* and owner/asset advisory locks cover the wallets, so transactions on    *)
(* the modelled state are serialised; a failed requireCondition rolls the  *)
(* whole transaction back, so a guard that fails here is a step that does  *)
(* not happen.  The order in which those locks are taken is not modelled.  *)
(*                                                                         *)
(* A market has a book for each of its assets.  Closing one of a market's  *)
(* books closes the others in the same transaction; those other books are  *)
(* outside this module (Resolution has all the books of one market).       *)
(***************************************************************************)
EXTENDS ClobMath

CONSTANTS
  Users,          \* accounts that trade
  Books,          \* one trading book per market of this asset
  Outcomes,       \* published outcomes of a market
  OrderIds,       \* identifiers orders can draw; bounds the number of orders
  Prices,         \* limit prices orders use
  Quantities,     \* quantities orders use
  Funds,          \* finalised deposits of each user before trading starts
  ExposureLimit,  \* exposure limit of the published risk terms, minor units
  CloseBatch      \* orders one close of a book cancels at most (100 in the code)

ASSUME UsersAssumption == IsFiniteSet(Users)
ASSUME OrderIdsAssumption == OrderIds \subseteq Nat /\ IsFiniteSet(OrderIds)
ASSUME PricesAssumption == Prices \subseteq Price
ASSUME QuantitiesAssumption == Quantities \subseteq Nat \ {0}
ASSUME FundsAssumption == Funds \in [Users -> Nat]
ASSUME ExposureLimitAssumption == ExposureLimit \in Nat
ASSUME CloseBatchAssumption == CloseBatch \in Nat \ {0}

VARIABLES
  status,        \* clob_markets.status; "absent" before the row is inserted
  next,          \* clob_markets.next_sequence
  closed,        \* books whose published trading cutoff has passed
  eligible,      \* users that pass assertMarketEligibility
  orders,        \* clob_orders: a row for every identifier drawn so far
  reservations,  \* collateral_reservations with purpose clob, by order
  fills,         \* clob_fills
  available,     \* ledger bucket user_available
  reserved,      \* ledger bucket user_reserved
  escrow,        \* ledger bucket market_escrow
  fees           \* ledger bucket protocol_fee

books   == <<status, next, closed>>
ledger  == <<available, reserved, escrow, fees>>
vars    == <<books, eligible, orders, reservations, fills, ledger>>

OrderState == {"open", "filled", "cancelled"}
ReservationState == {"held", "partially_consumed", "consumed", "release_pending", "released"}

Order == [owner : Users, book : Books, outcome : Outcomes, side : OrderSide,
          price : Prices, quantity : Nat, remaining : Nat,
          reservedPerShare : Nat, seq : Nat, state : OrderState]

Reservation == [amount : Nat, consumed : Nat, released : Nat, state : ReservationState]

Fill == [maker : OrderIds, taker : OrderIds, price : Prices, quantity : Nat,
         buyerCollateral : Nat, sellerCollateral : Nat,
         buyerFee : Nat, sellerFee : Nat, seq : Nat]

\* Value of the empty table; no row is ever equal to it.
NoRow == 0

Init ==
  /\ status = [b \in Books |-> "absent"]
  /\ next = [b \in Books |-> 1]
  /\ closed = {}
  /\ eligible = Users
  /\ orders = [k \in {} |-> NoRow]
  /\ reservations = [k \in {} |-> NoRow]
  /\ fills = {}
  /\ available = Funds
  /\ reserved = [u \in Users |-> 0]
  /\ escrow = 0
  /\ fees = 0

-------------------------------------------------------------------------------
(* The life of a book.                                                       *)

\* A halted book never reopens: activation needs the sequence still at 1.
ActivateClob(b) ==
  /\ b \notin closed
  /\ status[b] \in {"absent", "halted"}
  /\ next[b] = 1
  /\ status' = [status EXCEPT ![b] = "open"]
  /\ next' = [next EXCEPT ![b] = @ + 1]
  /\ UNCHANGED <<closed, eligible, orders, reservations, fills, ledger>>

HaltClob(b) ==
  /\ status[b] = "open"
  /\ status' = [status EXCEPT ![b] = "halted"]
  /\ next' = [next EXCEPT ![b] = @ + 1]
  /\ UNCHANGED <<closed, eligible, orders, reservations, fills, ledger>>

\* The clock passes the published trading cutoff.
TradingCutoff(b) ==
  /\ b \notin closed
  /\ closed' = closed \cup {b}
  /\ UNCHANGED <<status, next, eligible, orders, reservations, fills, ledger>>

\* Verification, funding eligibility or the country policy of a user changes.
SetEligibility(u) ==
  /\ eligible' = IF u \in eligible THEN eligible \ {u} ELSE eligible \cup {u}
  /\ UNCHANGED <<books, orders, reservations, fills, ledger>>

-------------------------------------------------------------------------------
(* Order entry.                                                              *)

Open(k) == orders[k].state = "open"

\* The sum of f over the orders of S that belong to user w.
OwnedBy(w, S, f) == SumFunctionOnSet(f, {k \in S : orders[k].owner = w})

\* Open orders count in full, filled and cancelled ones by what matched.
Counted(k) ==
  IF Open(k) THEN orders[k].quantity ELSE orders[k].quantity - orders[k].remaining

\* Mutant: earlier orders and positions are not counted.
WithinExposureOfOrder(u, b, quantity) == quantity * ContractUnit <= ExposureLimit

WithinExposure(u, b, quantity) ==
  LET own == {k \in DOMAIN orders : orders[k].owner = u /\ orders[k].book = b}
  IN  ContractUnit * SumFunctionOnSet([k \in own |-> Counted(k)], own)
        + quantity * ContractUnit <= ExposureLimit

SufficientCollateral(u, amount) == amount <= available[u]

\* Orders an incoming order can trade with: the opposite side of the same book
\* and outcome, never its owner's, priced within its limit.
Makers(u, b, outcome, side, price) ==
  {k \in DOMAIN orders : /\ Open(k)
                         /\ orders[k].book = b /\ orders[k].outcome = outcome
                         /\ orders[k].side # side /\ orders[k].owner # u
                         /\ Crosses(side, price, orders[k].price)}

\* Mutant: the price improvement is not recorded as released.
ChargeCostOnly(r, held, cost) ==
  [r EXCEPT !.consumed = @ + cost,
            !.state = IF r.consumed + cost + r.released = r.amount
                      THEN "consumed" ELSE "partially_consumed"]

\* What chargeFill does to a reservation: the cost is consumed, and what was
\* held for the filled quantity beyond the cost is released.
Charge(r, held, cost) ==
  LET consumed == r.consumed + cost
      released == r.released + (held - cost)
  IN  [r EXCEPT !.consumed = consumed, !.released = released,
                !.state = IF consumed + released = r.amount
                          THEN "consumed" ELSE "partially_consumed"]

\* What chargeFill returns to the available bucket.
Improvement(held, cost) == held - cost

FillRow(m, id, quantity, seq) ==
  [maker |-> m, taker |-> id, price |-> orders[m].price, quantity |-> quantity,
   buyerCollateral |-> ContractCollateral("buy", quantity, orders[m].price),
   sellerCollateral |-> ContractCollateral("sell", quantity, orders[m].price),
   buyerFee |-> ExecutionFee("buy", quantity, orders[m].price),
   sellerFee |-> ExecutionFee("sell", quantity, orders[m].price), seq |-> seq]

\* Both sides' payments into market escrow and into protocol fees.
EscrowCredit(quantity, price) ==
  ContractCollateral("buy", quantity, price) + ContractCollateral("sell", quantity, price)

FeeCredit(quantity, price) ==
  ExecutionFee("buy", quantity, price) + ExecutionFee("sell", quantity, price)

\* reserve, insert the order, match it, charge both sides of every fill.
SubmitOrder(u, b, outcome, side, price, quantity, id) ==
  LET required == ReservationRequired(side, quantity, price)
      perShare == required \div quantity
      makers   == Makers(u, b, outcome, side, price)
      filled   == MatchPriceTime(side, quantity, orders, makers)
      matched  == {m \in makers : filled[m] > 0}
      taken    == SumFunctionOnSet(filled, makers)
      \* held for and cost of each fill, for the maker and for the taker
      held  == [m \in makers |-> filled[m] * orders[m].reservedPerShare]
      cost  == [m \in makers |-> FillCost(orders[m].side, filled[m], orders[m].price)]
      held0 == [m \in makers |-> filled[m] * perShare]
      cost0 == [m \in makers |-> FillCost(side, filled[m], orders[m].price)]
      allHeld0 == SumFunctionOnSet(held0, makers)
      allCost0 == SumFunctionOnSet(cost0, makers)
      order == [owner |-> u, book |-> b, outcome |-> outcome, side |-> side,
                price |-> price, quantity |-> quantity, remaining |-> quantity - taken,
                reservedPerShare |-> perShare, seq |-> next[b],
                state |-> IF taken = quantity THEN "filled" ELSE "open"]
      fresh == [amount |-> required, consumed |-> 0, released |-> 0, state |-> "held"]
  IN  /\ status[b] = "open"
      /\ b \notin closed
      /\ u \in eligible
      /\ WithinPrecision(price)
      /\ WithinExposure(u, b, quantity)
      /\ SufficientCollateral(u, required)
      /\ \A m \in matched : orders[m].owner \in eligible
      /\ \A m \in matched : cost[m] <= held[m] /\ cost0[m] <= held0[m]
      /\ orders' = [k \in DOMAIN orders \cup {id} |->
           IF k = id THEN order
           ELSE IF k \in matched
           THEN [orders[k] EXCEPT !.remaining = @ - filled[k],
                                  !.state = IF orders[k].remaining = filled[k]
                                            THEN "filled" ELSE "open"]
           ELSE orders[k]]
      /\ reservations' = [k \in DOMAIN orders \cup {id} |->
           IF k = id THEN IF matched = {} THEN fresh ELSE Charge(fresh, allHeld0, allCost0)
           ELSE IF k \in matched THEN Charge(reservations[k], held[k], cost[k])
           ELSE reservations[k]]
      /\ fills' = fills \cup
           {FillRow(m, id, filled[m],
                    next[b] + 1 + Cardinality(AheadOf(side, orders, matched, m)))
            : m \in matched}
      /\ next' = [next EXCEPT ![b] = @ + 1 + Cardinality(matched)]
      /\ available' = [w \in Users |->
           available[w]
           + OwnedBy(w, makers, [m \in makers |-> Improvement(held[m], cost[m])])
           + (IF w = u THEN Improvement(allHeld0, allCost0) - required ELSE 0)]
      /\ reserved' = [w \in Users |->
           reserved[w] - OwnedBy(w, makers, held)
           + (IF w = u THEN required - allHeld0 ELSE 0)]
      /\ escrow' = escrow + SumFunctionOnSet(
           [m \in makers |-> EscrowCredit(filled[m], orders[m].price)], makers)
      /\ fees' = fees + SumFunctionOnSet(
           [m \in makers |-> FeeCredit(filled[m], orders[m].price)], makers)
      /\ UNCHANGED <<status, closed, eligible>>

-------------------------------------------------------------------------------
(* Cancellation and the close of the book.                                   *)

\* What is released for the unmatched rest of an order.
Unmatched(k) == orders[k].remaining * orders[k].reservedPerShare

\* markReleasePending and releaseReservation of every order of S, and the
\* orders' own update; both check the reservation before they change it.
ReleaseOrders(S) ==
  LET released(k) == reservations[k].released + Unmatched(k)
      unmatched   == [k \in S |-> Unmatched(k)]
  IN  /\ \A k \in S :
           /\ reservations[k].state \in {"held", "partially_consumed"}
           /\ reservations[k].consumed + released(k) <= reservations[k].amount
      /\ orders' = [k \in DOMAIN orders |->
           IF k \in S THEN [orders[k] EXCEPT !.state = "cancelled"] ELSE orders[k]]
      /\ reservations' = [k \in DOMAIN orders |->
           IF k \in S
           THEN [reservations[k] EXCEPT
                   !.released = released(k),
                   !.state = IF reservations[k].consumed + released(k) = reservations[k].amount
                             THEN "released" ELSE "release_pending"]
           ELSE reservations[k]]
      /\ available' = [w \in Users |-> available[w] + OwnedBy(w, S, unmatched)]
      /\ reserved' = [w \in Users |-> reserved[w] - OwnedBy(w, S, unmatched)]
      /\ UNCHANGED <<closed, eligible, fills, escrow, fees>>

\* The owner cancels; the book may be halted or past its cutoff.
CancelOrder(k) ==
  /\ Open(k)
  /\ ReleaseOrders({k})
  /\ next' = [next EXCEPT ![orders[k].book] = @ + 1]
  /\ UNCHANGED status

OpenIn(b) == {k \in DOMAIN orders : Open(k) /\ orders[k].book = b}

\* closeResolutionBook: halt, then cancel the oldest open orders, at most
\* CloseBatch of them in one transaction.
CloseResolutionBook(b) ==
  LET oldest == {k \in OpenIn(b) :
                   Cardinality({j \in OpenIn(b) : orders[j].seq < orders[k].seq}) < CloseBatch}
  IN  /\ status[b] # "absent"
      /\ b \in closed
      /\ status' = [status EXCEPT ![b] = "halted"]
      /\ ReleaseOrders(oldest)
      /\ next' = [next EXCEPT ![b] = @ + Cardinality(oldest)
                                       + (IF status[b] = "open" THEN 1 ELSE 0)]

-------------------------------------------------------------------------------

\* Identifiers are drawn in increasing order; the code draws random UUIDs, and
\* nothing but their equality matters.
NextId(id) == id \notin DOMAIN orders /\ \A k \in OrderIds : k < id => k \in DOMAIN orders

Next ==
  \/ \E b \in Books : ActivateClob(b)
  \/ \E b \in Books : HaltClob(b)
  \/ \E b \in Books : TradingCutoff(b)
  \/ \E b \in Books : CloseResolutionBook(b)
  \/ \E u \in Users : SetEligibility(u)
  \/ \E u \in Users, b \in Books, outcome \in Outcomes, side \in OrderSide,
        price \in Prices, quantity \in Quantities, id \in OrderIds :
        NextId(id) /\ SubmitOrder(u, b, outcome, side, price, quantity, id)
  \/ \E k \in DOMAIN orders : CancelOrder(k)

Spec == Init /\ [][Next]_vars

-------------------------------------------------------------------------------
(* Properties.                                                               *)

\* Every variable has its type, and no ledger bucket is ever negative: the
\* balance check of postJournal would have failed otherwise.
TypeOK ==
  /\ status \in [Books -> {"absent", "halted", "open"}]
  /\ next \in [Books -> Nat \ {0}]
  /\ closed \subseteq Books
  /\ eligible \subseteq Users
  /\ DOMAIN orders \subseteq OrderIds
  /\ orders \in [DOMAIN orders -> Order]
  /\ reservations \in [DOMAIN orders -> Reservation]
  /\ fills \subseteq Fill
  /\ available \in [Users -> Nat]
  /\ reserved \in [Users -> Nat]
  /\ escrow \in Nat
  /\ fees \in Nat

OpenOf(u) == {k \in DOMAIN orders : Open(k) /\ orders[k].owner = u}

\* What an open order still needs of its reservation.
Holding(k) == orders[k].remaining * orders[k].reservedPerShare

\* The reserved bucket of a user is exactly what the user's open orders still
\* hold: a fill, an improvement or a cancellation never leaves money behind and
\* never frees money another order needs.
ReservedBacksOrders ==
  \A u \in Users :
    reserved[u] = SumFunctionOnSet([k \in OpenOf(u) |-> Holding(k)], OpenOf(u))

\* The reservation of an order agrees with the order at every moment: what is
\* neither consumed nor released is what the open order still holds, and the
\* reservation's state follows.
ReservationFollowsOrder ==
  \A k \in DOMAIN orders :
    LET r == reservations[k]
        o == orders[k]
    IN  /\ r.amount = o.quantity * o.reservedPerShare
        /\ r.amount - r.consumed - r.released = IF Open(k) THEN Holding(k) ELSE 0
        /\ r.state = CASE o.state = "filled"    -> "consumed"
                       [] o.state = "cancelled" -> "released"
                       [] o.state = "open" /\ o.remaining = o.quantity -> "held"
                       [] OTHER -> "partially_consumed"

\* Market escrow holds the full payout of every matched contract, whatever the
\* prices and however the collateral was rounded.
EscrowBacksFills ==
  escrow = ContractUnit * SumFunctionOnSet([f \in fills |-> f.quantity], fills)

\* The buckets of the asset together always hold what was deposited: custody
\* equals user claims, market escrow and fees.
CollateralConserved ==
  SumFunctionOnSet(available, Users) + SumFunctionOnSet(reserved, Users) + escrow + fees
    = SumFunctionOnSet(Funds, Users)

\* After every transaction no two open orders of different owners could trade
\* with each other: matching never stops early and never skips a maker.
NoCrossedBook ==
  \A j, k \in DOMAIN orders :
    ~ /\ Open(j) /\ Open(k)
      /\ orders[j].book = orders[k].book /\ orders[j].outcome = orders[k].outcome
      /\ orders[j].side = "buy" /\ orders[k].side = "sell"
      /\ orders[j].owner # orders[k].owner
      /\ orders[j].price >= orders[k].price

\* The open quantity and the matched position of a user together stay within the
\* published limit in every book, over any sequence of submissions, partial
\* fills, fills as a maker and cancellations.
ExposureWithinLimit ==
  \A u \in Users, b \in Books :
    LET open == {k \in OpenOf(u) : orders[k].book = b}
        mine == {f \in fills : /\ orders[f.maker].book = b
                               /\ u \in {orders[f.maker].owner, orders[f.taker].owner}}
    IN  ContractUnit * (SumFunctionOnSet([k \in open |-> orders[k].remaining], open)
                        + SumFunctionOnSet([f \in mine |-> f.quantity], mine))
          <= ExposureLimit

\* An order can always be executed at any price its limit admits: the per-share
\* reservation, rounded at the limit, covers the cost rounded at that price, so
\* a fill never fails with RESERVATION_CONFLICT.
ExecutionWithinReservation ==
  \A k \in DOMAIN orders, p \in Prices :
    /\ Open(k)
    /\ WithinPrecision(p)
    /\ Crosses(orders[k].side, orders[k].price, p)
    => FillCost(orders[k].side, 1, p) <= orders[k].reservedPerShare

\* Price-time priority: when a step fills a maker, every order the taker could
\* have traded with and that ranks before that maker is exhausted by the step.
PriceTimePriority ==
  [][\A f \in fills' \ fills :
       LET t == orders'[f.taker]
           m == orders[f.maker]
           outranks(o) == \/ IF t.side = "buy" THEN o.price < m.price ELSE o.price > m.price
                          \/ o.price = m.price /\ o.seq < m.seq
       IN  \A k \in DOMAIN orders :
             /\ Open(k) /\ orders[k].owner # t.owner /\ orders[k].side = m.side
             /\ orders[k].book = t.book /\ orders[k].outcome = t.outcome
             /\ outranks(orders[k])
             => orders'[k].remaining = 0]_vars

\* A book that was halted never trades again, not even through activation.
HaltIsFinal ==
  [][\A b \in Books : status[b] = "halted" => status'[b] = "halted"]_vars
===============================================================================
