--------------------------------- MODULE Rfq ----------------------------------
(***************************************************************************)
(* Institutional requests for a quote: a requester of one entity asks,     *)
(* dealers of others sign expiring prices, and the requester accepts one,  *)
(* which reserves and executes both sides in one transaction.              *)
(*                                                                         *)
(* createRfqQuote and acceptRfqQuote read the request, wait for the book   *)
(* and read the request again; here that is two steps (Start..., then      *)
(* CreateRfqQuote or AcceptRfqQuote).  cancelRfqRequest takes no book.     *)
(* Memberships are append-only and entities active: they are constants.    *)
(* Signatures and nonces only refuse quotes, and are left out.             *)
(***************************************************************************)
EXTENDS LiquidityBook

CONSTANTS
  Entities, ExposureLimit,  \* exposure_limit_minor of each entity
  Requesters, Dealers,      \* <<account, entity>> memberships of each role
  RequestSides,             \* sides requesters ask for
  RfqPrices, Expiries,      \* prices dealers sign, times requests and quotes may expire at
  DealerLife,               \* five minutes, in ticks
  MaxRequests, MaxRfqQuotes \* bound the runs

ASSUME EntitiesAssumption ==
  /\ ExposureLimit \in [Entities -> Nat \ {0}]
  /\ Requesters \subseteq Users \X Entities /\ Dealers \subseteq Users \X Entities
ASSUME RfqPricesAssumption == RfqPrices \subseteq Price /\ RequestSides \subseteq OrderSide /\ Expiries \subseteq Nat

VARIABLES
  requests,  \* rfq_requests, in the order they were made
  rfqQuotes, \* rfq_quotes, in the order they were made
  rfqFills   \* rfq_fills: the request and the quote of each

rfqVars == <<requests, rfqQuotes, rfqFills>>

RfqInit == requests = <<>> /\ rfqQuotes = <<>> /\ rfqFills = {}

(* Payouts of a fill; the fixed payout counts in full for both entities.    *)
FillTotal(f) == requests[f.request].quantity * ContractUnit
EntitiesOf(f) == {requests[f.request].entity, rfqQuotes[f.quote].entity}
EntityExposure(e, m) == MapThenSumSet(FillTotal,
  {f \in rfqFills : requests[f.request].market = m /\ e \in EntitiesOf(f)})

(* What the requests of e that are open at a time may still become.         *)
OpenExposure(e, m, t) == ContractUnit * MapThenSumSet(LAMBDA i : requests[i].quantity,
  {i \in DOMAIN requests : /\ requests[i].entity = e /\ requests[i].market = m
                           /\ requests[i].state = "open" /\ t < requests[i].expires})

(* marketReady: the book row is locked, then its status is read; the time   *)
(* is the one the request arrived at.                                       *)
MarketReady(m, t) ==
  BookFree(m) /\ status[m] = "open" /\ "rfq" \in liquidity[m] /\ t < Cutoff

IsOpenAt(row, t) == row.state = "open" /\ t < row.expires

CreateRfqRequest(u, e, m, outcome, side, quantity, expires) ==
  /\ <<u, e>> \in Requesters /\ MarketReady(m, now) /\ Len(requests) < MaxRequests
  /\ now < expires /\ expires <= Cutoff
  /\ EntityExposure(e, m) + OpenExposure(e, m, now) + quantity * ContractUnit <= ExposureLimit[e]
  /\ requests' = Append(requests,
       [state |-> "open", owner |-> u, entity |-> e, market |-> m, outcome |-> outcome,
        side |-> side, quantity |-> quantity, expires |-> expires, accepted |-> 0])
  /\ UNCHANGED <<now, market, session, ledger, rfqQuotes, rfqFills>>

StartRfqQuote(c, i) ==
  /\ IsOpenAt(requests[i], now) /\ BeginCommand(c, "quote", i, requests[i].market)
  /\ UNCHANGED <<now, market, ledger, rfqVars>>

CreateRfqQuote(c, u, e, price, expires) ==
  LET i == session[c].of
      asOf == session[c].asOf
  IN /\ session[c].op = "quote" /\ <<u, e>> \in Dealers /\ Len(rfqQuotes) < MaxRfqQuotes
     /\ MarketReady(requests[i].market, asOf) /\ IsOpenAt(requests[i], asOf)
     /\ e # requests[i].entity /\ u # requests[i].owner
     /\ asOf < expires /\ expires <= requests[i].expires /\ expires <= asOf + DealerLife
     /\ rfqQuotes' = Append(rfqQuotes,
          [state |-> "open", request |-> i, entity |-> e, owner |-> u, price |-> price, expires |-> expires])
     /\ EndCommand(c)
     /\ UNCHANGED <<now, market, ledger, requests, rfqFills>>

-------------------------------------------------------------------------------
(* The first read checks only who asks; a request that is not open by then  *)
(* would fail the second.                                                   *)
StartAcceptance(c, i) ==
  /\ IsOpenAt(requests[i], now) /\ BeginCommand(c, "accept", i, requests[i].market)
  /\ UNCHANGED <<now, market, ledger, rfqVars>>

(* Mutant: only the requester's entity is held to its limit.                *)
RequesterWithinLimit(i, q) ==
  EntityExposure(requests[i].entity, requests[i].market) + requests[i].quantity * ContractUnit
    <= ExposureLimit[requests[i].entity]

BothWithinLimit(i, q) ==
  \A e \in {requests[i].entity, rfqQuotes[q].entity} :
    EntityExposure(e, requests[i].market) + requests[i].quantity * ContractUnit <= ExposureLimit[e]

(* The accounts on the two sides of a request filled with a quote.          *)
SideOf(i, q, side) == IF requests[i].side = side THEN requests[i].owner ELSE rfqQuotes[q].owner

(* The other open quotes of a request end with it.                          *)
QuotesEnd(quotes, i, state) == [q \in DOMAIN quotes |->
  IF quotes[q].request = i /\ quotes[q].state = "open" THEN [quotes[q] EXCEPT !.state = state] ELSE quotes[q]]

(* rfq_fill_guard repeats the two state checks when the fill is inserted.   *)
AcceptRfqQuote(c, q) ==
  LET i == session[c].of
      asOf == session[c].asOf
      quantity == requests[i].quantity
      price == rfqQuotes[q].price
      Cost(side) == FillCost(side, quantity, price)
  IN /\ session[c].op = "accept" /\ MarketReady(requests[i].market, asOf)
     /\ IsOpenAt(requests[i], asOf) /\ rfqQuotes[q].request = i /\ IsOpenAt(rfqQuotes[q], asOf)
     /\ BothWithinLimit(i, q) /\ WithinPrecision(price)
     /\ \A side \in OrderSide : LET u == SideOf(i, q, side)
                                IN OwnerFree(u) /\ available[u] >= Cost(side)
     /\ available' = [u \in Users |-> available[u]
          - (IF u = SideOf(i, q, "buy") THEN Cost("buy") ELSE 0)
          - (IF u = SideOf(i, q, "sell") THEN Cost("sell") ELSE 0)]
     /\ escrow' = escrow + quantity * ContractUnit
     /\ fees' = fees + ExecutionFee("buy", quantity, price) + ExecutionFee("sell", quantity, price)
     /\ rfqFills' = rfqFills \cup {[request |-> i, quote |-> q]}
     /\ rfqQuotes' = QuotesEnd([rfqQuotes EXCEPT ![q].state = "accepted"], i, "rejected")
     /\ requests' = [requests EXCEPT ![i].state = "accepted", ![i].accepted = q]
     /\ EndCommand(c)
     /\ UNCHANGED <<now, market, treasury>>

CancelRfqRequest(i) ==
  /\ IsOpenAt(requests[i], now)
  /\ requests' = [requests EXCEPT ![i].state = "cancelled"]
  /\ rfqQuotes' = QuotesEnd(rfqQuotes, i, "rejected")
  /\ UNCHANGED <<now, market, session, ledger, rfqFills>>

RfqNext ==
  \/ \E u \in Users, e \in Entities, m \in Markets, o \in Outcomes, side \in RequestSides,
       quantity \in Sizes, expires \in Expiries :
         CreateRfqRequest(u, e, m, o, side, quantity, expires)
  \/ \E c \in Connections, i \in DOMAIN requests : StartRfqQuote(c, i)
  \/ \E c \in Connections, u \in Users, e \in Entities, price \in RfqPrices, expires \in Expiries :
       CreateRfqQuote(c, u, e, price, expires)
  \/ \E c \in Connections, i \in DOMAIN requests : StartAcceptance(c, i)
  \/ \E c \in Connections, q \in DOMAIN rfqQuotes : AcceptRfqQuote(c, q)
  \/ \E i \in DOMAIN requests : CancelRfqRequest(i)
===============================================================================
