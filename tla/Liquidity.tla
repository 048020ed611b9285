------------------------------- MODULE Liquidity -------------------------------
(***************************************************************************)
(* The AMM and the institutional quotes of the markets of one asset        *)
(* together: they compete for the money of the same users and the lock of  *)
(* the same books, their positions share the market escrow, the close of a *)
(* market ends both, and its result redeems both.                          *)
(***************************************************************************)
EXTENDS Amm, Rfq

CONSTANTS
  Results,     \* results a resolution may end with: outcomes, or "cancelled"
  RedeemBatch, \* the batches of 100, made small
  MaxRows      \* quotes and requests together, by programmes; bounds the runs

VARIABLES
  result,   \* the final result of each market, Null before
  redeemed  \* amm_redemptions and rfq_redemptions: the positions paid out

resolution == <<result, redeemed>>
liquidityVars == <<now, market, session, ledger, ammVars, rfqVars, resolution>>

Treasury == "treasury"

(* The positions resolution redeems: both kinds name a buyer and a seller.  *)
AmmPosition(q) ==
  LET quote == ammQuotes[q]
      buys == quote.side = "buy"
  IN [kind |-> "amm", of |-> q, market |-> quote.pool.market, outcome |-> quote.pool.outcome,
      buyer |-> IF buys THEN quote.owner ELSE Treasury,
      seller |-> IF buys THEN Treasury ELSE quote.owner,
      buyerCollateral |-> IF buys THEN quote.userCollateral ELSE quote.ammCollateral,
      total |-> quote.userCollateral + quote.ammCollateral]

RfqPosition(f) ==
  LET request == requests[f.request]
  IN [kind |-> "rfq", of |-> f.request, market |-> request.market, outcome |-> request.outcome,
      buyer |-> SideOf(f.request, f.quote, "buy"), seller |-> SideOf(f.request, f.quote, "sell"),
      buyerCollateral |-> ContractCollateral("buy", request.quantity, rfqQuotes[f.quote].price),
      total |-> FillTotal(f)]

AmmPositions == {AmmPosition(q) : q \in {q \in DOMAIN ammQuotes : ammQuotes[q].state = "executed"}}
RfqPositions == {RfqPosition(f) : f \in rfqFills}

(* payoutForFill for a market of two outcomes; the seller gets the rest.    *)
BuyerPayout(x) == IF result[x.market] = "cancelled" THEN x.buyerCollateral
                  ELSE IF result[x.market] = x.outcome THEN x.total ELSE 0

PaidTo(u, S) == MapThenSumSet(LAMBDA x : (IF x.buyer = u THEN BuyerPayout(x) ELSE 0)
                                         + (IF x.seller = u THEN x.total - BuyerPayout(x) ELSE 0), S)
Totals(S) == MapThenSumSet(LAMBDA x : x.total, S)

LiquidityInit == BookInit /\ AmmInit /\ RfqInit /\ result = [m \in Markets |-> Null] /\ redeemed = {}

(* closeResolutionBook, without the resting orders (Clob.tla has them): the *)
(* book and its pools halt, open requests and their open quotes expire.     *)
CloseBook(m) ==
  /\ now >= Cutoff /\ BookFree(m)
  /\ status' = [status EXCEPT ![m] = "halted"]
  /\ pool' = [p \in Pools |-> IF p.market = m /\ pool[p].status = "open"
                                THEN [pool[p] EXCEPT !.status = "halted"] ELSE pool[p]]
  /\ rfqQuotes' = [q \in DOMAIN rfqQuotes |->
       IF /\ rfqQuotes[q].state = "open"
          /\ requests[rfqQuotes[q].request].market = m /\ requests[rfqQuotes[q].request].state = "open"
         THEN [rfqQuotes[q] EXCEPT !.state = "expired"] ELSE rfqQuotes[q]]
  /\ requests' = [i \in DOMAIN requests |->
       IF requests[i].market = m /\ requests[i].state = "open"
         THEN [requests[i] EXCEPT !.state = "expired"] ELSE requests[i]]
  /\ UNCHANGED <<now, liquidity, session, ledger, references, ammQuotes, rfqFills, resolution>>

(* A resolution becomes final (Resolution.tla): after the cutoff, and only  *)
(* of a market whose book is halted, by its close or by name.               *)
FinalizeResolution(m, r) ==
  /\ result[m] = Null /\ now >= Cutoff /\ status[m] = "halted" /\ BookFree(m)
  /\ result' = [result EXCEPT ![m] = r]
  /\ UNCHANGED <<now, market, session, ledger, ammVars, rfqVars, redeemed>>

Least(a, b) == IF a <= b THEN a ELSE b

(* Mutant: positions redeemed before are not left out.                      *)
OfMarket(S, m) == {x \in S : x.market = m}

Unredeemed(S, m) == {x \in S \ redeemed : x.market = m}

(* redeemBatch: some AMM positions (the oldest, an order the properties do  *)
(* not see), then quotes' fills in what is left of the batch.               *)
RedeemBatchOf(m) ==
  LET fromAmm == Least(RedeemBatch, Cardinality(Unredeemed(AmmPositions, m)))
      fromRfq == Least(RedeemBatch - fromAmm, Cardinality(Unredeemed(RfqPositions, m)))
  IN /\ result[m] # Null /\ BookFree(m) /\ fromAmm + fromRfq > 0
     /\ \E A \in kSubset(fromAmm, Unredeemed(AmmPositions, m)),
           R \in kSubset(fromRfq, Unredeemed(RfqPositions, m)) :
          LET S == A \cup R
          IN /\ \A x \in S : OwnerFree(x.buyer) /\ OwnerFree(x.seller)
             /\ Totals(S) <= escrow
             /\ escrow' = escrow - Totals(S)
             /\ available' = [u \in Users |-> available[u] + PaidTo(u, S)]
             /\ treasury' = treasury + PaidTo(Treasury, S)
             /\ redeemed' = redeemed \cup S
     /\ UNCHANGED <<now, market, session, fees, ammVars, rfqVars, result>>

(* Markets of neither programme are left alone.                             *)
Offered == {m \in Markets : liquidity[m] # {}}
Rows == Len(ammQuotes) + Len(requests) + Len(rfqQuotes)

LiquidityNext ==
  \/ Tick /\ UNCHANGED <<ammVars, rfqVars, resolution>>
  \/ \E c \in Connections : Rollback(c) /\ UNCHANGED <<ammVars, rfqVars, resolution>>
  \/ \E m \in Offered : HaltBook(m) /\ UNCHANGED <<ammVars, rfqVars, resolution>>
  \/ AmmNext /\ UNCHANGED <<rfqVars, resolution>> /\ Rows' <= MaxRows[liquidity]
  \/ RfqNext /\ UNCHANGED <<ammVars, resolution>> /\ Rows' <= MaxRows[liquidity]
  \/ \E m \in Offered : CloseBook(m)
  \/ \E m \in Offered, r \in Results : FinalizeResolution(m, r)
  \/ \E m \in Offered : RedeemBatchOf(m)

LiquiditySpec == LiquidityInit /\ [][LiquidityNext]_liquidityVars

-----------------------------------------------------------------------------
(* Whatever was quoted before other executions, and however markets end,    *)
(* the treasury never loses more than the published loss limit of each pool.*)
LossWithinLimits ==
  treasury + MapThenSumSet(LAMBDA p : Limits[p].loss, {p \in Pools : pool[p].shares > 0})
    >= MapThenSumSet(LAMBDA p : pool[p].funded, Pools)

(* The market escrow is the collateral of the positions not redeemed, and   *)
(* what a user or the treasury has is what it began with or was funded      *)
(* with, less what its positions cost, plus what the redeemed ones paid,    *)
(* each once (redeemBatch, acceptRfqQuote, executeAmmQuote, fundAmm).       *)
LedgerFollowsPositions ==
  /\ escrow = Totals((AmmPositions \cup RfqPositions) \ redeemed)
  /\ treasury = MapThenSumSet(LAMBDA p : pool[p].funded, Pools) + PaidTo(Treasury, redeemed)
       - MapThenSumSet(LAMBDA q : ammQuotes[q].ammCollateral,
           {q \in DOMAIN ammQuotes : ammQuotes[q].state = "executed"})
  /\ \A u \in Users : available[u] = Funds[u] + PaidTo(u, redeemed)
       - MapThenSumSet(LAMBDA q : UserTotal(ammQuotes[q]),
           {q \in DOMAIN ammQuotes : ammQuotes[q].owner = u /\ ammQuotes[q].state = "executed"})
       - MapThenSumSet(LAMBDA f : MapThenSumSet(LAMBDA side :
             IF SideOf(f.request, f.quote, side) = u
               THEN FillCost(side, requests[f.request].quantity, rfqQuotes[f.quote].price) ELSE 0,
             OrderSide), rfqFills)

(* The fills of an entity, as requester or as dealer, stay within its limit *)
(* in each market, whatever is accepted at the same time.                   *)
EntityExposureWithinLimit ==
  \A e \in Entities, m \in Markets : EntityExposure(e, m) <= ExposureLimit[e]

(* A position is only made in a market that is open and undecided when it   *)
(* commits, for a command that arrived before the cutoff, while the         *)
(* reference price of the AMM quote was fresh, or the dealer's quote and    *)
(* the request unexpired.                                                   *)
NothingExecutesLate ==
  [][/\ \A q \in DOMAIN ammQuotes : ammQuotes[q].state = "quoted" /\ ammQuotes'[q].state = "executed" =>
          /\ status[ammQuotes[q].pool.market] = "open" /\ result[ammQuotes[q].pool.market] = Null
          /\ \E c \in Connections : Executing(c, q) /\ session[c].asOf < Cutoff
                                    /\ session[c].asOf < ammQuotes[q].reference.expires
     /\ \A f \in rfqFills' \ rfqFills :
          /\ status[requests[f.request].market] = "open" /\ result[requests[f.request].market] = Null
          /\ \E c \in Connections :
               /\ session[c].op = "accept" /\ session[c].of = f.request
               /\ session[c].asOf < rfqQuotes[f.quote].expires
               /\ rfqQuotes[f.quote].expires <= requests[f.request].expires
               /\ requests[f.request].expires <= Cutoff]_liquidityVars

(* Types; the balances are never negative, and no pool is ever over one of  *)
(* its published limits or its funding.                                     *)
LiquidityTypeOK ==
  /\ now \in 0..Horizon /\ liquidity \in Programs /\ status \in [Markets -> {"open", "halted"}]
  /\ available \in [Users -> Nat] /\ {escrow, fees, treasury} \subseteq Nat
  /\ \A p \in Pools : WithinLimits(p, pool[p])
===============================================================================
