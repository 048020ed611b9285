--------------------------------- MODULE Amm ----------------------------------
(***************************************************************************)
(* The bounded AMM: pools with an approved inventory, subsidy and loss, a  *)
(* treasury the pools of an asset share, reference prices that expire, and *)
(* quotes that hold nothing until they are executed.                       *)
(*                                                                         *)
(* executeAmmQuote is three steps: it locks the quote (StartExecution),    *)
(* waits for the book, the pool and the owner and makes every check, the   *)
(* balance of the treasury among them (CheckExecution), and posts and      *)
(* commits (CommitExecution).  The treasury has no lock: an execution in   *)
(* another market may run between the last two.  The identity and country  *)
(* checks are taken to pass: failing, they only refuse.                    *)
(***************************************************************************)
EXTENDS LiquidityBook

CONSTANTS
  Pools,          \* [market, outcome] of each pool that may be activated
  Limits,         \* the published limits: inventory, subsidy, loss, slippage (bps)
  Impacts,        \* impact_bps an approver may choose
  Fundings,       \* amounts finance may fund
  References,     \* [price, age, life] of the reference prices an operator may record
  LimitPrices,    \* limit prices users ask with
  QuoteLife,      \* 15 seconds, in ticks
  MaxReferences, MaxAmmQuotes  \* bound the runs

ASSUME PoolsAssumption ==
  /\ Pools \subseteq [market : Markets, outcome : Outcomes] /\ IsFiniteSet(Pools)
  /\ Limits \in [Pools -> [inventory : Nat \ {0}, subsidy : Nat \ {0}, loss : Nat \ {0},
                           slippage : 0..BPS_SCALE]]
  /\ \A p \in Pools : Limits[p].loss <= Limits[p].subsidy
  /\ Impacts \subseteq 0..BPS_SCALE /\ Fundings \subseteq Nat \ {0}
  /\ References \subseteq [price : Nat, age : Nat, life : Nat] /\ QuoteLife \in Nat

VARIABLES
  pool,       \* amm_pools
  references, \* amm_reference_prices of each pool
  ammQuotes   \* amm_quotes, in the order they were made

ammVars == <<pool, references, ammQuotes>>

NoPool == [status |-> "none", impact |-> 0, funded |-> 0, shares |-> 0, subsidy |-> 0, loss |-> 0]

(* Row locks an execution holds from its first and its second step on.      *)
Executing(c, q) == session[c].op = "execute" /\ session[c].of = q
QuoteFree(q) == \A c \in Connections : ~Executing(c, q)
PoolFree(p) == \A c \in Connections :
  session[c].op = "execute" /\ session[c].book # Null => ammQuotes[session[c].of].pool # p

AmmInit ==
  /\ pool = [p \in Pools |-> NoPool] /\ references = [p \in Pools |-> {}] /\ ammQuotes = <<>>

ActivateAmm(p, impact) ==
  /\ "amm" \in liquidity[p.market] /\ BookFree(p.market) /\ pool[p] = NoPool
  /\ pool' = [pool EXCEPT ![p] = [NoPool EXCEPT !.status = "open", !.impact = impact]]
  /\ UNCHANGED <<now, market, session, ledger, references, ammQuotes>>

FundAmm(p, amount) ==
  /\ pool[p] # NoPool /\ PoolFree(p)
  /\ pool[p].funded + amount <= Limits[p].subsidy
  /\ treasury' = treasury + amount
  /\ pool' = [pool EXCEPT ![p].funded = @ + amount]
  /\ UNCHANGED <<now, market, session, available, escrow, fees, references, ammQuotes>>

RecordAmmReference(p, r) ==
  /\ pool[p].status = "open" /\ PoolFree(p)
  /\ r.age <= now /\ r.life > 0 /\ Cardinality(references[p]) < MaxReferences
  /\ references' = [references EXCEPT ![p] =
       @ \cup {[price |-> r.price, observed |-> now - r.age, expires |-> now + r.life]}]
  /\ UNCHANGED <<now, market, session, ledger, pool, ammQuotes>>

-------------------------------------------------------------------------------
(* previewAmmQuote: the reference price, moved against the user by an       *)
(* impact in proportion to the quantity.                                    *)
Impact(p, price, quantity) ==
  CeilDiv(price * pool[p].impact * quantity, Limits[p].inventory * BPS_SCALE)
QuotedPrice(p, side, price, quantity) ==
  IF side = "buy" THEN price + Impact(p, price, quantity) ELSE price - Impact(p, price, quantity)
Opposite(side) == IF side = "buy" THEN "sell" ELSE "buy"

(* The exposure of pool p with one more quote of this size executed.        *)
Exposed(p, quantity, collateral) ==
  [pool[p] EXCEPT !.shares = @ + quantity, !.subsidy = @ + collateral, !.loss = @ + collateral]

(* Mutant: capacity is not checked again.                                   *)
WithinInventory(p, next) == next.shares <= Limits[p].inventory

WithinLimits(p, next) ==
  /\ next.shares <= Limits[p].inventory /\ next.subsidy <= Limits[p].subsidy
  /\ next.loss <= Limits[p].loss /\ next.subsidy <= next.funded

(* The newest of the references of p that are fresh at a time.              *)
Latest(p, t) ==
  LET fresh == {r \in references[p] : r.observed <= t /\ t < r.expires}
  IN {r \in fresh : \A s \in fresh : s.observed <= r.observed}

QuoteExpiry(r) == IF r.expires < now + QuoteLife THEN r.expires ELSE now + QuoteLife

CreateAmmQuote(u, p, side, quantity, limit) ==
  /\ pool[p].status = "open" /\ PoolFree(p)
  /\ now < Cutoff /\ Len(ammQuotes) < MaxAmmQuotes
  /\ \E r \in Latest(p, now) :
       LET price == QuotedPrice(p, side, r.price, quantity)
           collateral == ContractCollateral(Opposite(side), quantity, price)
       IN /\ price \in Price /\ WithinPrecision(price)
          /\ Impact(p, r.price, quantity) * BPS_SCALE <= r.price * Limits[p].slippage
          /\ Crosses(side, limit, price)
          /\ WithinLimits(p, Exposed(p, quantity, collateral))
          /\ ammQuotes' = Append(ammQuotes,
               [state |-> "quoted", owner |-> u, pool |-> p, side |-> side, quantity |-> quantity,
                price |-> price, reference |-> r, expires |-> QuoteExpiry(r),
                userCollateral |-> ContractCollateral(side, quantity, price),
                ammCollateral |-> collateral, fee |-> ExecutionFee(side, quantity, price)])
  /\ UNCHANGED <<now, market, session, ledger, pool, references>>

-------------------------------------------------------------------------------
UserTotal(quote) == quote.userCollateral + quote.fee

StartExecution(c, q) ==
  /\ QuoteFree(q) /\ ammQuotes[q].state = "quoted" /\ now < ammQuotes[q].expires
  /\ BeginCommand(c, "execute", q, ammQuotes[q].pool.market)
  /\ UNCHANGED <<now, market, ledger, ammVars>>

CheckExecution(c) ==
  /\ session[c].op = "execute" /\ session[c].book = Null
  /\ LET quote == ammQuotes[session[c].of]
         m == quote.pool.market
     IN /\ BookFree(m) /\ status[m] = "open" /\ session[c].asOf < Cutoff
        /\ pool[quote.pool].status = "open"
        /\ WithinLimits(quote.pool, Exposed(quote.pool, quote.quantity, quote.ammCollateral))
        /\ OwnerFree(quote.owner) /\ available[quote.owner] >= UserTotal(quote)
        /\ treasury >= quote.ammCollateral
        /\ session' = [session EXCEPT ![c].book = m, ![c].owner = quote.owner]
  /\ UNCHANGED <<now, market, ledger, ammVars>>

CommitExecution(c) ==
  /\ session[c].op = "execute" /\ session[c].book # Null
  /\ LET q == session[c].of
         quote == ammQuotes[q]
     IN /\ available' = [available EXCEPT ![quote.owner] = @ - UserTotal(quote)]
        /\ treasury' = treasury - quote.ammCollateral
        /\ escrow' = escrow + quote.userCollateral + quote.ammCollateral
        /\ fees' = fees + quote.fee
        /\ pool' = [pool EXCEPT ![quote.pool] = Exposed(quote.pool, quote.quantity, quote.ammCollateral)]
        /\ ammQuotes' = [ammQuotes EXCEPT ![q].state = "executed"]
  /\ EndCommand(c)
  /\ UNCHANGED <<now, market, references>>

AmmNext ==
  \/ \E p \in Pools, impact \in Impacts : ActivateAmm(p, impact)
  \/ \E p \in Pools, amount \in Fundings : FundAmm(p, amount)
  \/ \E p \in Pools, r \in References : RecordAmmReference(p, r)
  \/ \E u \in Users, p \in Pools, side \in OrderSide, quantity \in Sizes, limit \in LimitPrices :
       CreateAmmQuote(u, p, side, quantity, limit)
  \/ \E c \in Connections, q \in DOMAIN ammQuotes : StartExecution(c, q)
  \/ \E c \in Connections : CheckExecution(c)
  \/ \E c \in Connections : CommitExecution(c)
===============================================================================
