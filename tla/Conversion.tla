------------------------------- MODULE Conversion -------------------------------
(***************************************************************************)
(* Converting between the NGN and the USDT wallet of one owner, against an *)
(* inventory all owners share.                                             *)
(*                                                                         *)
(* An acceptance reads the clock when it arrives, then waits for the locks *)
(* of the owner's two wallets and of both inventories, checks the quote    *)
(* and the balances, posts its journals and commits.  Everything that      *)
(* takes money from a wallet holds the lock of that owner and asset, and   *)
(* funding holds the lock of the inventory.  Both assets stay approved.    *)
(* The market the rates come from is not under src/.                       *)
(***************************************************************************)
EXTENDS Integers, Sequences, FiniteSets, FiniteSetsExt

CONSTANTS
  Customers,    \* accounts, verified and eligible
  Opening,      \* what is in each wallet of each owner at the start
  Terms,        \* terms finance may publish
  Expiries,     \* times rates may expire
  RateLimit,    \* rates published, bounds the runs
  Quotes,       \* identifiers of quotes, bounds their number
  SourceMinor,  \* amounts converted from each asset
  Acceptances,  \* acceptances served at once
  QuoteLife,    \* life of a quote, 30 seconds in the code
  Fundings,     \* amounts added to an inventory
  SpendLimit,   \* units other handlers take, bounds the runs
  FundingLimit, \* least inventory that is not funded again, bounds the runs
  ClockLimit    \* end of time, bounds the runs

Assets == {"NGN", "USDT_BSC"}
Worth  == [NGN |-> 1, USDT_BSC |-> 3]  \* fair value of a minor unit
Value(o, wallets) == MapThenSumSet(LAMBDA a : wallets[o][a] * Worth[a], Assets)

(* Finance never publishes a rate above the fair value (external).          *)
ASSUME TermsAssumption ==
  \A t \in Terms :
    /\ {t.source, t.destination} = Assets /\ t.bps \in 0..1000
    /\ t.numerator \in Nat \ {0} /\ t.denominator \in Nat \ {0} /\ t.minimum \in Nat \ {0}
    /\ t.numerator * Worth[t.destination] <= t.denominator * Worth[t.source]
ASSUME OpeningAssumption == Opening \in [Customers -> [Assets -> Nat]] /\ IsFiniteSet(Customers)
ASSUME QuotesAssumption == IsFiniteSet(Quotes) /\ QuoteLife \in Nat \ {0} /\ Expiries \subseteq Nat
ASSUME AmountsAssumption == SourceMinor \in [Assets -> SUBSET Nat] /\ Fundings \subseteq Nat

VARIABLES
  now,       \* the clock
  rates,     \* conversion_rate_snapshots in order of creation
  quotes,    \* wallet_conversion_quotes
  accepting, \* what each acceptance is doing
  wallets,   \* ledger bucket user_available, of each owner and asset
  spent,     \* what other handlers took from each wallet
  inventory, \* ledger bucket conversion_inventory
  funded     \* what finance recognised in each inventory

treasury    == <<inventory, funded>>
convertVars == <<now, rates, quotes, accepting, wallets, spent, treasury>>

NoQuote == [state |-> "absent"]
Ended   == [at |-> "ended"]

ConvertInit ==
  /\ now = 0 /\ rates = <<>> /\ quotes = [q \in Quotes |-> NoQuote]
  /\ accepting = [x \in Acceptances |-> Ended]
  /\ wallets = Opening /\ spent = [o \in Customers |-> [a \in Assets |-> 0]]
  /\ inventory = [a \in Assets |-> 0] /\ funded = [a \in Assets |-> 0]

Tick ==
  /\ now < ClockLimit /\ now' = now + 1
  /\ UNCHANGED <<rates, quotes, accepting, wallets, spent, treasury>>

PublishConversionRate(terms, expires) ==
  /\ Len(rates) < RateLimit /\ expires > now
  /\ rates' = Append(rates, [terms |-> terms, expires |-> expires])
  /\ UNCHANGED <<now, quotes, accepting, wallets, spent, treasury>>

-----------------------------------------------------------------------------
(* Quotes                                                                  *)

Fee(amount, bps) == (amount * bps + 9999) \div 10000

(* Mutant: the converted amount is rounded to the nearest unit.             *)
ConvertedToNearest(amount, t) ==
  ((amount - Fee(amount, t.bps)) * t.numerator * 2 + t.denominator) \div (2 * t.denominator)

Converted(amount, t) == ((amount - Fee(amount, t.bps)) * t.numerator) \div t.denominator

Unexpired(source) ==
  {r \in DOMAIN rates : rates[r].terms.source = source /\ rates[r].expires > now}

CreateConversionQuote(q, o, source, amount) ==
  LET rate == rates[Max(Unexpired(source))] IN
  /\ quotes[q] = NoQuote /\ Unexpired(source) # {}
  /\ amount >= rate.terms.minimum /\ Converted(amount, rate.terms) > 0
  /\ quotes' = [quotes EXCEPT ![q] =
       [state |-> "quoted", owner |-> o, source |-> source,
        destination |-> rate.terms.destination, amount |-> amount,
        pays |-> Converted(amount, rate.terms), expires |-> Min({now + QuoteLife, rate.expires})]]
  /\ UNCHANGED <<now, rates, accepting, wallets, spent, treasury>>

-----------------------------------------------------------------------------
(* Locks, held from the check to the end of the transaction                *)

Posting == {x \in Acceptances : accepting[x].at = "posting"}
QuoteOf(x) == quotes[accepting[x].quote]

WalletFree(o) == \A x \in Posting : QuoteOf(x).owner # o

(* Mutant: the inventories are not locked.                                  *)
InventoryUnlocked == TRUE

InventoryFree == Posting = {}

-----------------------------------------------------------------------------
(* Acceptance                                                              *)

Accept(x, q) ==
  /\ accepting[x] = Ended /\ quotes[q] # NoQuote
  /\ accepting' = [accepting EXCEPT ![x] = [at |-> "waiting", quote |-> q, asOf |-> now]]
  /\ UNCHANGED <<now, rates, quotes, wallets, spent, treasury>>

(* The locks are granted and the checks pass.                               *)
CheckQuote(x) ==
  LET q == QuoteOf(x) IN
  /\ accepting[x].at = "waiting" /\ WalletFree(q.owner) /\ InventoryFree
  /\ q.state = "quoted" /\ q.expires > accepting[x].asOf
  /\ wallets[q.owner][q.source] >= q.amount /\ inventory[q.destination] >= q.pays
  /\ accepting' = [accepting EXCEPT ![x].at = "posting"]
  /\ UNCHANGED <<now, rates, quotes, wallets, spent, treasury>>

(* A check fails, a lock is not granted in time, or the connection drops.   *)
RefuseQuote(x) ==
  /\ accepting[x] # Ended /\ accepting' = [accepting EXCEPT ![x] = Ended]
  /\ UNCHANGED <<now, rates, quotes, wallets, spent, treasury>>

(* Both journals, the trade and the quote are committed.                    *)
ExecuteQuote(x) ==
  LET q == QuoteOf(x) IN
  /\ accepting[x].at = "posting"
  /\ wallets' = [wallets EXCEPT ![q.owner][q.source] = @ - q.amount,
                                ![q.owner][q.destination] = @ + q.pays]
  /\ inventory' = [inventory EXCEPT ![q.source] = @ + q.amount, ![q.destination] = @ - q.pays]
  /\ quotes' = [quotes EXCEPT ![accepting[x].quote].state = "executed"]
  /\ accepting' = [accepting EXCEPT ![x] = Ended]
  /\ UNCHANGED <<now, rates, spent, funded>>

(* fundConversionInventory                                                  *)
FundInventory(a, amount) ==
  /\ InventoryFree /\ inventory[a] < FundingLimit
  /\ inventory' = [inventory EXCEPT ![a] = @ + amount]
  /\ funded' = [funded EXCEPT ![a] = @ + amount]
  /\ UNCHANGED <<now, rates, quotes, accepting, wallets, spent>>

(* Any other handler that takes money from a wallet (an order, a bond, a    *)
(* withdrawal): it holds the lock of the owner and the asset.               *)
Reserve(o, a) ==
  /\ WalletFree(o) /\ wallets[o][a] > 0
  /\ MapThenSumSet(LAMBDA p : Value(p, spent), Customers) < SpendLimit
  /\ wallets' = [wallets EXCEPT ![o][a] = @ - 1]
  /\ spent' = [spent EXCEPT ![o][a] = @ + 1]
  /\ UNCHANGED <<now, rates, quotes, accepting, treasury>>

ConvertNext ==
  \/ Tick
  \/ \E terms \in Terms, expires \in Expiries : PublishConversionRate(terms, expires)
  \/ \E q \in Quotes, o \in Customers, source \in Assets : \E amount \in SourceMinor[source] :
       CreateConversionQuote(q, o, source, amount)
  \/ \E x \in Acceptances : \/ \E q \in Quotes : Accept(x, q)
                            \/ CheckQuote(x) \/ RefuseQuote(x) \/ ExecuteQuote(x)
  \/ \E a \in Assets : \/ \E amount \in Fundings : FundInventory(a, amount)
                       \/ \E o \in Customers : Reserve(o, a)

ConvertSpec == ConvertInit /\ [][ConvertNext]_convertVars

-----------------------------------------------------------------------------
(* Properties                                                              *)

Executed == {q \in Quotes : quotes[q] # NoQuote /\ quotes[q].state = "executed"}
PaidIn(a, S)  == MapThenSumSet(LAMBDA q : quotes[q].amount, {q \in S : quotes[q].source = a})
PaidOut(a, S) == MapThenSumSet(LAMBDA q : quotes[q].pays, {q \in S : quotes[q].destination = a})

(* Every wallet and every inventory is what the executed quotes make it,    *)
(* each counted once, and none is overdrawn: not when owners race for one   *)
(* inventory, accept a quote twice or spend what they are converting (the   *)
(* locks and the second reading in executeConversionQuote).                 *)
WalletsAddUp ==
  \A a \in Assets :
    /\ inventory[a] >= 0
    /\ inventory[a] = funded[a] + PaidIn(a, Executed) - PaidOut(a, Executed)
    /\ \A o \in Customers :
         LET Own == {q \in Executed : quotes[q].owner = o} IN
         /\ wallets[o][a] >= 0
         /\ wallets[o][a] + spent[o][a] = Opening[o][a] - PaidIn(a, Own) + PaidOut(a, Own)

(* Conversions there and back, in parts of any size, at rates no better     *)
(* than the fair one, never leave an owner richer: every rounding is for    *)
(* the inventory (createConversionQuote).                                   *)
NobodyGainsByConverting ==
  \A o \in Customers : Value(o, wallets) + Value(o, spent) <= Value(o, Opening)
=============================================================================
