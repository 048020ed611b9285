------------------------------ MODULE Resolution ------------------------------
(***************************************************************************)
(* The governed resolution of one published market: its asset books are    *)
(* closed after the trading cutoff, a bonded proposal may be challenged, a *)
(* panel votes, a separate finalizer commits the winning candidate after   *)
(* the timelock, and the matched fills of every asset are redeemed from    *)
(* escrow in batches.                                                      *)
(*                                                                         *)
(* Every action is one transaction that holds the rows of the market's     *)
(* books and of its case (FOR UPDATE) to its end, so the transactions are  *)
(* serial; a failed requireCondition rolls back.  Trading is reduced to    *)
(* what resolution sees of it (Clob.tla has the rest): an order that rests *)
(* in a book and a fill with its collateral in escrow.  Approvals of       *)
(* sources, assets and policies are taken to stand: nothing in the modelled *)
(* code withdraws them.                                                    *)
(***************************************************************************)
EXTENDS Integers, FiniteSets, FiniteSetsExt

CONSTANTS
  Accounts, Creator,                 \* creator_id of the market is an account
  Proposers, Reviewers, Finalizers,  \* accounts with each resolution capability
  Assets,                            \* collateral assets with a book of their own
  BondAsset,                         \* asset of the first book, in which bonds are paid
  MaxOrders,                         \* orders that rest at once, bounds the runs
  FillIds, FillOf,                   \* fills trading may make, and what each records
  MarketTypes, Outcomes,             \* market types to consider, outcomes of the market
  Lower, Upper,                      \* scalar_range
  Results,                           \* results the operators enter
  Cutoff, EventAt, Deadline,         \* trading_cutoff, expected_event_at, resolution_deadline
  ChallengeWindow, Timelock,         \* the published windows, in ticks
  PanelSize, Threshold,              \* panel_size and adjudication_threshold
  Bond,                              \* bond_minor of the policy binding
  Funds,                             \* available bond-asset balance of each account
  CloseBatch, RedeemBatch,           \* the batches of 100, made small
  Horizon                            \* last tick of the clock, bounds the runs

Null == "null"

Fill == [asset : Assets, outcome : Outcomes, buyer : Accounts, seller : Accounts,
         total : Nat \ {0}, buyerCollateral : Nat, sellerCollateral : Nat]

ASSUME AccountsAssumption ==
  /\ IsFiniteSet(Accounts) /\ Creator \in Accounts
  /\ Proposers \subseteq Accounts /\ Reviewers \subseteq Accounts /\ Finalizers \subseteq Accounts
  /\ Null \notin Accounts
ASSUME AssetsAssumption == BondAsset \in Assets
(* What the order book guarantees of a fill (payoutForFill refuses others). *)
ASSUME FillsAssumption ==
  /\ IsFiniteSet(FillIds) /\ FillOf \in [FillIds -> Fill]
  /\ \A f \in FillIds : FillOf[f].buyerCollateral + FillOf[f].sellerCollateral = FillOf[f].total
(* What validateTerms checks before a market is published.                  *)
ASSUME TermsAssumption ==
  /\ {Cutoff, EventAt, Deadline, ChallengeWindow, Timelock, PanelSize, Threshold} \subseteq Nat \ {0}
  /\ Cutoff <= EventAt /\ EventAt < Deadline
  /\ Deadline - EventAt >= ChallengeWindow + Timelock
  /\ Threshold <= PanelSize /\ 2 * Threshold > PanelSize
  /\ MarketTypes \subseteq {"binary", "categorical", "scalar"}
  /\ "scalar" \in MarketTypes => {Lower, Upper} \subseteq Int /\ Lower < Upper
ASSUME AmountsAssumption ==
  /\ Bond \in Nat \ {0} /\ Funds \in [Accounts -> Nat]
  /\ {CloseBatch, RedeemBatch} \subseteq Nat \ {0} /\ MaxOrders \in Nat
(* The observed value of a scalar result is an integer (validateResult).    *)
ASSUME ResultsAssumption == \A r \in Results : r.kind = "scalar" => r.value \in Int

VARIABLES
  marketType, \* market_type of the published terms
  now,        \* the resolution clock
  status,     \* clob_markets.status of each asset's book
  orders,     \* open orders resting in each book
  matched,    \* clob_fills made so far
  evidence,   \* accounts that archived an evidence record for the market
  resolution, \* the row of resolution_cases, NoCase before it
  ballots,    \* resolution_ballots: the decision of each reviewer that voted
  redeemed,   \* resolution_redemptions: what each redeemed fill paid
  available,  \* ledger bucket user_available, by account and asset
  bonded,     \* ledger bucket user_reserved, the bonds of each account
  escrow      \* ledger bucket market_escrow, by asset

trading == <<status, orders, matched>>
panel   == <<evidence, resolution, ballots>>
ledger  == <<available, bonded, escrow>>
vars    == <<marketType, now, trading, panel, redeemed, ledger>>

NoCase == [state |-> "none", proposer |-> Null, proposal |-> Null, challengeDeadline |-> 0,
           timelockUntil |-> 0, challenger |-> Null, challenge |-> Null,
           finalizer |-> Null, final |-> Null]

(* validateResult: a scalar market takes an observed value, the others one  *)
(* of their outcomes; every market may be invalid or cancelled.             *)
ValidResult(r) ==
  \/ r.kind = "outcome" /\ marketType # "scalar" /\ r.outcome \in Outcomes
  \/ r.kind = "scalar" /\ marketType = "scalar"
  \/ r.kind \in {"invalid", "cancelled"}

(* scalarVector: the observed value, held within the range, splits a unit   *)
(* between the short and the long outcome.                                  *)
Bounded(v) == IF v < Lower THEN Lower ELSE IF v > Upper THEN Upper ELSE v

Weight(v, outcome) == IF outcome = "long" THEN Bounded(v) - Lower ELSE Upper - Bounded(v)

BuyerPayout(r, f) ==
  CASE r.kind \in {"invalid", "cancelled"} -> f.buyerCollateral
    [] r.kind = "outcome" -> IF r.outcome = f.outcome THEN f.total ELSE 0
    [] r.kind = "scalar"  -> (f.total * Weight(r.value, f.outcome)) \div (Upper - Lower)

(* Mutant: both sides of a scalar fill are rounded down.                    *)
PayoutBothRounded(r, f) ==
  [buyer |-> BuyerPayout(r, f),
   seller |-> IF r.kind = "scalar"
                THEN (f.total * (Upper - Lower - Weight(r.value, f.outcome))) \div (Upper - Lower)
                ELSE f.total - BuyerPayout(r, f)]

Payout(r, f) == [buyer |-> BuyerPayout(r, f), seller |-> f.total - BuyerPayout(r, f)]

Init ==
  /\ marketType \in MarketTypes /\ now = 0
  /\ status = [a \in Assets |-> "open"] /\ orders = [a \in Assets |-> 0] /\ matched = {}
  /\ evidence = {} /\ resolution = NoCase /\ ballots = <<>>
  /\ redeemed = <<>>
  /\ available = [u \in Accounts |-> [a \in Assets |-> IF a = BondAsset THEN Funds[u] ELSE 0]]
  /\ bonded = [u \in Accounts |-> 0] /\ escrow = [a \in Assets |-> 0]

Tick ==
  /\ now < Horizon /\ now' = now + 1
  /\ UNCHANGED <<marketType, trading, panel, redeemed, ledger>>

-----------------------------------------------------------------------------
(* Trading, as far as resolution depends on it.                             *)

SubmitOrder(a) ==
  /\ status[a] = "open" /\ now < Cutoff /\ orders[a] < MaxOrders
  /\ orders' = [orders EXCEPT ![a] = @ + 1]
  /\ UNCHANGED <<marketType, now, status, matched, panel, redeemed, ledger>>

MatchOrder(f) ==
  /\ LET a == FillOf[f].asset
     IN /\ status[a] = "open" /\ now < Cutoff /\ f \notin matched /\ orders[a] > 0
        /\ orders' = [orders EXCEPT ![a] = @ - 1]
        /\ escrow' = [escrow EXCEPT ![a] = @ + FillOf[f].total]
  /\ matched' = matched \cup {f}
  /\ UNCHANGED <<marketType, now, status, panel, redeemed, available, bonded>>

(* haltClob: an approver stops one book before the cutoff.                  *)
HaltBook(a) ==
  /\ status[a] = "open"
  /\ status' = [status EXCEPT ![a] = "halted"]
  /\ UNCHANGED <<marketType, now, orders, matched, panel, redeemed, ledger>>

(* closeResolutionBook: every book is halted, and the first CloseBatch open *)
(* orders of the market are cancelled.  The books come in the order of      *)
(* their random identifiers, so a batch may take them from any book.        *)
OpenOrders == MapThenSumSet(LAMBDA a : orders[a], Assets)
CloseBook ==
  /\ now >= Cutoff
  /\ status' = [a \in Assets |-> "halted"]
  /\ \E left \in [Assets -> 0..MaxOrders] :
       /\ \A a \in Assets : left[a] <= orders[a]
       /\ MapThenSumSet(LAMBDA a : left[a], Assets)
            = (IF OpenOrders > CloseBatch THEN OpenOrders - CloseBatch ELSE 0)
       /\ orders' = left
  /\ UNCHANGED <<marketType, now, matched, panel, redeemed, ledger>>

-----------------------------------------------------------------------------
ArchiveEvidence(u) ==
  /\ u \in Proposers \ evidence
  /\ evidence' = evidence \cup {u}
  /\ UNCHANGED <<marketType, now, trading, resolution, ballots, redeemed, ledger>>

ReserveBond(u) ==
  /\ available[u][BondAsset] >= Bond
  /\ available' = [available EXCEPT ![u][BondAsset] = @ - Bond]
  /\ bonded' = [bonded EXCEPT ![u] = @ + Bond]

(* Only the first book of the market is required to be halted; the open     *)
(* orders of all of them are counted.                                       *)
ProposeResolution(u, r) ==
  /\ u \in Proposers \cap evidence /\ u # Creator /\ ValidResult(r)
  /\ status[BondAsset] = "halted" /\ OpenOrders = 0
  /\ now >= EventAt /\ now + ChallengeWindow + Timelock <= Deadline
  /\ resolution = NoCase
  /\ ReserveBond(u)
  /\ resolution' = [NoCase EXCEPT !.state = "proposed", !.proposer = u, !.proposal = r,
       !.challengeDeadline = now + ChallengeWindow,
       !.timelockUntil = now + ChallengeWindow + Timelock]
  /\ UNCHANGED <<marketType, now, trading, evidence, ballots, redeemed, escrow>>

ChallengeResolution(u, r) ==
  /\ u \in Proposers \cap evidence /\ u \notin {resolution.proposer, Creator} /\ ValidResult(r)
  /\ status[BondAsset] = "halted" /\ resolution.state = "proposed"
  /\ now < resolution.challengeDeadline
  /\ ReserveBond(u)
  /\ resolution' = [resolution EXCEPT !.state = "challenged", !.challenger = u, !.challenge = r]
  /\ UNCHANGED <<marketType, now, trading, evidence, ballots, redeemed, escrow>>

Parties == {Creator, resolution.proposer, resolution.challenger}
Voters  == DOMAIN ballots
Votes(d) == Cardinality({u \in Voters : ballots[u] = d})

(* Mutant: the panel votes before the challenge window closes.              *)
BallotBeforeDeadline(u, d) ==
  /\ u \in Reviewers /\ u \notin Parties
  /\ resolution.state \in {"proposed", "challenged"}
  /\ d \in {"proposal", "recuse"} \/ (d = "challenge" /\ resolution.state = "challenged")
  /\ Cardinality(Voters) < PanelSize /\ u \notin Voters
  /\ ballots' = [v \in Voters \cup {u} |-> IF v = u THEN d ELSE ballots[v]]
  /\ UNCHANGED <<marketType, now, trading, evidence, resolution, redeemed, ledger>>

BallotResolution(u, d) ==
  /\ u \in Reviewers /\ u \notin Parties
  /\ resolution.state \in {"proposed", "challenged"}
  /\ d \in {"proposal", "recuse"} \/ (d = "challenge" /\ resolution.state = "challenged")
  /\ resolution.state = "challenged" \/ now >= resolution.challengeDeadline
  /\ Cardinality(Voters) < PanelSize /\ u \notin Voters
  /\ ballots' = [v \in Voters \cup {u} |-> IF v = u THEN d ELSE ballots[v]]
  /\ UNCHANGED <<marketType, now, trading, evidence, resolution, redeemed, ledger>>

(* Mutant: only the bond of the proposal is returned.                       *)
FinalizeReturnsOneBond(u) ==
  /\ u \in Finalizers /\ u \notin Parties /\ u \notin Voters
  /\ status[BondAsset] = "halted" /\ resolution.state \in {"proposed", "challenged"}
  /\ resolution.timelockUntil <= now /\ now <= Deadline
  /\ Cardinality(Voters) = PanelSize
  /\ (Votes("proposal") >= Threshold) # (Votes("challenge") >= Threshold)
  /\ resolution' = [resolution EXCEPT !.state = "finalized", !.finalizer = u,
       !.final = IF Votes("proposal") >= Threshold THEN resolution.proposal ELSE resolution.challenge]
  /\ available' = [v \in Accounts |->
       [available[v] EXCEPT ![BondAsset] = @ + IF v = resolution.proposer THEN bonded[v] ELSE 0]]
  /\ bonded' = [bonded EXCEPT ![resolution.proposer] = 0]
  /\ UNCHANGED <<marketType, now, trading, evidence, ballots, redeemed, escrow>>

(* The winner's result becomes final and both bonds are returned.           *)
FinalizeResolution(u) ==
  /\ u \in Finalizers /\ u \notin Parties /\ u \notin Voters
  /\ status[BondAsset] = "halted" /\ resolution.state \in {"proposed", "challenged"}
  /\ resolution.timelockUntil <= now /\ now <= Deadline
  /\ Cardinality(Voters) = PanelSize
  /\ (Votes("proposal") >= Threshold) # (Votes("challenge") >= Threshold)
  /\ resolution' = [resolution EXCEPT !.state = "finalized", !.finalizer = u,
       !.final = IF Votes("proposal") >= Threshold THEN resolution.proposal ELSE resolution.challenge]
  /\ available' = [v \in Accounts |->
       [available[v] EXCEPT ![BondAsset] = @ + bonded[v]]]
  /\ bonded' = [v \in Accounts |-> 0]
  /\ UNCHANGED <<marketType, now, trading, evidence, ballots, redeemed, escrow>>

-----------------------------------------------------------------------------
Unredeemed == matched \ DOMAIN redeemed
Least(a, b) == IF a <= b THEN a ELSE b

(* What the fills of S pay account u in asset a.                            *)
Credit(S, u, a) ==
  LET Side(f) == LET p == Payout(resolution.final, FillOf[f])
                 IN (IF FillOf[f].buyer = u THEN p.buyer ELSE 0)
                    + (IF FillOf[f].seller = u THEN p.seller ELSE 0)
  IN MapThenSumSet(Side, {f \in S : FillOf[f].asset = a})

(* What the redeemed fills paid account u in asset a.                       *)
PaidTo(u, a) ==
  MapThenSumSet(LAMBDA f : (IF FillOf[f].buyer = u THEN redeemed[f].buyer ELSE 0)
                           + (IF FillOf[f].seller = u THEN redeemed[f].seller ELSE 0),
                {f \in DOMAIN redeemed : FillOf[f].asset = a})

Totals(S, a) == MapThenSumSet(LAMBDA f : FillOf[f].total, {f \in S : FillOf[f].asset = a})

(* Mutant: a market with one redeemed batch counts as redeemed.             *)
RedeemFirstBatch ==
  /\ resolution.state = "finalized" /\ Unredeemed # {} /\ DOMAIN redeemed = {}
  /\ \E S \in kSubset(Least(RedeemBatch, Cardinality(Unredeemed)), Unredeemed) :
       /\ \A a \in Assets : Totals(S, a) <= escrow[a]
       /\ redeemed' = [f \in DOMAIN redeemed \cup S |->
            IF f \in S THEN Payout(resolution.final, FillOf[f]) ELSE redeemed[f]]
       /\ escrow' = [a \in Assets |-> escrow[a] - Totals(S, a)]
       /\ available' = [u \in Accounts |-> [a \in Assets |-> available[u][a] + Credit(S, u, a)]]
  /\ UNCHANGED <<marketType, now, trading, panel, bonded>>

(* One batch: some unredeemed fills (the oldest, an order the properties do *)
(* not see), each paid once from the escrow of its asset.                   *)
RedeemFills ==
  /\ resolution.state = "finalized" /\ Unredeemed # {}
  /\ \E S \in kSubset(Least(RedeemBatch, Cardinality(Unredeemed)), Unredeemed) :
       /\ \A a \in Assets : Totals(S, a) <= escrow[a]
       /\ redeemed' = [f \in DOMAIN redeemed \cup S |->
            IF f \in S THEN Payout(resolution.final, FillOf[f]) ELSE redeemed[f]]
       /\ escrow' = [a \in Assets |-> escrow[a] - Totals(S, a)]
       /\ available' = [u \in Accounts |-> [a \in Assets |-> available[u][a] + Credit(S, u, a)]]
  /\ UNCHANGED <<marketType, now, trading, panel, bonded>>

Next ==
  \/ Tick
  \/ \E a \in Assets : SubmitOrder(a)
  \/ \E f \in FillIds : MatchOrder(f)
  \/ \E a \in Assets : HaltBook(a)
  \/ CloseBook
  \/ \E u \in Accounts : ArchiveEvidence(u)
  \/ \E u \in Accounts, r \in Results : ProposeResolution(u, r)
  \/ \E u \in Accounts, r \in Results : ChallengeResolution(u, r)
  \/ \E u \in Accounts, d \in {"proposal", "challenge", "recuse"} : BallotResolution(u, d)
  \/ \E u \in Accounts : FinalizeResolution(u)
  \/ RedeemFills

Spec == Init /\ [][Next]_vars

(* The finance operator repeats the redemption command while fills remain.  *)
FairSpec == Spec /\ WF_vars(RedeemFills)

-----------------------------------------------------------------------------
TypeOK ==
  /\ marketType \in MarketTypes /\ now \in Nat /\ status \in [Assets -> {"open", "halted"}]
  /\ orders \in [Assets -> Nat] /\ matched \subseteq FillIds
  /\ evidence \subseteq Proposers
  /\ resolution.state \in {"none", "proposed", "challenged", "finalized"}
  /\ {resolution.proposer, resolution.challenger, resolution.finalizer} \subseteq Accounts \cup {Null}
  /\ DOMAIN ballots \subseteq Reviewers
  /\ DOMAIN redeemed \subseteq matched
  /\ available \in [Accounts -> [Assets -> Nat]] /\ bonded \in [Accounts -> Nat]
  /\ escrow \in [Assets -> Nat]

(* Nobody acts twice in one case: the creator, the proposer, the challenger,*)
(* the adjudicators and the finalizer are different accounts, in whatever   *)
(* order ballots and challenges come.                                       *)
SeparationOfDuties ==
  resolution # NoCase =>
    LET others == {resolution.challenger, resolution.finalizer} \ {Null}
    IN /\ resolution.proposer # Creator /\ resolution.proposer \notin others
       /\ Creator \notin others
       /\ resolution.challenger # resolution.finalizer \/ others = {}
       /\ Voters \cap (others \cup {Creator, resolution.proposer}) = {}

(* A bond is held exactly while its case is undecided, from the proposer    *)
(* and the challenger alone.                                                *)
BondsFollowCase ==
  \A u \in Accounts : bonded[u] =
    IF resolution.state \in {"proposed", "challenged"} /\ u \in {resolution.proposer, resolution.challenger}
      THEN Bond ELSE 0

(* The escrow of each asset holds exactly the collateral of the fills not   *)
(* redeemed, and each redeemed fill paid all of it, and nothing below zero, *)
(* to its own two sides: what an account holds is what it began with and    *)
(* what its fills paid (payoutForFill, redeemBatch).                        *)
EscrowBacksClaims ==
  /\ \A a \in Assets : escrow[a] = Totals(Unredeemed, a)
  /\ \A f \in DOMAIN redeemed : {redeemed[f].buyer, redeemed[f].seller} \subseteq 0..FillOf[f].total
                               /\ redeemed[f].buyer + redeemed[f].seller = FillOf[f].total
  /\ \A u \in Accounts, a \in Assets :
       available[u][a] + (IF a = BondAsset THEN bonded[u] ELSE 0)
         = (IF a = BondAsset THEN Funds[u] ELSE 0) + PaidTo(u, a)

(* Once the result is final every fill of every asset is redeemed.          *)
EveryFillRedeemed == resolution.state = "finalized" ~> Unredeemed = {}
=============================================================================
