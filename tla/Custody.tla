-------------------------------- MODULE Custody --------------------------------
(***************************************************************************)
(* The deposits of one collateral asset that a funding partner and the     *)
(* chain must both confirm, together with its withdrawals, and the         *)
(* reconciliation of the ledger with what the chain and the partner said.  *)
(*                                                                         *)
(* Each handler is one transaction that locks the row of the intent.  The  *)
(* partner repeats its events, and may send other contents under an        *)
(* identifier it has used; a refused event leaves no row.  The asset, the  *)
(* finality policy and the smart accounts stay approved.                   *)
(***************************************************************************)
EXTENDS Withdrawals

CONSTANTS
  Intents,  \* deposit intents, bounds their number
  Targets,  \* amounts deposited
  EventIds  \* identifiers the partner gives its events

ASSUME IntentsAssumption == IsFiniteSet(Intents)
ASSUME TargetsAssumption == Targets \subseteq Nat \ {0}

VARIABLES
  intents,  \* deposit_intents, with the amount of its chain observation
  lapsed,   \* intents past expires_at
  recorded  \* partner_events: identifier, intent and amount

funding     == <<intents, lapsed, recorded>>
custodyVars == <<vars, funding>>

IntentState == {"awaiting_partner", "partner_confirmed", "reconciled_available"}
NoIntent    == [state |-> "absent"]
Event       == [id : EventIds, intent : Intents, amount : Targets]

Opened       == {i \in Intents : intents[i] # NoIntent}
InState(S)   == {i \in Opened : intents[i].state \in S}

CustodyInit ==
  /\ Init
  /\ intents = [i \in Intents |-> NoIntent] /\ lapsed = {} /\ recorded = {}

CreateDepositIntent(i, o, target) ==
  /\ i \notin Opened
  /\ intents' = [intents EXCEPT ![i] = [state |-> "awaiting_partner", owner |-> o,
                   target |-> target, partner |-> 0, observation |-> 0]]
  /\ UNCHANGED <<vars, lapsed, recorded>>

(* Thirty minutes pass; after the partner confirmed nobody looks any more.  *)
Lapse(i) ==
  /\ i \in InState({"awaiting_partner"}) \ lapsed /\ lapsed' = lapsed \cup {i}
  /\ UNCHANGED <<vars, intents, recorded>>

Confirms(event) ==
  /\ intents' = [intents EXCEPT ![event.intent].state = "partner_confirmed",
                                ![event.intent].partner = event.amount]
  /\ recorded' = recorded \cup {event}
  /\ UNCHANGED <<vars, lapsed>>

New(event) == \A e \in recorded : e.id # event.id

(* Mutant: the amount of the event is not compared with the intent.         *)
ConfirmAnyAmount(event) ==
  /\ New(event) /\ event.intent \in InState({"awaiting_partner"}) \ lapsed
  /\ Confirms(event)

(* applyPartnerDeposit.  An event seen before changes nothing, one that     *)
(* reuses its identifier is refused.                                        *)
ApplyPartnerDeposit(event) ==
  /\ New(event) /\ event.intent \in InState({"awaiting_partner"}) \ lapsed
  /\ event.amount = intents[event.intent].target
  /\ Confirms(event)

(* finalizeDeposit, for the amount the settlement operator observed on the  *)
(* chain.                                                                   *)
FinalizeDeposit(i, amount) ==
  /\ i \in InState({"partner_confirmed"}) /\ amount = intents[i].partner
  /\ intents' = [intents EXCEPT ![i].state = "reconciled_available", ![i].observation = amount]
  /\ available' = [available EXCEPT ![intents[i].owner] = @ + amount]
  /\ escrow' = escrow + amount
  /\ UNCHANGED <<rows, pending, observed, server, outside, crashes, lapsed, recorded>>

CustodyNext ==
  \/ Next /\ UNCHANGED funding
  \/ \E i \in Intents :
       \/ \E o \in Owners, target \in Targets : CreateDepositIntent(i, o, target)
       \/ Lapse(i) \/ \E amount \in Targets : FinalizeDeposit(i, amount)
  \/ \E event \in Event : ApplyPartnerDeposit(event)

CustodySpec == CustodyInit /\ [][CustodyNext]_custodyVars

(* A provider call ends (its signal times out after five seconds) and the   *)
(* code after it runs.                                                      *)
CustodyFairSpec ==
  CustodySpec /\ \A c \in Calls : WF_custodyVars(Call(c) /\ UNCHANGED funding)

-----------------------------------------------------------------------------
(* Reconciliation: a run at this moment opens an exception for each break.  *)

Total(f(_), S) == MapThenSumSet(f, S)
ChainDeposits    == Total(LAMBDA i : intents[i].observation, Opened)
Posted           == Total(LAMBDA i : intents[i].target, InState({"reconciled_available"}))
PartnerTotal     == Total(LAMBDA i : intents[i].partner, Opened)
ChainWithdrawals == Minor(observed)
Claims           == Total(LAMBDA o : available[o] + pending[o], Owners)

Breaks ==
  {b \in {"LEDGER_CHAIN_MISMATCH", "CLAIMS_COLLATERAL_MISMATCH", "DEPOSIT_POSTING_MISMATCH",
          "PARTNER_SHORTFALL", "PARTNER_DEPOSIT_PENDING_CHAIN"} :
     \/ b = "LEDGER_CHAIN_MISMATCH" /\ escrow # ChainDeposits - ChainWithdrawals
     \/ b = "CLAIMS_COLLATERAL_MISMATCH" /\ Claims # escrow
     \/ b = "DEPOSIT_POSTING_MISMATCH" /\ Posted # ChainDeposits
     \/ b = "PARTNER_SHORTFALL" /\ PartnerTotal < Posted
     \/ b = "PARTNER_DEPOSIT_PENDING_CHAIN" /\ InState({"partner_confirmed"}) # {}}

-----------------------------------------------------------------------------
(* Properties                                                              *)

(* Every variable keeps its type.                                           *)
CustodyTypeOK ==
  /\ TypeOK
  /\ intents \in [Intents -> {NoIntent} \cup [state : IntentState, owner : Owners,
       target : Targets, partner : Targets \cup {0}, observation : Targets \cup {0}]]
  /\ lapsed \subseteq Opened /\ recorded \subseteq Event

(* The reconciler of the code tells the truth at any moment: with deposits  *)
(* confirmed twice, late, or under a reused identifier, and withdrawals     *)
(* cancelled, retried and cut by a restart, it opens no exception for what  *)
(* the code posted right, and it sees every payout that was taken off the   *)
(* books by hand, without a chain observation (reconcile).                  *)
ReconcilerIsRight ==
  LET ByHand == In({"finalized"}) \ observed IN
  /\ Breaks \subseteq {"LEDGER_CHAIN_MISMATCH", "PARTNER_DEPOSIT_PENDING_CHAIN"}
  /\ "LEDGER_CHAIN_MISMATCH" \in Breaks <=> ByHand # {}

(* Withdrawals keeps the promise of module Payouts: however approvals are   *)
(* repeated, raced, timed out, confirmed twice or cut by a restart, one     *)
(* payment at most leaves for a withdrawal, and none leaves for one whose   *)
(* amount was given back (the claim of approveNgnPayout before it calls the *)
(* provider; cancelWithdrawal refuses what was ever submitted).             *)
Promised(w) ==
  IF w \notin Drawn THEN [status |-> "none"]
  ELSE [owner |-> Owner(w), amount |-> Amount(w), status |->
          CASE withdrawals[w].state = "cancelled" -> "returned"
            [] withdrawals[w].state = "finalized" -> "closed"
            [] OTHER -> "asked"]

Promise == INSTANCE Payouts WITH wallet <- available, books <- escrow,
  requests <- [w \in Ids |-> Promised(w)], Amounts <- Amounts \cup Targets

ImplementsPayouts == Promise!Spec
=============================================================================
