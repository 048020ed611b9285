------------------------------ MODULE Withdrawals ------------------------------
(***************************************************************************)
(* The withdrawals of one collateral asset: a held reservation, an outside *)
(* payment the backend cannot undo, and the journal that takes the money   *)
(* off the books once the payment is certain.                              *)
(*                                                                         *)
(* A withdrawal of rail "swervpay" is paid by a provider call the backend  *)
(* makes between two transactions of approveNgnPayout; one of rail         *)
(* "manual_bep20" is sent by a finance operator from the company wallet;   *)
(* "synthetic" stands for any other rail, which only the demo adapter      *)
(* moves.  The transactions lock the row of the withdrawal (and the owner  *)
(* when they post), so each is one action; the provider call is not in a   *)
(* transaction, so anything may happen while it runs, and the process may  *)
(* crash.  The provider, the company wallet and the operator who looks at  *)
(* them are not under src/.  The wallets start empty: Custody adds the     *)
(* deposits.                                                               *)
(***************************************************************************)
EXTENDS Naturals, FiniteSets, FiniteSetsExt

CONSTANTS
  Owners,      \* accounts that are eligible to withdraw
  Ids,         \* identifiers withdrawals can draw, bounds their number
  Rails,       \* rails of the asset
  Amounts,     \* amounts requested, minor units
  Calls,       \* approveNgnPayout requests served at once
  Keys,        \* idempotency keys the finance operators use
  MaxCrashes   \* restarts of the server, bounds the runs

ASSUME OwnersAssumption  == IsFiniteSet(Owners)
ASSUME IdsAssumption     == IsFiniteSet(Ids)
ASSUME AmountsAssumption == Amounts \subseteq Nat \ {0}
ASSUME RailsAssumption   == Rails \subseteq {"swervpay", "manual_bep20", "synthetic"}
ASSUME CrashesAssumption == MaxCrashes \in Nat

VARIABLES
  withdrawals, \* the rows of withdrawals, NoWithdrawal before an id is drawn
  held,        \* collateral_reservations.state of each withdrawal's reservation
  available,   \* ledger bucket user_available
  pending,     \* ledger bucket user_withdrawal_pending
  escrow,      \* ledger bucket escrow_asset
  observed,    \* withdrawals with a chain_observations row
  calls,       \* what each running approveNgnPayout is doing
  commands,    \* command_results: the withdrawal and the answer of each key
  late,        \* withdrawals whose payout request nobody waits for any more
  payments,    \* payments made outside for each withdrawal
  crashes      \* restarts so far

rows    == <<withdrawals, held>>
ledger  == <<available, pending, escrow>>
server  == <<calls, commands>>
outside == <<late, payments>>
vars    == <<rows, ledger, observed, server, outside, crashes>>

State == {"reserved", "approved", "submitting", "submitted", "uncertain", "finalized", "cancelled"}
NoWithdrawal == [state |-> "absent"]
NoCall    == [at |-> "idle"]
NoCommand == [withdrawal |-> "none", response |-> "none"]

Drawn     == {w \in Ids : withdrawals[w] # NoWithdrawal}
In(S)     == {w \in Drawn : withdrawals[w].state \in S}
Owner(w)  == withdrawals[w].owner
Amount(w) == withdrawals[w].amount
Minor(S)  == MapThenSumSet(Amount, S)
Moves(w, state) == [withdrawals EXCEPT ![w].state = state]

Init ==
  /\ withdrawals = [w \in Ids |-> NoWithdrawal] /\ held = [w \in Ids |-> "none"]
  /\ available = [o \in Owners |-> 0] /\ pending = [o \in Owners |-> 0] /\ escrow = 0
  /\ observed = {}
  /\ calls = [c \in Calls |-> NoCall] /\ commands = [k \in Keys |-> NoCommand]
  /\ late = {} /\ payments = [w \in Ids |-> 0] /\ crashes = 0

(* createWithdrawal, also behind requestNgnWithdrawal and                   *)
(* createCryptoWithdrawal: reserve the amount and queue the request.        *)
RequestWithdrawal(w, o, rail, amount) ==
  /\ w \notin Drawn /\ available[o] >= amount
  /\ withdrawals' = [withdrawals EXCEPT ![w] =
       [owner |-> o, rail |-> rail, amount |-> amount, state |-> "reserved"]]
  /\ held' = [held EXCEPT ![w] = "held"]
  /\ available' = [available EXCEPT ![o] = @ - amount]
  /\ pending' = [pending EXCEPT ![o] = @ + amount]
  /\ UNCHANGED <<escrow, observed, server, outside, crashes>>

(* cancelWithdrawal: only a withdrawal that was never submitted.            *)
CancelWithdrawal(w) ==
  /\ w \in In({"reserved"}) /\ held[w] = "held"
  /\ withdrawals' = Moves(w, "cancelled")
  /\ held' = [held EXCEPT ![w] = "released"]
  /\ pending' = [pending EXCEPT ![Owner(w)] = @ - Amount(w)]
  /\ available' = [available EXCEPT ![Owner(w)] = @ + Amount(w)]
  /\ UNCHANGED <<escrow, observed, server, outside, crashes>>

(* The key is new, or it belongs to this command and has no answer yet.     *)
Usable(k, w) == commands[k] = NoCommand
                \/ (commands[k].withdrawal = w /\ commands[k].response = "none")
Answer(k, w, response) ==
  commands' = [commands EXCEPT ![k] = [withdrawal |-> w, response |-> response]]

(* Mutant: the claim also takes a withdrawal whose payout is uncertain.     *)
ClaimAgain(c, k, w) ==
  /\ calls[c] = NoCall /\ Usable(k, w)
  /\ w \in In({"reserved", "uncertain"}) /\ withdrawals[w].rail = "swervpay"
  /\ withdrawals' = Moves(w, "submitting")
  /\ calls' = [calls EXCEPT ![c] = [at |-> "paying", key |-> k, withdrawal |-> w]]
  /\ Answer(k, w, "none")
  /\ UNCHANGED <<held, ledger, observed, outside, crashes>>

(* approveNgnPayout, its first transaction: claim the withdrawal and start  *)
(* the provider call.                                                       *)
ClaimPayout(c, k, w) ==
  /\ calls[c] = NoCall /\ Usable(k, w)
  /\ w \in In({"reserved"}) /\ withdrawals[w].rail = "swervpay"
  /\ withdrawals' = Moves(w, "submitting")
  /\ calls' = [calls EXCEPT ![c] = [at |-> "paying", key |-> k, withdrawal |-> w]]
  /\ Answer(k, w, "none")
  /\ UNCHANGED <<held, ledger, observed, outside, crashes>>

(* A repeated approval, with the same key or another: it is answered with   *)
(* the state the withdrawal is in, and nothing is sent.                     *)
AnswerState(k, w) ==
  /\ Usable(k, w) /\ w \in Drawn \ In({"reserved"})
  /\ Answer(k, w, withdrawals[w].state)
  /\ UNCHANGED <<rows, ledger, observed, calls, outside, crashes>>

(* The provider pays and its answer arrives within the timeout.             *)
ProviderAccepts(c) ==
  /\ calls[c].at = "paying"
  /\ payments' = [payments EXCEPT ![calls[c].withdrawal] = @ + 1]
  /\ calls' = [calls EXCEPT ![c].at = "accepted"]
  /\ UNCHANGED <<rows, ledger, observed, commands, late, crashes>>

(* The call fails without a usable answer: an error status, or the timeout, *)
(* after which the provider may still carry the request out.                *)
CallFails(c) ==
  /\ calls[c].at = "paying"
  /\ late' \in {late, late \cup {calls[c].withdrawal}}
  /\ calls' = [calls EXCEPT ![c].at = "failed"]
  /\ UNCHANGED <<rows, ledger, observed, commands, payments, crashes>>

PaysLate(w) ==
  /\ w \in late /\ late' = late \ {w}
  /\ payments' = [payments EXCEPT ![w] = @ + 1]
  /\ UNCHANGED <<rows, ledger, observed, server, crashes>>

(* approveNgnPayout, the transaction after the call returned.               *)
RecordSubmission(c) ==
  LET w == calls[c].withdrawal IN
  /\ calls[c].at = "accepted" /\ w \in In({"submitting"})
  /\ withdrawals' = Moves(w, "submitted")
  /\ Answer(calls[c].key, w, "submitted")
  /\ calls' = [calls EXCEPT ![c] = NoCall]
  /\ UNCHANGED <<held, ledger, observed, outside, crashes>>

(* Mutant: the error is rethrown and the row stays as it is.                *)
RethrowFailure(c) ==
  /\ calls[c].at \in {"accepted", "failed"}
  /\ calls' = [calls EXCEPT ![c] = NoCall]
  /\ UNCHANGED <<rows, ledger, observed, commands, outside, crashes>>

RecordUncertain(c) ==
  LET w == calls[c].withdrawal IN
  /\ calls[c].at \in {"accepted", "failed"} /\ w \in In({"submitting"})
  /\ withdrawals' = Moves(w, "uncertain")
  /\ Answer(calls[c].key, w, "uncertain")
  /\ calls' = [calls EXCEPT ![c] = NoCall]
  /\ UNCHANGED <<held, ledger, observed, outside, crashes>>

(* The journal that takes a paid withdrawal off the books.                  *)
Settle(w) ==
  /\ pending[Owner(w)] >= Amount(w)
  /\ withdrawals' = Moves(w, "finalized")
  /\ held' = [held EXCEPT ![w] = "consumed"]
  /\ pending' = [pending EXCEPT ![Owner(w)] = @ - Amount(w)]
  /\ escrow' = escrow - Amount(w)
  /\ UNCHANGED <<available, server, outside, crashes>>

(* completeNgnPayout.  The operator saw the payment in the dashboard of the *)
(* provider; that is what payments says.                                    *)
CompleteNgnPayout(w) ==
  /\ w \in In({"submitted", "uncertain"})
  /\ withdrawals[w].rail = "swervpay" /\ payments[w] > 0
  /\ Settle(w) /\ UNCHANGED observed

(* The demo adapter, for a withdrawal of any rail.                          *)
SubmitWithdrawal(w) ==
  /\ w \in In({"reserved"}) /\ withdrawals' = Moves(w, "submitted")
  /\ UNCHANGED <<held, ledger, observed, server, outside, crashes>>

MarkWithdrawalUncertain(w) ==
  /\ w \in In({"submitted"}) /\ withdrawals' = Moves(w, "uncertain")
  /\ UNCHANGED <<held, ledger, observed, server, outside, crashes>>

(* finalizeWithdrawal; it also records the chain observation.               *)
FinalizeWithdrawal(w) ==
  /\ w \in In({"submitted", "uncertain"}) /\ observed' = observed \cup {w}
  /\ Settle(w)

ApproveCryptoWithdrawal(w) ==
  /\ w \in In({"reserved"}) /\ withdrawals[w].rail = "manual_bep20"
  /\ withdrawals' = Moves(w, "approved")
  /\ UNCHANGED <<held, ledger, observed, server, outside, crashes>>

(* A finance operator sends the coins of an approved withdrawal, once.      *)
SendCoins(w) ==
  /\ w \in In({"approved"}) /\ payments[w] = 0
  /\ payments' = [payments EXCEPT ![w] = 1]
  /\ UNCHANGED <<rows, ledger, observed, server, late, crashes>>

RecordCryptoSubmission(w) ==
  /\ w \in In({"approved"}) /\ payments[w] > 0
  /\ withdrawals' = Moves(w, "submitted")
  /\ UNCHANGED <<held, ledger, observed, server, outside, crashes>>

(* The process restarts: its calls are gone, what they sent is not.         *)
Crash ==
  /\ crashes < MaxCrashes /\ crashes' = crashes + 1
  /\ late' = late \cup {calls[c].withdrawal : c \in {d \in Calls : calls[d].at = "paying"}}
  /\ calls' = [c \in Calls |-> NoCall]
  /\ UNCHANGED <<rows, ledger, observed, commands, payments>>

Call(c) == ProviderAccepts(c) \/ CallFails(c) \/ RecordSubmission(c) \/ RecordUncertain(c)

Next ==
  \/ \E w \in Ids : \/ \E o \in Owners, rail \in Rails, amount \in Amounts :
                         RequestWithdrawal(w, o, rail, amount)
                    \/ CancelWithdrawal(w) \/ PaysLate(w) \/ CompleteNgnPayout(w)
                    \/ SubmitWithdrawal(w) \/ MarkWithdrawalUncertain(w) \/ FinalizeWithdrawal(w)
                    \/ ApproveCryptoWithdrawal(w) \/ SendCoins(w) \/ RecordCryptoSubmission(w)
                    \/ \E k \in Keys : AnswerState(k, w) \/ \E c \in Calls : ClaimPayout(c, k, w)
  \/ \E c \in Calls : Call(c)
  \/ Crash

Spec == Init /\ [][Next]_vars

(* A provider call ends (its signal times out after five seconds) and the   *)
(* code after it runs.                                                      *)
Fairness == \A c \in Calls : WF_vars(Call(c))
FairSpec == Spec /\ Fairness

Withdrawal == [owner : Owners, rail : Rails, amount : Amounts, state : State]

(* Every variable keeps its type: no wallet goes below zero.                *)
TypeOK ==
  /\ withdrawals \in [Ids -> Withdrawal \cup {NoWithdrawal}]
  /\ held \in [Ids -> {"none", "held", "released", "consumed"}]
  /\ available \in [Owners -> Nat] /\ pending \in [Owners -> Nat] /\ escrow \in Nat
  /\ calls \in [Calls -> {NoCall} \cup
       [at : {"paying", "accepted", "failed"}, key : Keys, withdrawal : Ids]]
  /\ commands \in [Keys -> {NoCommand} \cup
       [withdrawal : Ids, response : State \cup {"none"}]]
  /\ observed \subseteq Ids /\ late \subseteq Ids /\ payments \in [Ids -> Nat] /\ crashes \in 0..MaxCrashes

(* A claimed payout does not stay in submission: the call ends, the row     *)
(* becomes submitted or uncertain, and an operator can act on it, as long   *)
(* as the process that claimed it stays up.                                 *)
PayoutsAreAnswered ==
  \A w \in Ids : withdrawals[w].state = "submitting" ~>
     \/ withdrawals[w].state \in {"submitted", "uncertain", "finalized"}
     \/ crashes > 0

=============================================================================
