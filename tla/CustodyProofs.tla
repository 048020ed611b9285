--------------------------- MODULE CustodyProofs ---------------------------
(***************************************************************************)
(* Proofs about Custody: withdrawals keep the promise of module Payouts,   *)
(* and what the reconciler reports is what happened.                       *)
(*                                                                         *)
(* The invariant has three parts.  Ledger says which rows each bucket is   *)
(* the sum of, and that what users can claim is what is in custody.        *)
(* Deposited says how far an intent has come.  Paid says where a payment   *)
(* may still come from: a provider call that is out, or one whose answer   *)
(* nobody waits for, is the only one of its withdrawal, and nothing has    *)
(* been paid for it yet.                                                   *)
(***************************************************************************)
EXTENDS Custody, CommonTheorems

OpenStates == State \ {"finalized", "cancelled"}

\* What each withdrawal still holds of the wallet of o, and what each has taken out.
Owed(o) == [w \in Ids |-> IF w \in In(OpenStates) /\ Owner(w) = o THEN Amount(w) ELSE 0]
Gone    == [w \in Ids |-> IF w \in In({"finalized"}) THEN Amount(w) ELSE 0]
\* What each deposit has brought in, and what each owner can claim.
Came    == [i \in Intents |-> IF i \in InState({"reconciled_available"}) THEN intents[i].target ELSE 0]
Claim   == [o \in Owners |-> available[o] + pending[o]]

Ledger ==
  /\ \A o \in Owners : pending[o] = SumFunctionOnSet(Owed(o), Ids)
  /\ escrow = SumFunctionOnSet(Came, Intents) - SumFunctionOnSet(Gone, Ids)
  /\ SumFunctionOnSet(Claim, Owners) = escrow

Deposited ==
  \A i \in Opened :
    /\ intents[i].state = "awaiting_partner" => intents[i].partner = 0
    /\ intents[i].state # "awaiting_partner" => intents[i].partner = intents[i].target
    /\ intents[i].observation = IF intents[i].state = "reconciled_available"
                                THEN intents[i].target ELSE 0

Paid ==
  /\ observed \subseteq In({"finalized"})
  /\ \A w \in Ids :
       /\ payments[w] <= 1
       /\ w \notin Drawn \/ w \in In({"reserved", "cancelled"}) => payments[w] = 0
       /\ w \in late => payments[w] = 0 /\ w \in In({"submitting", "uncertain", "finalized"})
  /\ \A c \in Calls : calls[c] # NoCall =>
       /\ calls[c].withdrawal \in In({"submitting"})
       /\ calls[c].at = "paying" => payments[calls[c].withdrawal] = 0
       /\ calls[c].at \in {"paying", "accepted"} => calls[c].withdrawal \notin late
       /\ \A d \in Calls : calls[d] # NoCall /\ calls[d].withdrawal = calls[c].withdrawal => d = c

CustodyInv == CustodyTypeOK /\ Ledger /\ Deposited /\ Paid

(***************************************************************************)
(* Rows.                                                                   *)
(***************************************************************************)
\* A row that exists is a record of Withdrawal, and an absent one is not.
LEMMA DrawnRow ==
  ASSUME TypeOK, NEW w \in Ids
  PROVE  /\ w \in Drawn <=> withdrawals[w] \in Withdrawal
         /\ w \notin Drawn <=> withdrawals[w] = NoWithdrawal
         /\ w \in Drawn => /\ Owner(w) \in Owners /\ Amount(w) \in Nat \ {0} /\ Amount(w) \in Amounts
                           /\ withdrawals[w].state \in State /\ withdrawals[w].rail \in Rails
<1>1. NoWithdrawal \notin Withdrawal
  <2>1. SUFFICES ASSUME NoWithdrawal \in Withdrawal PROVE FALSE
    OBVIOUS
  <2>2. NoWithdrawal.state \in State
    BY <2>1 DEF Withdrawal
  <2>3. QED  BY <2>2 DEF NoWithdrawal, State
<1>2. withdrawals[w] \in Withdrawal \cup {NoWithdrawal}
  BY DEF TypeOK
<1>3. withdrawals[w] \in Withdrawal =>
        /\ Owner(w) \in Owners /\ Amount(w) \in Amounts
        /\ withdrawals[w].state \in State /\ withdrawals[w].rail \in Rails
  BY DEF Withdrawal, Owner, Amount
<1>4. QED  BY <1>1, <1>2, <1>3, AmountsAssumption DEF Drawn

\* A row that moves keeps its owner and its amount, and no other row changes.
LEMMA MovedRow ==
  ASSUME TypeOK, NEW w \in Drawn, NEW state \in State, withdrawals' = Moves(w, state)
  PROVE  /\ withdrawals' \in [Ids -> Withdrawal \cup {NoWithdrawal}]
         /\ Drawn' = Drawn
         /\ \A v \in Ids : /\ Owner(v)' = Owner(v) /\ Amount(v)' = Amount(v)
                           /\ withdrawals'[v].rail = withdrawals[v].rail
                           /\ v # w => withdrawals'[v] = withdrawals[v]
         /\ withdrawals'[w].state = state
         /\ \A S : \A v \in Ids : v \in In(S)' <=> IF v = w THEN state \in S ELSE v \in In(S)
<1>1. w \in Ids /\ withdrawals[w] \in Withdrawal
  BY DrawnRow DEF Drawn
<1> PICK new : new = [withdrawals[w] EXCEPT !.state = state]
  OBVIOUS
<1>2. /\ new \in Withdrawal /\ new.state = state /\ new.owner = withdrawals[w].owner
      /\ new.amount = withdrawals[w].amount /\ new.rail = withdrawals[w].rail
  BY <1>1 DEF Withdrawal
<1>3. \A v \in Ids : withdrawals'[v] = IF v = w THEN new ELSE withdrawals[v]
  BY <1>1 DEF TypeOK, Moves
<1>4. withdrawals' \in [Ids -> Withdrawal \cup {NoWithdrawal}]
  BY <1>1, <1>2 DEF TypeOK, Moves
<1>5. new # NoWithdrawal
  BY <1>2 DEF NoWithdrawal, State
<1>6. Drawn' = Drawn
  BY <1>3, <1>5 DEF Drawn
<1>7. \A v \in Ids : /\ Owner(v)' = Owner(v) /\ Amount(v)' = Amount(v)
                     /\ withdrawals'[v].rail = withdrawals[v].rail
                     /\ v # w => withdrawals'[v] = withdrawals[v]
  BY <1>2, <1>3 DEF Owner, Amount
<1>8. \A S : \A v \in Ids : v \in In(S)' <=> IF v = w THEN state \in S ELSE v \in In(S)
  BY <1>2, <1>3, <1>5, <1>6 DEF In
<1>9. QED  BY <1>1, <1>2, <1>3, <1>4, <1>6, <1>7, <1>8

(***************************************************************************)
(* Steps that leave the ledger and the deposits alone.                     *)
(***************************************************************************)
\* The sums stay when no withdrawal is opened or closed.
LEMMA QuietLedger ==
  ASSUME Ledger, UNCHANGED <<ledger, intents>>,
         \A v \in Ids : /\ v \in In(OpenStates) <=> v \in In(OpenStates)'
                        /\ v \in In({"finalized"}) <=> v \in In({"finalized"})'
                        /\ v \in Drawn => Owner(v)' = Owner(v) /\ Amount(v)' = Amount(v)
  PROVE  Ledger'
<1>1. \A S : In(S) \subseteq Drawn
  BY DEF In
<1>2. \A o \in Owners : Owed(o)' = Owed(o)
  BY <1>1 DEF Owed
<1>3. Gone' = Gone
  BY <1>1 DEF Gone
<1>4. Came' = Came
  BY DEF Came, InState, Opened
<1>5. Claim' = Claim
  BY DEF Claim, ledger
<1>6. QED  BY <1>2, <1>3, <1>4, <1>5 DEF Ledger, ledger

\* Deposited is about intents alone.
LEMMA QuietDeposits == Deposited /\ UNCHANGED intents => Deposited'
BY DEF Deposited, Opened

(***************************************************************************)
(* Types.                                                                  *)
(***************************************************************************)
\* A provider call that is out has an entry of its own, which an idle one is not.
LEMMA CallRow ==
  ASSUME TypeOK, NEW c \in Calls
  PROVE  /\ calls[c] = NoCall <=> calls[c].at = "idle"
         /\ calls[c] # NoCall => /\ calls[c].at \in {"paying", "accepted", "failed"}
                                 /\ calls[c].key \in Keys /\ calls[c].withdrawal \in Ids
                                 /\ calls[c] \in [at : {"paying", "accepted", "failed"},
                                                  key : Keys, withdrawal : Ids]
<1>1. calls[c] \in {NoCall} \cup [at : {"paying", "accepted", "failed"},
                                  key : Keys, withdrawal : Ids]
  BY DEF TypeOK
<1>2. QED  BY <1>1 DEF NoCall

\* What an owner can claim is part of what is in custody.
LEMMA ClaimCovered ==
  ASSUME TypeOK, Ledger, NEW o \in Owners
  PROVE  available[o] + pending[o] <= escrow
<1>1. \A x \in Owners : Claim[x] \in Nat
  BY DEF Claim, TypeOK
<1>2. Claim[o] <= SumFunctionOnSet(Claim, Owners)
  BY <1>1, SumBound, OwnersAssumption
<1>3. QED  BY <1>2 DEF Claim, Ledger

\* A withdrawal that is still open is part of what its owner has pending.
LEMMA OwedCovered ==
  ASSUME TypeOK, Ledger, NEW w \in In(OpenStates)
  PROVE  /\ Owner(w) \in Owners /\ Amount(w) \in Nat
         /\ Amount(w) <= pending[Owner(w)] /\ Amount(w) <= escrow
<1>1. w \in Ids /\ w \in Drawn
  BY DEF In, Drawn
<1>2. Owner(w) \in Owners /\ Amount(w) \in Nat
  BY <1>1, DrawnRow
<1> PICK o : o = Owner(w)
  OBVIOUS
<1>3. \A v \in Ids : Owed(o)[v] \in Nat
  <2>1. ASSUME NEW v \in Ids, v \in In(OpenStates)
        PROVE  Amount(v) \in Nat
    BY <2>1, DrawnRow DEF In
  <2>2. QED  BY <2>1 DEF Owed
<1>4. Owed(o)[w] <= SumFunctionOnSet(Owed(o), Ids)
  BY <1>1, <1>3, SumBound, IdsAssumption
<1>5. Amount(w) <= pending[o]
  BY <1>1, <1>2, <1>4 DEF Owed, Ledger
<1>6. available[o] + pending[o] <= escrow
  BY <1>2, ClaimCovered
<1>7. available[o] \in Nat /\ pending[o] \in Nat /\ escrow \in Nat
  BY <1>2 DEF TypeOK
<1>8. QED  BY <1>2, <1>5, <1>6, <1>7

\* The initial state has its types.
LEMMA TypeInit == CustodyInit => CustodyTypeOK
<1> SUFFICES ASSUME CustodyInit PROVE CustodyTypeOK
  OBVIOUS
<1>1. TypeOK
  BY CrashesAssumption DEF CustodyInit, Init, TypeOK
<1>2. intents \in [Intents -> {NoIntent} \cup [state : IntentState, owner : Owners,
        target : Targets, partner : Targets \cup {0}, observation : Targets \cup {0}]]
  BY DEF CustodyInit
<1>3. QED  BY <1>1, <1>2 DEF CustodyInit, CustodyTypeOK

\* A step that moves one row to a state keeps the type of the rows.
LEMMA MovedTypes ==
  ASSUME TypeOK, NEW S, NEW w \in In(S), NEW state \in State, withdrawals' = Moves(w, state)
  PROVE  /\ w \in Ids /\ w \in Drawn
         /\ withdrawals' \in [Ids -> Withdrawal \cup {NoWithdrawal}]
BY MovedRow DEF In, Drawn

\* A step of Withdrawals keeps its types.
LEMMA WithdrawalTypes ==
  ASSUME TypeOK, Ledger, Next
  PROVE  TypeOK'
<1>1. ASSUME NEW w \in Ids, NEW o \in Owners, NEW rail \in Rails, NEW amount \in Amounts,
             RequestWithdrawal(w, o, rail, amount)
      PROVE  TypeOK'
  <2>1. [owner |-> o, rail |-> rail, amount |-> amount, state |-> "reserved"] \in Withdrawal
    BY DEF Withdrawal, State
  <2>2. amount \in Nat /\ available[o] \in Nat /\ pending[o] \in Nat /\ available[o] >= amount
    BY <1>1, AmountsAssumption DEF TypeOK, RequestWithdrawal
  <2>3. withdrawals' \in [Ids -> Withdrawal \cup {NoWithdrawal}]
    BY <1>1, <2>1 DEF TypeOK, RequestWithdrawal
  <2>4. available' \in [Owners -> Nat] /\ pending' \in [Owners -> Nat]
    BY <1>1, <2>2 DEF TypeOK, RequestWithdrawal
  <2>5. QED  BY <1>1, <2>3, <2>4 DEF TypeOK, RequestWithdrawal, server, outside
<1>2. ASSUME NEW w \in Ids, CancelWithdrawal(w)
      PROVE  TypeOK'
  <2>1. w \in In({"reserved"}) /\ w \in In(OpenStates) /\ withdrawals' = Moves(w, "cancelled")
    BY <1>2 DEF CancelWithdrawal, In, OpenStates, State
  <2>2. withdrawals' \in [Ids -> Withdrawal \cup {NoWithdrawal}]
    BY <2>1, MovedTypes DEF State
  <2>3. Owner(w) \in Owners /\ Amount(w) \in Nat /\ Amount(w) <= pending[Owner(w)]
    BY <2>1, OwedCovered
  <2> PICK o \in Owners, amount \in Nat : o = Owner(w) /\ amount = Amount(w)
    BY <2>3
  <2>4. available' = [available EXCEPT ![o] = @ + amount] /\ pending' = [pending EXCEPT ![o] = @ - amount]
    BY <1>2 DEF CancelWithdrawal
  <2>5. available[o] + amount \in Nat /\ pending[o] - amount \in Nat
    BY <2>3 DEF TypeOK
  <2>6. available' \in [Owners -> Nat] /\ pending' \in [Owners -> Nat]
    BY <2>4, <2>5 DEF TypeOK
  <2>7. QED  BY <1>2, <2>2, <2>6 DEF TypeOK, CancelWithdrawal, server, outside
<1>3. ASSUME NEW w \in Ids, PaysLate(w) \/ SendCoins(w)
      PROVE  TypeOK'
  <2>1. payments' \in [Ids -> Nat] /\ late' \subseteq Ids
    BY <1>3 DEF TypeOK, PaysLate, SendCoins
  <2>2. UNCHANGED <<rows, ledger, observed, server, crashes>>
    BY <1>3 DEF PaysLate, SendCoins
  <2>3. QED  BY <2>1, <2>2 DEF TypeOK, rows, ledger, server
<1>4. ASSUME NEW w \in Ids, CompleteNgnPayout(w) \/ FinalizeWithdrawal(w)
      PROVE  TypeOK'
  <2>1. w \in In(OpenStates) /\ Settle(w) /\ observed' \subseteq Ids
    BY <1>4 DEF CompleteNgnPayout, FinalizeWithdrawal, In, OpenStates, State, TypeOK
  <2>2. withdrawals' \in [Ids -> Withdrawal \cup {NoWithdrawal}]
    BY <2>1, MovedTypes DEF State, Settle
  <2>3. Owner(w) \in Owners /\ Amount(w) \in Nat /\ Amount(w) <= pending[Owner(w)] /\ Amount(w) <= escrow
    BY <2>1, OwedCovered
  <2> PICK o \in Owners, amount \in Nat : o = Owner(w) /\ amount = Amount(w)
    BY <2>3
  <2>4. escrow' = escrow - amount /\ pending' = [pending EXCEPT ![o] = @ - amount]
    BY <2>1 DEF Settle
  <2>5. pending[o] - amount \in Nat /\ escrow - amount \in Nat
    BY <2>3 DEF TypeOK
  <2>6. escrow' \in Nat /\ pending' \in [Owners -> Nat]
    BY <2>4, <2>5 DEF TypeOK
  <2>7. QED  BY <2>1, <2>2, <2>6 DEF TypeOK, Settle, server, outside
<1>5. ASSUME NEW w \in Ids, \/ SubmitWithdrawal(w) \/ MarkWithdrawalUncertain(w)
                            \/ ApproveCryptoWithdrawal(w) \/ RecordCryptoSubmission(w)
      PROVE  TypeOK'
  <2>1. PICK state \in State : withdrawals' = Moves(w, state)
    BY <1>5 DEF SubmitWithdrawal, MarkWithdrawalUncertain, ApproveCryptoWithdrawal,
                RecordCryptoSubmission, State
  <2>2. w \in In({"reserved", "submitted", "approved"})
    BY <1>5 DEF SubmitWithdrawal, MarkWithdrawalUncertain, ApproveCryptoWithdrawal,
                RecordCryptoSubmission, In
  <2>3. withdrawals' \in [Ids -> Withdrawal \cup {NoWithdrawal}]
    BY <2>1, <2>2, MovedTypes
  <2>4. UNCHANGED <<held, ledger, observed, server, outside, crashes>>
    BY <1>5 DEF SubmitWithdrawal, MarkWithdrawalUncertain, ApproveCryptoWithdrawal,
                RecordCryptoSubmission
  <2>5. QED  BY <2>3, <2>4 DEF TypeOK, ledger, server, outside
<1>6. ASSUME NEW w \in Ids, NEW k \in Keys, AnswerState(k, w)
      PROVE  TypeOK'
  <2>1. withdrawals[w].state \in State
    BY <1>6, DrawnRow DEF AnswerState
  <2>2. [withdrawal |-> w, response |-> withdrawals[w].state]
          \in [withdrawal : Ids, response : State \cup {"none"}]
    BY <2>1
  <2>3. QED  BY <1>6, <2>2 DEF TypeOK, AnswerState, Answer, rows, ledger, outside
<1>7. ASSUME NEW w \in Ids, NEW k \in Keys, NEW c \in Calls, ClaimPayout(c, k, w)
      PROVE  TypeOK'
  <2>1. withdrawals' \in [Ids -> Withdrawal \cup {NoWithdrawal}]
    BY <1>7, MovedTypes DEF ClaimPayout, State
  <2>2. [withdrawal |-> w, response |-> "none"] \in [withdrawal : Ids, response : State \cup {"none"}]
    OBVIOUS
  <2>3. QED  BY <1>7, <2>1, <2>2 DEF TypeOK, ClaimPayout, Answer, ledger, outside
<1>8. ASSUME NEW c \in Calls, ProviderAccepts(c) \/ CallFails(c)
      PROVE  TypeOK'
  <2>1. calls[c] # NoCall
    BY <1>8, CallRow DEF ProviderAccepts, CallFails, NoCall
  <2>2. PICK call \in [at : {"paying", "accepted", "failed"}, key : Keys, withdrawal : Ids] :
          call = calls[c]
    BY <2>1, CallRow
  <2>3. PICK at \in {"accepted", "failed"} : calls' = [calls EXCEPT ![c].at = at]
    BY <1>8 DEF ProviderAccepts, CallFails
  <2>4. [call EXCEPT !.at = at] \in [at : {"paying", "accepted", "failed"}, key : Keys, withdrawal : Ids]
    OBVIOUS
  <2>5. calls' = [calls EXCEPT ![c] = [call EXCEPT !.at = at]]
    BY <2>2, <2>3 DEF TypeOK
  <2>6. calls' \in [Calls -> {NoCall} \cup
          [at : {"paying", "accepted", "failed"}, key : Keys, withdrawal : Ids]]
    BY <2>4, <2>5 DEF TypeOK
  <2>7. late' \subseteq Ids /\ payments' \in [Ids -> Nat]
    <3>1. CASE ProviderAccepts(c)
      BY <2>2, <3>1 DEF ProviderAccepts, TypeOK
    <3>2. CASE CallFails(c)
      BY <2>2, <3>2 DEF CallFails, TypeOK
    <3>3. QED  BY <1>8, <3>1, <3>2
  <2>8. UNCHANGED <<rows, ledger, observed, commands, crashes>>
    BY <1>8 DEF ProviderAccepts, CallFails
  <2>9. QED  BY <2>6, <2>7, <2>8 DEF TypeOK, rows, ledger
<1>9. ASSUME NEW c \in Calls, RecordSubmission(c) \/ RecordUncertain(c)
      PROVE  TypeOK'
  <2>1. calls[c] # NoCall
    BY <1>9, CallRow DEF RecordSubmission, RecordUncertain, NoCall
  <2>2. PICK w \in Ids, k \in Keys : w = calls[c].withdrawal /\ k = calls[c].key
    BY <2>1, CallRow
  <2>3. PICK state \in {"submitted", "uncertain"} :
          w \in In({"submitting"}) /\ withdrawals' = Moves(w, state) /\ Answer(k, w, state)
    BY <1>9, <2>2 DEF RecordSubmission, RecordUncertain
  <2>4. withdrawals' \in [Ids -> Withdrawal \cup {NoWithdrawal}]
    BY <2>3, MovedTypes DEF State
  <2>5. [withdrawal |-> w, response |-> state] \in [withdrawal : Ids, response : State \cup {"none"}]
    BY DEF State
  <2>6. commands' \in [Keys -> {NoCommand} \cup [withdrawal : Ids, response : State \cup {"none"}]]
    BY <2>3, <2>5 DEF TypeOK, Answer
  <2>7. calls' = [calls EXCEPT ![c] = NoCall] /\ UNCHANGED <<held, ledger, observed, outside, crashes>>
    BY <1>9 DEF RecordSubmission, RecordUncertain
  <2>8. QED  BY <2>4, <2>6, <2>7 DEF TypeOK, ledger, outside
<1>10. CASE Crash
  <2>1. \A c \in Calls : calls[c].at = "paying" => calls[c].withdrawal \in Ids
    BY CallRow
  <2>2. late' \subseteq Ids
    BY <1>10, <2>1 DEF Crash, TypeOK
  <2>3. crashes' \in 0..MaxCrashes
    BY <1>10, CrashesAssumption DEF Crash, TypeOK
  <2>4. calls' \in [Calls -> {NoCall} \cup
          [at : {"paying", "accepted", "failed"}, key : Keys, withdrawal : Ids]]
    BY <1>10 DEF Crash
  <2>5. QED  BY <1>10, <2>2, <2>3, <2>4 DEF Crash, TypeOK, rows, ledger
<1>11. QED  BY <1>1, <1>2, <1>3, <1>4, <1>5, <1>6, <1>7, <1>8, <1>9, <1>10 DEF Next, Call

(***************************************************************************)
(* The intents.                                                            *)
(***************************************************************************)
IntentRow == [state : IntentState, owner : Owners, target : Targets,
              partner : Targets \cup {0}, observation : Targets \cup {0}]

\* An intent that was opened is a record of IntentRow.
LEMMA OpenedRow ==
  ASSUME CustodyTypeOK, NEW i \in Intents
  PROVE  /\ i \in Opened <=> intents[i] \in IntentRow
         /\ i \in Opened => /\ intents[i].state \in IntentState /\ intents[i].owner \in Owners
                            /\ intents[i].target \in Targets /\ intents[i].target \in Nat \ {0}
                            /\ intents[i].partner \in Nat /\ intents[i].observation \in Nat
<1>1. NoIntent \notin IntentRow
  <2>1. SUFFICES ASSUME NoIntent \in IntentRow PROVE FALSE
    OBVIOUS
  <2>2. NoIntent.state \in IntentState
    BY <2>1 DEF IntentRow
  <2>3. QED  BY <2>2 DEF NoIntent, IntentState
<1>2. intents[i] \in {NoIntent} \cup IntentRow
  BY DEF CustodyTypeOK, IntentRow
<1>3. ASSUME intents[i] \in IntentRow
      PROVE  /\ intents[i].state \in IntentState /\ intents[i].owner \in Owners
             /\ intents[i].target \in Targets
             /\ intents[i].partner \in Targets \cup {0} /\ intents[i].observation \in Targets \cup {0}
  BY <1>3 DEF IntentRow
<1>4. i \in Opened <=> intents[i] \in IntentRow
  BY <1>1, <1>2 DEF Opened
<1>5. Targets \subseteq Nat \ {0} /\ Targets \cup {0} \subseteq Nat
  BY TargetsAssumption
<1>6. ASSUME i \in Opened
      PROVE  /\ intents[i].state \in IntentState /\ intents[i].owner \in Owners
             /\ intents[i].target \in Targets /\ intents[i].target \in Nat \ {0}
             /\ intents[i].partner \in Nat /\ intents[i].observation \in Nat
  BY <1>3, <1>4, <1>5, <1>6, Zenon
<1>7. QED  BY <1>4, <1>6

\* A step on one intent leaves it opened, with the row the step gives it.
LEMMA IntentMoves ==
  ASSUME CustodyTypeOK, NEW i \in Intents, NEW row \in IntentRow, intents' = [intents EXCEPT ![i] = row]
  PROVE  /\ intents' \in [Intents -> {NoIntent} \cup IntentRow]
         /\ intents'[i] = row /\ Opened' = Opened \cup {i}
         /\ \A j \in Intents \ {i} : intents'[j] = intents[j]
<1>1. NoIntent # row
  <2>1. row.state # "absent"
    BY DEF IntentRow, IntentState
  <2>2. QED  BY <2>1 DEF NoIntent
<1>2. intents' \in [Intents -> {NoIntent} \cup IntentRow]
  BY DEF CustodyTypeOK, IntentRow
<1>3. intents'[i] = row /\ \A j \in Intents \ {i} : intents'[j] = intents[j]
  BY DEF CustodyTypeOK
<1>4. QED  BY <1>1, <1>2, <1>3 DEF Opened

\* What each step on an intent makes of its row.
LEMMA OpensIntent ==
  ASSUME CustodyTypeOK, Deposited, NEW i \in Intents,
         NEW o \in Owners, NEW target \in Targets, CreateDepositIntent(i, o, target)
  PROVE  \E row \in IntentRow :
           /\ intents' = [intents EXCEPT ![i] = row] /\ row.state = "awaiting_partner"
           /\ row.target = target /\ row.partner = 0 /\ row.observation = 0 /\ row.owner = o
<1> PICK row : row = [state |-> "awaiting_partner", owner |-> o,
                      target |-> target, partner |-> 0, observation |-> 0]
  OBVIOUS
<1>1. row \in IntentRow
  BY DEF IntentRow, IntentState
<1>2. QED  BY <1>1 DEF CreateDepositIntent

\* What the partner's event makes of an intent.
LEMMA ConfirmsIntent ==
  ASSUME CustodyTypeOK, Deposited, NEW i \in Intents,
         NEW event \in Event, event.intent = i, ApplyPartnerDeposit(event)
  PROVE  \E row \in IntentRow :
           /\ intents' = [intents EXCEPT ![i] = row] /\ row.state = "partner_confirmed"
           /\ row.target = intents[i].target /\ row.partner = row.target
           /\ row.observation = 0 /\ row.owner = intents[i].owner
<1>1. i \in Opened /\ intents[i].state = "awaiting_partner" /\ event.amount = intents[i].target
  BY DEF ApplyPartnerDeposit, InState
<1> PICK old \in IntentRow, amount \in Targets : old = intents[i] /\ amount = old.target
  BY <1>1, OpenedRow
<1>2. intents' = [intents EXCEPT ![i].state = "partner_confirmed", ![i].partner = amount]
  BY <1>1 DEF ApplyPartnerDeposit, Confirms
<1> PICK row : row = [old EXCEPT !.state = "partner_confirmed", !.partner = amount]
  OBVIOUS
<1>3. row \in IntentRow
  <2>1. "partner_confirmed" \in IntentState /\ amount \in Targets \cup {0}
    BY DEF IntentState
  <2>2. QED  BY <2>1, Zenon DEF IntentRow
<1>4. row.state = "partner_confirmed" /\ row.partner = amount /\ row.target = amount
      /\ row.observation = old.observation /\ row.owner = old.owner
  BY DEF IntentRow
<1>5. intents' = [intents EXCEPT ![i] = row]
  BY <1>2 DEF CustodyTypeOK
<1>6. old.observation = 0
  BY <1>1 DEF Deposited
<1>7. QED  BY <1>3, <1>4, <1>5, <1>6

\* What the observation on the chain makes of an intent.
LEMMA FinalizesIntent ==
  ASSUME CustodyTypeOK, Deposited, NEW i \in Intents,
         NEW amount \in Targets, FinalizeDeposit(i, amount)
  PROVE  \E row \in IntentRow :
           /\ intents' = [intents EXCEPT ![i] = row] /\ row.state = "reconciled_available"
           /\ row.target = intents[i].target /\ row.partner = row.target
           /\ row.observation = row.target /\ row.owner = intents[i].owner
           /\ amount = row.target
<1>1. i \in Opened /\ intents[i].state = "partner_confirmed" /\ amount = intents[i].partner
  BY DEF FinalizeDeposit, InState
<1> PICK old \in IntentRow : old = intents[i]
  BY <1>1, OpenedRow
<1>2. intents' = [intents EXCEPT ![i].state = "reconciled_available", ![i].observation = amount]
  BY DEF FinalizeDeposit
<1> PICK row : row = [old EXCEPT !.state = "reconciled_available", !.observation = amount]
  OBVIOUS
<1>3. row \in IntentRow
  <2>1. "reconciled_available" \in IntentState /\ amount \in Targets \cup {0}
    BY DEF IntentState
  <2>2. QED  BY <2>1, Zenon DEF IntentRow
<1>4. row.state = "reconciled_available" /\ row.partner = old.partner /\ row.target = old.target
      /\ row.observation = amount /\ row.owner = old.owner
  BY DEF IntentRow
<1>5. intents' = [intents EXCEPT ![i] = row]
  BY <1>2 DEF CustodyTypeOK
<1>6. old.partner = old.target
  BY <1>1 DEF Deposited
<1>7. QED  BY <1>1, <1>3, <1>4, <1>5, <1>6

\* Every step keeps the types.
LEMMA CustodyTypes ==
  ASSUME CustodyTypeOK, Ledger, Deposited, CustodyNext
  PROVE  CustodyTypeOK'
<1>1. CASE Next /\ UNCHANGED funding
  <2>1. TypeOK'
    BY <1>1, WithdrawalTypes DEF CustodyTypeOK
  <2>2. UNCHANGED <<intents, lapsed, recorded>> /\ Opened' = Opened
    BY <1>1 DEF funding, Opened
  <2>3. QED  BY <2>1, <2>2 DEF CustodyTypeOK
<1>2. ASSUME NEW i \in Intents, NEW o \in Owners, NEW target \in Targets, CreateDepositIntent(i, o, target)
      PROVE  CustodyTypeOK'
  <2>1. PICK row \in IntentRow : intents' = [intents EXCEPT ![i] = row]
    BY <1>2, OpensIntent
  <2>2. intents' \in [Intents -> {NoIntent} \cup IntentRow] /\ Opened' = Opened \cup {i}
    BY <2>1, IntentMoves
  <2>3. TypeOK' /\ UNCHANGED <<lapsed, recorded>>
    BY <1>2 DEF CreateDepositIntent, CustodyTypeOK, TypeOK, vars, rows, ledger, server, outside
  <2>4. QED  BY <2>2, <2>3 DEF CustodyTypeOK, IntentRow
<1>3. ASSUME NEW i \in Intents, Lapse(i)
      PROVE  CustodyTypeOK'
  <2>1. TypeOK' /\ UNCHANGED <<intents, recorded>> /\ Opened' = Opened
    BY <1>3 DEF Lapse, CustodyTypeOK, TypeOK, vars, rows, ledger, server, outside, Opened
  <2>2. lapsed' \subseteq Opened
    BY <1>3 DEF Lapse, CustodyTypeOK, InState
  <2>3. QED  BY <2>1, <2>2 DEF CustodyTypeOK
<1>4. ASSUME NEW i \in Intents, NEW amount \in Targets, FinalizeDeposit(i, amount)
      PROVE  CustodyTypeOK'
  <2>1. PICK row \in IntentRow : intents' = [intents EXCEPT ![i] = row]
    BY <1>4, FinalizesIntent
  <2>2. intents' \in [Intents -> {NoIntent} \cup IntentRow] /\ Opened' = Opened \cup {i}
    BY <2>1, IntentMoves
  <2>3. i \in Opened /\ amount \in Nat
    BY <1>4, TargetsAssumption DEF FinalizeDeposit, InState
  <2>4. intents[i].owner \in Owners
    BY <2>3, OpenedRow
  <2>5. available' \in [Owners -> Nat] /\ escrow' \in Nat
    BY <1>4, <2>3, <2>4 DEF FinalizeDeposit, CustodyTypeOK, TypeOK
  <2>6. UNCHANGED <<rows, pending, observed, server, outside, crashes, lapsed, recorded>>
    BY <1>4 DEF FinalizeDeposit
  <2>7. TypeOK'
    BY <2>5, <2>6 DEF CustodyTypeOK, TypeOK, rows, server, outside
  <2>8. QED  BY <2>2, <2>6, <2>7 DEF CustodyTypeOK, IntentRow
<1>5. ASSUME NEW event \in Event, ApplyPartnerDeposit(event)
      PROVE  CustodyTypeOK'
  <2> PICK i \in Intents : i = event.intent
    BY DEF Event
  <2>1. PICK row \in IntentRow : intents' = [intents EXCEPT ![i] = row]
    BY <1>5, ConfirmsIntent
  <2>2. intents' \in [Intents -> {NoIntent} \cup IntentRow] /\ Opened' = Opened \cup {i}
    BY <2>1, IntentMoves
  <2>3. TypeOK' /\ UNCHANGED lapsed /\ recorded' = recorded \cup {event}
    BY <1>5 DEF ApplyPartnerDeposit, Confirms, CustodyTypeOK, TypeOK, vars, rows, ledger, server, outside
  <2>4. QED  BY <2>2, <2>3 DEF CustodyTypeOK, IntentRow
<1>6. QED  BY <1>1, <1>2, <1>3, <1>4, <1>5 DEF CustodyNext

\* An intent goes through its states in order, and its amount is the one it was opened for.
LEMMA DepositsKept ==
  ASSUME CustodyTypeOK, Deposited, CustodyNext
  PROVE  Deposited'
<1> DEFINE Fits(row) ==
      /\ row.state = "awaiting_partner" => row.partner = 0
      /\ row.state # "awaiting_partner" => row.partner = row.target
      /\ row.observation = IF row.state = "reconciled_available" THEN row.target ELSE 0
<1>1. ASSUME NEW i \in Intents, NEW row \in IntentRow, intents' = [intents EXCEPT ![i] = row], Fits(row)
      PROVE  Deposited'
  <2>1. \A j \in Opened : Fits(intents[j])
    BY DEF Deposited
  <2>2. intents'[i] = row /\ Opened' = Opened \cup {i} /\ \A j \in Intents \ {i} : intents'[j] = intents[j]
    BY <1>1, IntentMoves
  <2>3. \A j \in Opened' : Fits(intents'[j])
    BY <1>1, <2>1, <2>2 DEF Opened
  <2>4. QED  BY <2>3 DEF Deposited
<1>2. CASE \/ Next /\ UNCHANGED funding
           \/ \E i \in Intents : Lapse(i)
  BY <1>2, QuietDeposits DEF funding, Lapse
<1>3. ASSUME NEW i \in Intents, NEW o \in Owners, NEW target \in Targets, CreateDepositIntent(i, o, target)
      PROVE  Deposited'
  <2>1. PICK row \in IntentRow : intents' = [intents EXCEPT ![i] = row] /\ Fits(row)
    BY <1>3, OpensIntent
  <2>2. QED  BY <1>1, <2>1
<1>4. ASSUME NEW i \in Intents, NEW amount \in Targets, FinalizeDeposit(i, amount)
      PROVE  Deposited'
  <2>1. PICK row \in IntentRow : intents' = [intents EXCEPT ![i] = row] /\ Fits(row)
    BY <1>4, FinalizesIntent
  <2>2. QED  BY <1>1, <2>1
<1>5. ASSUME NEW event \in Event, ApplyPartnerDeposit(event)
      PROVE  Deposited'
  <2> PICK i \in Intents : i = event.intent
    BY DEF Event
  <2>1. PICK row \in IntentRow : intents' = [intents EXCEPT ![i] = row] /\ Fits(row)
    BY <1>5, ConfirmsIntent
  <2>2. QED  BY <1>1, <2>1
<1>6. QED  BY <1>2, <1>3, <1>4, <1>5 DEF CustodyNext

(***************************************************************************)
(* The sums.                                                               *)
(***************************************************************************)
LEMMA Summands ==
  ASSUME CustodyTypeOK
  PROVE  /\ \A o \in Owners : \A w \in Ids : Owed(o)[w] \in Int
         /\ \A w \in Ids : Gone[w] \in Nat
         /\ \A i \in Intents : Came[i] \in Nat
         /\ \A o \in Owners : Claim[o] \in Nat
<1>1. ASSUME NEW S, NEW w \in In(S)
      PROVE  w \in Ids /\ Amount(w) \in Nat
  BY DrawnRow DEF In, CustodyTypeOK, Drawn
<1>2. \A o \in Owners : \A w \in Ids : Owed(o)[w] \in Int
  BY <1>1 DEF Owed
<1>3. \A w \in Ids : Gone[w] \in Nat
  BY <1>1 DEF Gone
<1>4. \A i \in Intents : Came[i] \in Nat
  BY OpenedRow DEF Came, InState
<1>5. \A o \in Owners : Claim[o] \in Nat
  BY DEF Claim, CustodyTypeOK, TypeOK
<1>6. QED  BY <1>2, <1>3, <1>4, <1>5

\* A request moves its amount from what the owner may spend to what is pending.
LEMMA RequestLedger ==
  ASSUME CustodyTypeOK, Ledger, UNCHANGED funding,
         NEW w \in Ids, NEW o \in Owners, NEW rail \in Rails, NEW amount \in Amounts,
         RequestWithdrawal(w, o, rail, amount)
  PROVE  Ledger'
<1> PICK row : row = [owner |-> o, rail |-> rail, amount |-> amount, state |-> "reserved"]
  OBVIOUS
<1>1. /\ TypeOK /\ w \notin Drawn /\ withdrawals' = [withdrawals EXCEPT ![w] = row]
      /\ available' = [available EXCEPT ![o] = @ - amount]
      /\ pending' = [pending EXCEPT ![o] = @ + amount] /\ escrow' = escrow
  BY DEF RequestWithdrawal, CustodyTypeOK
<1>2. amount \in Nat
  BY AmountsAssumption
<1>3. \A v \in Ids : withdrawals'[v] = IF v = w THEN row ELSE withdrawals[v]
  BY <1>1 DEF TypeOK
<1>4. row # NoWithdrawal
  BY DEF NoWithdrawal
<1>5. \A S : \A v \in Ids : v \in In(S)' <=> IF v = w THEN "reserved" \in S ELSE v \in In(S)
  BY <1>3, <1>4 DEF In, Drawn
<1>6. w \notin In(OpenStates) /\ w \notin In({"finalized"})
  BY <1>1 DEF In
<1>7. ASSUME NEW p \in Owners
      PROVE  pending'[p] = SumFunctionOnSet(Owed(p)', Ids)
  <2>1. \A v \in Ids : Owed(p)'[v] = IF v = w /\ p = o THEN amount ELSE Owed(p)[v]
    <3>1. \A v \in Ids : v \in In(OpenStates)' <=> v = w \/ v \in In(OpenStates)
      BY <1>5 DEF OpenStates, State
    <3>2. Owner(w)' = o /\ Amount(w)' = amount
      BY <1>3 DEF Owner, Amount
    <3>3. \A v \in Ids \ {w} : Owner(v)' = Owner(v) /\ Amount(v)' = Amount(v)
      BY <1>3 DEF Owner, Amount
    <3>4. QED  BY <1>6, <3>1, <3>2, <3>3 DEF Owed
  <2>2. Owed(p)[w] = 0
    BY <1>6 DEF Owed
  <2>3. \A v \in Ids : Owed(p)[v] \in Int /\ Owed(p)'[v] \in Int
    BY <1>2, <2>1, Summands
  <2>4. SumFunctionOnSet(Owed(p)', Ids) = SumFunctionOnSet(Owed(p), Ids) - Owed(p)[w] + Owed(p)'[w]
    BY <2>1, <2>3, SumUpdate, IdsAssumption
  <2>5. pending[p] = SumFunctionOnSet(Owed(p), Ids) /\ pending[p] \in Nat
    BY DEF Ledger, CustodyTypeOK, TypeOK
  <2>6. pending'[p] = IF p = o THEN pending[p] + amount ELSE pending[p]
    BY <1>1 DEF TypeOK
  <2>7. QED  BY <1>2, <2>1, <2>2, <2>4, <2>5, <2>6
<1>8. Gone' = Gone
  <2>1. \A v \in Ids : v \in In({"finalized"})' <=> v \in In({"finalized"})
    BY <1>5, <1>6
  <2>2. \A v \in In({"finalized"}) : v # w /\ Amount(v)' = Amount(v)
    BY <1>3, <1>6 DEF In, Drawn, Amount
  <2>3. QED  BY <2>1, <2>2 DEF Gone
<1>9. Came' = Came
  BY DEF Came, InState, Opened, funding
<1>10. Claim' = Claim
  <2>1. \A p \in Owners : available'[p] + pending'[p] = available[p] + pending[p]
    BY <1>1, <1>2 DEF TypeOK
  <2>2. QED  BY <2>1 DEF Claim
<1>11. QED  BY <1>1, <1>7, <1>8, <1>9, <1>10 DEF Ledger

\* Closing a withdrawal takes its amount from what its owner has pending.
LEMMA ClosedOwed ==
  ASSUME CustodyTypeOK, Ledger, NEW w \in In(OpenStates), NEW state \in {"cancelled", "finalized"},
         withdrawals' = Moves(w, state), pending' = [pending EXCEPT ![Owner(w)] = @ - Amount(w)],
         NEW p \in Owners
  PROVE  pending'[p] = SumFunctionOnSet(Owed(p)', Ids)
<1>1. w \in Ids /\ w \in Drawn /\ TypeOK /\ state \in State
  BY DEF In, Drawn, CustodyTypeOK, State
<1>2. PICK o \in Owners, amount \in Nat : o = Owner(w) /\ amount = Amount(w)
  BY <1>1, OwedCovered
<1>3. /\ \A v \in Ids : Owner(v)' = Owner(v) /\ Amount(v)' = Amount(v)
      /\ \A S : \A v \in Ids : v \in In(S)' <=> IF v = w THEN state \in S ELSE v \in In(S)
  BY <1>1, MovedRow
<1>4. \A v \in Ids : v \in In(OpenStates)' <=> v # w /\ v \in In(OpenStates)
  BY <1>3 DEF OpenStates
<1>5. \A v \in Ids : Owed(p)'[v] = IF v = w THEN 0 ELSE Owed(p)[v]
  BY <1>3, <1>4 DEF Owed
<1>6. Owed(p)[w] = IF p = o THEN amount ELSE 0
  BY <1>1, <1>2 DEF Owed
<1>7. \A v \in Ids : Owed(p)[v] \in Int /\ Owed(p)'[v] \in Int
  BY <1>5, Summands
<1>8. SumFunctionOnSet(Owed(p)', Ids) = SumFunctionOnSet(Owed(p), Ids) - Owed(p)[w] + Owed(p)'[w]
  BY <1>1, <1>5, <1>7, SumUpdate, IdsAssumption
<1>9. pending[p] = SumFunctionOnSet(Owed(p), Ids) /\ pending[p] \in Nat
  BY DEF Ledger, CustodyTypeOK, TypeOK
<1>10. pending'[p] = IF p = o THEN pending[p] - amount ELSE pending[p]
  BY <1>1, <1>2 DEF TypeOK
<1>11. QED  BY <1>1, <1>2, <1>5, <1>6, <1>8, <1>9, <1>10

\* A cancellation gives back what was reserved for it.
LEMMA CancelLedger ==
  ASSUME CustodyTypeOK, Ledger, UNCHANGED funding, NEW w \in Ids, CancelWithdrawal(w)
  PROVE  Ledger'
<1>1. /\ w \in In(OpenStates) /\ w \notin In({"finalized"}) /\ TypeOK
      /\ withdrawals' = Moves(w, "cancelled") /\ escrow' = escrow
      /\ pending' = [pending EXCEPT ![Owner(w)] = @ - Amount(w)]
      /\ available' = [available EXCEPT ![Owner(w)] = @ + Amount(w)]
  BY DEF CancelWithdrawal, In, OpenStates, State, CustodyTypeOK
<1>2. \A p \in Owners : pending'[p] = SumFunctionOnSet(Owed(p)', Ids)
  BY <1>1, ClosedOwed
<1>3. Gone' = Gone
  <2>1. w \in Drawn /\ "cancelled" \in State
    BY <1>1 DEF In, State
  <2>2. \A v \in Ids : /\ Amount(v)' = Amount(v)
                       /\ v \in In({"finalized"})' <=> v \in In({"finalized"})
    BY <1>1, <2>1, MovedRow
  <2>3. QED  BY <2>2 DEF Gone
<1>4. Came' = Came
  BY DEF Came, InState, Opened, funding
<1>5. Claim' = Claim
  <2>1. Amount(w) \in Nat
    BY <1>1, OwedCovered
  <2>2. \A p \in Owners : available'[p] + pending'[p] = available[p] + pending[p]
    BY <1>1, <2>1 DEF TypeOK
  <2>3. QED  BY <2>2 DEF Claim
<1>6. QED  BY <1>1, <1>2, <1>3, <1>4, <1>5 DEF Ledger

\* A final withdrawal leaves the books by what was reserved for it.
LEMMA SettleLedger ==
  ASSUME CustodyTypeOK, Ledger, UNCHANGED funding, NEW w \in In(OpenStates), Settle(w)
  PROVE  Ledger'
<1>1. /\ w \in Ids /\ w \in Drawn /\ w \notin In({"finalized"}) /\ TypeOK
      /\ withdrawals' = Moves(w, "finalized") /\ available' = available
      /\ pending' = [pending EXCEPT ![Owner(w)] = @ - Amount(w)] /\ escrow' = escrow - Amount(w)
  BY DEF Settle, In, Drawn, OpenStates, State, CustodyTypeOK
<1>2. PICK o \in Owners, amount \in Nat : o = Owner(w) /\ amount = Amount(w)
  BY <1>1, OwedCovered
<1>3. \A p \in Owners : pending'[p] = SumFunctionOnSet(Owed(p)', Ids)
  BY <1>1, ClosedOwed
<1>4. SumFunctionOnSet(Gone', Ids) = SumFunctionOnSet(Gone, Ids) + amount
  <2>1. \A v \in Ids : /\ Amount(v)' = Amount(v)
                       /\ v \in In({"finalized"})' <=> v = w \/ v \in In({"finalized"})
    BY <1>1, MovedRow DEF State
  <2>2. \A v \in Ids : Gone'[v] = IF v = w THEN amount ELSE Gone[v]
    BY <1>2, <2>1 DEF Gone
  <2>3. Gone[w] = 0
    BY <1>1 DEF Gone
  <2>4. \A v \in Ids : Gone[v] \in Int /\ Gone'[v] \in Int
    BY <1>2, <2>2, Summands
  <2>5. SumFunctionOnSet(Gone', Ids) = SumFunctionOnSet(Gone, Ids) - Gone[w] + Gone'[w]
    <3>1. w \in Ids /\ \A v \in Ids \ {w} : Gone'[v] = Gone[v]
      BY <1>1, <2>2
    <3>2. QED  BY <2>4, <3>1, SumUpdate, IdsAssumption
  <2>6. SumFunctionOnSet(Gone, Ids) \in Int
    BY <2>4, SumType, IdsAssumption
  <2>7. QED  BY <1>1, <1>2, <2>2, <2>3, <2>5, <2>6
<1>5. Came' = Came
  BY DEF Came, InState, Opened, funding
<1>6. SumFunctionOnSet(Claim', Owners) = SumFunctionOnSet(Claim, Owners) - amount
  <2>1. \A p \in Owners : Claim'[p] = IF p = o THEN Claim[p] - amount ELSE Claim[p]
    BY <1>1, <1>2 DEF Claim, TypeOK
  <2>2. \A p \in Owners : Claim[p] \in Int /\ Claim'[p] \in Int
    BY <1>2, <2>1, Summands
  <2>3. SumFunctionOnSet(Claim', Owners) = SumFunctionOnSet(Claim, Owners) - Claim[o] + Claim'[o]
    BY <2>1, <2>2, SumUpdate, OwnersAssumption
  <2>4. SumFunctionOnSet(Claim, Owners) \in Int
    BY <2>2, SumType, OwnersAssumption
  <2>5. QED  BY <1>2, <2>1, <2>2, <2>3, <2>4
<1>7. SumFunctionOnSet(Came, Intents) \in Int /\ SumFunctionOnSet(Gone, Ids) \in Int /\ escrow \in Nat
  <2>1. \A i \in Intents : Came[i] \in Int
    BY Summands
  <2>2. \A v \in Ids : Gone[v] \in Int
    BY Summands
  <2>3. QED  BY <1>1, <2>1, <2>2, SumType, IntentsAssumption, IdsAssumption DEF TypeOK
<1>8. QED  BY <1>1, <1>2, <1>3, <1>4, <1>5, <1>6, <1>7 DEF Ledger

\* A deposit credits its owner and the custody account with the same amount.
LEMMA DepositLedger ==
  ASSUME CustodyTypeOK, Ledger, Deposited,
         NEW i \in Intents, NEW amount \in Targets, FinalizeDeposit(i, amount)
  PROVE  Ledger'
<1>1. /\ i \in Opened /\ i \notin InState({"reconciled_available"}) /\ amount \in Nat
      /\ available' = [available EXCEPT ![intents[i].owner] = @ + amount] /\ escrow' = escrow + amount
      /\ UNCHANGED <<withdrawals, pending>>
  BY TargetsAssumption DEF FinalizeDeposit, InState, rows
<1>2. PICK o \in Owners : o = intents[i].owner
  BY <1>1, OpenedRow
<1>3. PICK row \in IntentRow :
        /\ intents' = [intents EXCEPT ![i] = row] /\ row.state = "reconciled_available"
        /\ row.target = amount
  BY FinalizesIntent
<1>4. /\ intents'[i] = row /\ Opened' = Opened \cup {i}
      /\ \A j \in Intents \ {i} : intents'[j] = intents[j]
  BY <1>3, IntentMoves
<1>5. \A j \in Intents : Came'[j] = IF j = i THEN amount ELSE Came[j]
  BY <1>3, <1>4 DEF Came, InState, Opened
<1>6. Came[i] = 0
  BY <1>1 DEF Came
<1>7. \A j \in Intents : Came[j] \in Int /\ Came'[j] \in Int
  BY <1>1, <1>5, Summands
<1>8. SumFunctionOnSet(Came', Intents) = SumFunctionOnSet(Came, Intents) + amount
  <2>1. SumFunctionOnSet(Came', Intents) = SumFunctionOnSet(Came, Intents) - Came[i] + Came'[i]
    BY <1>5, <1>7, SumUpdate, IntentsAssumption
  <2>2. SumFunctionOnSet(Came, Intents) \in Int
    BY <1>7, SumType, IntentsAssumption
  <2>3. QED  BY <1>1, <1>5, <1>6, <2>1, <2>2
<1>9. SumFunctionOnSet(Claim', Owners) = SumFunctionOnSet(Claim, Owners) + amount
  <2>1. \A p \in Owners : Claim'[p] = IF p = o THEN Claim[p] + amount ELSE Claim[p]
    BY <1>1, <1>2 DEF Claim, CustodyTypeOK, TypeOK
  <2>2. \A p \in Owners : Claim[p] \in Int /\ Claim'[p] \in Int
    BY <1>1, <2>1, Summands
  <2>3. SumFunctionOnSet(Claim', Owners) = SumFunctionOnSet(Claim, Owners) - Claim[o] + Claim'[o]
    BY <2>1, <2>2, SumUpdate, OwnersAssumption
  <2>4. SumFunctionOnSet(Claim, Owners) \in Int
    BY <2>2, SumType, OwnersAssumption
  <2>5. QED  BY <1>1, <2>1, <2>2, <2>3, <2>4
<1>10. /\ \A p \in Owners : Owed(p)' = Owed(p)
       /\ Gone' = Gone
  BY <1>1 DEF Owed, Gone, In, Drawn, Owner, Amount
<1>11. SumFunctionOnSet(Came, Intents) \in Int /\ SumFunctionOnSet(Gone, Ids) \in Int /\ escrow \in Nat
  <2>1. \A v \in Ids : Gone[v] \in Int
    BY Summands
  <2>2. QED  BY <1>7, <2>1, SumType, IntentsAssumption, IdsAssumption DEF CustodyTypeOK, TypeOK
<1>12. QED  BY <1>1, <1>8, <1>9, <1>10, <1>11 DEF Ledger

(***************************************************************************)
(* The kinds of steps: a request, a cancellation, a settlement, and those  *)
(* that neither post to the ledger nor open or close a withdrawal.         *)
(***************************************************************************)
Quiet ==
  /\ UNCHANGED ledger /\ Drawn' = Drawn
  /\ \A v \in Ids : /\ Owner(v)' = Owner(v) /\ Amount(v)' = Amount(v)
                    /\ v \in In(OpenStates)' <=> v \in In(OpenStates)
                    /\ v \in In({"finalized"})' <=> v \in In({"finalized"})
                    /\ v \in In({"cancelled"})' <=> v \in In({"cancelled"})

\* A move between open states concerns no money.
LEMMA QuietMove ==
  ASSUME TypeOK, NEW w \in In(OpenStates), NEW state \in OpenStates,
         withdrawals' = Moves(w, state), UNCHANGED ledger
  PROVE  Quiet
<1>1. w \in Drawn /\ state \in State /\ state \notin {"finalized", "cancelled"}
  BY DEF In, OpenStates
<1>2. /\ Drawn' = Drawn
      /\ \A v \in Ids : Owner(v)' = Owner(v) /\ Amount(v)' = Amount(v)
      /\ \A S : \A v \in Ids : v \in In(S)' <=> IF v = w THEN state \in S ELSE v \in In(S)
  BY <1>1, MovedRow
<1>3. w \notin In({"finalized"}) /\ w \notin In({"cancelled"})
  BY DEF In, OpenStates
<1>4. QED  BY <1>1, <1>2, <1>3 DEF Quiet

\* Nor does a step that leaves rows and ledger alone.
LEMMA QuietRows ==
  ASSUME UNCHANGED <<withdrawals, ledger>>
  PROVE  Quiet
BY DEF Quiet, In, Drawn, Owner, Amount

\* The steps of Withdrawals by what they do to the ledger.
LEMMA NextKinds ==
  ASSUME TypeOK, Next
  PROVE  \/ \E w \in Ids, o \in Owners, rail \in Rails, amount \in Amounts :
              RequestWithdrawal(w, o, rail, amount)
         \/ \E w \in Ids : CancelWithdrawal(w)
         \/ \E w \in In(OpenStates) : Settle(w)
         \/ Quiet
<1>1. ASSUME NEW w \in Ids, \/ PaysLate(w) \/ SendCoins(w) \/ \E k \in Keys : AnswerState(k, w)
      PROVE  Quiet
  BY <1>1, QuietRows DEF PaysLate, SendCoins, AnswerState, rows
<1>2. ASSUME NEW w \in Ids, CompleteNgnPayout(w) \/ FinalizeWithdrawal(w)
      PROVE  w \in In(OpenStates) /\ Settle(w)
  BY <1>2 DEF CompleteNgnPayout, FinalizeWithdrawal, In, OpenStates, State
<1>3. ASSUME NEW w \in Ids, \/ SubmitWithdrawal(w) \/ MarkWithdrawalUncertain(w)
                            \/ ApproveCryptoWithdrawal(w) \/ RecordCryptoSubmission(w)
      PROVE  Quiet
  <2>1. PICK state \in OpenStates : withdrawals' = Moves(w, state)
    BY <1>3 DEF SubmitWithdrawal, MarkWithdrawalUncertain, ApproveCryptoWithdrawal,
                RecordCryptoSubmission, OpenStates, State
  <2>2. w \in In(OpenStates) /\ UNCHANGED ledger
    BY <1>3 DEF SubmitWithdrawal, MarkWithdrawalUncertain, ApproveCryptoWithdrawal,
                RecordCryptoSubmission, OpenStates, State, In
  <2>3. QED  BY <2>1, <2>2, QuietMove
<1>4. ASSUME NEW w \in Ids, NEW k \in Keys, NEW c \in Calls, ClaimPayout(c, k, w)
      PROVE  Quiet
  <2>1. w \in In(OpenStates) /\ UNCHANGED ledger /\ withdrawals' = Moves(w, "submitting")
    BY <1>4 DEF ClaimPayout, In, OpenStates, State
  <2>2. QED  BY <2>1, QuietMove DEF OpenStates, State
<1>5. ASSUME NEW c \in Calls, ProviderAccepts(c) \/ CallFails(c)
      PROVE  Quiet
  BY <1>5, QuietRows DEF ProviderAccepts, CallFails, rows
<1>6. ASSUME NEW c \in Calls, RecordSubmission(c) \/ RecordUncertain(c)
      PROVE  Quiet
  <2>1. PICK w, state : /\ w \in In({"submitting"}) /\ state \in {"submitted", "uncertain"}
                        /\ withdrawals' = Moves(w, state)
    BY <1>6 DEF RecordSubmission, RecordUncertain
  <2>2. w \in In(OpenStates) /\ state \in OpenStates /\ UNCHANGED ledger
    BY <1>6, <2>1 DEF In, OpenStates, State, RecordSubmission, RecordUncertain
  <2>3. QED  BY <2>1, <2>2, QuietMove
<1>7. CASE Crash
  BY <1>7, QuietRows DEF Crash, rows
<1>8. QED  BY <1>1, <1>2, <1>3, <1>4, <1>5, <1>6, <1>7 DEF Next, Call

\* Every step keeps the books right.
LEMMA LedgerKept ==
  ASSUME CustodyTypeOK, Ledger, Deposited, CustodyNext
  PROVE  Ledger'
<1>1. CASE Next /\ UNCHANGED funding
  <2>1. CASE Quiet
    BY <1>1, <2>1, QuietLedger DEF Quiet, funding
  <2>2. TypeOK
    BY DEF CustodyTypeOK
  <2>3. QED  BY <1>1, <2>1, <2>2, NextKinds, RequestLedger, CancelLedger, SettleLedger
<1>2. ASSUME UNCHANGED vars, Came' = Came
      PROVE  Ledger'
  <2>1. \A o \in Owners : Owed(o)' = Owed(o)
    BY <1>2 DEF Owed, In, Drawn, Owner, Amount, vars, rows
  <2>2. Gone' = Gone /\ Claim' = Claim
    BY <1>2 DEF Gone, Claim, In, Drawn, Amount, vars, rows, ledger
  <2>3. QED  BY <1>2, <2>1, <2>2 DEF Ledger, vars, ledger
<1>3. ASSUME NEW i \in Intents, NEW row \in IntentRow, intents' = [intents EXCEPT ![i] = row],
             i \notin InState({"reconciled_available"}), row.state # "reconciled_available"
      PROVE  Came' = Came
  <2>1. /\ intents'[i] = row /\ Opened' = Opened \cup {i}
        /\ \A j \in Intents \ {i} : intents'[j] = intents[j]
    BY <1>3, IntentMoves
  <2>2. QED  BY <1>3, <2>1 DEF Came, InState, Opened
<1>4. ASSUME NEW i \in Intents, NEW o \in Owners, NEW target \in Targets, CreateDepositIntent(i, o, target)
      PROVE  Ledger'
  <2>1. PICK row \in IntentRow : intents' = [intents EXCEPT ![i] = row] /\ row.state = "awaiting_partner"
    BY <1>4, OpensIntent
  <2>2. UNCHANGED vars /\ i \notin InState({"reconciled_available"})
    BY <1>4 DEF CreateDepositIntent, InState
  <2>3. QED  BY <1>2, <1>3, <2>1, <2>2
<1>5. ASSUME NEW i \in Intents, Lapse(i)
      PROVE  Ledger'
  <2>1. UNCHANGED vars /\ Came' = Came
    BY <1>5 DEF Lapse, Came, InState, Opened
  <2>2. QED  BY <1>2, <2>1
<1>6. ASSUME NEW event \in Event, ApplyPartnerDeposit(event)
      PROVE  Ledger'
  <2> PICK i \in Intents : i = event.intent
    BY DEF Event
  <2>1. PICK row \in IntentRow : intents' = [intents EXCEPT ![i] = row] /\ row.state = "partner_confirmed"
    BY <1>6, ConfirmsIntent
  <2>2. UNCHANGED vars /\ i \notin InState({"reconciled_available"})
    BY <1>6 DEF ApplyPartnerDeposit, Confirms, InState
  <2>3. QED  BY <1>2, <1>3, <2>1, <2>2
<1>7. QED  BY <1>1, <1>4, <1>5, <1>6, DepositLedger DEF CustodyNext

(***************************************************************************)
(* Payments.                                                               *)
(***************************************************************************)
\* The conditions of Paid on one withdrawal and on one provider call.
PaidOnce(w) ==
  /\ payments[w] <= 1
  /\ w \notin Drawn \/ w \in In({"reserved", "cancelled"}) => payments[w] = 0
  /\ w \in late => payments[w] = 0 /\ w \in In({"submitting", "uncertain", "finalized"})

OutAlone(c) ==
  calls[c] # NoCall =>
    /\ calls[c].withdrawal \in In({"submitting"})
    /\ calls[c].at = "paying" => payments[calls[c].withdrawal] = 0
    /\ calls[c].at \in {"paying", "accepted"} => calls[c].withdrawal \notin late
    /\ \A d \in Calls : calls[d] # NoCall /\ calls[d].withdrawal = calls[c].withdrawal => d = c

\* Paid, withdrawal by withdrawal and call by call.
LEMMA PaidParts ==
  Paid <=> /\ observed \subseteq In({"finalized"})
           /\ \A w \in Ids : PaidOnce(w)
           /\ \A c \in Calls : OutAlone(c)
BY DEF Paid, PaidOnce, OutAlone

\* Moving the row of a withdrawal that no call is out for.
LEMMA PaidMove ==
  ASSUME TypeOK, Paid, NEW S, NEW w \in In(S), NEW state \in State, withdrawals' = Moves(w, state),
         UNCHANGED <<calls, late, payments>>, observed' \subseteq In({"finalized"})',
         w \notin In({"submitting"}),
         state \in {"reserved", "cancelled"} => payments[w] = 0,
         w \in late => state \in {"submitting", "uncertain", "finalized"}
  PROVE  Paid'
<1>1. w \in Ids /\ w \in Drawn
  BY DEF In, Drawn
<1>2. /\ Drawn' = Drawn
      /\ \A T : \A v \in Ids : v \in In(T)' <=> IF v = w THEN state \in T ELSE v \in In(T)
  BY <1>1, MovedRow
<1>3. ASSUME NEW v \in Ids
      PROVE  PaidOnce(v)'
  <2>1. PaidOnce(v)
    BY PaidParts
  <2>2. QED  BY <1>1, <1>2, <2>1 DEF PaidOnce
<1>4. ASSUME NEW c \in Calls
      PROVE  OutAlone(c)'
  <2>1. OutAlone(c)
    BY PaidParts
  <2>2. calls[c] # NoCall => calls[c].withdrawal \in Ids /\ calls[c].withdrawal # w
    BY <2>1, CallRow DEF OutAlone
  <2>3. QED  BY <1>2, <2>1, <2>2 DEF OutAlone
<1>5. QED  BY <1>3, <1>4 DEF Paid, PaidOnce, OutAlone

\* At the start nothing is paid.
LEMMA PaidInit == CustodyInit => Paid
BY DEF CustodyInit, Init, Paid, In, Drawn

\* A new request is not paid.
LEMMA PaidRequest ==
  ASSUME TypeOK, Paid, NEW w \in Ids, NEW o \in Owners, NEW rail \in Rails, NEW amount \in Amounts,
         RequestWithdrawal(w, o, rail, amount)
  PROVE  Paid'
<1> PICK row : row = [owner |-> o, rail |-> rail, amount |-> amount, state |-> "reserved"]
  OBVIOUS
<1>1. /\ w \notin Drawn /\ withdrawals' = [withdrawals EXCEPT ![w] = row]
      /\ UNCHANGED <<calls, late, payments, observed>>
  BY DEF RequestWithdrawal, server, outside
<1>2. \A v \in Ids : withdrawals'[v] = IF v = w THEN row ELSE withdrawals[v]
  BY <1>1 DEF TypeOK
<1>3. row # NoWithdrawal /\ row.state = "reserved"
  BY DEF NoWithdrawal
<1>4. /\ \A v \in Ids : v \in Drawn' <=> v = w \/ v \in Drawn
      /\ \A S : \A v \in Ids : v \in In(S)' <=> IF v = w THEN "reserved" \in S ELSE v \in In(S)
  BY <1>2, <1>3 DEF In, Drawn
<1>5. w \notin late /\ payments[w] = 0
  BY <1>1, PaidParts DEF PaidOnce, In
<1>6. observed' \subseteq In({"finalized"})'
  BY <1>1, <1>4, PaidParts DEF In, Drawn
<1>7. ASSUME NEW v \in Ids
      PROVE  PaidOnce(v)'
  <2>1. PaidOnce(v)
    BY PaidParts
  <2>2. QED  BY <1>1, <1>4, <1>5, <2>1 DEF PaidOnce
<1>8. ASSUME NEW c \in Calls
      PROVE  OutAlone(c)'
  <2>1. OutAlone(c)
    BY PaidParts
  <2>2. calls[c] # NoCall => calls[c].withdrawal \in Ids /\ calls[c].withdrawal # w
    BY <1>1, <2>1, CallRow DEF OutAlone, In
  <2>3. QED  BY <1>1, <1>4, <2>1, <2>2 DEF OutAlone
<1>9. QED  BY <1>6, <1>7, <1>8 DEF Paid, PaidOnce, OutAlone

\* A claim is for a withdrawal nothing was ever sent for.
LEMMA PaidClaim ==
  ASSUME TypeOK, Paid, NEW w \in Ids, NEW k \in Keys, NEW c \in Calls, ClaimPayout(c, k, w)
  PROVE  Paid'
<1>1. /\ w \in In({"reserved"}) /\ w \in Drawn /\ calls[c] = NoCall
      /\ withdrawals' = Moves(w, "submitting")
      /\ calls' = [calls EXCEPT ![c] = [at |-> "paying", key |-> k, withdrawal |-> w]]
      /\ UNCHANGED <<late, payments, observed>>
  BY DEF ClaimPayout, In, outside
<1>2. /\ Drawn' = Drawn
      /\ \A T : \A v \in Ids : v \in In(T)' <=> IF v = w THEN "submitting" \in T ELSE v \in In(T)
  BY <1>1, MovedRow DEF State
<1>3. PaidOnce(w) /\ payments[w] = 0 /\ w \notin late /\ w \notin In({"submitting"})
  BY <1>1, PaidParts DEF PaidOnce, In
<1>4. observed' \subseteq In({"finalized"})'
  BY <1>1, <1>2, PaidParts DEF In, Drawn
<1>5. ASSUME NEW v \in Ids
      PROVE  PaidOnce(v)'
  <2>1. PaidOnce(v)
    BY PaidParts
  <2>2. QED  BY <1>1, <1>2, <1>3, <2>1 DEF PaidOnce
<1>6. \A d \in Calls : calls[d] # NoCall => calls[d].withdrawal \in Ids \ {w}
  BY <1>3, CallRow, PaidParts DEF OutAlone
<1>7. /\ calls'[c] # NoCall /\ calls'[c].at = "paying" /\ calls'[c].withdrawal = w
      /\ \A d \in Calls \ {c} : calls'[d] = calls[d]
  <2>1. [at |-> "paying", key |-> k, withdrawal |-> w] # NoCall
    BY DEF NoCall
  <2>2. QED  BY <1>1, <2>1 DEF TypeOK
<1>8. ASSUME NEW d \in Calls
      PROVE  OutAlone(d)'
  <2>1. OutAlone(d)
    BY PaidParts
  <2>2. CASE d = c
    BY <1>1, <1>2, <1>3, <1>6, <1>7, <2>2 DEF OutAlone
  <2>3. CASE d # c
    BY <1>1, <1>2, <1>6, <1>7, <2>1, <2>3 DEF OutAlone
  <2>4. QED  BY <2>2, <2>3
<1>9. QED  BY <1>4, <1>5, <1>8 DEF Paid, PaidOnce, OutAlone

\* The answer of a provider call, in time or not.
LEMMA PaidCall ==
  ASSUME TypeOK, Paid, NEW c \in Calls, ProviderAccepts(c) \/ CallFails(c)
  PROVE  Paid'
<1>1. calls[c].at = "paying" /\ calls[c] # NoCall /\ UNCHANGED <<withdrawals, observed>>
  BY DEF ProviderAccepts, CallFails, NoCall, rows
<1>2. PICK w \in Ids : w = calls[c].withdrawal
  BY <1>1, CallRow
<1>3. /\ w \in In({"submitting"}) /\ payments[w] = 0 /\ w \notin late
      /\ \A d \in Calls \ {c} : calls[d] # NoCall => calls[d].withdrawal # w
  BY <1>1, <1>2, PaidParts DEF OutAlone
<1>4. Drawn' = Drawn /\ \A S : In(S)' = In(S)
  BY <1>1 DEF In, Drawn
<1>5. PICK at \in {"accepted", "failed"} :
        /\ calls' = [calls EXCEPT ![c].at = at]
        /\ at = "accepted" => payments' = [payments EXCEPT ![w] = @ + 1] /\ late' = late
        /\ at = "failed" => payments' = payments /\ late' \in {late, late \cup {w}}
  BY <1>2 DEF ProviderAccepts, CallFails
<1>6. /\ calls'[c] # NoCall /\ calls'[c].at = at /\ calls'[c].withdrawal = w
      /\ \A d \in Calls \ {c} : calls'[d] = calls[d]
  <2> PICK call \in [at : {"paying", "accepted", "failed"}, key : Keys, withdrawal : Ids] : call = calls[c]
    BY <1>1, CallRow
  <2>1. calls' = [calls EXCEPT ![c] = [call EXCEPT !.at = at]]
    BY <1>5 DEF TypeOK
  <2>2. [call EXCEPT !.at = at].at = at /\ [call EXCEPT !.at = at].withdrawal = w
    BY <1>2
  <2>3. [call EXCEPT !.at = at] # NoCall
    BY <2>2 DEF NoCall
  <2>4. QED  BY <2>1, <2>2, <2>3 DEF TypeOK
<1>7. \A v \in Ids \ {w} : payments'[v] = payments[v] /\ (v \in late' <=> v \in late)
  BY <1>5 DEF TypeOK
<1>8. payments'[w] = (IF at = "accepted" THEN 1 ELSE 0) /\ (w \in late' => at = "failed")
  BY <1>3, <1>5 DEF TypeOK
<1>9. observed' \subseteq In({"finalized"})'
  BY <1>1, <1>4, PaidParts
<1>10. w \in In({"submitting", "uncertain", "finalized"}) /\ w \in Drawn /\ w \notin In({"reserved", "cancelled"})
  BY <1>3 DEF In
<1>11. ASSUME NEW v \in Ids
       PROVE  PaidOnce(v)'
  <2>1. PaidOnce(v)
    BY PaidParts
  <2>2. CASE v = w
    BY <1>4, <1>8, <1>10, <2>2 DEF PaidOnce
  <2>3. CASE v # w
    BY <1>4, <1>7, <2>1, <2>3 DEF PaidOnce
  <2>4. QED  BY <2>2, <2>3
<1>12. ASSUME NEW d \in Calls
       PROVE  OutAlone(d)'
  <2>1. OutAlone(d) /\ (calls[d] # NoCall => calls[d].withdrawal \in Ids)
    BY PaidParts, CallRow
  <2>2. CASE d = c
    BY <1>3, <1>4, <1>5, <1>6, <1>8, <2>2 DEF OutAlone
  <2>3. CASE d # c
    BY <1>2, <1>3, <1>4, <1>6, <1>7, <2>1, <2>3 DEF OutAlone
  <2>4. QED  BY <2>2, <2>3
<1>13. QED  BY <1>9, <1>11, <1>12 DEF Paid, PaidOnce, OutAlone

\* A payment of a withdrawal no provider call is out for, late or by hand.
LEMMA PaidOutside ==
  ASSUME TypeOK, Paid, NEW w \in Ids, PaysLate(w) \/ SendCoins(w)
  PROVE  Paid'
<1>1. UNCHANGED <<withdrawals, observed, calls>>
  BY DEF PaysLate, SendCoins, rows, server
<1>2. payments[w] = 0 /\ w \in In({"submitting", "uncertain", "finalized", "approved"})
  BY PaidParts DEF PaysLate, SendCoins, PaidOnce, In
<1>3. /\ payments' = [payments EXCEPT ![w] = 1] /\ w \notin late'
      /\ late' \subseteq late
  <2>1. CASE PaysLate(w)
    <3>1. payments[w] + 1 = 1
      BY <1>2
    <3>2. payments' = [payments EXCEPT ![w] = 1]
      BY <2>1, <3>1 DEF PaysLate
    <3>3. w \notin late' /\ late' \subseteq late
      BY <2>1 DEF PaysLate
    <3>4. QED  BY <3>2, <3>3
  <2>2. CASE SendCoins(w)
    BY <2>2, PaidParts DEF SendCoins, PaidOnce, In
  <2>3. QED  BY <2>1, <2>2
<1>4. Drawn' = Drawn /\ \A S : In(S)' = In(S)
  BY <1>1 DEF In, Drawn
<1>5. payments'[w] = 1 /\ \A v \in Ids \ {w} : payments'[v] = payments[v]
  BY <1>3 DEF TypeOK
<1>6. observed' \subseteq In({"finalized"})'
  BY <1>1, <1>4, PaidParts
<1>7. w \in Drawn /\ w \notin In({"reserved", "cancelled"})
  BY <1>2 DEF In
<1>8. ASSUME NEW v \in Ids
      PROVE  PaidOnce(v)'
  <2>1. PaidOnce(v)
    BY PaidParts
  <2>2. CASE v = w
    BY <1>3, <1>4, <1>5, <1>7, <2>2 DEF PaidOnce
  <2>3. CASE v # w
    BY <1>3, <1>4, <1>5, <2>1, <2>3 DEF PaidOnce
  <2>4. QED  BY <2>2, <2>3
<1>9. ASSUME NEW c \in Calls
      PROVE  OutAlone(c)'
  <2>1. OutAlone(c) /\ (calls[c] # NoCall => calls[c].withdrawal \in Ids)
    BY PaidParts, CallRow
  <2>2. ASSUME calls[c] # NoCall, calls[c].at = "paying"
        PROVE  calls[c].withdrawal # w
    <3>1. calls[c].withdrawal \notin late /\ calls[c].withdrawal \in In({"submitting"})
      BY <2>1, <2>2 DEF OutAlone
    <3>2. w \in late \/ w \in In({"approved"})
      BY DEF PaysLate, SendCoins
    <3>3. QED  BY <3>1, <3>2 DEF In
  <2>3. QED  BY <1>1, <1>3, <1>4, <1>5, <2>1, <2>2 DEF OutAlone
<1>10. QED  BY <1>6, <1>8, <1>9 DEF Paid, PaidOnce, OutAlone

\* The transaction after the call; no other call is out for its withdrawal.
LEMMA PaidRecord ==
  ASSUME TypeOK, Paid, NEW c \in Calls, RecordSubmission(c) \/ RecordUncertain(c)
  PROVE  Paid'
<1>1. PICK state \in {"submitted", "uncertain"} :
        /\ calls[c].at \in {"accepted", "failed"} /\ (state = "submitted" => calls[c].at = "accepted")
        /\ calls[c].withdrawal \in In({"submitting"})
        /\ withdrawals' = Moves(calls[c].withdrawal, state)
        /\ calls' = [calls EXCEPT ![c] = NoCall] /\ UNCHANGED <<late, payments, observed>>
  BY DEF RecordSubmission, RecordUncertain, outside
<1>2. calls[c] # NoCall /\ state \in State
  BY <1>1 DEF NoCall, State
<1>3. PICK w \in Ids : w = calls[c].withdrawal
  BY <1>2, CallRow
<1>4. w \in Drawn /\ w \in In({"submitting"}) /\ w \notin In({"reserved", "cancelled"})
  BY <1>1, <1>3 DEF In
<1>5. /\ Drawn' = Drawn
      /\ \A T : \A v \in Ids : v \in In(T)' <=> IF v = w THEN state \in T ELSE v \in In(T)
  BY <1>1, <1>2, <1>3, <1>4, MovedRow
<1>6. observed' \subseteq In({"finalized"})'
  <2>1. w \notin In({"finalized"})
    BY <1>4 DEF In
  <2>2. QED  BY <1>1, <1>5, <2>1, PaidParts DEF In, Drawn
<1>7. state = "submitted" => w \notin late
  BY <1>1, <1>2, <1>3, PaidParts DEF OutAlone
<1>8. ASSUME NEW v \in Ids
      PROVE  PaidOnce(v)'
  <2>1. PaidOnce(v)
    BY PaidParts
  <2>2. CASE v = w
    <3>1. payments'[w] <= 1 /\ w \in Drawn' /\ w \notin In({"reserved", "cancelled"})'
      BY <1>1, <1>4, <1>5, <2>1, <2>2 DEF PaidOnce
    <3>2. w \in late' => payments'[w] = 0 /\ w \in In({"submitting", "uncertain", "finalized"})'
      BY <1>1, <1>5, <1>7, <2>1, <2>2 DEF PaidOnce
    <3>3. QED  BY <2>2, <3>1, <3>2 DEF PaidOnce
  <2>3. CASE v # w
    BY <1>1, <1>5, <2>1, <2>3 DEF PaidOnce
  <2>4. QED  BY <2>2, <2>3
<1>9. calls'[c] = NoCall /\ \A d \in Calls \ {c} : calls'[d] = calls[d]
  BY <1>1 DEF TypeOK
<1>10. \A d \in Calls \ {c} : calls[d] # NoCall => calls[d].withdrawal \in Ids \ {w}
  <2>1. \A d \in Calls : calls[d] # NoCall /\ calls[d].withdrawal = w => d = c
    BY <1>2, <1>3, PaidParts DEF OutAlone
  <2>2. QED  BY <2>1, CallRow
<1>11. ASSUME NEW d \in Calls
       PROVE  OutAlone(d)'
  <2>1. OutAlone(d)
    BY PaidParts
  <2>2. QED  BY <1>1, <1>5, <1>9, <1>10, <2>1 DEF OutAlone
<1>12. QED  BY <1>6, <1>8, <1>11 DEF Paid, PaidOnce, OutAlone

\* A restart forgets the calls; what they asked for may still be paid.
LEMMA PaidCrash ==
  ASSUME TypeOK, Paid, Crash
  PROVE  Paid'
<1>1. UNCHANGED <<withdrawals, observed, payments>> /\ calls' = [c \in Calls |-> NoCall]
      /\ late' = late \cup {calls[c].withdrawal : c \in {d \in Calls : calls[d].at = "paying"}}
  BY DEF Crash, rows
<1>2. Drawn' = Drawn /\ \A S : In(S)' = In(S)
  BY <1>1 DEF In, Drawn
<1>3. \A c \in Calls : calls[c].at = "paying" =>
        /\ payments[calls[c].withdrawal] = 0 /\ calls[c].withdrawal \in In({"submitting"})
  BY PaidParts, CallRow DEF OutAlone, NoCall
<1>4. ASSUME NEW w \in Ids
      PROVE  PaidOnce(w)'
  <2>1. PaidOnce(w)
    BY PaidParts
  <2>2. w \in late' => payments[w] = 0 /\ w \in In({"submitting", "uncertain", "finalized"})
    BY <1>1, <1>3, <2>1 DEF PaidOnce, In
  <2>3. QED  BY <1>1, <1>2, <2>1, <2>2 DEF PaidOnce
<1>5. observed' \subseteq In({"finalized"})'
  BY <1>1, <1>2, PaidParts
<1>6. \A c \in Calls : OutAlone(c)'
  BY <1>1 DEF OutAlone
<1>7. QED  BY <1>4, <1>5, <1>6 DEF Paid, PaidOnce, OutAlone

\* Every step keeps payments to at most one for each withdrawal.
LEMMA PaidKept ==
  ASSUME TypeOK, Paid, Next
  PROVE  Paid'
<1>1. ASSUME NEW w \in Ids, CancelWithdrawal(w)
      PROVE  Paid'
  <2>1. w \in In({"reserved"}) /\ w \notin In({"submitting"}) /\ w \notin In({"finalized"}) /\ w \in Drawn
        /\ withdrawals' = Moves(w, "cancelled") /\ UNCHANGED <<calls, late, payments, observed>>
    BY <1>1 DEF CancelWithdrawal, In, server, outside
  <2>2. payments[w] = 0 /\ w \notin late
    BY <2>1, PaidParts DEF PaidOnce, In
  <2>3. observed' \subseteq In({"finalized"})'
    BY <2>1, MovedRow, PaidParts DEF In, Drawn, State
  <2>4. QED  BY <2>1, <2>2, <2>3, PaidMove DEF State
<1>2. ASSUME NEW w \in Ids, CompleteNgnPayout(w) \/ FinalizeWithdrawal(w)
      PROVE  Paid'
  <2>1. /\ w \in In({"submitted", "uncertain"}) /\ w \notin In({"submitting"}) /\ w \in Drawn
        /\ withdrawals' = Moves(w, "finalized") /\ UNCHANGED <<calls, late, payments>>
        /\ observed' \subseteq observed \cup {w}
    BY <1>2 DEF CompleteNgnPayout, FinalizeWithdrawal, Settle, In, server, outside
  <2>2. \A v \in Ids : v \in In({"finalized"})' <=> v = w \/ v \in In({"finalized"})
    BY <2>1, MovedRow DEF State
  <2>3. observed' \subseteq In({"finalized"})'
    BY <2>1, <2>2, PaidParts DEF In, Drawn
  <2>4. QED  BY <2>1, <2>3, PaidMove DEF State
<1>3. ASSUME NEW w \in Ids, \/ SubmitWithdrawal(w) \/ MarkWithdrawalUncertain(w)
                            \/ ApproveCryptoWithdrawal(w) \/ RecordCryptoSubmission(w)
      PROVE  Paid'
  <2>1. PICK state \in {"submitted", "uncertain", "approved"} : withdrawals' = Moves(w, state)
    BY <1>3 DEF SubmitWithdrawal, MarkWithdrawalUncertain, ApproveCryptoWithdrawal,
                RecordCryptoSubmission
  <2>2. /\ w \in In({"reserved", "submitted", "approved"}) /\ w \in Drawn
        /\ w \notin In({"submitting"}) /\ w \notin In({"finalized"})
        /\ w \notin In({"submitting", "uncertain", "finalized"})
        /\ UNCHANGED <<calls, late, payments, observed>>
    BY <1>3 DEF SubmitWithdrawal, MarkWithdrawalUncertain, ApproveCryptoWithdrawal,
                RecordCryptoSubmission, In, server, outside
  <2>3. w \notin late
    BY <2>2, PaidParts DEF PaidOnce
  <2>4. observed' \subseteq In({"finalized"})'
    BY <2>1, <2>2, MovedRow, PaidParts DEF In, Drawn, State
  <2>5. QED  BY <2>1, <2>2, <2>3, <2>4, PaidMove DEF State
<1>4. ASSUME NEW w \in Ids, NEW k \in Keys, AnswerState(k, w)
      PROVE  Paid'
  BY <1>4 DEF AnswerState, Paid, In, Drawn, rows, outside
<1>5. QED
  BY <1>1, <1>2, <1>3, <1>4, PaidRequest, PaidClaim, PaidCall, PaidOutside, PaidRecord, PaidCrash
  DEF Next, Call

(***************************************************************************)
(* The invariant.                                                          *)
(***************************************************************************)
LEMMA CustodyInvInit == CustodyInit => CustodyInv
<1> SUFFICES ASSUME CustodyInit PROVE CustodyInv
  OBVIOUS
<1>1. CustodyTypeOK
  BY TypeInit
<1>2. Drawn = {} /\ Opened = {} /\ \A S : In(S) = {} /\ InState(S) = {}
  BY DEF CustodyInit, Init, Drawn, Opened, In, InState
<1>3. /\ \A o \in Owners : \A w \in Ids : Owed(o)[w] = 0
      /\ \A w \in Ids : Gone[w] = 0
      /\ \A i \in Intents : Came[i] = 0
      /\ \A o \in Owners : Claim[o] = 0
  BY <1>2 DEF Owed, Gone, Came, Claim, CustodyInit, Init
<1>4. /\ \A o \in Owners : SumFunctionOnSet(Owed(o), Ids) = 0
      /\ SumFunctionOnSet(Gone, Ids) = 0 /\ SumFunctionOnSet(Came, Intents) = 0
      /\ SumFunctionOnSet(Claim, Owners) = 0
  BY <1>3, SumZero, IdsAssumption, IntentsAssumption, OwnersAssumption
<1>5. Ledger
  BY <1>4 DEF Ledger, CustodyInit, Init
<1>6. Deposited
  BY <1>2 DEF Deposited
<1>7. QED  BY <1>1, <1>5, <1>6, PaidInit DEF CustodyInv

\* The invariant is inductive.
LEMMA CustodyInvKept == CustodyInv /\ [CustodyNext]_custodyVars => CustodyInv'
<1> SUFFICES ASSUME CustodyInv, [CustodyNext]_custodyVars PROVE CustodyInv'
  OBVIOUS
<1>1. CASE CustodyNext
  <2>1. CASE Next /\ UNCHANGED funding
    BY <1>1, <2>1, CustodyTypes, LedgerKept, DepositsKept, PaidKept DEF CustodyInv, CustodyTypeOK
  <2>2. CASE ~ (Next /\ UNCHANGED funding)
    <3>1. UNCHANGED <<withdrawals, observed, calls, late, payments>>
      BY <1>1, <2>2 DEF CustodyNext, CreateDepositIntent, Lapse, ApplyPartnerDeposit, Confirms,
                        FinalizeDeposit, vars, rows, server, outside
    <3>2. Paid'
      BY <3>1 DEF CustodyInv, Paid, In, Drawn
    <3>3. QED  BY <1>1, <3>2, CustodyTypes, LedgerKept, DepositsKept DEF CustodyInv
  <2>3. QED  BY <2>1, <2>2
<1>2. CASE UNCHANGED custodyVars
  <2>1. CustodyTypeOK'
    BY <1>2 DEF CustodyInv, CustodyTypeOK, TypeOK, Opened, custodyVars, funding, vars, rows, ledger,
                server, outside
  <2>2. Ledger'
    <3>1. Quiet
      BY <1>2, QuietRows DEF custodyVars, vars, rows
    <3>2. QED  BY <1>2, <3>1, QuietLedger DEF CustodyInv, Quiet, custodyVars, funding
  <2>3. Deposited'
    BY <1>2, QuietDeposits DEF CustodyInv, custodyVars, funding
  <2>4. Paid'
    BY <1>2 DEF CustodyInv, Paid, In, Drawn, custodyVars, vars, rows, server, outside
  <2>5. QED  BY <2>1, <2>2, <2>3, <2>4 DEF CustodyInv
<1>3. QED  BY <1>1, <1>2

\* The invariant holds.
LEMMA CustodyInvHolds == CustodySpec => []CustodyInv
BY CustodyInvInit, CustodyInvKept, PTL DEF CustodySpec

(* Every variable of Custody keeps its type: no step of a deposit, a        *)
(* withdrawal or a restart takes a wallet or the custody account below zero. *)
THEOREM CustodyTypeCorrect == CustodySpec => []CustodyTypeOK
BY CustodyInvHolds, PTL DEF CustodyInv

(***************************************************************************)
(* Custody implements Payouts.                                             *)
(***************************************************************************)
Requests == [w \in Ids |-> Promised(w)]

\* What is promised of a withdrawal, from the state of its row.
LEMMA PromisedRow ==
  ASSUME TypeOK, NEW w \in Ids
  PROVE  /\ w \notin Drawn => Promised(w) = Promise!None
         /\ w \in In(OpenStates) => Promised(w) = [owner |-> Owner(w), amount |-> Amount(w), status |-> "asked"]
         /\ w \in In({"cancelled"}) => Promised(w) = [owner |-> Owner(w), amount |-> Amount(w), status |-> "returned"]
         /\ w \in In({"finalized"}) => Promised(w) = [owner |-> Owner(w), amount |-> Amount(w), status |-> "closed"]
         /\ w \in Drawn => Promised(w) # Promise!None
         /\ w \in Drawn => w \in In(OpenStates) \/ w \in In({"cancelled"}) \/ w \in In({"finalized"})
<1>1. w \notin Drawn => Promised(w) = Promise!None
  BY DEF Promised, Promise!None
<1>2. w \in In(OpenStates) => Promised(w) = [owner |-> Owner(w), amount |-> Amount(w), status |-> "asked"]
  BY DEF Promised, In, OpenStates
<1>3. w \in In({"cancelled"}) => Promised(w) = [owner |-> Owner(w), amount |-> Amount(w), status |-> "returned"]
  BY DEF Promised, In
<1>4. w \in In({"finalized"}) => Promised(w) = [owner |-> Owner(w), amount |-> Amount(w), status |-> "closed"]
  BY DEF Promised, In
<1>5. w \in Drawn => w \in In(OpenStates) \/ w \in In({"cancelled"}) \/ w \in In({"finalized"})
  BY DrawnRow DEF In, OpenStates, State
<1>6. ASSUME NEW status \in {"asked", "returned", "closed"}
      PROVE  [owner |-> Owner(w), amount |-> Amount(w), status |-> status] # Promise!None
  <2>1. [owner |-> Owner(w), amount |-> Amount(w), status |-> status].status # "none"
    OBVIOUS
  <2>2. Promise!None.status = "none"
    BY DEF Promise!None
  <2>3. QED  BY <2>1, <2>2
<1>7. w \in Drawn => Promised(w) # Promise!None
  BY <1>2, <1>3, <1>4, <1>5, <1>6
<1>8. QED  BY <1>1, <1>2, <1>3, <1>4, <1>5, <1>7

\* The promise as the sets of rows tell it, before and after a step.
LEMMA PromisedSets ==
  ASSUME NEW w \in Ids
  PROVE  /\ Promised(w) = IF w \notin Drawn THEN Promise!None
                          ELSE [owner |-> Owner(w), amount |-> Amount(w), status |->
                                  IF w \in In({"cancelled"}) THEN "returned"
                                  ELSE IF w \in In({"finalized"}) THEN "closed" ELSE "asked"]
         /\ Promised(w)' = IF w \notin Drawn' THEN Promise!None
                           ELSE [owner |-> Owner(w)', amount |-> Amount(w)', status |->
                                  IF w \in In({"cancelled"})' THEN "returned"
                                  ELSE IF w \in In({"finalized"})' THEN "closed" ELSE "asked"]
<1>1. Promised(w) = IF w \notin Drawn THEN Promise!None
                    ELSE [owner |-> Owner(w), amount |-> Amount(w), status |->
                            IF w \in In({"cancelled"}) THEN "returned"
                            ELSE IF w \in In({"finalized"}) THEN "closed" ELSE "asked"]
  BY DEF Promised, In, Promise!None
<1>2. Promised(w)' = IF w \notin Drawn' THEN Promise!None
                     ELSE [owner |-> Owner(w)', amount |-> Amount(w)', status |->
                            IF w \in In({"cancelled"})' THEN "returned"
                            ELSE IF w \in In({"finalized"})' THEN "closed" ELSE "asked"]
  BY DEF Promised, In, Promise!None
<1>3. QED  BY <1>1, <1>2

\* A quiet step promises nothing new.
LEMMA QuietPromise == Quiet => Requests' = Requests
<1> SUFFICES ASSUME Quiet, NEW w \in Ids PROVE Promised(w)' = Promised(w)
  BY DEF Requests
<1>1. QED  BY PromisedSets DEF Quiet

\* A payment is the only thing a step may do to payments, and only once.
LEMMA PaymentSteps ==
  ASSUME TypeOK, Paid, Next
  PROVE  \/ payments' = payments
         \/ \E w \in Drawn : /\ payments[w] = 0 /\ payments' = [payments EXCEPT ![w] = 1]
                             /\ w \notin In({"cancelled"}) /\ UNCHANGED <<withdrawals, ledger>>
<1>1. ASSUME NEW w \in Ids, PaysLate(w) \/ SendCoins(w)
      PROVE  \E x \in Drawn : /\ payments[x] = 0 /\ payments' = [payments EXCEPT ![x] = 1]
                              /\ x \notin In({"cancelled"}) /\ UNCHANGED <<withdrawals, ledger>>
  <2>1. payments[w] = 0 /\ w \in Drawn /\ w \notin In({"cancelled"}) /\ UNCHANGED <<withdrawals, ledger>>
    BY <1>1, PaidParts DEF PaysLate, SendCoins, PaidOnce, In, rows
  <2>2. payments[w] + 1 = 1
    BY <2>1
  <2>3. payments' = [payments EXCEPT ![w] = 1]
    BY <1>1, <2>2 DEF PaysLate, SendCoins
  <2>4. QED  BY <2>1, <2>3
<1>2. ASSUME NEW c \in Calls, ProviderAccepts(c)
      PROVE  \E x \in Drawn : /\ payments[x] = 0 /\ payments' = [payments EXCEPT ![x] = 1]
                              /\ x \notin In({"cancelled"}) /\ UNCHANGED <<withdrawals, ledger>>
  <2> PICK w : w = calls[c].withdrawal
    OBVIOUS
  <2>1. calls[c].at = "paying" /\ calls[c] # NoCall
    BY <1>2 DEF ProviderAccepts, NoCall
  <2>2. w \in In({"submitting"}) /\ payments[w] = 0
    BY <2>1, PaidParts DEF OutAlone
  <2>3. w \in Drawn /\ w \notin In({"cancelled"}) /\ payments[w] + 1 = 1
    BY <2>2 DEF In
  <2>4. payments' = [payments EXCEPT ![w] = 1] /\ UNCHANGED <<withdrawals, ledger>>
    BY <1>2, <2>3 DEF ProviderAccepts, rows
  <2>5. QED  BY <2>2, <2>3, <2>4
<1>3. ASSUME NEW w \in Ids, NEW o \in Owners, NEW rail \in Rails, NEW amount \in Amounts,
             RequestWithdrawal(w, o, rail, amount)
      PROVE  payments' = payments
  BY <1>3 DEF RequestWithdrawal, outside
<1>4. ASSUME NEW w \in Ids, \/ CancelWithdrawal(w) \/ CompleteNgnPayout(w) \/ FinalizeWithdrawal(w)
                            \/ SubmitWithdrawal(w) \/ MarkWithdrawalUncertain(w)
                            \/ ApproveCryptoWithdrawal(w) \/ RecordCryptoSubmission(w)
      PROVE  payments' = payments
  BY <1>4 DEF CancelWithdrawal, CompleteNgnPayout, FinalizeWithdrawal, Settle, SubmitWithdrawal,
              MarkWithdrawalUncertain, ApproveCryptoWithdrawal, RecordCryptoSubmission, outside
<1>5. ASSUME NEW w \in Ids, NEW k \in Keys, AnswerState(k, w) \/ \E c \in Calls : ClaimPayout(c, k, w)
      PROVE  payments' = payments
  BY <1>5 DEF AnswerState, ClaimPayout, outside
<1>6. ASSUME NEW c \in Calls, CallFails(c) \/ RecordSubmission(c) \/ RecordUncertain(c)
      PROVE  payments' = payments
  BY <1>6 DEF CallFails, RecordSubmission, RecordUncertain, outside
<1>7. CASE Crash
  BY <1>7 DEF Crash
<1>8. QED  BY <1>1, <1>2, <1>3, <1>4, <1>5, <1>6, <1>7 DEF Next, Call

(***************************************************************************)
(* Each step of Custody is a step of Payouts, or changes nothing there.    *)
(***************************************************************************)
LEMMA PromiseInit == CustodyInit => Promise!Init
<1> SUFFICES ASSUME CustodyInit PROVE Promise!Init
  OBVIOUS
<1>1. Drawn = {}
  BY DEF CustodyInit, Init, Drawn
<1>2. Requests = [w \in Ids |-> Promise!None]
  BY <1>1, PromisedSets DEF Requests
<1>3. QED  BY <1>2 DEF CustodyInit, Init, Promise!Init, Requests

\* A request is an Ask of Payouts.
LEMMA AsksPromise ==
  ASSUME TypeOK, NEW w \in Ids, NEW o \in Owners, NEW rail \in Rails, NEW amount \in Amounts,
         RequestWithdrawal(w, o, rail, amount)
  PROVE  Promise!Ask(w, o, amount)
<1> PICK row : row = [owner |-> o, rail |-> rail, amount |-> amount, state |-> "reserved"]
  OBVIOUS
<1>1. w \notin Drawn /\ withdrawals' = [withdrawals EXCEPT ![w] = row] /\ payments' = payments
  BY DEF RequestWithdrawal, outside
<1>2. \A v \in Ids : withdrawals'[v] = IF v = w THEN row ELSE withdrawals[v]
  BY <1>1 DEF TypeOK
<1>3. row # NoWithdrawal /\ row.state = "reserved" /\ row.owner = o /\ row.amount = amount
  BY DEF NoWithdrawal
<1>4. Requests[w] = Promise!None
  BY <1>1, PromisedSets DEF Requests
<1>5. Promised(w)' = [status |-> "asked", owner |-> o, amount |-> amount]
  BY <1>2, <1>3 DEF Promised, Drawn, Owner, Amount
<1>6. \A v \in Ids \ {w} : Promised(v)' = Promised(v)
  BY <1>2 DEF Promised, Drawn, Owner, Amount
<1>7. Requests' = [Requests EXCEPT ![w] = [status |-> "asked", owner |-> o, amount |-> amount]]
  BY <1>5, <1>6 DEF Requests
<1>8. QED  BY <1>1, <1>4, <1>7 DEF RequestWithdrawal, Promise!Ask, Requests

\* What closing a withdrawal makes of its promise.
LEMMA ClosedPromise ==
  ASSUME TypeOK, NEW w \in In(OpenStates), NEW state \in {"cancelled", "finalized"},
         withdrawals' = Moves(w, state)
  PROVE  /\ w \in Ids /\ w \in Drawn
         /\ Requests[w] = [owner |-> Owner(w), amount |-> Amount(w), status |-> "asked"]
         /\ Requests' = [Requests EXCEPT ![w].status =
                           IF state = "cancelled" THEN "returned" ELSE "closed"]
<1>1. w \in Ids /\ w \in Drawn /\ state \in State
  BY DEF In, Drawn, State
<1>2. /\ Drawn' = Drawn
      /\ \A v \in Ids : Owner(v)' = Owner(v) /\ Amount(v)' = Amount(v)
      /\ \A S : \A v \in Ids : v \in In(S)' <=> IF v = w THEN state \in S ELSE v \in In(S)
  BY <1>1, MovedRow
<1>3. Requests[w] = [owner |-> Owner(w), amount |-> Amount(w), status |-> "asked"]
  BY <1>1, PromisedRow DEF Requests
<1>4. Promised(w)' = [owner |-> Owner(w), amount |-> Amount(w), status |->
                        IF state = "cancelled" THEN "returned" ELSE "closed"]
  BY <1>1, <1>2, PromisedSets
<1>5. \A v \in Ids \ {w} : Promised(v)' = Promised(v)
  BY <1>2, PromisedSets
<1>6. Requests' = [Requests EXCEPT ![w] = Promised(w)']
  BY <1>1, <1>5 DEF Requests
<1>7. [Requests[w] EXCEPT !.status = IF state = "cancelled" THEN "returned" ELSE "closed"] = Promised(w)'
  BY <1>3, <1>4
<1>8. QED  BY <1>1, <1>3, <1>6, <1>7

\* A cancellation is a Return.
LEMMA ReturnsPromise ==
  ASSUME TypeOK, Paid, NEW w \in Ids, CancelWithdrawal(w)
  PROVE  Promise!Return(w)
<1>1. w \in In(OpenStates) /\ w \in In({"reserved"}) /\ withdrawals' = Moves(w, "cancelled")
  BY DEF CancelWithdrawal, In, OpenStates, State
<1>2. /\ Requests[w] = [owner |-> Owner(w), amount |-> Amount(w), status |-> "asked"]
      /\ Requests' = [Requests EXCEPT ![w].status = "returned"]
  BY <1>1, ClosedPromise
<1>3. Requests[w] # Promise!None /\ Requests[w].status = "asked"
        /\ Requests[w].owner = Owner(w) /\ Requests[w].amount = Amount(w)
  BY <1>1, <1>2, PromisedRow DEF In, Requests
<1>4. payments[w] = 0
  BY <1>1, PaidParts DEF PaidOnce, In
<1>5. available' = [available EXCEPT ![Requests[w].owner] = @ + Requests[w].amount]
  BY <1>3 DEF CancelWithdrawal
<1>6. escrow' = escrow /\ payments' = payments
  BY DEF CancelWithdrawal, outside
<1>7. QED  BY <1>2, <1>3, <1>4, <1>5, <1>6 DEF Promise!Return, Promise!Request, Requests

\* A settlement is a Close.
LEMMA ClosesPromise ==
  ASSUME TypeOK, Ledger, NEW w \in In(OpenStates), Settle(w)
  PROVE  w \in Ids /\ Promise!Close(w)
<1>1. withdrawals' = Moves(w, "finalized")
  BY DEF Settle
<1>2. /\ w \in Ids /\ w \in Drawn
      /\ Requests[w] = [owner |-> Owner(w), amount |-> Amount(w), status |-> "asked"]
      /\ Requests' = [Requests EXCEPT ![w].status = "closed"]
  BY <1>1, ClosedPromise
<1>3. Requests[w] # Promise!None /\ Requests[w].status = "asked" /\ Requests[w].amount = Amount(w)
  BY <1>2, PromisedRow DEF Requests
<1>4. escrow >= Requests[w].amount
  BY <1>3, OwedCovered DEF TypeOK
<1>5. escrow' = escrow - Requests[w].amount /\ available' = available /\ payments' = payments
  BY <1>3 DEF Settle, outside
<1>6. QED  BY <1>2, <1>3, <1>4, <1>5 DEF Promise!Close, Promise!Request, Requests

\* A payment that leaves is a Send.
LEMMA SendsPromise ==
  ASSUME TypeOK, NEW w \in Drawn, payments[w] = 0, payments' = [payments EXCEPT ![w] = 1],
         w \notin In({"cancelled"}), UNCHANGED <<withdrawals, ledger>>
  PROVE  w \in Ids /\ Promise!Send(w)
<1>1. w \in Ids /\ Requests' = Requests
  BY QuietRows, QuietPromise DEF Drawn
<1>2. Requests[w] # Promise!None /\ Requests[w].status \in {"asked", "closed"}
  BY <1>1, PromisedRow DEF Requests
<1>3. QED  BY <1>1, <1>2 DEF Promise!Send, Promise!Request, Requests, ledger

\* A final deposit is a Deposit.
LEMMA DepositsPromise ==
  ASSUME CustodyTypeOK, NEW i \in Intents, NEW amount \in Targets, FinalizeDeposit(i, amount)
  PROVE  \E o \in Owners : Promise!Deposit(o, amount)
<1>1. i \in Opened /\ UNCHANGED <<rows, payments>>
  BY DEF FinalizeDeposit, InState, outside
<1>2. intents[i].owner \in Owners
  BY <1>1, OpenedRow
<1>3. Requests' = Requests
  BY <1>1 DEF Requests, Promised, Drawn, Owner, Amount, rows
<1>4. Promise!Deposit(intents[i].owner, amount)
  BY <1>1, <1>3 DEF FinalizeDeposit, Promise!Deposit, Requests
<1>5. QED  BY <1>2, <1>4

\* Every step is one of Payouts, or a stutter.
LEMMA PromiseStep ==
  ASSUME CustodyInv, [CustodyNext]_custodyVars
  PROVE  [Promise!Next]_(Promise!vars)
<1>1. CustodyTypeOK /\ TypeOK /\ Ledger /\ Paid
  BY DEF CustodyInv, CustodyTypeOK
<1>2. ASSUME Quiet, payments' = payments
      PROVE  UNCHANGED Promise!vars
  BY <1>2, QuietPromise DEF Quiet, ledger, Promise!vars, Requests
<1>3. CASE Next /\ UNCHANGED funding
  <2>1. CASE Quiet
    <3>1. CASE payments' = payments
      BY <1>2, <2>1, <3>1
    <3>2. CASE payments' # payments
      BY <1>1, <1>3, <3>2, PaymentSteps, SendsPromise DEF Promise!Next
    <3>3. QED  BY <3>1, <3>2
  <2>2. ASSUME NEW w \in Ids, NEW o \in Owners, NEW rail \in Rails, NEW amount \in Amounts,
               RequestWithdrawal(w, o, rail, amount)
        PROVE  Promise!Next
    <3>1. Promise!Ask(w, o, amount) /\ amount \in Amounts \cup Targets
      BY <1>1, <2>2, AsksPromise
    <3>2. QED  BY <3>1 DEF Promise!Next
  <2>3. ASSUME NEW w \in Ids, CancelWithdrawal(w)
        PROVE  Promise!Next
    BY <1>1, <2>3, ReturnsPromise DEF Promise!Next
  <2>4. ASSUME NEW w \in In(OpenStates), Settle(w)
        PROVE  Promise!Next
    BY <1>1, <2>4, ClosesPromise DEF Promise!Next
  <2>5. QED  BY <1>1, <1>3, <2>1, <2>2, <2>3, <2>4, NextKinds
<1>4. ASSUME NEW i \in Intents, NEW amount \in Targets, FinalizeDeposit(i, amount)
      PROVE  Promise!Next
  <2>1. PICK o \in Owners : Promise!Deposit(o, amount)
    BY <1>1, <1>4, DepositsPromise
  <2>2. QED  BY <2>1 DEF Promise!Next
<1>5. CASE UNCHANGED vars
  <2>1. Quiet /\ payments' = payments
    BY <1>5, QuietRows DEF vars, rows, outside
  <2>2. QED  BY <1>2, <2>1
<1>6. QED
  BY <1>3, <1>4, <1>5 DEF CustodyNext, CreateDepositIntent, Lapse, ApplyPartnerDeposit, Confirms,
                          custodyVars

(* Withdrawals keep the promise of Payouts for any number of withdrawals,   *)
(* calls, keys, deposits and restarts: each step of Custody is a step of    *)
(* Payouts or leaves what Payouts sees alone.                               *)
THEOREM PayoutsImplemented == CustodySpec => ImplementsPayouts
<1>1. CustodyInit => Promise!Init
  BY PromiseInit
<1>2. CustodyInv /\ [CustodyNext]_custodyVars => [Promise!Next]_(Promise!vars)
  BY PromiseStep
<1>3. QED  BY <1>1, <1>2, CustodyInvHolds, PTL DEF CustodySpec, ImplementsPayouts, Promise!Spec

(***************************************************************************)
(* The reconciler.  Its totals are sums over a set of an expression; each  *)
(* is the sum of a function with that expression's values on the set.      *)
(***************************************************************************)
LEMMA MinorSum ==
  ASSUME NEW S, NEW f, \A w \in S : f[w] = Amount(w)
  PROVE  Minor(S) = SumFunctionOnSet(f, S)
<1> DEFINE D(s) == s = [T \in SUBSET S |-> IF T = {} THEN 0
                          ELSE Amount(Pick(T)) + s[T \ {Pick(T)}]]
           E(s) == Defines(s, f, S)
<1>1. Minor(S) = (CHOOSE s : D(s))[S]
  BY DEF Minor, Amount, MapThenSumSet, MapThenFoldSet, Pick
<1>2. SumFunctionOnSet(f, S) = (CHOOSE s : E(s))[S]
  BY SumDef
<1>3. \A T \in SUBSET S : T # {} => f[Pick(T)] = Amount(Pick(T))
  BY PickIn
<1>4. ASSUME NEW s PROVE D(s) <=> E(s)
  BY <1>3 DEF Defines
<1> HIDE DEF D, E
<1>5. (CHOOSE s : D(s)) = (CHOOSE s : E(s))
  BY <1>4
<1>6. QED  BY <1>1, <1>2, <1>5

\* The totals of the reconciler as sums of functions: deposits seen on the chain,
LEMMA ChainSum ==
  ASSUME NEW f, \A i \in Opened : f[i] = intents[i].observation
  PROVE  ChainDeposits = SumFunctionOnSet(f, Opened)
<1> DEFINE D(s) == s = [T \in SUBSET Opened |-> IF T = {} THEN 0
                          ELSE intents[Pick(T)].observation + s[T \ {Pick(T)}]]
           E(s) == Defines(s, f, Opened)
<1>1. ChainDeposits = (CHOOSE s : D(s))[Opened]
  BY DEF ChainDeposits, Total, MapThenSumSet, MapThenFoldSet, Pick
<1>2. SumFunctionOnSet(f, Opened) = (CHOOSE s : E(s))[Opened]
  BY SumDef
<1>3. \A T \in SUBSET Opened : T # {} => f[Pick(T)] = intents[Pick(T)].observation
  BY PickIn
<1>4. ASSUME NEW s PROVE D(s) <=> E(s)
  BY <1>3 DEF Defines
<1> HIDE DEF D, E
<1>5. (CHOOSE s : D(s)) = (CHOOSE s : E(s))
  BY <1>4
<1>6. QED  BY <1>1, <1>2, <1>5

\* deposits the partner reported,
LEMMA PartnerSum ==
  ASSUME NEW f, \A i \in Opened : f[i] = intents[i].partner
  PROVE  PartnerTotal = SumFunctionOnSet(f, Opened)
<1> DEFINE D(s) == s = [T \in SUBSET Opened |-> IF T = {} THEN 0
                          ELSE intents[Pick(T)].partner + s[T \ {Pick(T)}]]
           E(s) == Defines(s, f, Opened)
<1>1. PartnerTotal = (CHOOSE s : D(s))[Opened]
  BY DEF PartnerTotal, Total, MapThenSumSet, MapThenFoldSet, Pick
<1>2. SumFunctionOnSet(f, Opened) = (CHOOSE s : E(s))[Opened]
  BY SumDef
<1>3. \A T \in SUBSET Opened : T # {} => f[Pick(T)] = intents[Pick(T)].partner
  BY PickIn
<1>4. ASSUME NEW s PROVE D(s) <=> E(s)
  BY <1>3 DEF Defines
<1> HIDE DEF D, E
<1>5. (CHOOSE s : D(s)) = (CHOOSE s : E(s))
  BY <1>4
<1>6. QED  BY <1>1, <1>2, <1>5

\* deposits posted to wallets,
LEMMA PostedSum ==
  ASSUME NEW f, NEW S, S = InState({"reconciled_available"}), \A i \in S : f[i] = intents[i].target
  PROVE  Posted = SumFunctionOnSet(f, S)
<1> DEFINE D(s) == s = [T \in SUBSET S |-> IF T = {} THEN 0
                          ELSE intents[Pick(T)].target + s[T \ {Pick(T)}]]
           E(s) == Defines(s, f, S)
<1>1. Posted = (CHOOSE s : D(s))[S]
  BY DEF Posted, Total, MapThenSumSet, MapThenFoldSet, Pick
<1>2. SumFunctionOnSet(f, S) = (CHOOSE s : E(s))[S]
  BY SumDef
<1>3. \A T \in SUBSET S : T # {} => f[Pick(T)] = intents[Pick(T)].target
  BY PickIn
<1>4. ASSUME NEW s PROVE D(s) <=> E(s)
  BY <1>3 DEF Defines
<1> HIDE DEF D, E
<1>5. (CHOOSE s : D(s)) = (CHOOSE s : E(s))
  BY <1>4
<1>6. QED  BY <1>1, <1>2, <1>5

\* and what users may claim.
LEMMA ClaimsSum ==
  ASSUME NEW f, \A o \in Owners : f[o] = available[o] + pending[o]
  PROVE  Claims = SumFunctionOnSet(f, Owners)
<1> DEFINE D(s) == s = [T \in SUBSET Owners |-> IF T = {} THEN 0
                          ELSE (available[Pick(T)] + pending[Pick(T)]) + s[T \ {Pick(T)}]]
           E(s) == Defines(s, f, Owners)
<1>1. Claims = (CHOOSE s : D(s))[Owners]
  BY DEF Claims, Total, MapThenSumSet, MapThenFoldSet, Pick
<1>2. SumFunctionOnSet(f, Owners) = (CHOOSE s : E(s))[Owners]
  BY SumDef
<1>3. \A T \in SUBSET Owners : T # {} => f[Pick(T)] = (available[Pick(T)] + pending[Pick(T)])
  BY PickIn
<1>4. ASSUME NEW s PROVE D(s) <=> E(s)
  BY <1>3 DEF Defines
<1> HIDE DEF D, E
<1>5. (CHOOSE s : D(s)) = (CHOOSE s : E(s))
  BY <1>4
<1>6. QED  BY <1>1, <1>2, <1>5

\* The totals of the reconciler, as sums over all intents and withdrawals.
Seen == [w \in Ids |-> IF w \in observed THEN Amount(w) ELSE 0]

\* What the invariant makes of each total.
LEMMA Totals ==
  ASSUME CustodyInv
  PROVE  /\ ChainDeposits = SumFunctionOnSet(Came, Intents)
         /\ Posted = SumFunctionOnSet(Came, Intents)
         /\ PartnerTotal \in Int /\ PartnerTotal >= SumFunctionOnSet(Came, Intents)
         /\ ChainWithdrawals = SumFunctionOnSet(Seen, Ids)
         /\ Claims = escrow
<1>1. CustodyTypeOK /\ Deposited /\ Ledger /\ Paid
  BY DEF CustodyInv
<1>2. \A i \in Intents : Came[i] \in Nat
  BY <1>1, Summands
<1>3. ChainDeposits = SumFunctionOnSet(Came, Intents)
  <2> DEFINE f == [i \in Opened |-> intents[i].observation]
  <2>1. \A i \in Opened : f[i] \in Int /\ Came[i] = f[i]
    BY <1>1, OpenedRow DEF Deposited, Came, InState, Opened
  <2>2. \A i \in Intents \ Opened : Came[i] = 0
    BY DEF Came, InState
  <2>3. SumFunctionOnSet(Came, Intents) = SumFunctionOnSet(f, Opened)
    BY <2>1, <2>2, SumRestrict, IntentsAssumption DEF Opened
  <2>4. ChainDeposits = SumFunctionOnSet(f, Opened)
    BY ChainSum
  <2>5. QED  BY <2>3, <2>4
<1>4. Posted = SumFunctionOnSet(Came, Intents)
  <2> PICK S : S = InState({"reconciled_available"})
    OBVIOUS
  <2> DEFINE f == [i \in S |-> intents[i].target]
  <2>1. S \subseteq Intents
    BY DEF InState, Opened
  <2>2. \A i \in S : f[i] \in Int /\ Came[i] = f[i]
    BY <1>2, <2>1 DEF Came
  <2>3. \A i \in Intents \ S : Came[i] = 0
    BY DEF Came
  <2>4. SumFunctionOnSet(Came, Intents) = SumFunctionOnSet(f, S)
    BY <2>1, <2>2, <2>3, SumRestrict, IntentsAssumption
  <2>5. Posted = SumFunctionOnSet(f, S)
    BY PostedSum
  <2>6. QED  BY <2>4, <2>5
<1>5. PartnerTotal \in Int /\ PartnerTotal >= SumFunctionOnSet(Came, Intents)
  <2> DEFINE f == [i \in Opened |-> intents[i].partner]
             g == [i \in Intents |-> IF i \in Opened THEN intents[i].partner ELSE 0]
  <2>1. \A i \in Opened : i \in Intents /\ f[i] \in Int /\ g[i] = f[i]
    BY <1>1, OpenedRow DEF Opened
  <2>2. \A i \in Intents : Came[i] <= g[i] /\ g[i] \in Int
    <3>1. ASSUME NEW i \in Opened
          PROVE  Came[i] <= g[i] /\ g[i] \in Int
      BY <1>1, OpenedRow DEF Deposited, Came, InState, Opened
    <3>2. ASSUME NEW i \in Intents \ Opened
          PROVE  Came[i] <= g[i] /\ g[i] \in Int
      BY DEF Came, InState
    <3>3. QED  BY <3>1, <3>2
  <2>3. Opened \in SUBSET Intents /\ \A i \in Intents \ Opened : g[i] = 0
    BY DEF Opened
  <2> HIDE DEF f, g
  <2>4. SumFunctionOnSet(g, Intents) = SumFunctionOnSet(f, Opened)
    BY <2>1, <2>3, SumRestrict, IntentsAssumption
  <2>5. SumFunctionOnSet(Came, Intents) <= SumFunctionOnSet(g, Intents)
    BY <1>2, <2>2, SumLeq, IntentsAssumption
  <2>6. PartnerTotal = SumFunctionOnSet(f, Opened)
    BY PartnerSum DEF f
  <2>7. SumFunctionOnSet(Came, Intents) \in Int /\ SumFunctionOnSet(g, Intents) \in Int
    BY <1>2, <2>2, SumType, IntentsAssumption
  <2>8. QED  BY <2>4, <2>5, <2>6, <2>7
<1>6. ChainWithdrawals = SumFunctionOnSet(Seen, Ids)
  <2> DEFINE f == [w \in observed |-> Amount(w)]
  <2>1. \A w \in observed : w \in Ids /\ f[w] \in Int /\ Seen[w] = f[w]
    BY <1>1, DrawnRow DEF Paid, In, Drawn, Seen, CustodyTypeOK
  <2>2. observed \in SUBSET Ids /\ \A w \in Ids \ observed : Seen[w] = 0
    BY <2>1 DEF Seen
  <2>3. SumFunctionOnSet(Seen, Ids) = SumFunctionOnSet(f, observed)
    BY <2>1, <2>2, SumRestrict, IdsAssumption
  <2>4. Minor(observed) = SumFunctionOnSet(f, observed)
    BY MinorSum
  <2>5. QED  BY <2>3, <2>4 DEF ChainWithdrawals
<1>7. Claims = escrow
  <2>1. Claims = SumFunctionOnSet(Claim, Owners)
    BY ClaimsSum DEF Claim
  <2>2. QED  BY <1>1, <2>1 DEF Ledger
<1>8. QED  BY <1>3, <1>4, <1>5, <1>6, <1>7

\* The chain says less was paid than the books exactly when a payout was closed by hand.
LEMMA ByHandShows ==
  ASSUME CustodyInv
  PROVE  SumFunctionOnSet(Gone, Ids) # SumFunctionOnSet(Seen, Ids)
           <=> In({"finalized"}) \ observed # {}
<1> PICK hand : hand = In({"finalized"}) \ observed
  OBVIOUS
<1> DEFINE rest == [w \in Ids |-> IF w \in hand THEN Amount(w) ELSE 0]
<1>1. CustodyTypeOK /\ TypeOK /\ observed \subseteq In({"finalized"}) /\ hand \subseteq Ids
  BY DEF CustodyInv, CustodyTypeOK, Paid, In, Drawn
<1>2. \A w \in In({"finalized"}) : w \in Ids /\ Amount(w) \in Nat \ {0}
  BY <1>1, DrawnRow DEF In, Drawn
<1>3. \A w \in Ids : Seen[w] \in Nat /\ rest[w] \in Nat /\ Gone[w] = Seen[w] + rest[w]
  BY <1>1, <1>2 DEF Seen, Gone
<1>4. \A w \in hand : rest[w] > 0
  BY <1>1, <1>2
<1>5. \A w \in Ids \ hand : rest[w] = 0
  OBVIOUS
<1> HIDE DEF rest
<1>6. SumFunctionOnSet(Gone, Ids) = SumFunctionOnSet(Seen, Ids) + SumFunctionOnSet(rest, Ids)
  <2>1. \A w \in Ids : Seen[w] \in Int /\ rest[w] \in Int /\ Gone[w] = Seen[w] + rest[w]
    BY <1>3
  <2>2. QED  BY <2>1, SumPlus, IdsAssumption
<1>7. SumFunctionOnSet(Seen, Ids) \in Nat /\ SumFunctionOnSet(rest, Ids) \in Nat
  BY <1>3, SumNat, IdsAssumption
<1>8. CASE hand = {}
  <2>1. SumFunctionOnSet(rest, Ids) = 0
    BY <1>5, <1>8, SumZero, IdsAssumption
  <2>2. QED  BY <1>6, <1>7, <1>8, <2>1
<1>9. CASE hand # {}
  <2>1. PICK w \in Ids : w \in hand
    BY <1>1, <1>9
  <2>2. rest[w] <= SumFunctionOnSet(rest, Ids)
    BY <1>3, SumBound, IdsAssumption
  <2>3. SumFunctionOnSet(rest, Ids) > 0
    BY <1>3, <1>4, <1>7, <2>1, <2>2
  <2>4. QED  BY <1>6, <1>7, <1>9, <2>3
<1>10. QED  BY <1>8, <1>9

\* With these totals the reconciler is right.
LEMMA ReconcilerShows ==
  ASSUME CustodyInv
  PROVE  ReconcilerIsRight
<1>1. escrow = SumFunctionOnSet(Came, Intents) - SumFunctionOnSet(Gone, Ids)
  BY DEF CustodyInv, Ledger
<1>2. /\ SumFunctionOnSet(Came, Intents) \in Int /\ SumFunctionOnSet(Gone, Ids) \in Int
      /\ SumFunctionOnSet(Seen, Ids) \in Int
  <2>1. CustodyTypeOK /\ TypeOK /\ observed \subseteq In({"finalized"})
    BY DEF CustodyInv, CustodyTypeOK, Paid
  <2>2. \A w \in Ids : Seen[w] \in Int
    BY <2>1, DrawnRow DEF Seen, In, Drawn
  <2>3. (\A w \in Ids : Gone[w] \in Int) /\ (\A i \in Intents : Came[i] \in Int)
    BY <2>1, Summands
  <2>4. QED  BY <2>2, <2>3, SumType, IdsAssumption, IntentsAssumption
<1>3. escrow # ChainDeposits - ChainWithdrawals <=> In({"finalized"}) \ observed # {}
  BY <1>1, <1>2, Totals, ByHandShows
<1>4. Posted = ChainDeposits /\ Claims = escrow /\ PartnerTotal >= Posted
  BY Totals
<1>5. PartnerTotal \in Int /\ Posted \in Int
  BY <1>2, Totals
<1>6. "LEDGER_CHAIN_MISMATCH" \in Breaks <=> escrow # ChainDeposits - ChainWithdrawals
  BY DEF Breaks
<1>7. Breaks \subseteq {"LEDGER_CHAIN_MISMATCH", "PARTNER_DEPOSIT_PENDING_CHAIN"}
  BY <1>4, <1>5 DEF Breaks
<1>8. QED  BY <1>3, <1>6, <1>7 DEF ReconcilerIsRight

(* At any moment, for any number of deposits and withdrawals, the reconciler *)
(* opens no exception for what the code posted right, and it opens one for  *)
(* the chain exactly when a payout was taken off the books by hand.         *)
THEOREM ReconcilerTellsTruth == CustodySpec => []ReconcilerIsRight
BY CustodyInvHolds, ReconcilerShows, PTL
=============================================================================
