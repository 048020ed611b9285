------------------------------ MODULE Collections ------------------------------
(***************************************************************************)
(* NGN deposits collected by the payment provider: the request row of each *)
(* deposit, the worker that asks the provider for a one-time account, the  *)
(* sender who pays into it, and the webhook that credits the payment.      *)
(*                                                                         *)
(* Every transaction locks the request row and is one action.  The worker  *)
(* of each server process reads its page before it locks the rows one by   *)
(* one, calls the provider outside any transaction, and may be cut by a    *)
(* restart anywhere; processes overlap during a deployment.  The rail and  *)
(* the asset stay approved.  The provider and the sender are not under     *)
(* src/.                                                                   *)
(***************************************************************************)
EXTENDS Naturals, FiniteSets, FiniteSetsExt

CONSTANTS
  IntentLimit,   \* deposits requested, bounds the runs
  Minimum,       \* least amount of a deposit, 20000 kobo in the code
  Amounts,       \* amounts of money requested and paid
  Transactions,  \* provider transaction identifiers
  EventLimit,    \* completed collections reported, bounds the runs
  Workers,       \* server processes
  PageLimit,     \* requests one run of the worker takes, 20 in the code
  Expiring,      \* deposits whose thirty minutes pass during the run
  MaxCrashes     \* restarts, bounds the runs

ASSUME DepositAmountsAssumption == Amounts \subseteq Nat /\ IsFiniteSet(Amounts) /\ Minimum \in Nat \ {0}
ASSUME LimitsAssumption ==
  /\ IntentLimit \in Nat /\ EventLimit \in Nat /\ MaxCrashes \in Nat
  /\ PageLimit \in Nat \ {0} /\ Expiring \subseteq 1..IntentLimit
ASSUME WorkersAssumption == IsFiniteSet(Workers) /\ IsFiniteSet(Transactions)

VARIABLES
  requests,   \* fiat_collection_requests with the target of the intent, in order of creation
  expired,    \* intents past expires_at
  stale,      \* requests claimed more than five minutes ago
  workers,    \* what each worker is doing, and the rest of the page it read
  asked,      \* createCollection requests that reached the provider
  sent,       \* collection.completed events the provider reports, again and again
  recorded,   \* partner_events of the provider
  userAvailable, \* ledger bucket user_available, all owners together
  escrowAsset, \* ledger bucket escrow_asset
  crashes     \* restarts so far

rows   == <<requests, expired, stale>>
posted == <<recorded, userAvailable, escrowAsset>>
collectVars   == <<rows, workers, asked, sent, posted, crashes>>

Intents == 1..IntentLimit
State   == {"pending", "creating", "available", "uncertain", "settled"}
NoRequest == [state |-> "absent"]
Idle      == [at |-> "idle", page |-> {}]
Event     == [transaction : Transactions, intent : Intents, amount : Amounts]

Created == {i \in Intents : requests[i] # NoRequest}
In(S)   == {i \in Created : requests[i].state \in S}
Moves(i, state) == [requests EXCEPT ![i].state = state]

CollectInit ==
  /\ requests = [i \in Intents |-> NoRequest] /\ expired = {} /\ stale = {}
  /\ workers = [w \in Workers |-> Idle]
  /\ asked = [i \in Intents |-> 0] /\ sent = {}
  /\ recorded = {} /\ userAvailable = 0 /\ escrowAsset = 0
  /\ crashes = 0

CreateFiatDeposit(i, target) ==
  /\ i = Cardinality(Created) + 1 /\ target >= Minimum
  /\ requests' = [requests EXCEPT ![i] =
       [state |-> "pending", target |-> target, transaction |-> "none"]]
  /\ UNCHANGED <<expired, stale, workers, asked, sent, posted, crashes>>

Expire(i) ==
  /\ i \in (Created \cap Expiring) \ expired /\ expired' = expired \cup {i}
  /\ UNCHANGED <<requests, stale, workers, asked, sent, posted, crashes>>

BecomeStale(i) ==
  /\ i \in In({"creating"}) \ stale /\ stale' = stale \cup {i}
  /\ UNCHANGED <<requests, expired, workers, asked, sent, posted, crashes>>

-----------------------------------------------------------------------------
(* The worker                                                              *)

(* processPendingFiatCollections reads the oldest pending requests.         *)
StartRun(w) ==
  LET Pending == In({"pending"}) IN
  /\ workers[w] = Idle /\ Pending # {}
  /\ workers' = [workers EXCEPT ![w] = [at |-> "claiming", page |->
       {i \in Pending : Cardinality({j \in Pending : j <= i}) <= PageLimit}]]
  /\ UNCHANGED <<rows, asked, sent, posted, crashes>>

Current(w) == Min(workers[w].page)
At(w, place) == workers[w].at = place

(* processFiatCollection returns and the loop goes on, or throws and the    *)
(* run is over.                                                             *)
GoOn(w) ==
  LET rest == workers[w].page \ {Current(w)} IN
  workers' = [workers EXCEPT ![w] =
    IF rest = {} THEN Idle ELSE [at |-> "claiming", page |-> rest]]
Abort(w) == workers' = [workers EXCEPT ![w] = Idle]

(* processFiatCollection, its first transaction: a pending request that has *)
(* not expired is claimed, and the call to the provider follows.            *)
Claim(w) ==
  LET i == Current(w) IN
  /\ At(w, "claiming") /\ i \in In({"pending"}) \ expired
  /\ requests' = Moves(i, "creating")
  /\ workers' = [workers EXCEPT ![w].at = "calling"]
  /\ UNCHANGED <<expired, stale, asked, sent, posted, crashes>>

(* Another process has taken the request since the page was read.           *)
SkipTaken(w) ==
  /\ At(w, "claiming")
  /\ Current(w) \in In({"available", "uncertain"}) \cup (In({"creating"}) \ stale)
  /\ GoOn(w)
  /\ UNCHANGED <<rows, asked, sent, posted, crashes>>

(* ... and has not come back to it for five minutes.                        *)
GiveUpStale(w) ==
  /\ At(w, "claiming") /\ Current(w) \in In({"creating"}) \cap stale
  /\ requests' = Moves(Current(w), "uncertain")
  /\ GoOn(w)
  /\ UNCHANGED <<expired, stale, asked, sent, posted, crashes>>

(* An expired request throws, and so does a settled one: either as expired, *)
(* or by the check of migration 027 that refuses its way back to creating.  *)
RefuseRequest(w) ==
  /\ At(w, "claiming")
  /\ Current(w) \in (In({"pending"}) \cap expired) \cup In({"settled"})
  /\ Abort(w)
  /\ UNCHANGED <<rows, asked, sent, posted, crashes>>

(* The provider opens the one-time account and its answer arrives.          *)
ProviderOpens(w) ==
  /\ At(w, "calling")
  /\ asked' = [asked EXCEPT ![Current(w)] = @ + 1]
  /\ workers' = [workers EXCEPT ![w].at = "answered"]
  /\ UNCHANGED <<rows, sent, posted, crashes>>

(* An error, a timeout or an answer that does not match: whether the        *)
(* provider has opened an account is not known.                             *)
CallFails(w) ==
  /\ At(w, "calling")
  /\ asked' \in {asked, [asked EXCEPT ![Current(w)] = @ + 1]}
  /\ workers' = [workers EXCEPT ![w].at = "failed"]
  /\ UNCHANGED <<rows, sent, posted, crashes>>

(* The instructions are stored if the claim still stands.                   *)
RecordInstructions(w) ==
  /\ At(w, "answered")
  /\ requests' = IF Current(w) \in In({"creating"})
                 THEN Moves(Current(w), "available") ELSE requests
  /\ GoOn(w)
  /\ UNCHANGED <<expired, stale, asked, sent, posted, crashes>>

(* Mutant: the failed call puts the request back in the queue.              *)
RetryFailure(w) ==
  /\ At(w, "failed") \/ At(w, "answered")
  /\ requests' = Moves(Current(w), "pending") /\ Abort(w)
  /\ UNCHANGED <<expired, stale, asked, sent, posted, crashes>>

(* Mutant: the error is rethrown and the row stays as it is.                *)
RethrowFailure(w) ==
  /\ At(w, "failed") \/ At(w, "answered")
  /\ Abort(w)
  /\ UNCHANGED <<rows, asked, sent, posted, crashes>>

(* The call failed, or storing its answer did.                              *)
RecordFailure(w) ==
  /\ At(w, "failed") \/ At(w, "answered")
  /\ requests' = IF Current(w) \in In({"creating"})
                 THEN Moves(Current(w), "uncertain") ELSE requests
  /\ Abort(w)
  /\ UNCHANGED <<expired, stale, asked, sent, posted, crashes>>

(* A server process restarts; a call it was making may have arrived.        *)
Crash(w) ==
  /\ crashes < MaxCrashes /\ workers[w] # Idle /\ crashes' = crashes + 1
  /\ asked' \in {asked} \cup
       (IF At(w, "calling") THEN {[asked EXCEPT ![Current(w)] = @ + 1]} ELSE {})
  /\ Abort(w)
  /\ UNCHANGED <<rows, sent, posted>>

Work(w) ==
  \/ StartRun(w) \/ Claim(w) \/ SkipTaken(w) \/ GiveUpStale(w) \/ RefuseRequest(w)
  \/ ProviderOpens(w) \/ CallFails(w) \/ RecordInstructions(w) \/ RecordFailure(w)

-----------------------------------------------------------------------------
(* The payment                                                             *)

(* Somebody pays into the account shown with the instructions, any amount,  *)
(* perhaps again; the provider may reuse a transaction identifier.          *)
Pay(event) ==
  /\ Cardinality(sent) < EventLimit
  /\ event.intent \in In({"available", "settled"})
  /\ sent' = sent \cup {event}
  /\ UNCHANGED <<rows, workers, asked, posted, crashes>>

Credits(event) ==
  /\ requests' = [requests EXCEPT ![event.intent].state = "settled",
                                  ![event.intent].transaction = event.transaction]
  /\ recorded' = recorded \cup {event}
  /\ userAvailable' = userAvailable + event.amount
  /\ escrowAsset' = escrowAsset + event.amount
  /\ UNCHANGED <<expired, stale, workers, asked, sent, crashes>>

(* Mutant: a transaction identifier is not looked up among the recorded     *)
(* events.                                                                  *)
ApplyWithoutInbox(event) ==
  /\ event \in sent
  /\ event.intent \in In({"available"}) /\ event.amount = requests[event.intent].target
  /\ Credits(event)

(* applySwervpayCollection.  A repeated event changes nothing, one that     *)
(* reuses a recorded identifier is refused, and a refusal leaves no record. *)
ApplySwervpayCollection(event) ==
  /\ event \in sent /\ \A e \in recorded : e.transaction # event.transaction
  /\ event.intent \in In({"available"}) /\ event.amount = requests[event.intent].target
  /\ Credits(event)

CollectNext ==
  \/ \E i \in Intents : \/ \E target \in Amounts : CreateFiatDeposit(i, target)
                        \/ Expire(i) \/ BecomeStale(i)
  \/ \E w \in Workers : Work(w) \/ Crash(w)
  \/ \E event \in Event : Pay(event) \/ ApplySwervpayCollection(event)

CollectSpec == CollectInit /\ [][CollectNext]_collectVars

(* The worker runs every two seconds, and its provider calls time out.      *)
Fairness == \A w \in Workers : WF_collectVars(Work(w))
FairCollectSpec == CollectSpec /\ Fairness

-----------------------------------------------------------------------------
(* Properties                                                              *)

(* Every variable keeps its type; no deposit is below the minimum.          *)
TypeOK ==
  /\ requests \in [Intents -> {NoRequest} \cup [state : State,
       target : {a \in Amounts : a >= Minimum}, transaction : Transactions \cup {"none"}]]
  /\ expired \subseteq Created /\ stale \subseteq Created
  /\ workers \in [Workers -> [at : {"idle", "claiming", "calling", "answered", "failed"},
                              page : SUBSET Created]]
  /\ \A w \in Workers : At(w, "idle") <=> workers[w].page = {}
  /\ asked \in [Intents -> Nat] /\ sent \subseteq Event /\ recorded \subseteq sent
  /\ userAvailable \in Nat /\ escrowAsset \in Nat /\ crashes \in 0..MaxCrashes

(* However many processes read the same page, fail or restart, the provider *)
(* is asked for an account at most once per deposit (the claim under the    *)
(* row lock in processFiatCollection).                                      *)
AskedAtMostOnce ==
  \A i \in Intents :
    asked[i] + Cardinality({w \in Workers : At(w, "calling") /\ Current(w) = i}) <= 1

(* Every credit is one reported payment of exactly the requested amount: no *)
(* payment pays for two deposits, no deposit is credited twice, and the     *)
(* wallets hold what custody received (applySwervpayCollection).            *)
CreditsAreReceived ==
  /\ \A i \in In({"settled"}) :
       /\ [transaction |-> requests[i].transaction, intent |-> i,
           amount |-> requests[i].target] \in sent
       /\ \A j \in In({"settled"}) \ {i} : requests[j].transaction # requests[i].transaction
  /\ userAvailable = MapThenSumSet(LAMBDA i : requests[i].target, In({"settled"}))
  /\ escrowAsset = userAvailable

(* A worker that keeps running answers every request, unless one expired:   *)
(* a request whose call fails ends the run, and costs only itself.          *)
RequestsAreAnswered ==
  \A i \in Intents : requests[i].state \in {"pending", "creating"} ~>
     \/ requests[i].state \in {"available", "uncertain", "settled"}
     \/ crashes > 0 \/ expired # {}
=============================================================================
