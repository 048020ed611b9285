------------------------------- MODULE Settlement -------------------------------
(***************************************************************************)
(* Settlement of the payouts of one book on chain (settlement/service.ts): *)
(* batches are prepared from redemptions, submitted through a signer,      *)
(* observed through several RPC providers, replaced when an attempt failed *)
(* and claimed by their owners from the contract.                          *)
(*                                                                         *)
(* Every command locks the row of its batch for its whole transaction, so  *)
(* a command is one action; what the signer and the chain did during the   *)
(* command is not undone when the transaction is.  The chain is a sequence *)
(* of blocks that a reorganisation cuts; each block keeps the state of the *)
(* contract after it, so a cut also undoes what the contract did.  An      *)
(* observer answers from any chain that was canonical at some time, never  *)
(* mind how long ago; a faulty one answers anything.  Redemptions exist    *)
(* only for a finalised case (Resolution), the binding is append-only and  *)
(* its policy stays approved; an owner without an active smart account     *)
(* delays the preparation and nothing else; settlement_observations is     *)
(* never read.  The signer, the chain and the accounts are not under src/. *)
(***************************************************************************)
EXTENDS SettlementContract, FiniteSets, SequencesExt

CONSTANTS
  Payouts,       \* positive payouts of the book, numbered in the order of fill and side
  Owner,         \* owner of each payout, also the name of the owner's smart account
  Amount,        \* amount of each payout
  Redemptions,   \* the payouts in the order in which they are redeemed
  Observers,     \* RPC providers
  Faulty,        \* the ones that may answer anything, because they are broken or
                 \* caught by a reorganisation between two reads (robinhood.ts 26)
  Quorum,        \* observer_quorum of the binding
  Confirmations, \* confirmations of the binding
  Collateral, TopUp, Supply, \* collateral at deployment, in one funding, and in all
  MaxRequests,   \* requests to the signer, bounds the runs
  MaxHeight,     \* blocks, bounds the runs
  MaxReorgs,     \* reorganisations, bounds the runs
  MaxDepth       \* blocks below the highest head that may still be replaced

ASSUME PayoutsAssumption ==
  /\ Payouts \subseteq Nat /\ IsFiniteSet(Payouts)
  /\ Redemptions \in Seq(Payouts) /\ IsInjective(Redemptions)
  /\ Owner \in [Payouts -> Recipients] /\ Amount \in [Payouts -> Nat \ {0}]
  /\ Batches \subseteq Nat /\ IsFiniteSet(Batches) /\ MaxItems \in Nat \ {0}
ASSUME ObserversAssumption ==
  /\ IsFiniteSet(Observers) /\ Faulty \subseteq Observers
  /\ Quorum \in 1..Cardinality(Observers) /\ Cardinality(Faulty) < Quorum
ASSUME FinalityAssumption ==
  /\ Confirmations \in Nat \ {0} /\ MaxDepth \in 0..(Confirmations - 1)
  /\ Collateral \in Nat /\ TopUp \in Nat /\ Supply \in Nat
  /\ MaxRequests \in Nat /\ MaxHeight \in Nat /\ MaxReorgs \in Nat

VARIABLES
  paidOut,  \* payouts the redemption has paid in the ledger
  batch,    \* settlement_batches with their items
  attempts, \* settlement_submissions of each batch, by attempt
  received, \* requests that reached the signer
  signed,   \* requests it has signed and broadcast
  chain,    \* canonical chain
  top,      \* highest head so far
  forks,    \* reorganisations so far, tell the blocks of one height apart
  stale     \* what observers may still answer from abandoned chains

database == <<paidOut, batch, attempts>>
signer   == <<received, signed>>
network  == <<chain, top, forks, stale>>
settlementVars == <<database, signer, network>>

NotPrepared == [state |-> "none", items |-> <<>>, current |-> 0]
NoRequest   == <<0, 0>>

SettlementInit ==
  /\ paidOut = {}
  /\ batch = [b \in Batches |-> NotPrepared] /\ attempts = [b \in Batches |-> <<>>]
  /\ received = {} /\ signed = {}
  /\ chain = <<>> /\ top = 0 /\ forks = 0 /\ stale = {}

-----------------------------------------------------------------------------
(* Preparation                                                             *)

(* redeemBatch, as far as batches see it (Resolution has the whole of it).  *)
(* A fill of a binary market pays one side; a page of fills is several of   *)
(* these steps, and a batch prepared between two of them is one prepared    *)
(* between two pages.                                                       *)
Redeem ==
  /\ Cardinality(paidOut) < Len(Redemptions)
  /\ paidOut' = paidOut \cup {Redemptions[Cardinality(paidOut) + 1]}
  /\ UNCHANGED <<batch, attempts, signer, network>>

Items(b) == batch[b].items
Batched  == UNION {Range(Items(b)) : b \in Batches}

(* The payouts that are in no batch yet, at most MaxItems of them, in order *)
Unbatched == paidOut \ Batched
Rank(p) == Cardinality({q \in Unbatched : q <= p})
NextItems ==
  [i \in 1..Min({MaxItems, Cardinality(Unbatched)}) |-> CHOOSE p \in Unbatched : Rank(p) = i]

PrepareSettlementBatch(b) ==
  /\ batch[b] = NotPrepared /\ \A c \in Batches : c < b => batch[c] # NotPrepared
  /\ NextItems # <<>>
  /\ batch' = [batch EXCEPT ![b] = [state |-> "prepared", items |-> NextItems, current |-> 0]]
  /\ UNCHANGED <<paidOut, attempts, signer, network>>

Total(b)    == MapThenSumSet(LAMBDA p : Amount[p], Range(Items(b)))
Leaves(b)   == [i \in DOMAIN Items(b) |->
                  Leaf(b, i - 1, Owner[Items(b)[i]], Amount[Items(b)[i]])]
Root(b)     == MerkleRoot(Leaves(b))
Proof(b, i) == MerkleProof(Leaves(b), i)

-----------------------------------------------------------------------------
(* Submission                                                              *)

Current(b)  == attempts[b][batch[b].current]
HasAttempt(b) == batch[b].current # 0

(* guard_settlement_submission                                              *)
SubmissionMoves ==
  {<<"uncertain", "submitted">>, <<"confirmed", "finalized">>, <<"confirmed", "reorged">>,
   <<"finalized", "reorged">>, <<"reverted", "replaced">>, <<"reorged", "replaced">>}
  \cup ({"submitted"} \X {"confirmed", "finalized", "reverted", "replaced", "reorged"})
MayBecome(old, new) == old = new \/ <<old, new>> \in SubmissionMoves

Replaceable(b) == HasAttempt(b) => Current(b).state \in {"reverted", "reorged"}
ReplaceCurrent(b) ==
  IF HasAttempt(b)
  THEN [attempts[b] EXCEPT ![batch[b].current].state = "replaced"] ELSE attempts[b]

(* The attempt is part of the request, so that the signer, which is         *)
(* idempotent, answers a repeated call with the transaction it has signed.  *)
RequestOf(b, attempt) == <<b, attempt>>
SignerRequest(b) == RequestOf(b, Len(attempts[b]) + 1)

(* SettlementSubmitter.submit: it signs, or takes the request and is late.  *)
SignerTakes(request) ==
  /\ request \in received \/ Cardinality(received) < MaxRequests
  /\ received' = received \cup {request}
  /\ signed' \in {signed, signed \cup {request}}

SubmitSettlementBatch(b, answer) ==
  /\ batch[b].state # "none" /\ Replaceable(b)
  /\ SignerTakes(SignerRequest(b))
  /\ answer = "submitted" => SignerRequest(b) \in signed'
  /\ attempts' = [attempts EXCEPT ![b] = Append(ReplaceCurrent(b),
       [state |-> answer,
        transaction |-> IF answer = "submitted" THEN SignerRequest(b) ELSE NoRequest])]
  /\ batch' = [batch EXCEPT ![b].state = "submitted", ![b].current = Len(attempts[b]) + 1]
  /\ UNCHANGED <<paidOut, network>>

(* The process stops, or the transaction is rolled back, after the call.    *)
SubmitIsLost(b) ==
  /\ batch[b].state # "none" /\ Replaceable(b)
  /\ SignerTakes(SignerRequest(b))
  /\ UNCHANGED <<database, network>>

SignLate(request) ==
  /\ request \in received \ signed /\ signed' = signed \cup {request}
  /\ UNCHANGED <<database, received, network>>
-----------------------------------------------------------------------------
(* The chain.  A block has one call of the contract or a transfer to it;    *)
(* other blocks would only add depth, which any of these adds too.          *)

Contract == IF chain = <<>> THEN Deployed(Collateral) ELSE Last(chain).contract

Mine(request, ok, contract) ==
  /\ Len(chain) < MaxHeight
  /\ chain' = Append(chain,
       [fork |-> forks, request |-> request, ok |-> ok, contract |-> contract])
  /\ top' = Max({top, Len(chain')})
  /\ UNCHANGED <<database, signer, forks, stale>>

(* The calldata of every attempt is the one persisted with the batch.       *)
MineSubmission(request) ==
  LET b == request[1]
      ok == CanCommit(Contract, b, Root(b), Total(b), Len(Items(b))) IN
  /\ request \in signed /\ \A i \in DOMAIN chain : chain[i].request # request
  /\ Mine(request, ok, IF ok THEN CommitBatch(Contract, b, Root(b), Total(b), Len(Items(b)))
                       ELSE Contract)

(* Anyone may claim for item i of b with any proof that was published, and  *)
(* ask for the recipient and the amount of any payout.                      *)
MineClaim(b, index, p, c, i) ==
  /\ i \in DOMAIN Items(c)
  /\ CanClaim(Contract, b, index, Owner[p], Amount[p], Proof(c, i))
  /\ Mine(NoRequest, TRUE, Claim(Contract, b, index, Owner[p], Amount[p]))

MineFunding ==
  /\ Contract.balance + MapThenSumSet(LAMBDA o : Contract.received[o], Recipients) + TopUp <= Supply
  /\ Mine(NoRequest, TRUE, Fund(Contract, TopUp))

MinePause == \E value \in BOOLEAN :
  Contract.paused # value /\ Mine(NoRequest, TRUE, SetPaused(Contract, value))

(* What an observer that follows the chain may say of a request: the block  *)
(* that holds it, seen from that block or from a later head.                *)
NoAnswer == [verdict |-> "none"]
Submitted == {i \in DOMAIN chain : chain[i].request # NoRequest}
SeenFrom(head) ==
  {[request |-> chain[i].request, height |-> i, fork |-> chain[i].fork, head |-> head,
    verdict |-> IF chain[i].ok THEN "exact" ELSE "reverted"] : i \in Submitted \cap 1..head}
Seen == UNION {SeenFrom(head) : head \in DOMAIN chain}

Reorganise(depth) ==
  /\ forks < MaxReorgs /\ forks' = forks + 1
  /\ depth <= Len(chain) /\ Len(chain) - depth >= top - MaxDepth
  /\ chain' = SubSeq(chain, 1, Len(chain) - depth)
  /\ stale' = stale \cup Seen
  /\ UNCHANGED <<database, signer, top>>

-----------------------------------------------------------------------------
(* Observation                                                             *)

(* A transaction that is in no block the observer knows, or a missing       *)
(* answer, is null; "other" is a success of another target or calldata.     *)
HonestAnswers(request) == {NoAnswer} \cup {a \in Seen \cup stale : a.request = request}
BlockOf(answer) == <<answer.height, answer.fork>>

(* Of a faulty answer only matters whether it names a block that others     *)
(* name too; it exaggerates the head.  An observer reads the receipt and    *)
(* the head apart, so one that a reorganisation overtakes answers like a    *)
(* faulty one: the properties hold while these are fewer than a quorum.     *)
AnyAnswer(request) == {NoAnswer} \cup
  {[request |-> request, height |-> block[1], fork |-> block[2], head |-> MaxHeight,
    verdict |-> verdict] :
      block \in {BlockOf(a) : a \in HonestAnswers(request) \ {NoAnswer}} \cup {<<0, 0>>},
      verdict \in {"exact", "other", "reverted"}}

Answering(request) ==
  {[o \in Observers |-> IF o \in Faulty THEN faulty[o] ELSE honest[o]] :
     honest \in [Observers \ Faulty -> HonestAnswers(request)],
     faulty \in [Faulty -> AnyAnswer(request)]}

Heard(answers) == {o \in Observers : answers[o] # NoAnswer}
Exact(answers) == {o \in Heard(answers) : answers[o].verdict = "exact"}
Group(answers, o) == {p \in Exact(answers) : BlockOf(answers[p]) = BlockOf(answers[o])}

(* The largest group that agrees on a block, an empty one if none does.     *)
Agreed(answers) ==
  LET groups == {Group(answers, o) : o \in Exact(answers)} \cup {{}}
      most   == Max({Cardinality(g) : g \in groups}) IN
  {g \in groups : Cardinality(g) = most}

Conflict(answers, agreed) ==
  Cardinality(Heard(answers)) >= Quorum /\ Cardinality(agreed) < Quorum
Reverted(answers) == \E o \in Heard(answers) : answers[o].verdict = "reverted"
(* Mutant: the highest head instead of the lowest.                          *)
IsFinalForOne(answers, agreed) ==
  \E o \in agreed : answers[o].head - answers[o].height + 1 >= Confirmations
IsFinal(answers, agreed) ==
  \A o \in agreed : answers[o].head - answers[o].height + 1 >= Confirmations

(* The state that the answers give the attempt of a batch, whose own state  *)
(* is was, and which had the state now.                                     *)
Verdict(now, was, answers, agreed) ==
  IF Conflict(answers, agreed) THEN "reorged"
  ELSE IF Reverted(answers) THEN "reverted"
  ELSE IF Cardinality(agreed) < Quorum THEN now
  ELSE IF IsFinal(answers, agreed) THEN "finalized"
  ELSE IF was = "finalized" THEN "reorged" ELSE "confirmed"

Verdicts(attempt, was) ==
  UNION {{Verdict(attempt.state, was, answers, agreed) : agreed \in Agreed(answers)} :
           answers \in Answering(attempt.transaction)}

BatchAfter(was, verdict) ==
  CASE verdict \in {"reorged", "reverted"} -> "exception"
    [] verdict \in {"finalized", "confirmed"} -> verdict
    [] OTHER -> was

(* The attempt, with its transaction if the signer now knows it.            *)
LookedUp(b) ==
  LET request == RequestOf(b, batch[b].current) IN
  IF Current(b).state = "uncertain" /\ request \in signed
  THEN [state |-> "submitted", transaction |-> request] ELSE Current(b)

(* A verdict that guard_settlement_submission refuses, such as a failed     *)
(* receipt after a confirmation, rolls the whole command back.              *)
RefreshSettlementBatch(b) ==
  /\ HasAttempt(b)
  /\ LET attempt == LookedUp(b) IN
     /\ attempt.transaction # NoRequest
     /\ attempt.state \notin {"reverted", "replaced", "reorged"}
     /\ \E verdict \in Verdicts(attempt, batch[b].state) :
          /\ MayBecome(attempt.state, verdict)
          /\ attempts' = [attempts EXCEPT ![b][batch[b].current] = [attempt EXCEPT !.state = verdict]]
          /\ batch' = [batch EXCEPT ![b].state = BatchAfter(@, verdict)]
  /\ UNCHANGED <<paidOut, signer, network>>

-----------------------------------------------------------------------------
SettlementNext ==
  \/ Redeem
  \/ \E b \in Batches : \/ PrepareSettlementBatch(b) \/ SubmitIsLost(b) \/ RefreshSettlementBatch(b)
                        \/ \E answer \in {"submitted", "uncertain"} : SubmitSettlementBatch(b, answer)
  \/ \E request \in received : SignLate(request) \/ MineSubmission(request)
  \/ \E b, c \in Batches, index \in 0..(MaxItems - 1), p \in Payouts, i \in 1..MaxItems :
       MineClaim(b, index, p, c, i)
  \/ MineFunding \/ MinePause
  \/ \E depth \in 1..MaxHeight : Reorganise(depth)

SettlementSpec == SettlementInit /\ [][SettlementNext]_settlementVars

-----------------------------------------------------------------------------
(* Properties                                                              *)

States      == {"none", "prepared", "submitted", "confirmed", "finalized", "exception"}
Submissions == [state : {"uncertain", "submitted", "confirmed", "finalized", "reverted", "replaced",
                         "reorged"},
                transaction : {NoRequest} \cup Batches \X (1..MaxRequests)]

(* Every variable has its type, and a batch refers to an attempt of its own *)
(* unless it is only prepared (settlement_current_submission).              *)
SettlementTypeOK ==
  /\ paidOut \subseteq Payouts
  /\ \A b \in Batches :
       /\ batch[b].state \in States /\ batch[b].items \in Seq(Payouts)
       /\ attempts[b] \in Seq(Submissions)
       /\ batch[b].current = Len(attempts[b])
       /\ (batch[b].current = 0) = (batch[b].state \in {"none", "prepared"})
  /\ signed \subseteq received /\ received \subseteq Batches \X (1..MaxRequests)
  /\ Len(chain) <= top /\ top <= MaxHeight /\ forks <= MaxReorgs

(* The contract holds collateral for everything it has committed and not    *)
(* paid yet, whatever is mined, removed or claimed and in which order.      *)
Solvent ==
  LET unpaid(b) == Contract.batches[b].total - Contract.batches[b].claimed IN
  /\ Contract.outstandingLiability = MapThenSumSet(unpaid, Batches)
  /\ Contract.balance >= Contract.outstandingLiability

(* An owner gets from the contract at most the redeemed payouts, each once: *)
(* across batches, attempts, forks and proofs made for other items.         *)
NobodyOverpaid == \A o \in Recipients :
  Contract.received[o] <=
    MapThenSumSet(LAMBDA p : Amount[p], {p \in paidOut : Owner[p] = o})

(* A claim that the API marks as ready (listMySettlementClaims) succeeds on *)
(* the canonical chain, unless it is paid or the guardian has paused.       *)
ClaimReady(b) == batch[b].state = "finalized"
ReadyClaimsPay == \A b \in Batches : ClaimReady(b) =>
  \A i \in DOMAIN Items(b) :
    LET p == Items(b)[i] IN
    \/ i - 1 \in Contract.bitmap[b]
    \/ CanClaim(SetPaused(Contract, FALSE), b, i - 1, Owner[p], Amount[p], Proof(b, i))
=============================================================================
