----------------------------- MODULE CryptoDeposits -----------------------------
(***************************************************************************)
(* USDT deposits observed on BNB Smart Chain: the chain, the read-only     *)
(* observer, the deposit rows and the credit of a finalised transfer.      *)
(*                                                                         *)
(* A request names a transfer (transaction hash and log index), asks the   *)
(* observer, which reads the receipt and then the head of the chain in two *)
(* calls, and applies what it saw in one transaction that locks the row of *)
(* the transfer.  Nothing holds the chain, or the other requests, still    *)
(* between those steps.  Each request uses an idempotency key of its own:  *)
(* a key used before is answered from command_results without any effect.  *)
(* The answer "reverted" of the observer interface is left out, because    *)
(* the only observer under src/ never gives it.  The chain, the custodian  *)
(* and the registries of finance are not under src/.                       *)
(***************************************************************************)
EXTENDS Integers, FiniteSets, FiniteSetsExt

CONSTANTS
  Owners,        \* accounts
  Addresses,     \* custody-controlled deposit addresses
  Transfers,     \* transfers that may be mined: one transaction hash and log index each
  Recipient,     \* address each transfer pays
  Amount,        \* amount each transfer pays
  MinimumAmount, \* least deposit, 10^18 units in the code
  Confirmations, \* minimumConfirmations of the observer
  Sessions,      \* observeCryptoDeposit requests served at once
  HeadLimit,     \* height of the chain, bounds the runs
  MaxReorgs,     \* reorganisations of the chain, bounds the runs
  MaxDepth       \* blocks one reorganisation replaces at most

ASSUME TransfersAssumption ==
  /\ Recipient \in [Transfers -> Addresses] /\ Amount \in [Transfers -> Nat]
  /\ IsFiniteSet(Transfers) /\ IsFiniteSet(Owners) /\ "none" \notin Owners
ASSUME ChainLimits ==
  /\ MinimumAmount \in Nat \ {0} /\ Confirmations \in Nat \ {0}
  /\ HeadLimit \in Nat /\ MaxReorgs \in Nat /\ MaxDepth \in Nat \ {0}

VARIABLES
  head,       \* height of the canonical chain
  chain,      \* canonical block that holds each transfer, if any
  reorgs,     \* reorganisations so far, tells the blocks of one height apart
  addresses,  \* crypto_deposit_addresses: the owner of each, all active
  eligible,   \* owners that pass authorizeDepositOwner
  approved,   \* finance approves the token and its asset
  sessions,   \* what each request is doing and has seen
  deposits,   \* crypto_deposit_observations
  exceptions, \* open items FINALIZED_DEPOSIT_REORG of financial_exceptions
  available,  \* ledger bucket user_available
  escrow      \* ledger bucket escrow_asset

bsc      == <<head, chain, reorgs>>
registry == <<addresses, eligible, approved>>
ledger   == <<available, escrow>>
chainVars == <<bsc, registry, sessions, deposits, exceptions, ledger>>

Block     == [height : 1..HeadLimit, fork : 0..MaxReorgs]
NoBlock   == [height |-> 0, fork |-> 0]
NoDeposit == [state |-> "none", credited |-> FALSE]
Closed    == [at |-> "closed"]

ChainInit ==
  /\ head = 0 /\ chain = [t \in Transfers |-> NoBlock] /\ reorgs = 0
  /\ addresses = [a \in Addresses |-> "none"] /\ eligible = Owners /\ approved = TRUE
  /\ sessions = [s \in Sessions |-> Closed]
  /\ deposits = [t \in Transfers |-> NoDeposit] /\ exceptions = {}
  /\ available = [o \in Owners |-> 0] /\ escrow = 0

-----------------------------------------------------------------------------
(* The chain and the registries                                            *)

Extend(included) ==
  /\ head < HeadLimit /\ head' = head + 1
  /\ \A t \in included : chain[t] = NoBlock
  /\ chain' = [t \in Transfers |->
       IF t \in included THEN [height |-> head', fork |-> reorgs] ELSE chain[t]]
  /\ UNCHANGED <<reorgs, registry, sessions, deposits, exceptions, ledger>>

(* The last blocks are replaced by as many others, which hold some of the   *)
(* transfers the old ones held.                                             *)
Reorganise(depth, kept) ==
  LET Hit == {t \in Transfers : chain[t].height > head - depth} IN
  /\ reorgs < MaxReorgs /\ reorgs' = reorgs + 1
  /\ Hit # {} /\ depth <= head /\ kept \subseteq Hit
  /\ chain' = [t \in Transfers |->
       IF t \in kept THEN [chain[t] EXCEPT !.fork = reorgs']
       ELSE IF t \in Hit THEN NoBlock ELSE chain[t]]
  /\ UNCHANGED <<head, registry, sessions, deposits, exceptions, ledger>>

(* provisionCryptoDepositAddress; an address has one owner for good.        *)
ProvisionAddress(a, o) ==
  /\ approved /\ addresses[a] = "none" /\ \A b \in Addresses : addresses[b] # o
  /\ addresses' = [addresses EXCEPT ![a] = o]
  /\ UNCHANGED <<bsc, eligible, approved, sessions, deposits, exceptions, ledger>>

ReviewOwner(o) ==
  /\ eligible' = IF o \in eligible THEN eligible \ {o} ELSE eligible \cup {o}
  /\ UNCHANGED <<bsc, addresses, approved, sessions, deposits, exceptions, ledger>>

WithdrawApproval ==
  /\ approved /\ approved' = FALSE
  /\ UNCHANGED <<bsc, addresses, eligible, sessions, deposits, exceptions, ledger>>

-----------------------------------------------------------------------------
(* The request and the observer                                            *)

Becomes(s, session) ==
  /\ sessions' = [sessions EXCEPT ![s] = session]
  /\ UNCHANGED <<bsc, registry, deposits, exceptions, ledger>>

Submit(s, o, t) ==
  /\ sessions[s] = Closed /\ Becomes(s, [at |-> "receipt", owner |-> o, transfer |-> t])

(* getTransactionReceipt: a transfer that is in no canonical block is       *)
(* missing.                                                                 *)
ReadReceipt(s) ==
  LET block == chain[sessions[s].transfer] IN
  /\ sessions[s].at = "receipt"
  /\ Becomes(s, [at |-> IF block = NoBlock THEN "missing" ELSE "head", block |-> block,
                 owner |-> sessions[s].owner, transfer |-> sessions[s].transfer])

(* getBlockNumber, and the confirmations it gives the block of the receipt. *)
ReadHead(s) ==
  LET b == sessions[s].block IN
  /\ sessions[s].at = "head"
  /\ Becomes(s, [at |-> "seen", block |-> b, count |-> Max({head - b.height + 1, 0}),
                 owner |-> sessions[s].owner, transfer |-> sessions[s].transfer])

ObserverFails(s) == sessions[s].at \in {"receipt", "head"} /\ Becomes(s, Closed)

-----------------------------------------------------------------------------
(* The transaction                                                         *)

Transfer(s) == sessions[s].transfer
Sender(s)   == sessions[s].owner
Prior(s)    == deposits[Transfer(s)]
Final(s)    == sessions[s].count >= Confirmations

(* The request is authorised, and its row is the caller's own.              *)
Missing(s) ==
  /\ sessions[s].at = "missing" /\ Sender(s) \in eligible
  /\ Prior(s) # NoDeposit /\ Prior(s).owner = Sender(s)

(* The same for a transfer that was seen; the first observation of one also *)
(* needs the approvals, and an active address of the caller.                *)
Seen(s) ==
  /\ sessions[s].at = "seen" /\ Sender(s) \in eligible
  /\ IF Prior(s) = NoDeposit THEN approved /\ addresses[Recipient[Transfer(s)]] = Sender(s)
                             ELSE Prior(s).owner = Sender(s)
  /\ Amount[Transfer(s)] >= MinimumAmount

(* The row the transaction works on, inserted as confirming if it is new.   *)
Row(s) ==
  IF Prior(s) # NoDeposit THEN Prior(s)
  ELSE [state |-> "confirming", credited |-> FALSE, owner |-> Sender(s),
        block |-> sessions[s].block, count |-> sessions[s].count]

Same(s) == Seen(s) /\ Row(s).block = sessions[s].block
Moved(s) == Seen(s) /\ Row(s).block # sessions[s].block

Stores(s, row) ==
  /\ deposits' = [deposits EXCEPT ![Transfer(s)] = row]
  /\ sessions' = [sessions EXCEPT ![s] = Closed]
  /\ UNCHANGED <<bsc, registry>>

(* A credited transfer is missing, in another block or no longer final.     *)
ContradictsCredit(s) ==
  (Missing(s) \/ Moved(s) \/ (Same(s) /\ ~Final(s))) /\ Row(s).state = "finalized"

(* Mutant: a credited transfer in another block is set aside silently.      *)
ContradictSilently(s) ==
  /\ ContradictsCredit(s)
  /\ Stores(s, [Row(s) EXCEPT !.state = "exception"])
  /\ exceptions' = IF Moved(s) THEN exceptions ELSE exceptions \cup {Transfer(s)}
  /\ UNCHANGED ledger

OpenFinalityException(s) ==
  /\ ContradictsCredit(s)
  /\ Stores(s, [Row(s) EXCEPT !.state = "exception"])
  /\ exceptions' = exceptions \cup {Transfer(s)}
  /\ UNCHANGED ledger

Vanishes(s) == Missing(s) /\ Row(s).state = "confirming"
Revert(s) ==
  /\ Vanishes(s) /\ Stores(s, [Row(s) EXCEPT !.state = "reverted"])
  /\ UNCHANGED <<exceptions, ledger>>

(* A transfer that is not credited and turns up in another block; the guard *)
(* of the table refuses this for a reverted row.                            *)
TurnsUpElsewhere(s) == Moved(s) /\ Row(s).state \in {"confirming", "exception"}
SetAside(s) ==
  /\ TurnsUpElsewhere(s) /\ Stores(s, [Row(s) EXCEPT !.state = "exception"])
  /\ UNCHANGED <<exceptions, ledger>>

StillConfirming(s) == Same(s) /\ Row(s).state = "confirming" /\ ~Final(s)

Confirm(s) ==
  /\ StillConfirming(s)
  /\ Stores(s, [Row(s) EXCEPT !.count = Max({@, sessions[s].count})])
  /\ UNCHANGED <<exceptions, ledger>>

BecomesFinal(s) == Same(s) /\ Row(s).state = "confirming" /\ Final(s) /\ approved

Credited(s) ==
  /\ Stores(s, [Row(s) EXCEPT !.state = "finalized", !.credited = TRUE,
                              !.count = sessions[s].count])
  /\ available' = [available EXCEPT ![Sender(s)] = @ + Amount[Transfer(s)]]
  /\ escrow' = escrow + Amount[Transfer(s)]
  /\ UNCHANGED exceptions

(* Mutant: the owner of an existing row is not compared with the caller.    *)
CreditCaller(s) ==
  /\ sessions[s].at = "seen" /\ Sender(s) \in eligible /\ Final(s) /\ approved
  /\ Prior(s) # NoDeposit /\ Row(s).state = "confirming"
  /\ Credited(s)

Credit(s) == BecomesFinal(s) /\ Credited(s)

(* Any other request ends without effect: refused, or nothing new in it.    *)
Conclude(s) ==
  /\ sessions[s].at \in {"missing", "seen"}
  /\ ~(ContradictsCredit(s) \/ Vanishes(s) \/ TurnsUpElsewhere(s)
       \/ StillConfirming(s) \/ BecomesFinal(s))
  /\ Becomes(s, Closed)

ChainNext ==
  \/ \E included \in SUBSET Transfers : Extend(included)
  \/ \E depth \in 1..MaxDepth, kept \in SUBSET Transfers : Reorganise(depth, kept)
  \/ \E o \in Owners : ReviewOwner(o) \/ \E a \in Addresses : ProvisionAddress(a, o)
  \/ WithdrawApproval
  \/ \E s \in Sessions :
       \/ \E o \in Owners, t \in Transfers : Submit(s, o, t)
       \/ ReadReceipt(s) \/ ReadHead(s) \/ ObserverFails(s)
       \/ OpenFinalityException(s) \/ Revert(s) \/ SetAside(s)
       \/ Confirm(s) \/ Credit(s) \/ Conclude(s)

ChainSpec == ChainInit /\ [][ChainNext]_chainVars

-----------------------------------------------------------------------------
(* Properties                                                              *)

Deposit == [state : {"confirming", "finalized", "reverted", "exception"},
            credited : BOOLEAN, owner : Owners, block : Block, count : 0..HeadLimit]
Request == [owner : Owners, transfer : Transfers]

(* Every variable keeps its type.                                           *)
ChainTypeOK ==
  /\ head \in 0..HeadLimit /\ reorgs \in 0..MaxReorgs
  /\ chain \in [Transfers -> Block \cup {NoBlock}]
  /\ addresses \in [Addresses -> Owners \cup {"none"}]
  /\ eligible \subseteq Owners /\ approved \in BOOLEAN
  /\ deposits \in [Transfers -> Deposit \cup {NoDeposit}] /\ exceptions \subseteq Transfers
  /\ \A s \in Sessions : sessions[s] # Closed =>
       /\ sessions[s].at \in {"receipt", "head", "missing", "seen"}
       /\ Sender(s) \in Owners /\ Transfer(s) \in Transfers
       /\ sessions[s].at = "seen" => sessions[s].count \in 0..HeadLimit
  /\ available \in [Owners -> Nat] /\ escrow \in Nat

(* However requests for one transfer race and repeat, it is credited once,  *)
(* to the owner of the address it pays, and only after enough confirmations *)
(* were counted (the row lock and the effect id of observeCryptoDeposit).   *)
CreditedOnceToRecipient ==
  LET Credits(o) == {t \in Transfers : deposits[t].credited /\ deposits[t].owner = o} IN
  /\ \A o \in Owners :
       /\ available[o] = MapThenSumSet(LAMBDA t : Amount[t], Credits(o))
       /\ \A t \in Credits(o) : /\ addresses[Recipient[t]] = o
                                /\ deposits[t].count >= Confirmations
  /\ escrow = MapThenSumSet(LAMBDA o : available[o], Owners)

(* ADR 0015: an exception after credit keeps the journal, and there is a    *)
(* critical item for it; no item is opened for a deposit without a credit.  *)
ContradictedCreditIsReported ==
  \A t \in Transfers :
    t \in exceptions <=> deposits[t].state = "exception" /\ deposits[t].credited
=============================================================================
