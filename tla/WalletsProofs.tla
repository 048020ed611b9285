----------------------------- MODULE WalletsProofs -----------------------------
(***************************************************************************)
(* Proofs about what credits wallets.  A transfer on the chain is credited *)
(* once, to the owner of the address it pays, and a credit the chain       *)
(* contradicts is reported; conversions add up in every wallet and in the  *)
(* inventory, and never leave an owner richer; a collection of NGN is      *)
(* asked for once and credited with the payment it received.               *)
(***************************************************************************)
EXTENDS Wallets, Collections, CommonTheorems

\* The larger of two numbers.
LEMMA MaxOfTwo ==
  ASSUME NEW a \in Int, NEW b \in Int
  PROVE  Max({a, b}) \in {a, b} /\ Max({a, b}) >= a /\ Max({a, b}) >= b
<1>1. \E x \in {a, b} : \A y \in {a, b} : x >= y
  <2>1. CASE a >= b
    BY <2>1
  <2>2. CASE b >= a
    BY <2>2
  <2>3. QED  BY <2>1, <2>2
<1>2. QED  BY <1>1 DEF Max

(***************************************************************************)
(* Deposits.  A row keeps the owner of the address it pays, and it is      *)
(* credited exactly while its state says so; what is available is the sum  *)
(* of the rows that are credited.                                          *)
(***************************************************************************)
BscOK ==
  /\ head \in 0..HeadLimit /\ reorgs \in 0..MaxReorgs
  /\ chain \in [Transfers -> Block \cup {NoBlock}]
RegistryOK ==
  /\ addresses \in [Addresses -> Owners \cup {"none"}]
  /\ eligible \subseteq Owners /\ approved \in BOOLEAN

SessionOK(x) ==
  \/ x = Closed
  \/ /\ x.at \in {"receipt", "head", "missing", "seen"} /\ x.owner \in Owners /\ x.transfer \in Transfers
     /\ x.at \in {"head", "seen"} => x.block \in Block
     /\ x.at = "seen" => x.count \in 0..HeadLimit
SessionsOK == sessions = [s \in Sessions |-> sessions[s]] /\ \A s \in Sessions : SessionOK(sessions[s])

RowOK(t, d, reported) ==
  /\ d # NoDeposit => d \in Deposit /\ addresses[Recipient[t]] = d.owner
  /\ d.credited => d.count >= Confirmations /\ d.state \in {"finalized", "exception"}
  /\ d.state = "finalized" => d.credited
  /\ reported <=> d.state = "exception" /\ d.credited
DepositsOK ==
  /\ deposits = [t \in Transfers |-> deposits[t]] /\ exceptions \subseteq Transfers
  /\ \A t \in Transfers : RowOK(t, deposits[t], t \in exceptions)

CreditsOf(o) == {t \in Transfers : deposits[t].credited /\ deposits[t].owner = o}
LedgerOK ==
  /\ available \in [Owners -> Nat] /\ escrow \in Nat
  /\ \A o \in Owners : available[o] = SumFunctionOnSet(Amount, CreditsOf(o))
  /\ escrow = SumFunctionOnSet(available, Owners)

ChainInv == BscOK /\ RegistryOK /\ SessionsOK /\ DepositsOK /\ LedgerOK

\* A row that is not there yet is no row.
LEMMA NoRow == NoDeposit.credited = FALSE /\ NoDeposit.state = "none" /\ NoDeposit \notin Deposit
BY DEF NoDeposit, Deposit

\* The steps of the chain and of the registries.
LEMMA ChainMoves ==
  ASSUME ChainInv,
         \/ \E included \in SUBSET Transfers : Extend(included)
         \/ \E depth \in 1..MaxDepth, kept \in SUBSET Transfers : Reorganise(depth, kept)
  PROVE  ChainInv'
<1>1. BscOK'
  <2>1. ASSUME NEW included \in SUBSET Transfers, Extend(included)
        PROVE  BscOK'
    <3>1. head' \in 0..HeadLimit /\ head' >= 1 /\ reorgs' \in 0..MaxReorgs
      BY <2>1, ChainLimits DEF Extend, ChainInv, BscOK
    <3>2. [height |-> head', fork |-> reorgs] \in Block
      BY <2>1, <3>1, ChainLimits DEF Extend, Block
    <3>3. QED  BY <2>1, <3>1, <3>2 DEF Extend, ChainInv, BscOK
  <2>2. ASSUME NEW depth \in 1..MaxDepth, NEW kept \in SUBSET Transfers, Reorganise(depth, kept)
        PROVE  BscOK'
    <3>1. reorgs' \in 0..MaxReorgs /\ reorgs' = reorgs + 1 /\ head' = head
      BY <2>2, ChainLimits DEF Reorganise, ChainInv, BscOK
    <3>2. ASSUME NEW t \in kept
          PROVE  [chain[t] EXCEPT !.fork = reorgs'] \in Block
      <4>1. chain[t] \in Block \cup {NoBlock} /\ chain[t].height > head - depth /\ depth <= head
        BY <2>2 DEF Reorganise, ChainInv, BscOK
      <4>2. NoBlock.height = 0 /\ head \in Nat /\ depth \in Nat
        BY DEF NoBlock, ChainInv, BscOK
      <4>3. chain[t] \in Block
        BY <4>1, <4>2
      <4>4. QED  BY <3>1, <4>3 DEF Block
    <3>3. chain' \in [Transfers -> Block \cup {NoBlock}]
      BY <2>2, <3>2 DEF Reorganise, ChainInv, BscOK
    <3>4. QED  BY <3>1, <3>3 DEF ChainInv, BscOK
  <2>3. QED  BY <2>1, <2>2
<1>2. UNCHANGED <<registry, sessions, deposits, exceptions, ledger>>
  BY DEF Extend, Reorganise
<1>3. RegistryOK' /\ SessionsOK' /\ DepositsOK' /\ LedgerOK'
  BY <1>2 DEF ChainInv, RegistryOK, SessionsOK, DepositsOK, RowOK, LedgerOK, CreditsOf, registry, ledger
<1>4. QED  BY <1>1, <1>3 DEF ChainInv

\* An address that has an owner keeps it.
LEMMA RegistryMoves ==
  ASSUME ChainInv,
         \/ \E o \in Owners : ReviewOwner(o) \/ \E a \in Addresses : ProvisionAddress(a, o)
         \/ WithdrawApproval
  PROVE  ChainInv'
<1>1. UNCHANGED <<bsc, sessions, deposits, exceptions, ledger>>
  BY DEF ReviewOwner, ProvisionAddress, WithdrawApproval
<1>2. RegistryOK'
  BY DEF ReviewOwner, ProvisionAddress, WithdrawApproval, ChainInv, RegistryOK
<1>3. \A a \in Addresses : addresses[a] # "none" => addresses'[a] = addresses[a]
  BY DEF ReviewOwner, ProvisionAddress, WithdrawApproval, ChainInv, RegistryOK
<1>4. ASSUME NEW t \in Transfers
      PROVE  RowOK(t, deposits[t], t \in exceptions)'
  <2>1. deposits[t] # NoDeposit => deposits[t].owner \in Owners /\ addresses[Recipient[t]] = deposits[t].owner
    BY DEF ChainInv, DepositsOK, RowOK, Deposit
  <2>2. deposits[t] # NoDeposit => addresses'[Recipient[t]] = deposits[t].owner
    BY <1>3, <2>1, TransfersAssumption
  <2>3. QED  BY <1>1, <2>2 DEF ChainInv, DepositsOK, RowOK
<1>5. BscOK' /\ SessionsOK' /\ DepositsOK' /\ LedgerOK'
  BY <1>1, <1>4 DEF ChainInv, BscOK, SessionsOK, DepositsOK, LedgerOK, CreditsOf, bsc, ledger
<1>6. QED  BY <1>2, <1>5 DEF ChainInv

\* A request that goes on, or ends, changes nothing but itself.
LEMMA RequestMoves ==
  ASSUME ChainInv, NEW s \in Sessions, NEW x, SessionOK(x), Becomes(s, x)
  PROVE  ChainInv'
<1>1. sessions' = [sessions EXCEPT ![s] = x] /\ UNCHANGED <<bsc, registry, deposits, exceptions, ledger>>
  BY DEF Becomes
<1>2. SessionsOK'
  BY <1>1 DEF ChainInv, SessionsOK
<1>3. BscOK' /\ RegistryOK' /\ DepositsOK' /\ LedgerOK'
  BY <1>1 DEF ChainInv, BscOK, RegistryOK, DepositsOK, RowOK, LedgerOK, CreditsOf, bsc, registry, ledger
<1>4. QED  BY <1>2, <1>3 DEF ChainInv

\* The confirmations that are counted are never more than the height of the chain.
LEMMA Reads ==
  ASSUME ChainInv, NEW s \in Sessions,
         \/ \E o \in Owners, t \in Transfers : Submit(s, o, t)
         \/ ReadReceipt(s) \/ ReadHead(s) \/ ObserverFails(s) \/ Conclude(s)
  PROVE  ChainInv'
<1>1. SessionOK(Closed)
  BY DEF SessionOK
<1>2. SessionOK(sessions[s]) /\ Closed.at = "closed"
  BY DEF ChainInv, SessionsOK, Closed
<1>3. ASSUME NEW o \in Owners, NEW t \in Transfers, Submit(s, o, t)
      PROVE  ChainInv'
  <2> PICK x : x = [at |-> "receipt", owner |-> o, transfer |-> t]
    OBVIOUS
  <2>1. SessionOK(x)
    BY DEF SessionOK
  <2>2. QED  BY <1>3, <2>1, RequestMoves DEF Submit
<1>4. CASE ReadReceipt(s)
  <2>1. sessions[s].owner \in Owners /\ sessions[s].transfer \in Transfers
    BY <1>2, <1>4 DEF ReadReceipt, SessionOK
  <2> PICK block : block = chain[sessions[s].transfer]
    OBVIOUS
  <2>2. block \in Block \/ block = NoBlock
    BY <2>1 DEF ChainInv, BscOK
  <2> PICK x : x = [at |-> IF block = NoBlock THEN "missing" ELSE "head", block |-> block,
                    owner |-> sessions[s].owner, transfer |-> sessions[s].transfer]
    OBVIOUS
  <2>3. SessionOK(x)
    BY <2>1, <2>2 DEF SessionOK
  <2>4. QED  BY <1>4, <2>3, RequestMoves DEF ReadReceipt
<1>5. CASE ReadHead(s)
  <2>1. sessions[s].owner \in Owners /\ sessions[s].transfer \in Transfers /\ sessions[s].block \in Block
    BY <1>2, <1>5 DEF ReadHead, SessionOK
  <2> PICK b : b = sessions[s].block
    OBVIOUS
  <2>2. b.height \in 1..HeadLimit /\ head \in 0..HeadLimit /\ HeadLimit \in Nat
    BY <2>1, ChainLimits DEF Block, ChainInv, BscOK
  <2>3. Max({head - b.height + 1, 0}) \in 0..HeadLimit
    <3>1. head - b.height + 1 \in Int /\ head - b.height + 1 <= HeadLimit
      BY <2>2
    <3> PICK n \in Int : n = head - b.height + 1
      BY <3>1
    <3>2. Max({n, 0}) \in {n, 0} /\ Max({n, 0}) >= 0
      <4>1. 0 \in Int
        OBVIOUS
      <4>2. QED  BY <4>1, MaxOfTwo, Zenon
    <3>3. QED  BY <2>2, <3>1, <3>2
  <2> PICK x : x = [at |-> "seen", block |-> b, count |-> Max({head - b.height + 1, 0}),
                    owner |-> sessions[s].owner, transfer |-> sessions[s].transfer]
    OBVIOUS
  <2>4. SessionOK(x)
    BY <2>1, <2>3 DEF SessionOK
  <2>5. QED  BY <1>5, <2>4, RequestMoves DEF ReadHead
<1>6. CASE ObserverFails(s) \/ Conclude(s)
  BY <1>1, <1>6, RequestMoves DEF ObserverFails, Conclude
<1>7. QED  BY <1>3, <1>4, <1>5, <1>6

(***************************************************************************)
(* The transaction of a request, on the row of its transfer.               *)
(***************************************************************************)
LEMMA RowOfRequest ==
  ASSUME ChainInv, NEW s \in Sessions, Missing(s) \/ Seen(s)
  PROVE  /\ Transfer(s) \in Transfers /\ Sender(s) \in Owners
         /\ Row(s) \in Deposit /\ Row(s).owner = Sender(s)
         /\ addresses[Recipient[Transfer(s)]] = Sender(s)
         /\ RowOK(Transfer(s), Row(s), Transfer(s) \in exceptions)
         /\ Row(s).credited = Prior(s).credited
         /\ Row(s).credited => Prior(s).owner = Sender(s)
<1>1. /\ Transfer(s) \in Transfers /\ Sender(s) \in Owners
      /\ Seen(s) => sessions[s].block \in Block /\ sessions[s].count \in 0..HeadLimit
  <2>1. SessionOK(sessions[s]) /\ Closed.at = "closed"
    BY DEF ChainInv, SessionsOK, Closed
  <2>2. sessions[s].at \in {"missing", "seen"} /\ (Seen(s) => sessions[s].at = "seen")
    BY DEF Missing, Seen
  <2>3. sessions[s] # Closed
    BY <2>1, <2>2
  <2>4. QED  BY <2>1, <2>2, <2>3 DEF SessionOK, Transfer, Sender
<1>2. RowOK(Transfer(s), Prior(s), Transfer(s) \in exceptions)
  BY <1>1 DEF ChainInv, DepositsOK, Prior
<1>3. CASE Prior(s) # NoDeposit
  <2>1. Row(s) = Prior(s)
    BY <1>3 DEF Row
  <2>2. Prior(s).owner = Sender(s)
    BY <1>3 DEF Missing, Seen
  <2>3. QED  BY <1>1, <1>2, <1>3, <2>1, <2>2 DEF RowOK
<1>4. CASE Prior(s) = NoDeposit
  <2>1. Seen(s) /\ addresses[Recipient[Transfer(s)]] = Sender(s)
    BY <1>4 DEF Missing, Seen
  <2> PICK d : d = [state |-> "confirming", credited |-> FALSE, owner |-> Sender(s),
                    block |-> sessions[s].block, count |-> sessions[s].count]
    OBVIOUS
  <2>2. Row(s) = d
    BY <1>4 DEF Row
  <2>3. d \in Deposit
    BY <1>1, <2>1 DEF Deposit
  <2>4. d.owner = Sender(s) /\ d.credited = FALSE /\ d.state = "confirming"
    OBVIOUS
  <2>5. Prior(s).credited = FALSE /\ Prior(s).state = "none"
    BY <1>4, NoRow
  <2>6. Transfer(s) \notin exceptions
    BY <1>2, <2>5 DEF RowOK
  <2>7. RowOK(Transfer(s), d, Transfer(s) \in exceptions)
    BY <2>1, <2>3, <2>4, <2>6 DEF RowOK
  <2>8. QED  BY <1>1, <2>1, <2>2, <2>3, <2>4, <2>5, <2>7
<1>5. QED  BY <1>3, <1>4

\* How a row changes.
Changed(d, e, state, credited, n) ==
  e \in Deposit /\ e.state = state /\ e.credited = credited /\ e.owner = d.owner /\ e.count = n

\* What the handlers write to a deposit row.
LEMMA RowChanges ==
  ASSUME NEW d \in Deposit
  PROVE  /\ d.count \in 0..HeadLimit
         /\ Changed(d, [d EXCEPT !.state = "exception"], "exception", d.credited, d.count)
         /\ Changed(d, [d EXCEPT !.state = "reverted"], "reverted", d.credited, d.count)
         /\ \A n \in 0..HeadLimit :
              /\ Changed(d, [d EXCEPT !.count = n], d.state, d.credited, n)
              /\ Changed(d, [d EXCEPT !.state = "finalized", !.credited = TRUE, !.count = n], "finalized", TRUE, n)
<1>1. \A state \in {"exception", "reverted"} : [d EXCEPT !.state = state] \in Deposit
  BY DEF Deposit
<1>2. \A n \in 0..HeadLimit : [d EXCEPT !.count = n] \in Deposit
  BY DEF Deposit
<1>3. \A n \in 0..HeadLimit : [d EXCEPT !.state = "finalized", !.credited = TRUE, !.count = n] \in Deposit
  <2>1. "finalized" \in {"confirming", "finalized", "reverted", "exception"} /\ TRUE \in BOOLEAN
    OBVIOUS
  <2>2. QED  BY <2>1, Zenon DEF Deposit
<1>4. d = [state |-> d.state, credited |-> d.credited, owner |-> d.owner, block |-> d.block, count |-> d.count]
      /\ d.count \in 0..HeadLimit
  BY DEF Deposit
<1>5. QED  BY <1>1, <1>2, <1>3, <1>4 DEF Changed

\* A row that is stored without a credit.
LEMMA RowStored ==
  ASSUME ChainInv, NEW s \in Sessions, Missing(s) \/ Seen(s), NEW row \in Deposit, Stores(s, row),
         row.owner = Sender(s), row.credited = Row(s).credited,
         RowOK(Transfer(s), row, Transfer(s) \in exceptions'),
         exceptions' = exceptions \/ exceptions' = exceptions \cup {Transfer(s)}, UNCHANGED ledger
  PROVE  ChainInv'
<1> PICK t : t = Transfer(s)
  OBVIOUS
<1>1. /\ t \in Transfers /\ deposits' = [deposits EXCEPT ![t] = row]
      /\ sessions' = [sessions EXCEPT ![s] = Closed] /\ UNCHANGED <<bsc, registry>>
      /\ row.credited = deposits[t].credited /\ (row.credited => deposits[t].owner = row.owner)
  BY RowOfRequest DEF Stores, Prior
<1>2. deposits'[t] = row /\ \A u \in Transfers \ {t} : deposits'[u] = deposits[u]
  BY <1>1 DEF ChainInv, DepositsOK
<1>3. DepositsOK'
  <2>1. deposits' = [u \in Transfers |-> deposits'[u]] /\ exceptions' \subseteq Transfers
    BY <1>1 DEF ChainInv, DepositsOK
  <2>2. ASSUME NEW u \in Transfers
        PROVE  RowOK(u, deposits[u], u \in exceptions)'
    <3>1. CASE u = t
      BY <1>1, <1>2, <3>1 DEF RowOK, registry
    <3>2. CASE u # t
      <4>1. RowOK(u, deposits[u], u \in exceptions) /\ (u \in exceptions' <=> u \in exceptions)
        BY <3>2 DEF ChainInv, DepositsOK
      <4>2. QED  BY <1>1, <1>2, <3>2, <4>1 DEF RowOK, registry
    <3>3. QED  BY <3>1, <3>2
  <2>3. QED  BY <2>1, <2>2 DEF DepositsOK
<1>4. \A o \in Owners : CreditsOf(o)' = CreditsOf(o)
  BY <1>1, <1>2 DEF CreditsOf
<1>5. LedgerOK'
  BY <1>4 DEF ChainInv, LedgerOK, ledger
<1>6. BscOK' /\ RegistryOK'
  BY <1>1 DEF ChainInv, BscOK, RegistryOK, bsc, registry
<1>7. SessionsOK'
  BY <1>1 DEF ChainInv, SessionsOK, SessionOK
<1>8. QED  BY <1>3, <1>5, <1>6, <1>7 DEF ChainInv

\* The answers that credit nothing.
LEMMA AnswersStored ==
  ASSUME ChainInv, NEW s \in Sessions,
         OpenFinalityException(s) \/ Revert(s) \/ SetAside(s) \/ Confirm(s)
  PROVE  ChainInv'
<1>d. PICK d, t : d = Row(s) /\ t = Transfer(s)
  OBVIOUS
<1>1. Missing(s) \/ Seen(s)
  BY DEF OpenFinalityException, ContradictsCredit, Moved, Same, Revert, Vanishes,
         SetAside, TurnsUpElsewhere, Confirm, StillConfirming
<1>2. /\ t \in Transfers /\ d \in Deposit /\ d.owner = Sender(s) /\ addresses[Recipient[t]] = Sender(s)
      /\ RowOK(t, d, t \in exceptions)
  BY <1>1, <1>d, RowOfRequest
<1>3. ASSUME NEW row \in Deposit, Stores(s, row), row.owner = d.owner, row.credited = d.credited,
             row.count >= d.count, row.state = d.state \/ (row.state = "reverted" /\ ~ d.credited) \/ row.state = "exception",
             t \in exceptions' <=> row.state = "exception" /\ row.credited,
             exceptions' = exceptions \/ exceptions' = exceptions \cup {t}, UNCHANGED ledger
      PROVE  ChainInv'
  <2>1. d.count \in Int /\ row.count \in Int /\ Confirmations \in Int /\ d # NoDeposit
    BY <1>2, <1>3, ChainLimits, NoRow DEF Deposit
  <2>2. RowOK(t, row, t \in exceptions')
    BY <1>2, <1>3, <2>1 DEF RowOK
  <2>3. QED  BY <1>1, <1>2, <1>3, <1>d, <2>2, RowStored
<1>4. CASE OpenFinalityException(s)
  <2>r. PICK row : row = [d EXCEPT !.state = "exception"]
    OBVIOUS
  <2>0. d.count \in 0..HeadLimit /\ Changed(d, [d EXCEPT !.state = "exception"], "exception", d.credited, d.count)
    BY <1>2, RowChanges
  <2>1. Changed(d, row, "exception", d.credited, d.count) /\ d.count \in Int
    BY <2>0, <2>r, ChainLimits
  <2>2. Stores(s, row) /\ exceptions' = exceptions \cup {t} /\ UNCHANGED ledger /\ d.state = "finalized"
    BY <1>4, <1>d, <2>r DEF OpenFinalityException, ContradictsCredit
  <2>3. d.credited /\ t \in exceptions'
    BY <1>2, <2>2 DEF RowOK
  <2>31. row.count >= d.count
    BY <2>1 DEF Changed
  <2>32. t \in exceptions' <=> row.state = "exception" /\ row.credited
    BY <2>1, <2>3 DEF Changed
  <2>4. QED  BY <1>3, <2>1, <2>2, <2>31, <2>32 DEF Changed
<1>5. CASE Revert(s)
  <2>r. PICK row : row = [d EXCEPT !.state = "reverted"]
    OBVIOUS
  <2>0. d.count \in 0..HeadLimit /\ Changed(d, [d EXCEPT !.state = "reverted"], "reverted", d.credited, d.count)
    BY <1>2, RowChanges
  <2>1. Changed(d, row, "reverted", d.credited, d.count) /\ d.count \in Int
    BY <2>0, <2>r, ChainLimits
  <2>2. Stores(s, row) /\ exceptions' = exceptions /\ UNCHANGED ledger /\ d.state = "confirming"
    BY <1>5, <1>d, <2>r DEF Revert, Vanishes
  <2>3. ~ d.credited /\ t \notin exceptions
    BY <1>2, <2>2 DEF RowOK
  <2>4. QED  BY <1>3, <2>1, <2>2, <2>3 DEF Changed
<1>6. CASE SetAside(s)
  <2>r. PICK row : row = [d EXCEPT !.state = "exception"]
    OBVIOUS
  <2>0. d.count \in 0..HeadLimit /\ Changed(d, [d EXCEPT !.state = "exception"], "exception", d.credited, d.count)
    BY <1>2, RowChanges
  <2>1. Changed(d, row, "exception", d.credited, d.count) /\ d.count \in Int
    BY <2>0, <2>r, ChainLimits
  <2>2. Stores(s, row) /\ exceptions' = exceptions /\ UNCHANGED ledger /\ d.state \in {"confirming", "exception"}
    BY <1>6, <1>d, <2>r DEF SetAside, TurnsUpElsewhere
  <2>3. t \in exceptions <=> d.credited
    BY <1>2, <2>2 DEF RowOK
  <2>4. QED  BY <1>3, <2>1, <2>2, <2>3 DEF Changed
<1>7. CASE Confirm(s)
  <2>1. Stores(s, [d EXCEPT !.count = Max({d.count, sessions[s].count})]) /\ Seen(s)
        /\ exceptions' = exceptions /\ UNCHANGED ledger
    BY <1>7, <1>d DEF Confirm, StillConfirming, Same
  <2>n. PICK n : n = Max({d.count, sessions[s].count})
    OBVIOUS
  <2>2. d.count \in 0..HeadLimit /\ sessions[s].count \in 0..HeadLimit
    <3>1. SessionOK(sessions[s]) /\ Closed.at = "closed" /\ sessions[s].at = "seen"
      BY <2>1 DEF ChainInv, SessionsOK, Closed, Seen
    <3>2. QED  BY <1>2, <3>1 DEF SessionOK, Deposit
  <2>3. n \in 0..HeadLimit /\ n >= d.count
    <3>m. PICK a \in Int, b \in Int : a = d.count /\ b = sessions[s].count
      BY <2>2
    <3>1. Max({a, b}) \in {a, b} /\ Max({a, b}) >= a
      BY MaxOfTwo, Zenon
    <3>2. QED  BY <2>2, <2>n, <3>1, <3>m
  <2>r. PICK row : row = [d EXCEPT !.count = n]
    OBVIOUS
  <2>4. Changed(d, row, d.state, d.credited, n)
    BY <1>2, <2>3, <2>r, RowChanges
  <2>5. t \in exceptions <=> row.state = "exception" /\ row.credited
    BY <1>2, <2>4 DEF RowOK, Changed
  <2>6. QED  BY <1>3, <2>1, <2>3, <2>4, <2>5, <2>n, <2>r DEF Changed
<1>8. QED  BY <1>4, <1>5, <1>6, <1>7

\* The credit: one more transfer of its owner, and as much more in the wallet and the escrow.
LEMMA CreditStored ==
  ASSUME ChainInv, NEW s \in Sessions, Credit(s)
  PROVE  ChainInv'
<1>d. PICK d, t, o : d = Row(s) /\ t = Transfer(s) /\ o = Sender(s)
  OBVIOUS
<1>1. Seen(s) /\ d.state = "confirming" /\ sessions[s].count >= Confirmations /\ Credited(s)
  BY <1>d DEF Credit, BecomesFinal, Same, Final
<1>2. /\ t \in Transfers /\ o \in Owners /\ d \in Deposit /\ d.owner = o /\ addresses[Recipient[t]] = o
      /\ RowOK(t, d, t \in exceptions) /\ d.credited = deposits[t].credited
  BY <1>1, <1>d, RowOfRequest DEF Prior
<1>3. ~ d.credited /\ t \notin exceptions
  BY <1>1, <1>2 DEF RowOK
<1>4. sessions[s].count \in 0..HeadLimit
  <2>1. SessionOK(sessions[s]) /\ Closed.at = "closed" /\ sessions[s].at = "seen"
    BY <1>1 DEF ChainInv, SessionsOK, Closed, Seen
  <2>2. QED  BY <2>1 DEF SessionOK
<1>r. PICK row : row = [d EXCEPT !.state = "finalized", !.credited = TRUE, !.count = sessions[s].count]
  OBVIOUS
<1>5. /\ row \in Deposit /\ row.state = "finalized" /\ row.credited /\ row.owner = o
      /\ row.count >= Confirmations
  <2>1. Changed(d, row, "finalized", TRUE, sessions[s].count)
    BY <1>2, <1>4, <1>r, RowChanges
  <2>2. QED  BY <1>1, <1>2, <2>1 DEF Changed
<1>6. /\ deposits' = [deposits EXCEPT ![t] = row] /\ sessions' = [sessions EXCEPT ![s] = Closed]
      /\ UNCHANGED <<bsc, registry, exceptions>>
      /\ available' = [available EXCEPT ![o] = @ + Amount[t]] /\ escrow' = escrow + Amount[t]
  BY <1>1, <1>d, <1>r DEF Credited, Stores
<1>7. deposits'[t] = row /\ \A u \in Transfers \ {t} : deposits'[u] = deposits[u]
  BY <1>2, <1>6 DEF ChainInv, DepositsOK
<1>8. RowOK(t, row, FALSE)
  BY <1>2, <1>5 DEF RowOK
<1>9. DepositsOK'
  <2>1. deposits' = [u \in Transfers |-> deposits'[u]] /\ exceptions' \subseteq Transfers
    BY <1>6 DEF ChainInv, DepositsOK
  <2>2. ASSUME NEW u \in Transfers
        PROVE  RowOK(u, deposits[u], u \in exceptions)'
    <3>1. CASE u = t
      BY <1>3, <1>6, <1>7, <1>8, <3>1 DEF RowOK, registry
    <3>2. CASE u # t
      <4>1. RowOK(u, deposits[u], u \in exceptions)
        BY DEF ChainInv, DepositsOK
      <4>2. QED  BY <1>6, <1>7, <3>2, <4>1 DEF RowOK, registry
    <3>3. QED  BY <3>1, <3>2
  <2>3. QED  BY <2>1, <2>2 DEF DepositsOK
<1>10. LedgerOK'
  <2>1. /\ available \in [Owners -> Nat] /\ escrow \in Nat /\ escrow = SumFunctionOnSet(available, Owners)
        /\ \A p \in Owners : available[p] = SumFunctionOnSet(Amount, CreditsOf(p))
    BY DEF ChainInv, LedgerOK
  <2>2. Amount[t] \in Nat /\ IsFiniteSet(Transfers) /\ IsFiniteSet(Owners) /\ \A u \in Transfers : Amount[u] \in Int
    BY <1>2, TransfersAssumption
  <2>3. t \notin CreditsOf(o) /\ CreditsOf(o)' = CreditsOf(o) \cup {t}
    BY <1>2, <1>3, <1>5, <1>7 DEF CreditsOf
  <2>4. \A p \in Owners \ {o} : CreditsOf(p)' = CreditsOf(p)
    BY <1>2, <1>3, <1>5, <1>7 DEF CreditsOf
  <2>5. SumFunctionOnSet(Amount, CreditsOf(o) \cup {t}) = Amount[t] + SumFunctionOnSet(Amount, CreditsOf(o))
    <3>1. CreditsOf(o) \in SUBSET Transfers
      BY DEF CreditsOf
    <3>2. IsFiniteSet(CreditsOf(o)) /\ \A u \in CreditsOf(o) \cup {t} : Amount[u] \in Int
      BY <1>2, <2>2, <3>1, FS_Subset
    <3>3. QED  BY <2>3, <3>2, SumAdd, Zenon
  <2>6. available' \in [Owners -> Nat] /\ escrow' \in Nat
    BY <1>2, <1>6, <2>1, <2>2
  <2>7. available'[o] = available[o] + Amount[t] /\ \A p \in Owners \ {o} : available'[p] = available[p]
    BY <1>2, <1>6, <2>1
  <2>8. ASSUME NEW p \in Owners
        PROVE  available'[p] = SumFunctionOnSet(Amount, CreditsOf(p)')
    <3>1. CASE p = o
      <4>1. available[o] = SumFunctionOnSet(Amount, CreditsOf(o)) /\ available[o] \in Nat
        BY <1>2, <2>1
      <4>2. CreditsOf(p)' = CreditsOf(o) \cup {t}
        BY <2>3, <3>1 DEF CreditsOf
      <4>3. QED  BY <2>2, <2>5, <2>7, <3>1, <4>1, <4>2
    <3>2. CASE p # o
      BY <2>1, <2>4, <2>7, <3>2
    <3>3. QED  BY <3>1, <3>2
  <2>9. SumFunctionOnSet(available', Owners) = SumFunctionOnSet(available, Owners) - available[o] + available'[o]
    <3>1. \A p \in Owners : available[p] \in Int /\ available'[p] \in Int
      BY <2>1, <2>6
    <3>2. QED  BY <1>2, <2>2, <2>7, <3>1, SumUpdate
  <2>10. escrow' = SumFunctionOnSet(available', Owners)
    <3>1. available[o] \in Nat
      BY <1>2, <2>1
    <3>2. QED  BY <1>6, <2>1, <2>2, <2>7, <2>9, <3>1
  <2>11. QED  BY <2>6, <2>8, <2>10 DEF LedgerOK
<1>11. BscOK' /\ RegistryOK'
  BY <1>6 DEF ChainInv, BscOK, RegistryOK, bsc, registry
<1>12. SessionsOK'
  BY <1>6 DEF ChainInv, SessionsOK, SessionOK
<1>13. QED  BY <1>9, <1>10, <1>11, <1>12 DEF ChainInv

\* The invariant of the deposits holds at the start.
LEMMA ChainStart == ChainInit => ChainInv
<1> SUFFICES ASSUME ChainInit
             PROVE  ChainInv
  OBVIOUS
<1>1. BscOK /\ RegistryOK /\ SessionsOK
  BY ChainLimits DEF ChainInit, BscOK, RegistryOK, SessionsOK, SessionOK
<1>2. \A t \in Transfers : deposits[t] = NoDeposit
  BY DEF ChainInit
<1>3. DepositsOK
  BY <1>2, NoRow DEF ChainInit, DepositsOK, RowOK
<1>4. \A o \in Owners : CreditsOf(o) = {}
  BY <1>2, NoRow DEF CreditsOf
<1>5. SumFunctionOnSet(Amount, {}) = 0
  BY SumEmpty
<1>6. SumFunctionOnSet(available, Owners) = 0
  <2>1. \A o \in Owners : available[o] = 0
    BY DEF ChainInit
  <2>2. QED  BY <2>1, TransfersAssumption, SumZero
<1>7. LedgerOK
  BY <1>4, <1>5, <1>6 DEF ChainInit, LedgerOK
<1>8. QED  BY <1>1, <1>3, <1>7 DEF ChainInv

\* It is inductive.
LEMMA ChainStep ==
  ASSUME ChainInv, ChainNext \/ UNCHANGED chainVars
  PROVE  ChainInv'
<1>1. CASE UNCHANGED chainVars
  BY <1>1 DEF chainVars, bsc, registry, ledger, ChainInv, BscOK, RegistryOK, SessionsOK, DepositsOK, RowOK,
              LedgerOK, CreditsOf
<1>2. CASE ChainNext
  BY <1>2, ChainMoves, RegistryMoves, Reads, AnswersStored, CreditStored DEF ChainNext
<1>3. QED  BY <1>1, <1>2

\* What is added up over a set is the sum of a function on it.
LEMMA AmountSum ==
  ASSUME NEW S
  PROVE  MapThenSumSet(LAMBDA t : Amount[t], S) = SumFunctionOnSet(Amount, S)
BY DEF MapThenSumSet, MapThenFoldSet, SumFunctionOnSet, FoldFunctionOnSet

\* The sum of the wallets, as the sum of one function.
LEMMA AvailableSum == MapThenSumSet(LAMBDA o : available[o], Owners) = SumFunctionOnSet(available, Owners)
BY DEF MapThenSumSet, MapThenFoldSet, SumFunctionOnSet, FoldFunctionOnSet

\* The invariant of the deposits holds.
LEMMA ChainInvariant == Spec => []ChainInv
<1>1. Init => ChainInv
  BY ChainStart DEF Init
<1>2. ChainInv /\ [Next]_vars => ChainInv'
  BY ChainStep DEF Next, vars
<1>3. QED  BY <1>1, <1>2, PTL DEF Spec

\* However requests race and the chain is reorganised, the wallet of an owner is the
\* sum of the transfers to the owner's addresses that are credited, each once and each
\* after enough confirmations, and the escrow is the sum of the wallets.
THEOREM CreditedOnce == Spec => []CreditedOnceToRecipient
<1>1. ChainInv => CreditedOnceToRecipient
  <2> SUFFICES ASSUME ChainInv
               PROVE  CreditedOnceToRecipient
    OBVIOUS
  <2>1. ASSUME NEW o \in Owners
        PROVE  /\ available[o] = MapThenSumSet(LAMBDA t : Amount[t], CreditsOf(o))
               /\ \A t \in CreditsOf(o) : addresses[Recipient[t]] = o /\ deposits[t].count >= Confirmations
    <3>1. available[o] = SumFunctionOnSet(Amount, CreditsOf(o))
      BY DEF ChainInv, LedgerOK
    <3>2. \A t \in CreditsOf(o) : addresses[Recipient[t]] = o /\ deposits[t].count >= Confirmations
      BY NoRow DEF ChainInv, DepositsOK, RowOK, CreditsOf
    <3>3. QED  BY <3>1, <3>2, AmountSum
  <2>2. escrow = MapThenSumSet(LAMBDA o : available[o], Owners)
    BY AvailableSum DEF ChainInv, LedgerOK
  <2>3. QED  BY <2>1, <2>2, Zenon DEF CreditedOnceToRecipient, CreditsOf
<1>2. QED  BY <1>1, ChainInvariant, PTL

\* There is an open item for exactly the deposits that were credited and set aside.
THEOREM ReportedWhenContradicted == Spec => []ContradictedCreditIsReported
<1>1. ChainInv => ContradictedCreditIsReported
  BY DEF ChainInv, DepositsOK, RowOK, ContradictedCreditIsReported
<1>2. QED  BY <1>1, ChainInvariant, PTL

(***************************************************************************)
(* Conversions.  While a quote is being posted no other is, and nobody     *)
(* else touches the wallets it needs; a quote is executed once, and what   *)
(* it pays is worth no more than what it takes.                            *)
(***************************************************************************)
Quote ==
  [state : {"quoted", "executed"}, owner : Customers, source : Assets, destination : Assets,
   amount : Nat, pays : Nat, expires : Nat]
Acceptance == [at : {"waiting", "posting"}, quote : Quotes, asOf : Nat]

FairQuote(q) == q.source # q.destination /\ q.pays * Worth[q.destination] <= q.amount * Worth[q.source]

Snapshot == [terms : Terms, expires : Expiries]
RatesOK == now \in Nat /\ rates \in Seq(Snapshot)
QuotesOK ==
  /\ quotes \in [Quotes -> Quote \cup {NoQuote}]
  /\ \A q \in Quotes : quotes[q] # NoQuote => FairQuote(quotes[q])
AcceptOK ==
  /\ accepting \in [Acceptances -> Acceptance \cup {Ended}]
  /\ \A x \in Acceptances : accepting[x] # Ended => quotes[accepting[x].quote] # NoQuote
PostingOK ==
  /\ \A x, y \in Posting : x = y
  /\ \A x \in Posting : /\ QuoteOf(x).state = "quoted"
                        /\ wallets[QuoteOf(x).owner][QuoteOf(x).source] >= QuoteOf(x).amount
                        /\ inventory[QuoteOf(x).destination] >= QuoteOf(x).pays
PurseOK ==
  /\ wallets \in [Customers -> [Assets -> Nat]] /\ spent \in [Customers -> [Assets -> Nat]]
  /\ inventory \in [Assets -> Nat] /\ funded \in [Assets -> Nat]

\* What the quotes g of a set took and paid of an asset.
TookOf(g, a, S) == SumFunctionOnSet([q \in S |-> g[q].amount], {q \in S : g[q].source = a})
GaveOf(g, a, S) == SumFunctionOnSet([q \in S |-> g[q].pays], {q \in S : g[q].destination = a})
Own(o) == {q \in Executed : quotes[q].owner = o}

SumsOK ==
  \A a \in Assets :
    /\ inventory[a] = funded[a] + TookOf(quotes, a, Executed) - GaveOf(quotes, a, Executed)
    /\ \A o \in Customers :
         wallets[o][a] + spent[o][a] = Opening[o][a] - TookOf(quotes, a, Own(o)) + GaveOf(quotes, a, Own(o))

\* What an owner has and spent, at the fair value.
Holding(w, o) == w[o]["NGN"] + 3 * w[o]["USDT_BSC"]
FairOK == \A o \in Customers : Holding(wallets, o) + Holding(spent, o) <= Holding(Opening, o)

ConvertInv == RatesOK /\ QuotesOK /\ AcceptOK /\ PostingOK /\ PurseOK /\ SumsOK /\ FairOK

\* A row that is not there yet is no quote, and an acceptance that ended is none.
LEMMA NoQuoteYet ==
  /\ NoQuote \notin Quote /\ NoQuote.state = "absent"
  /\ Ended \notin Acceptance /\ Ended.at = "ended"
BY DEF NoQuote, Quote, Ended, Acceptance

\* A positive factor may be cancelled.
LEMMA ProductCancel ==
  ASSUME NEW d \in Nat, d > 0, NEW a \in Int, NEW b \in Int, d * a <= d * b
  PROVE  a <= b
<1>1. ASSUME b + 1 <= a PROVE FALSE
  <2>1. d * (b + 1) <= d * a
    BY <1>1, ProductMonotone
  <2>2. d * (b + 1) = d * b + d /\ d * a \in Int /\ d * b \in Int
    OBVIOUS
  <2>3. QED  BY <2>1, <2>2
<1>2. QED  BY <1>1

\* What the code pays for an amount is worth no more than the amount, whichever way the
\* fee and the amount round.
LEMMA ConvertedIsFair ==
  ASSUME NEW t \in Terms, NEW amount \in Nat, Converted(amount, t) > 0
  PROVE  /\ Converted(amount, t) \in Nat
         /\ Converted(amount, t) * Worth[t.destination] <= amount * Worth[t.source]
<1> DEFINE N == t.numerator
           D == t.denominator
           Ws == Worth[t.source]
           Wd == Worth[t.destination]
           b == amount * t.bps + 9999
           fee == b \div 10000
           n == amount - fee
           nn == n * N
           c == nn \div D
<1>1. /\ N \in Nat /\ D \in Nat /\ D > 0 /\ t.bps \in Nat
      /\ t.source \in Assets /\ t.destination \in Assets
      /\ N * Wd <= D * Ws
  <2> HIDE DEF N, D, Ws, Wd
  <2>1. {t.source, t.destination} = Assets /\ t.bps \in 0..1000
    BY TermsAssumption, SMTT(30)
  <2>a. t.numerator \in Nat \ {0} /\ t.denominator \in Nat \ {0}
    BY TermsAssumption, SMTT(30)
  <2>b. t.numerator * Worth[t.destination] <= t.denominator * Worth[t.source]
    BY TermsAssumption, SMTT(30)
  <2>2. t.source \in Assets /\ t.destination \in Assets
    BY <2>1
  <2>3. QED  BY <2>1, <2>2, <2>a, <2>b DEF N, D, Ws, Wd
<1>2. \A a \in Assets : Worth[a] \in Nat
  BY DEF Worth, Assets
<1>3. Ws \in Nat /\ Wd \in Nat
  BY <1>1, <1>2
<1>4. amount * t.bps \in Nat
  BY <1>1
<1>5. b \in Nat
  BY <1>4
<1> HIDE DEF N, D, Ws, Wd, b
<1>6. fee \in Int /\ b < 10000 * fee + 10000
  BY <1>5, DivBounds
<1> HIDE DEF fee
<1>7. fee >= 0
  BY <1>5, <1>6
<1>8. n \in Int /\ n <= amount
  BY <1>6, <1>7
<1> HIDE DEF n
<1>9. nn \in Int
  BY <1>1, <1>8
<1> HIDE DEF nn
<1>10. c \in Int /\ D * c <= nn
  BY <1>1, <1>9, DivBounds
<1>11. Converted(amount, t) = c
  BY DEF Converted, Fee, c, nn, n, fee, b, N, D
<1> HIDE DEF c
<1>12. c > 0
  BY <1>11
<1>13. n >= 0
  <2>1. D * 1 <= D * c
    BY <1>1, <1>10, <1>12, ProductMonotone
  <2>2. nn >= 1
    <3>1. D * 1 = D /\ D * c \in Int
      BY <1>1, <1>10
    <3>2. QED  BY <1>1, <1>9, <1>10, <2>1, <3>1
  <2>3. ASSUME n <= 0 PROVE FALSE
    <3>1. N * n <= N * 0
      BY <1>1, <1>8, <2>3, ProductMonotone
    <3>2. N * 0 = 0 /\ N * n = nn
      BY <1>1, <1>8 DEF nn
    <3>3. QED  BY <1>9, <2>2, <3>1, <3>2
  <2>4. QED  BY <1>8, <2>3
<1>14. Wd * (D * c) <= Wd * nn
  BY <1>1, <1>3, <1>9, <1>10, ProductMonotone
<1>15. n * (N * Wd) <= n * (D * Ws)
  <2>1. n \in Nat /\ N * Wd \in Int /\ D * Ws \in Int
    BY <1>1, <1>3, <1>8, <1>13
  <2>2. QED  BY <1>1, <2>1, ProductMonotone
<1>16. /\ Wd * (D * c) = D * (c * Wd)
       /\ Wd * nn = n * (N * Wd)
       /\ n * (D * Ws) = D * (n * Ws)
  BY <1>1, <1>3, <1>8, <1>10 DEF nn
<1>17. c * Wd <= n * Ws
  <2>1. c * Wd \in Int /\ n * Ws \in Int
    BY <1>3, <1>8, <1>10
  <2>2. D * (c * Wd) \in Int /\ n * (N * Wd) \in Int /\ D * (n * Ws) \in Int
    BY <1>1, <1>3, <1>8, <1>10
  <2>3. D * (c * Wd) <= D * (n * Ws)
    BY <1>14, <1>15, <1>16, <2>2
  <2>4. QED  BY <1>1, <2>1, <2>3, ProductCancel
<1>18. n * Ws <= amount * Ws
  <2>1. Ws * n <= Ws * amount
    BY <1>3, <1>8, ProductMonotone
  <2>2. QED  BY <1>3, <1>8, <2>1
<1>19. c * Wd <= amount * Ws
  <2>1. c * Wd \in Int /\ n * Ws \in Int /\ amount * Ws \in Int
    BY <1>3, <1>8, <1>10
  <2>2. QED  BY <1>17, <1>18, <2>1
<1>20. QED  BY <1>10, <1>11, <1>12, <1>19 DEF Ws, Wd

\* The smaller of two numbers is one of them, and a set of rows has a newest.
LEMMA MinOfTwo ==
  ASSUME NEW a \in Int, NEW b \in Int
  PROVE  Min({a, b}) \in {a, b}
<1>1. \E x \in {a, b} : \A y \in {a, b} : x =< y
  <2>1. CASE a <= b
    BY <2>1
  <2>2. CASE b <= a
    BY <2>2
  <2>3. QED  BY <2>1, <2>2
<1>2. QED  BY <1>1 DEF Min

\* The greatest element of a finite set of numbers is in it.
LEMMA MaxIn ==
  ASSUME NEW n \in Nat, NEW S \in SUBSET (1..n), S # {}
  PROVE  Max(S) \in S
<1> DEFINE Top(T) == \E x \in T : \A y \in T : x >= y
           B == {T \in SUBSET S : T # {} /\ ~ Top(T)}
<1>1. IsFiniteSet(S)
  BY FS_Interval, FS_Subset, 1 \in Int, n \in Int
<1>2. ASSUME B # {} PROVE FALSE
  <2>1. PICK T \in B : \A x \in T : T \ {x} \notin B
    BY <1>1, <1>2, FinMin
  <2>2. PICK x \in T : TRUE
    OBVIOUS
  <2>3. \A y \in T : y \in Int
    OBVIOUS
  <2>4. CASE T \ {x} = {}
    BY <2>2, <2>3, <2>4
  <2>5. CASE T \ {x} # {}
    <3>1. Top(T \ {x})
      BY <2>1, <2>2, <2>5
    <3>2. PICK m \in T \ {x} : \A y \in T \ {x} : m >= y
      BY <3>1
    <3>3. CASE m >= x
      BY <2>3, <3>2, <3>3
    <3>4. CASE x >= m
      <4>1. \A y \in T : x >= y
        BY <2>2, <2>3, <3>2, <3>4
      <4>2. QED  BY <2>2, <4>1
    <3>5. QED  BY <2>2, <2>3, <3>2, <3>3, <3>4
  <2>6. QED  BY <2>4, <2>5
<1>3. Top(S)
  BY <1>2
<1>4. QED  BY <1>3 DEF Max

\* The sums over the same quotes are the same; one more quote adds what it took and paid.
LEMMA SameQuotes ==
  ASSUME NEW g, NEW h, NEW S, \A q \in S : h[q] = g[q], NEW a
  PROVE  TookOf(h, a, S) = TookOf(g, a, S) /\ GaveOf(h, a, S) = GaveOf(g, a, S)
<1>1. /\ [q \in S |-> h[q].amount] = [q \in S |-> g[q].amount]
      /\ [q \in S |-> h[q].pays] = [q \in S |-> g[q].pays]
      /\ {q \in S : h[q].source = a} = {q \in S : g[q].source = a}
      /\ {q \in S : h[q].destination = a} = {q \in S : g[q].destination = a}
  OBVIOUS
<1>2. QED  BY <1>1, Zenon DEF TookOf, GaveOf

TookOnce(g, h, S, y, a) ==
  /\ h[y].source = a => TookOf(h, a, S \cup {y}) = TookOf(g, a, S) + h[y].amount
  /\ h[y].source # a => TookOf(h, a, S \cup {y}) = TookOf(g, a, S)

\* One more executed quote takes its amount once,
LEMMA TookMore ==
  ASSUME NEW g, NEW h, NEW S, IsFiniteSet(S), NEW y, y \notin S,
         \A q \in S : h[q] = g[q] /\ g[q].amount \in Nat, h[y].amount \in Nat, NEW a
  PROVE  TookOnce(g, h, S, y, a)
<1> DEFINE F == [q \in S |-> g[q].amount]
           H == [q \in S \cup {y} |-> h[q].amount]
           T == {q \in S : g[q].source = a}
           U == {q \in S \cup {y} : h[q].source = a}
<1>1. IsFiniteSet(T) /\ y \notin T
  BY FS_Subset
<1>2. \A q \in T : F[q] \in Int /\ H[q] = F[q]
  OBVIOUS
<1>3. H[y] = h[y].amount /\ H[y] \in Int
  OBVIOUS
<1>4. h[y].source = a => U = T \cup {y}
  OBVIOUS
<1>5. h[y].source # a => U = T
  OBVIOUS
<1>6. TookOf(h, a, S \cup {y}) = SumFunctionOnSet(H, U) /\ TookOf(g, a, S) = SumFunctionOnSet(F, T)
  BY DEF TookOf
<1> HIDE DEF F, H, T, U
<1>7. SumFunctionOnSet(H, T) = SumFunctionOnSet(F, T) /\ SumFunctionOnSet(F, T) \in Int
  <2>1. SumFunctionOnSet(H, T) = SumFunctionOnSet(F, T)
    BY <1>1, <1>2, SumEqual
  <2>2. SumFunctionOnSet(F, T) \in Int
    BY <1>1, <1>2, SumType
  <2>3. QED  BY <2>1, <2>2
<1>8. SumFunctionOnSet(H, T \cup {y}) = H[y] + SumFunctionOnSet(H, T)
  <2>1. \A q \in T \cup {y} : H[q] \in Int
    BY <1>2, <1>3
  <2>2. QED  BY <1>1, <2>1, SumAdd
<1>9. ASSUME h[y].source = a
      PROVE  TookOf(h, a, S \cup {y}) = TookOf(g, a, S) + h[y].amount
  <2>1. SumFunctionOnSet(H, U) = SumFunctionOnSet(H, T \cup {y})
    BY <1>4, <1>9, Zenon
  <2>2. SumFunctionOnSet(H, U) = SumFunctionOnSet(F, T) + H[y]
    BY <1>3, <1>7, <1>8, <2>1
  <2>3. QED  BY <1>3, <1>6, <2>2, Zenon
<1>10. ASSUME h[y].source # a
       PROVE  TookOf(h, a, S \cup {y}) = TookOf(g, a, S)
  BY <1>5, <1>6, <1>7, <1>10
<1>11. QED  BY <1>9, <1>10, Zenon DEF TookOnce

GaveOnce(g, h, S, y, a) ==
  /\ h[y].destination = a => GaveOf(h, a, S \cup {y}) = GaveOf(g, a, S) + h[y].pays
  /\ h[y].destination # a => GaveOf(h, a, S \cup {y}) = GaveOf(g, a, S)

\* and gives its payout once.
LEMMA GaveMore ==
  ASSUME NEW g, NEW h, NEW S, IsFiniteSet(S), NEW y, y \notin S,
         \A q \in S : h[q] = g[q] /\ g[q].pays \in Nat, h[y].pays \in Nat, NEW a
  PROVE  GaveOnce(g, h, S, y, a)
<1> DEFINE F == [q \in S |-> g[q].pays]
           H == [q \in S \cup {y} |-> h[q].pays]
           T == {q \in S : g[q].destination = a}
           U == {q \in S \cup {y} : h[q].destination = a}
<1>1. IsFiniteSet(T) /\ y \notin T
  BY FS_Subset
<1>2. \A q \in T : F[q] \in Int /\ H[q] = F[q]
  OBVIOUS
<1>3. H[y] = h[y].pays /\ H[y] \in Int
  OBVIOUS
<1>4. h[y].destination = a => U = T \cup {y}
  OBVIOUS
<1>5. h[y].destination # a => U = T
  OBVIOUS
<1>6. GaveOf(h, a, S \cup {y}) = SumFunctionOnSet(H, U) /\ GaveOf(g, a, S) = SumFunctionOnSet(F, T)
  BY DEF GaveOf
<1> HIDE DEF F, H, T, U
<1>7. SumFunctionOnSet(H, T) = SumFunctionOnSet(F, T) /\ SumFunctionOnSet(F, T) \in Int
  <2>1. SumFunctionOnSet(H, T) = SumFunctionOnSet(F, T)
    BY <1>1, <1>2, SumEqual
  <2>2. SumFunctionOnSet(F, T) \in Int
    BY <1>1, <1>2, SumType
  <2>3. QED  BY <2>1, <2>2
<1>8. SumFunctionOnSet(H, T \cup {y}) = H[y] + SumFunctionOnSet(H, T)
  <2>1. \A q \in T \cup {y} : H[q] \in Int
    BY <1>2, <1>3
  <2>2. QED  BY <1>1, <2>1, SumAdd
<1>9. ASSUME h[y].destination = a
      PROVE  GaveOf(h, a, S \cup {y}) = GaveOf(g, a, S) + h[y].pays
  <2>1. SumFunctionOnSet(H, U) = SumFunctionOnSet(H, T \cup {y})
    BY <1>4, <1>9, Zenon
  <2>2. SumFunctionOnSet(H, U) = SumFunctionOnSet(F, T) + H[y]
    BY <1>3, <1>7, <1>8, <2>1
  <2>3. QED  BY <1>3, <1>6, <2>2, Zenon
<1>10. ASSUME h[y].destination # a
       PROVE  GaveOf(h, a, S \cup {y}) = GaveOf(g, a, S)
  BY <1>5, <1>6, <1>7, <1>10
<1>11. QED  BY <1>9, <1>10, Zenon DEF GaveOnce

\* The sums of the properties are these sums.
LEMMA TookSum ==
  ASSUME NEW a, NEW S
  PROVE  PaidIn(a, S) = TookOf(quotes, a, S)
<1> DEFINE R == {q \in S : quotes[q].source = a}
           F == [q \in S |-> quotes[q].amount]
           D(s) == s = [T \in SUBSET R |-> IF T = {} THEN 0
                          ELSE quotes[Pick(T)].amount + s[T \ {Pick(T)}]]
           E(s) == Defines(s, F, R)
<1>1. PaidIn(a, S) = (CHOOSE s : D(s))[R]
  BY DEF PaidIn, MapThenSumSet, MapThenFoldSet, Pick
<1>2. TookOf(quotes, a, S) = (CHOOSE s : E(s))[R]
  BY SumDef DEF TookOf
<1>3. \A T \in SUBSET R : T # {} => F[Pick(T)] = quotes[Pick(T)].amount
  BY PickIn
<1> HIDE DEF F
<1>4. ASSUME NEW s PROVE D(s) <=> E(s)
  BY <1>3 DEF Defines
<1> HIDE DEF D, E
<1>5. (CHOOSE s : D(s)) = (CHOOSE s : E(s))
  BY <1>4
<1>6. QED  BY <1>1, <1>2, <1>5

\* What was paid out of an asset, as the sum of one function.
LEMMA GaveSum ==
  ASSUME NEW a, NEW S
  PROVE  PaidOut(a, S) = GaveOf(quotes, a, S)
<1> DEFINE R == {q \in S : quotes[q].destination = a}
           F == [q \in S |-> quotes[q].pays]
           D(s) == s = [T \in SUBSET R |-> IF T = {} THEN 0
                          ELSE quotes[Pick(T)].pays + s[T \ {Pick(T)}]]
           E(s) == Defines(s, F, R)
<1>1. PaidOut(a, S) = (CHOOSE s : D(s))[R]
  BY DEF PaidOut, MapThenSumSet, MapThenFoldSet, Pick
<1>2. GaveOf(quotes, a, S) = (CHOOSE s : E(s))[R]
  BY SumDef DEF GaveOf
<1>3. \A T \in SUBSET R : T # {} => F[Pick(T)] = quotes[Pick(T)].pays
  BY PickIn
<1> HIDE DEF F
<1>4. ASSUME NEW s PROVE D(s) <=> E(s)
  BY <1>3 DEF Defines
<1> HIDE DEF D, E
<1>5. (CHOOSE s : D(s)) = (CHOOSE s : E(s))
  BY <1>4
<1>6. QED  BY <1>1, <1>2, <1>5

\* The value of a wallet, written out.
LEMMA ValueSum ==
  ASSUME NEW o, NEW w, w[o] \in [Assets -> Nat]
  PROVE  Value(o, w) = Holding(w, o)
<1> DEFINE F == [a \in Assets |-> w[o][a] * Worth[a]]
           D(s) == s = [T \in SUBSET Assets |-> IF T = {} THEN 0
                          ELSE (w[o][Pick(T)] * Worth[Pick(T)]) + s[T \ {Pick(T)}]]
           E(s) == Defines(s, F, Assets)
<1>1. Value(o, w) = (CHOOSE s : D(s))[Assets]
  BY DEF Value, MapThenSumSet, MapThenFoldSet, Pick
<1>2. SumFunctionOnSet(F, Assets) = (CHOOSE s : E(s))[Assets]
  BY SumDef
<1>3. \A T \in SUBSET Assets : T # {} => F[Pick(T)] = w[o][Pick(T)] * Worth[Pick(T)]
  BY PickIn
<1>4. F["NGN"] = w[o]["NGN"] /\ F["USDT_BSC"] = 3 * w[o]["USDT_BSC"]
  <2>1. w[o]["NGN"] \in Nat /\ w[o]["USDT_BSC"] \in Nat
    BY DEF Assets
  <2>2. QED  BY <2>1 DEF Assets, Worth
<1>5. F["NGN"] \in Int /\ F["USDT_BSC"] \in Int
  <2>1. w[o]["NGN"] \in Nat /\ w[o]["USDT_BSC"] \in Nat
    BY DEF Assets
  <2>2. QED  BY <1>4, <2>1
<1> HIDE DEF F
<1>6. ASSUME NEW s PROVE D(s) <=> E(s)
  BY <1>3 DEF Defines
<1> HIDE DEF D, E
<1>7. (CHOOSE s : D(s)) = (CHOOSE s : E(s))
  BY <1>6
<1>8. Value(o, w) = SumFunctionOnSet(F, Assets)
  BY <1>1, <1>2, <1>7
<1>9. SumFunctionOnSet(F, Assets) = F["NGN"] + F["USDT_BSC"]
  <2>1. Assets = ({} \cup {"NGN"}) \cup {"USDT_BSC"} /\ IsFiniteSet({}) /\ IsFiniteSet({} \cup {"NGN"})
    BY FS_EmptySet, FS_AddElement DEF Assets
  <2>2. SumFunctionOnSet(F, {}) = 0
    BY SumEmpty
  <2>3. SumFunctionOnSet(F, {} \cup {"NGN"}) = F["NGN"] + SumFunctionOnSet(F, {})
    BY <1>5, <2>1, SumAdd
  <2>4. SumFunctionOnSet(F, ({} \cup {"NGN"}) \cup {"USDT_BSC"})
          = F["USDT_BSC"] + SumFunctionOnSet(F, {} \cup {"NGN"})
    BY <1>5, <2>1, SumAdd
  <2>5. QED  BY <1>5, <2>1, <2>2, <2>3, <2>4
<1>10. QED  BY <1>4, <1>8, <1>9 DEF Holding

(***************************************************************************)
(* The steps.                                                              *)
(***************************************************************************)
\* The executed quotes are finitely many quotes, so their sums are numbers.
LEMMA SumsAreNumbers ==
  ASSUME NEW g, NEW S \in SUBSET Quotes, \A q \in S : g[q] \in Quote, NEW a
  PROVE  /\ IsFiniteSet(S)
         /\ TookOf(g, a, S) \in Int /\ GaveOf(g, a, S) \in Int
<1>1. IsFiniteSet(S)
  BY QuotesAssumption, FS_Subset
<1>2. \A q \in S : g[q].amount \in Nat /\ g[q].pays \in Nat
  BY DEF Quote
<1>3. SumFunctionOnSet([q \in S |-> g[q].amount], {q \in S : g[q].source = a}) \in Int
  <2>1. IsFiniteSet({q \in S : g[q].source = a})
    BY <1>1, FS_Subset
  <2>2. QED  BY <1>2, <2>1, SumType
<1>4. SumFunctionOnSet([q \in S |-> g[q].pays], {q \in S : g[q].destination = a}) \in Int
  <2>1. IsFiniteSet({q \in S : g[q].destination = a})
    BY <1>1, FS_Subset
  <2>2. QED  BY <1>2, <2>1, SumType
<1>5. QED  BY <1>1, <1>3, <1>4, Zenon DEF TookOf, GaveOf

\* An executed quote is a quote, and so is every quote of an owner that is.
LEMMA ExecutedAreQuotes ==
  ASSUME QuotesOK
  PROVE  /\ Executed \in SUBSET Quotes /\ \A q \in Executed : quotes[q] \in Quote
         /\ \A o : Own(o) \in SUBSET Executed
BY DEF QuotesOK, Executed, Own

\* A step that executes no quote keeps the sums, if it moves money only between a wallet
\* and what other handlers took from it, or into an inventory as recognised.
LEMMA SumsKept ==
  ASSUME QuotesOK, PurseOK, PurseOK', SumsOK,
         Executed' = Executed, \A q \in Executed : quotes'[q] = quotes[q],
         \A a \in Assets : inventory'[a] - funded'[a] = inventory[a] - funded[a],
         \A o \in Customers, a \in Assets :
           wallets'[o][a] + spent'[o][a] = wallets[o][a] + spent[o][a]
  PROVE  SumsOK'
<1>1. ASSUME NEW a \in Assets
      PROVE  inventory'[a] = funded'[a] + TookOf(quotes', a, Executed') - GaveOf(quotes', a, Executed')
  <2>1. /\ TookOf(quotes', a, Executed) = TookOf(quotes, a, Executed)
        /\ GaveOf(quotes', a, Executed) = GaveOf(quotes, a, Executed)
    BY SameQuotes
  <2>2. TookOf(quotes, a, Executed) \in Int /\ GaveOf(quotes, a, Executed) \in Int
    BY ExecutedAreQuotes, SumsAreNumbers
  <2>3. /\ inventory[a] \in Nat /\ inventory'[a] \in Nat /\ funded[a] \in Nat /\ funded'[a] \in Nat
    BY DEF PurseOK
  <2>4. inventory[a] = funded[a] + TookOf(quotes, a, Executed) - GaveOf(quotes, a, Executed)
    BY DEF SumsOK
  <2>5. inventory'[a] = funded'[a] + TookOf(quotes', a, Executed) - GaveOf(quotes', a, Executed)
    BY <2>1, <2>2, <2>3, <2>4
  <2>6. QED  BY <2>5, Zenon
<1>2. ASSUME NEW a \in Assets, NEW o \in Customers
      PROVE  wallets'[o][a] + spent'[o][a]
               = Opening[o][a] - TookOf(quotes', a, Own(o)') + GaveOf(quotes', a, Own(o)')
  <2>1. Own(o)' = Own(o)
    BY DEF Own
  <2>2. /\ TookOf(quotes', a, Own(o)) = TookOf(quotes, a, Own(o))
        /\ GaveOf(quotes', a, Own(o)) = GaveOf(quotes, a, Own(o))
    BY ExecutedAreQuotes, SameQuotes
  <2>3. wallets[o][a] + spent[o][a] = Opening[o][a] - TookOf(quotes, a, Own(o)) + GaveOf(quotes, a, Own(o))
    BY DEF SumsOK
  <2>4. wallets'[o][a] + spent'[o][a] = wallets[o][a] + spent[o][a]
    OBVIOUS
  <2>5. QED  BY <2>1, <2>2, <2>3, <2>4, Zenon
<1>3. QED  BY <1>1, <1>2, Zenon DEF SumsOK

\* The books of one more executed quote.
LEMMA SumsMore ==
  ASSUME QuotesOK, QuotesOK', PurseOK, PurseOK', SumsOK,
         NEW y \in Quotes, y \notin Executed, NEW r \in Quote, quotes'[y] = r, FairQuote(r),
         Executed' = Executed \cup {y}, \A q \in Executed : quotes'[q] = quotes[q],
         spent' = spent, funded' = funded,
         inventory'[r.source] = inventory[r.source] + r.amount,
         inventory'[r.destination] = inventory[r.destination] - r.pays,
         wallets'[r.owner][r.source] = wallets[r.owner][r.source] - r.amount,
         wallets'[r.owner][r.destination] = wallets[r.owner][r.destination] + r.pays,
         \A o \in Customers \ {r.owner} : wallets'[o] = wallets[o]
  PROVE  SumsOK'
<1>1. /\ r.owner \in Customers /\ r.source \in Assets /\ r.destination \in Assets
      /\ r.amount \in Nat /\ r.pays \in Nat /\ r.source # r.destination
  BY DEF Quote, FairQuote
<1>2. \A a \in Assets : a = r.source \/ a = r.destination
  BY <1>1 DEF Assets
<1>3. ASSUME NEW S \in SUBSET Executed, NEW a \in Assets
      PROVE  /\ TookOf(quotes, a, S) \in Int /\ GaveOf(quotes, a, S) \in Int
             /\ a = r.source => /\ TookOf(quotes', a, S \cup {y}) = TookOf(quotes, a, S) + r.amount
                                /\ GaveOf(quotes', a, S \cup {y}) = GaveOf(quotes, a, S)
             /\ a = r.destination => /\ TookOf(quotes', a, S \cup {y}) = TookOf(quotes, a, S)
                                     /\ GaveOf(quotes', a, S \cup {y}) = GaveOf(quotes, a, S) + r.pays
  <2>1. S \in SUBSET Quotes /\ y \notin S /\ \A q \in S : quotes[q] \in Quote
    BY <1>3, ExecutedAreQuotes
  <2>2. IsFiniteSet(S) /\ TookOf(quotes, a, S) \in Int /\ GaveOf(quotes, a, S) \in Int
    BY <2>1, SumsAreNumbers
  <2>3. \A q \in S : quotes'[q] = quotes[q] /\ quotes[q].amount \in Nat
    BY <1>3, <2>1 DEF Quote
  <2>a. \A q \in S : quotes'[q] = quotes[q] /\ quotes[q].pays \in Nat
    BY <1>3, <2>1 DEF Quote
  <2>4. quotes'[y].amount \in Nat /\ quotes'[y].pays \in Nat
    BY <1>1
  <2>b. TookOnce(quotes, quotes', S, y, a)
    BY <2>1, <2>2, <2>3, <2>4, TookMore
  <2>c. GaveOnce(quotes, quotes', S, y, a)
    BY <2>1, <2>2, <2>a, <2>4, GaveMore
  <2>5. /\ quotes'[y].source = a => TookOf(quotes', a, S \cup {y}) = TookOf(quotes, a, S) + quotes'[y].amount
        /\ quotes'[y].source # a => TookOf(quotes', a, S \cup {y}) = TookOf(quotes, a, S)
    BY <2>b, Zenon DEF TookOnce
  <2>6. /\ quotes'[y].destination = a => GaveOf(quotes', a, S \cup {y}) = GaveOf(quotes, a, S) + quotes'[y].pays
        /\ quotes'[y].destination # a => GaveOf(quotes', a, S \cup {y}) = GaveOf(quotes, a, S)
    BY <2>c, Zenon DEF GaveOnce
  <2>7. QED  BY <1>1, <2>2, <2>5, <2>6, Zenon
<1>4. \A a \in Assets : /\ inventory[a] \in Nat /\ inventory'[a] \in Nat /\ funded[a] \in Nat
  BY DEF PurseOK
<1>5. \A o \in Customers, a \in Assets :
        wallets[o][a] \in Nat /\ wallets'[o][a] \in Nat /\ spent[o][a] \in Nat /\ Opening[o][a] \in Nat
  BY OpeningAssumption DEF PurseOK
<1>6. ASSUME NEW a \in Assets
      PROVE  inventory'[a] = funded'[a] + TookOf(quotes', a, Executed') - GaveOf(quotes', a, Executed')
  <2>1. inventory[a] = funded[a] + TookOf(quotes, a, Executed) - GaveOf(quotes, a, Executed)
    BY DEF SumsOK
  <2>2. CASE a = r.source
    <3>1. /\ TookOf(quotes', a, Executed') = TookOf(quotes, a, Executed) + r.amount
          /\ GaveOf(quotes', a, Executed') = GaveOf(quotes, a, Executed)
          /\ TookOf(quotes, a, Executed) \in Int /\ GaveOf(quotes, a, Executed) \in Int
      BY <1>3, <2>2
    <3>2. QED  BY <1>1, <1>4, <2>1, <2>2, <3>1
  <2>3. CASE a = r.destination
    <3>1. /\ TookOf(quotes', a, Executed') = TookOf(quotes, a, Executed)
          /\ GaveOf(quotes', a, Executed') = GaveOf(quotes, a, Executed) + r.pays
          /\ TookOf(quotes, a, Executed) \in Int /\ GaveOf(quotes, a, Executed) \in Int
      BY <1>3, <2>3
    <3>2. QED  BY <1>1, <1>4, <2>1, <2>3, <3>1
  <2>4. QED  BY <1>2, <2>2, <2>3
<1>7. ASSUME NEW a \in Assets, NEW o \in Customers
      PROVE  wallets'[o][a] + spent'[o][a]
               = Opening[o][a] - TookOf(quotes', a, Own(o)') + GaveOf(quotes', a, Own(o)')
  <2>1. wallets[o][a] + spent[o][a] = Opening[o][a] - TookOf(quotes, a, Own(o)) + GaveOf(quotes, a, Own(o))
    BY DEF SumsOK
  <2>2. Own(o) \in SUBSET Executed
    BY ExecutedAreQuotes
  <2>3. TookOf(quotes, a, Own(o)) \in Int /\ GaveOf(quotes, a, Own(o)) \in Int
    BY <1>3, <2>2
  <2>4. CASE o # r.owner
    <3>1. Own(o)' = Own(o)
      BY <2>4 DEF Own
    <3>2. TookOf(quotes', a, Own(o)) = TookOf(quotes, a, Own(o)) /\ GaveOf(quotes', a, Own(o)) = GaveOf(quotes, a, Own(o))
      BY <2>2, SameQuotes
    <3>3. wallets'[o][a] = wallets[o][a] /\ spent'[o][a] = spent[o][a]
      BY <2>4
    <3>4. QED  BY <2>1, <3>1, <3>2, <3>3, Zenon
  <2>5. CASE o = r.owner
    <3>1. Own(o)' = Own(o) \cup {y}
      BY <2>5 DEF Own
    <3>2. CASE a = r.source
      <4>1. /\ TookOf(quotes', a, Own(o)') = TookOf(quotes, a, Own(o)) + r.amount
            /\ GaveOf(quotes', a, Own(o)') = GaveOf(quotes, a, Own(o))
        BY <1>3, <2>2, <3>1, <3>2
      <4>2. QED  BY <1>1, <1>5, <2>1, <2>3, <2>5, <3>2, <4>1
    <3>3. CASE a = r.destination
      <4>1. /\ TookOf(quotes', a, Own(o)') = TookOf(quotes, a, Own(o))
            /\ GaveOf(quotes', a, Own(o)') = GaveOf(quotes, a, Own(o)) + r.pays
        BY <1>3, <2>2, <3>1, <3>3
      <4>2. QED  BY <1>1, <1>5, <2>1, <2>3, <2>5, <3>3, <4>1
    <3>4. QED  BY <1>2, <3>2, <3>3
  <2>6. QED  BY <2>4, <2>5
<1>8. QED  BY <1>6, <1>7, Zenon DEF SumsOK

\* The sums are those of the quotes and of the money.
LEMMA SumsStill ==
  ASSUME SumsOK, UNCHANGED <<quotes, wallets, spent, treasury>>
  PROVE  SumsOK'
<1>1. quotes' = quotes /\ wallets' = wallets /\ spent' = spent /\ inventory' = inventory /\ funded' = funded
  BY DEF treasury
<1>2. Executed' = Executed
  BY <1>1 DEF Executed
<1>3. \A o : Own(o)' = Own(o)
  BY <1>1, <1>2 DEF Own
<1>4. QED  BY <1>1, <1>2, <1>3, Zenon DEF SumsOK

\* Nothing but the clock or the rates changes.
LEMMA ClockAndRates ==
  ASSUME ConvertInv,
         \/ Tick
         \/ \E terms \in Terms, expires \in Expiries : PublishConversionRate(terms, expires)
         \/ UNCHANGED convertVars
  PROVE  ConvertInv'
<1>1. UNCHANGED <<quotes, accepting, wallets, spent, treasury>>
  BY DEF Tick, PublishConversionRate, convertVars
<1>2. RatesOK'
  <2>1. CASE Tick
    BY <2>1 DEF Tick, ConvertInv, RatesOK
  <2>2. ASSUME NEW terms \in Terms, NEW expires \in Expiries, PublishConversionRate(terms, expires)
        PROVE  RatesOK'
    BY <2>2 DEF PublishConversionRate, ConvertInv, RatesOK, Snapshot
  <2>3. CASE UNCHANGED convertVars
    BY <2>3 DEF convertVars, ConvertInv, RatesOK
  <2>4. QED  BY <2>1, <2>2, <2>3
<1>3. QuotesOK' /\ AcceptOK'
  BY <1>1 DEF ConvertInv, QuotesOK, AcceptOK
<1>4. PostingOK'
  BY <1>1 DEF ConvertInv, PostingOK, Posting, QuoteOf, treasury
<1>5. PurseOK' /\ FairOK'
  BY <1>1 DEF ConvertInv, PurseOK, FairOK, Holding, treasury
<1>6. SumsOK'
  BY <1>1, SumsStill DEF ConvertInv
<1>7. QED  BY <1>2, <1>3, <1>4, <1>5, <1>6 DEF ConvertInv

\* A new quote is fair, and nobody is posting it.
LEMMA QuoteCreated ==
  ASSUME ConvertInv, NEW q \in Quotes, NEW o \in Customers, NEW source \in Assets,
         NEW amount \in SourceMinor[source], CreateConversionQuote(q, o, source, amount)
  PROVE  ConvertInv'
<1>r. PICK rate : rate = rates[Max(Unexpired(source))]
  OBVIOUS
<1>1. /\ quotes[q] = NoQuote /\ Unexpired(source) # {}
      /\ Converted(amount, rate.terms) > 0
      /\ quotes' = [quotes EXCEPT ![q] =
           [state |-> "quoted", owner |-> o, source |-> source,
            destination |-> rate.terms.destination, amount |-> amount,
            pays |-> Converted(amount, rate.terms), expires |-> Min({now + QuoteLife, rate.expires})]]
      /\ UNCHANGED <<now, rates, accepting, wallets, spent, treasury>>
  BY <1>r, Zenon DEF CreateConversionQuote
<1>2. /\ rate.terms \in Terms /\ rate.expires \in Expiries /\ rate.terms.source = source
  <2>1. Unexpired(source) \in SUBSET (1..Len(rates)) /\ Len(rates) \in Nat
    BY DEF Unexpired, ConvertInv, RatesOK
  <2>2. Max(Unexpired(source)) \in Unexpired(source)
    BY <1>1, <2>1, MaxIn
  <2>3. Max(Unexpired(source)) \in DOMAIN rates /\ rate.terms.source = source
    BY <1>r, <2>2 DEF Unexpired
  <2>4. \A k \in DOMAIN rates : rates[k] \in Snapshot
    BY DEF ConvertInv, RatesOK
  <2>5. rate \in Snapshot
    BY <1>r, <2>3, <2>4, Zenon
  <2>6. QED  BY <2>3, <2>5 DEF Snapshot
<1> DEFINE t == rate.terms
           e == Min({now + QuoteLife, rate.expires})
           pays == Converted(amount, t)
           new == [state |-> "quoted", owner |-> o, source |-> source, destination |-> t.destination,
                   amount |-> amount, pays |-> pays, expires |-> e]
<1>3. amount \in Nat
  BY AmountsAssumption
<1>4. pays \in Nat /\ pays * Worth[t.destination] <= amount * Worth[t.source]
  BY <1>1, <1>2, <1>3, ConvertedIsFair
<1>5. e \in Nat
  <2>1. now + QuoteLife \in Nat /\ rate.expires \in Nat
    <3>1. now \in Nat /\ QuoteLife \in Nat /\ Expiries \subseteq Nat
      BY QuotesAssumption DEF ConvertInv, RatesOK
    <3>2. now + QuoteLife \in Nat
      BY <3>1
    <3>3. rate.expires \in Nat
      BY <1>2, <3>1, Zenon
    <3>4. QED  BY <3>2, <3>3
  <2>2. e \in {now + QuoteLife, rate.expires}
    BY <2>1, MinOfTwo
  <2>3. QED  BY <2>1, <2>2
<1>6. t.destination \in Assets /\ t.source # t.destination
  <2>1. {t.source, t.destination} = Assets
    BY <1>2, TermsAssumption, SMTT(30)
  <2>2. QED  BY <2>1 DEF Assets
<1>7. quotes' = [quotes EXCEPT ![q] = new]
  BY <1>1, Zenon
<1> HIDE DEF t, e, pays
<1>8. new \in Quote
  BY <1>3, <1>4, <1>5, <1>6 DEF Quote
<1>9. FairQuote(new) /\ new.state = "quoted" /\ new # NoQuote
  BY <1>2, <1>4, <1>6, <1>8, NoQuoteYet DEF FairQuote, t
<1> HIDE DEF new
<1>10. quotes'[q] = new /\ \A p \in Quotes \ {q} : quotes'[p] = quotes[p]
  BY <1>7 DEF ConvertInv, QuotesOK
<1>11. QuotesOK'
  <2>1. quotes' \in [Quotes -> Quote \cup {NoQuote}]
    BY <1>7, <1>8 DEF ConvertInv, QuotesOK
  <2>2. \A p \in Quotes : quotes'[p] # NoQuote => FairQuote(quotes'[p])
    BY <1>9, <1>10 DEF ConvertInv, QuotesOK
  <2>3. QED  BY <2>1, <2>2 DEF QuotesOK
<1>12. \A x \in Acceptances : accepting[x] # Ended =>
         accepting[x].quote \in Quotes /\ accepting[x].quote # q
  BY <1>1 DEF ConvertInv, AcceptOK, Acceptance
<1>13. AcceptOK'
  BY <1>1, <1>10, <1>12 DEF ConvertInv, AcceptOK
<1>14. PostingOK'
  <2>1. Posting' = Posting
    BY <1>1 DEF Posting
  <2>2. \A x \in Posting : quotes'[accepting[x].quote] = quotes[accepting[x].quote]
    BY <1>10, <1>12, NoQuoteYet DEF Posting
  <2>3. QED  BY <1>1, <2>1, <2>2 DEF ConvertInv, PostingOK, QuoteOf, treasury
<1>15. PurseOK' /\ FairOK'
  BY <1>1 DEF ConvertInv, PurseOK, FairOK, Holding, treasury
<1>16. Executed' = Executed /\ \A p \in Executed : quotes'[p] = quotes[p]
  <2>1. q \notin Executed /\ q \notin Executed'
    BY <1>1, <1>9, <1>10 DEF Executed
  <2>2. QED  BY <1>10, <2>1 DEF Executed
<1>17. SumsOK'
  <2>1. QuotesOK /\ PurseOK /\ SumsOK
    BY DEF ConvertInv
  <2>2. \A a \in Assets : inventory'[a] - funded'[a] = inventory[a] - funded[a]
    BY <1>1 DEF treasury
  <2>3. \A p \in Customers, a \in Assets : wallets'[p][a] + spent'[p][a] = wallets[p][a] + spent[p][a]
    BY <1>1
  <2>4. QED  BY <1>15, <1>16, <2>1, <2>2, <2>3, SumsKept
<1>18. RatesOK'
  BY <1>1 DEF ConvertInv, RatesOK
<1>19. QED  BY <1>11, <1>13, <1>14, <1>15, <1>17, <1>18 DEF ConvertInv

\* Acceptances come and go; one is posted only while no other is.
LEMMA AcceptanceMoves ==
  ASSUME ConvertInv, NEW x \in Acceptances,
         (\E q \in Quotes : Accept(x, q)) \/ CheckQuote(x) \/ RefuseQuote(x)
  PROVE  ConvertInv'
<1>1. UNCHANGED <<now, rates, quotes, wallets, spent, treasury>>
  BY DEF Accept, CheckQuote, RefuseQuote
<1>2. AcceptOK' /\ \A y \in Acceptances \ {x} : accepting'[y] = accepting[y]
  <2>1. ASSUME NEW q \in Quotes, Accept(x, q)
        PROVE  AcceptOK' /\ \A y \in Acceptances \ {x} : accepting'[y] = accepting[y]
    <3> DEFINE new == [at |-> "waiting", quote |-> q, asOf |-> now]
    <3>1. new \in Acceptance /\ new.quote = q
      BY DEF Acceptance, ConvertInv, RatesOK
    <3>2. accepting' = [accepting EXCEPT ![x] = new] /\ quotes[q] # NoQuote
      BY <2>1 DEF Accept
    <3> HIDE DEF new
    <3>3. QED  BY <1>1, <3>1, <3>2 DEF ConvertInv, AcceptOK
  <2>2. ASSUME CheckQuote(x)
        PROVE  AcceptOK' /\ \A y \in Acceptances \ {x} : accepting'[y] = accepting[y]
    <3>1. accepting[x] \in Acceptance
      BY <2>2, NoQuoteYet DEF CheckQuote, ConvertInv, AcceptOK
    <3> DEFINE new == [accepting[x] EXCEPT !.at = "posting"]
    <3>2. new \in Acceptance /\ new.quote = accepting[x].quote /\ accepting[x] # Ended
      BY <3>1, NoQuoteYet DEF Acceptance
    <3>3. accepting' = [accepting EXCEPT ![x] = new]
      BY <2>2 DEF CheckQuote
    <3> HIDE DEF new
    <3>4. QED  BY <1>1, <3>2, <3>3 DEF ConvertInv, AcceptOK
  <2>3. ASSUME RefuseQuote(x)
        PROVE  AcceptOK' /\ \A y \in Acceptances \ {x} : accepting'[y] = accepting[y]
    BY <1>1, <2>3 DEF RefuseQuote, ConvertInv, AcceptOK
  <2>4. QED  BY <2>1, <2>2, <2>3
<1>3. PostingOK'
  <2>1. ASSUME NEW q \in Quotes, Accept(x, q) PROVE Posting' \subseteq Posting
    <3>1. accepting'[x].at = "waiting"
      BY <2>1 DEF Accept, ConvertInv, AcceptOK
    <3>2. QED  BY <1>2, <3>1 DEF Posting
  <2>2. ASSUME RefuseQuote(x) PROVE Posting' \subseteq Posting
    <3>1. accepting'[x].at = "ended"
      BY <2>2, NoQuoteYet DEF RefuseQuote, ConvertInv, AcceptOK
    <3>2. QED  BY <1>2, <3>1 DEF Posting
  <2>3. ASSUME Posting' \subseteq Posting, x \notin Posting' PROVE PostingOK'
    <3>1. \A y \in Posting' : accepting'[y] = accepting[y]
      BY <1>2, <2>3 DEF Posting
    <3>2. QED  BY <1>1, <2>3, <3>1 DEF ConvertInv, PostingOK, QuoteOf, treasury
  <2>4. ASSUME CheckQuote(x) PROVE PostingOK'
    <3>1. accepting[x] \in Acceptance
      BY <2>4, NoQuoteYet DEF CheckQuote, ConvertInv, AcceptOK
    <3>2. accepting'[x].quote = accepting[x].quote
      BY <2>4, <3>1 DEF CheckQuote, ConvertInv, AcceptOK, Acceptance
    <3>3. Posting' \subseteq {x}
      BY <1>2, <2>4 DEF Posting, CheckQuote, InventoryFree
    <3>4. /\ QuoteOf(x).state = "quoted"
          /\ wallets[QuoteOf(x).owner][QuoteOf(x).source] >= QuoteOf(x).amount
          /\ inventory[QuoteOf(x).destination] >= QuoteOf(x).pays
      BY <2>4 DEF CheckQuote
    <3>5. QuoteOf(x)' = QuoteOf(x)
      BY <1>1, <3>2 DEF QuoteOf
    <3>6. QED  BY <1>1, <3>3, <3>4, <3>5 DEF PostingOK, treasury
  <2>5. ASSUME NEW q \in Quotes, Accept(x, q) PROVE x \notin Posting'
    BY <2>5 DEF Accept, Posting, ConvertInv, AcceptOK
  <2>6. ASSUME RefuseQuote(x) PROVE x \notin Posting'
    BY <2>6, NoQuoteYet DEF RefuseQuote, Posting, ConvertInv, AcceptOK
  <2>7. QED  BY <2>1, <2>2, <2>3, <2>4, <2>5, <2>6
<1>4. RatesOK' /\ QuotesOK' /\ PurseOK' /\ FairOK'
  BY <1>1 DEF ConvertInv, RatesOK, QuotesOK, PurseOK, FairOK, Holding, treasury
<1>5. SumsOK'
  BY <1>1, SumsStill DEF ConvertInv
<1>6. QED  BY <1>2, <1>3, <1>4, <1>5 DEF ConvertInv

\* A quote that is posted is executed: its owner gives the amount and gets what it pays.
LEMMA QuoteExecuted ==
  ASSUME ConvertInv, NEW x \in Acceptances, ExecuteQuote(x)
  PROVE  ConvertInv'
<1>a. PICK y : y = accepting[x].quote
  OBVIOUS
<1>b. PICK r : r = quotes[y]
  OBVIOUS
<1>1. /\ accepting[x].at = "posting"
      /\ wallets' = [wallets EXCEPT ![r.owner][r.source] = @ - r.amount,
                                    ![r.owner][r.destination] = @ + r.pays]
      /\ inventory' = [inventory EXCEPT ![r.source] = @ + r.amount, ![r.destination] = @ - r.pays]
      /\ quotes' = [quotes EXCEPT ![y].state = "executed"]
      /\ accepting' = [accepting EXCEPT ![x] = Ended]
      /\ now' = now /\ rates' = rates /\ spent' = spent /\ funded' = funded
  BY <1>a, <1>b, Zenon DEF ExecuteQuote, QuoteOf
<1>2. accepting[x] \in Acceptance
  BY <1>1, NoQuoteYet DEF ConvertInv, AcceptOK
<1>3. y \in Quotes /\ r # NoQuote
  BY <1>a, <1>b, <1>2, NoQuoteYet DEF ConvertInv, AcceptOK, Acceptance
<1>4. r \in Quote /\ FairQuote(r)
  BY <1>b, <1>3 DEF ConvertInv, QuotesOK
<1>5. /\ r.owner \in Customers /\ r.source \in Assets /\ r.destination \in Assets
      /\ r.amount \in Nat /\ r.pays \in Nat /\ r.source # r.destination
      /\ r.pays * Worth[r.destination] <= r.amount * Worth[r.source]
  BY <1>4 DEF Quote, FairQuote
<1>6. /\ x \in Posting /\ r.state = "quoted"
      /\ wallets[r.owner][r.source] >= r.amount /\ inventory[r.destination] >= r.pays
  <2>1. x \in Posting
    BY <1>1 DEF Posting
  <2>2. QuoteOf(x) = r
    BY <1>a, <1>b, Zenon DEF QuoteOf
  <2>3. /\ QuoteOf(x).state = "quoted"
        /\ wallets[QuoteOf(x).owner][QuoteOf(x).source] >= QuoteOf(x).amount
        /\ inventory[QuoteOf(x).destination] >= QuoteOf(x).pays
    BY <2>1, Zenon DEF ConvertInv, PostingOK
  <2>4. QED  BY <2>1, <2>2, <2>3, Zenon
<1>7. /\ wallets \in [Customers -> [Assets -> Nat]] /\ spent \in [Customers -> [Assets -> Nat]]
      /\ inventory \in [Assets -> Nat] /\ funded \in [Assets -> Nat]
  BY DEF ConvertInv, PurseOK
<1>w. PICK w : w = wallets[r.owner]
  OBVIOUS
<1>8. w \in [Assets -> Nat]
  BY <1>5, <1>7, <1>w
<1> DEFINE v == [w EXCEPT ![r.source] = @ - r.amount, ![r.destination] = @ + r.pays]
<1>9. wallets' = [wallets EXCEPT ![r.owner] = v]
  <2>1. wallets' \in [Customers -> [Assets -> Int]]
    BY <1>1, <1>5, <1>7
  <2>2. QED  BY <1>1, <1>5, <1>7, <1>w
<1>10. v[r.source] = w[r.source] - r.amount /\ v[r.destination] = w[r.destination] + r.pays
  BY <1>5, <1>8
<1>11. v \in [Assets -> Nat]
  <2>1. w[r.source] - r.amount \in Nat
    BY <1>5, <1>6, <1>8, <1>w
  <2>2. w[r.destination] + r.pays \in Nat
    BY <1>5, <1>8
  <2>3. \A a \in Assets : v[a] \in Nat
    <3>1. \A a \in Assets : a = r.source \/ a = r.destination
      BY <1>5 DEF Assets
    <3>2. QED  BY <1>10, <2>1, <2>2, <3>1
  <2>4. v = [a \in Assets |-> v[a]]
    BY <1>8
  <2>5. QED  BY <2>3, <2>4
<1> HIDE DEF v
<1>12. /\ wallets' \in [Customers -> [Assets -> Nat]]
       /\ wallets'[r.owner] = v /\ \A o \in Customers \ {r.owner} : wallets'[o] = wallets[o]
  BY <1>5, <1>7, <1>9, <1>11
<1>13. /\ inventory' \in [Assets -> Nat]
       /\ inventory'[r.source] = inventory[r.source] + r.amount
       /\ inventory'[r.destination] = inventory[r.destination] - r.pays
  <2>1. /\ inventory'[r.source] = inventory[r.source] + r.amount
        /\ inventory'[r.destination] = inventory[r.destination] - r.pays
    BY <1>1, <1>5, <1>7
  <2>2. inventory[r.source] + r.amount \in Nat /\ inventory[r.destination] - r.pays \in Nat
    BY <1>5, <1>6, <1>7
  <2>3. \A a \in Assets : inventory'[a] \in Nat
    <3>1. \A a \in Assets : a = r.source \/ a = r.destination
      BY <1>5 DEF Assets
    <3>2. QED  BY <2>1, <2>2, <3>1
  <2>4. inventory' = [a \in Assets |-> inventory'[a]]
    BY <1>1, <1>7
  <2>5. QED  BY <2>1, <2>3, <2>4
<1>14. PurseOK'
  BY <1>1, <1>7, <1>12, <1>13 DEF PurseOK
<1>s. PICK new : new = [r EXCEPT !.state = "executed"]
  OBVIOUS
<1>15. /\ new \in Quote /\ new.state = "executed"
       /\ new.owner = r.owner /\ new.source = r.source /\ new.destination = r.destination
       /\ new.amount = r.amount /\ new.pays = r.pays
  BY <1>4, <1>s DEF Quote
<1>16. quotes' = [quotes EXCEPT ![y] = new]
  BY <1>b, <1>s, <1>1
<1>17. quotes'[y] = new /\ \A q \in Quotes \ {y} : quotes'[q] = quotes[q]
  BY <1>3, <1>16 DEF ConvertInv, QuotesOK
<1>18. FairQuote(new) /\ new # NoQuote
  BY <1>4, <1>15, NoQuoteYet DEF FairQuote
<1>19. QuotesOK'
  <2>1. quotes' \in [Quotes -> Quote \cup {NoQuote}]
    BY <1>15, <1>16 DEF ConvertInv, QuotesOK
  <2>2. \A q \in Quotes : quotes'[q] # NoQuote => FairQuote(quotes'[q])
    BY <1>17, <1>18 DEF ConvertInv, QuotesOK
  <2>3. QED  BY <2>1, <2>2 DEF QuotesOK
<1>20. accepting'[x] = Ended /\ \A z \in Acceptances \ {x} : accepting'[z] = accepting[z]
  BY <1>1 DEF ConvertInv, AcceptOK
<1>21. AcceptOK'
  <2>1. accepting' \in [Acceptances -> Acceptance \cup {Ended}]
    BY <1>1 DEF ConvertInv, AcceptOK
  <2>2. ASSUME NEW z \in Acceptances, accepting'[z] # Ended
        PROVE  quotes'[accepting'[z].quote] # NoQuote
    <3>1. accepting'[z] = accepting[z] /\ quotes[accepting[z].quote] # NoQuote
      BY <1>20, <2>2 DEF ConvertInv, AcceptOK
    <3>2. accepting[z].quote \in Quotes
      BY <1>20, <2>2, <3>1 DEF ConvertInv, AcceptOK, Acceptance
    <3>3. QED  BY <1>17, <1>18, <3>1, <3>2
  <2>3. QED  BY <2>1, <2>2, Zenon DEF AcceptOK
<1>22. PostingOK'
  <2>1. Posting' = {}
    <3>1. \A z \in Posting : z = x
      BY <1>6 DEF ConvertInv, PostingOK
    <3>2. QED  BY <1>20, <3>1, NoQuoteYet DEF Posting
  <2>2. QED  BY <2>1 DEF PostingOK
<1>23. /\ y \notin Executed /\ Executed' = Executed \cup {y}
       /\ \A q \in Executed : quotes'[q] = quotes[q]
  <2>1. y \notin Executed
    BY <1>b, <1>6 DEF Executed
  <2>2. y \in Executed'
    BY <1>3, <1>15, <1>17, <1>18 DEF Executed
  <2>3. \A q \in Quotes \ {y} : q \in Executed' <=> q \in Executed
    BY <1>17 DEF Executed
  <2>4. Executed \subseteq Quotes /\ Executed' \subseteq Quotes
    BY DEF Executed
  <2>5. QED  BY <1>17, <2>1, <2>2, <2>3, <2>4
<1>24. SumsOK'
  <2>1. QuotesOK /\ PurseOK /\ SumsOK
    BY DEF ConvertInv
  <2>2. /\ inventory'[new.source] = inventory[new.source] + new.amount
        /\ inventory'[new.destination] = inventory[new.destination] - new.pays
    BY <1>13, <1>15
  <2>3. /\ wallets'[new.owner][new.source] = wallets[new.owner][new.source] - new.amount
        /\ wallets'[new.owner][new.destination] = wallets[new.owner][new.destination] + new.pays
        /\ \A o \in Customers \ {new.owner} : wallets'[o] = wallets[o]
    BY <1>w, <1>10, <1>12, <1>15
  <2>4. QED  BY <1>1, <1>3, <1>14, <1>15, <1>17, <1>18, <1>19, <1>23, <2>1, <2>2, <2>3, SumsMore
<1>25. FairOK'
  <2>1. ASSUME NEW o \in Customers
        PROVE  Holding(wallets', o) + Holding(spent', o) <= Holding(Opening, o)
    <3>1. Holding(wallets, o) + Holding(spent, o) <= Holding(Opening, o)
      BY DEF ConvertInv, FairOK
    <3>2. CASE o # r.owner
      BY <1>1, <1>12, <3>1, <3>2 DEF Holding
    <3>3. CASE o = r.owner
      <4>1. /\ w["NGN"] \in Nat /\ w["USDT_BSC"] \in Nat /\ v["NGN"] \in Nat /\ v["USDT_BSC"] \in Nat
            /\ spent[o]["NGN"] \in Nat /\ spent[o]["USDT_BSC"] \in Nat
            /\ Opening[o]["NGN"] \in Nat /\ Opening[o]["USDT_BSC"] \in Nat
        BY <1>7, <1>8, <1>11, OpeningAssumption DEF Assets
      <4>2. v["NGN"] + 3 * v["USDT_BSC"] <= w["NGN"] + 3 * w["USDT_BSC"]
        <5>1. CASE r.source = "NGN" /\ r.destination = "USDT_BSC"
          <6>1. r.pays * 3 <= r.amount * 1
            BY <1>5, <5>1 DEF Worth
          <6>2. QED  BY <1>5, <1>10, <4>1, <5>1, <6>1
        <5>2. CASE r.source = "USDT_BSC" /\ r.destination = "NGN"
          <6>1. r.pays * 1 <= r.amount * 3
            BY <1>5, <5>2 DEF Worth
          <6>2. QED  BY <1>5, <1>10, <4>1, <5>2, <6>1
        <5>3. QED  BY <1>5, <5>1, <5>2 DEF Assets
      <4>3. wallets'[o] = v /\ wallets[o] = w
        BY <1>w, <1>12, <3>3
      <4>4. /\ Holding(wallets', o) = v["NGN"] + 3 * v["USDT_BSC"]
            /\ Holding(wallets, o) = w["NGN"] + 3 * w["USDT_BSC"]
            /\ Holding(spent', o) = Holding(spent, o)
        BY <1>1, <4>3, Zenon DEF Holding
      <4>5. Holding(spent, o) \in Nat /\ Holding(Opening, o) \in Nat
        BY <4>1 DEF Holding
      <4>6. QED  BY <3>1, <4>1, <4>2, <4>4, <4>5
    <3>4. QED  BY <3>2, <3>3
  <2>2. QED  BY <2>1 DEF FairOK
<1>26. RatesOK'
  BY <1>1 DEF ConvertInv, RatesOK
<1>27. QED  BY <1>14, <1>19, <1>21, <1>22, <1>24, <1>25, <1>26 DEF ConvertInv

\* An inventory is funded only while no quote is being posted.
LEMMA InventoryFunded ==
  ASSUME ConvertInv, NEW a \in Assets, NEW amount \in Fundings, FundInventory(a, amount)
  PROVE  ConvertInv'
<1>1. /\ Posting = {} /\ inventory' = [inventory EXCEPT ![a] = @ + amount]
      /\ funded' = [funded EXCEPT ![a] = @ + amount]
      /\ UNCHANGED <<now, rates, quotes, accepting, wallets, spent>> /\ amount \in Nat
  BY AmountsAssumption DEF FundInventory, InventoryFree
<1>2. PurseOK /\ QuotesOK /\ SumsOK /\ inventory \in [Assets -> Nat] /\ funded \in [Assets -> Nat]
  BY DEF ConvertInv, PurseOK
<1>3. PurseOK'
  BY <1>1, <1>2 DEF PurseOK
<1>4. \A b \in Assets : inventory'[b] - funded'[b] = inventory[b] - funded[b]
  <2>1. \A b \in Assets : inventory[b] \in Nat /\ funded[b] \in Nat
    BY <1>2
  <2>2. QED  BY <1>1, <1>2, <2>1
<1>5. SumsOK'
  <2>1. Executed' = Executed /\ \A q \in Executed : quotes'[q] = quotes[q]
    BY <1>1 DEF Executed
  <2>2. \A o \in Customers, b \in Assets : wallets'[o][b] + spent'[o][b] = wallets[o][b] + spent[o][b]
    BY <1>1
  <2>3. QED  BY <1>2, <1>3, <1>4, <2>1, <2>2, SumsKept
<1>6. PostingOK'
  BY <1>1 DEF PostingOK, Posting
<1>7. RatesOK' /\ QuotesOK' /\ AcceptOK' /\ FairOK'
  BY <1>1 DEF ConvertInv, RatesOK, QuotesOK, AcceptOK, FairOK, Holding
<1>8. QED  BY <1>3, <1>5, <1>6, <1>7 DEF ConvertInv

\* What is moved between two purses keeps its worth.
LEMMA SameWorth ==
  ASSUME NEW o, NEW w, NEW s, NEW x, NEW y,
         w[o] \in [Assets -> Nat], s[o] \in [Assets -> Nat],
         x[o] \in [Assets -> Nat], y[o] \in [Assets -> Nat],
         \A a \in Assets : w[o][a] + s[o][a] = x[o][a] + y[o][a]
  PROVE  Holding(w, o) + Holding(s, o) = Holding(x, o) + Holding(y, o)
<1> DEFINE wn == w[o]["NGN"]
           wu == w[o]["USDT_BSC"]
           sn == s[o]["NGN"]
           su == s[o]["USDT_BSC"]
           xn == x[o]["NGN"]
           xu == x[o]["USDT_BSC"]
           yn == y[o]["NGN"]
           yu == y[o]["USDT_BSC"]
<1>1. wn + sn = xn + yn /\ wu + su = xu + yu
  BY DEF Assets
<1>2. wn \in Nat /\ wu \in Nat /\ sn \in Nat /\ su \in Nat /\ xn \in Nat /\ xu \in Nat /\ yn \in Nat /\ yu \in Nat
  BY DEF Assets
<1> HIDE DEF wn, wu, sn, su, xn, xu, yn, yu
<1>3. (wn + 3 * wu) + (sn + 3 * su) = (xn + 3 * xu) + (yn + 3 * yu)
  BY <1>1, <1>2
<1>4. QED  BY <1>3, Zenon DEF Holding, wn, wu, sn, su, xn, xu, yn, yu

\* Another handler takes from a wallet only while no quote of its owner is being posted.
LEMMA WalletReserved ==
  ASSUME ConvertInv, NEW o \in Customers, NEW a \in Assets, Reserve(o, a)
  PROVE  ConvertInv'
<1>1. /\ \A x \in Posting : QuoteOf(x).owner # o
      /\ wallets[o][a] > 0
      /\ wallets' = [wallets EXCEPT ![o][a] = @ - 1] /\ spent' = [spent EXCEPT ![o][a] = @ + 1]
      /\ UNCHANGED <<now, rates, quotes, accepting, treasury>>
  BY DEF Reserve, WalletFree
<1>2. PurseOK /\ QuotesOK /\ SumsOK
      /\ wallets \in [Customers -> [Assets -> Nat]] /\ spent \in [Customers -> [Assets -> Nat]]
  BY DEF ConvertInv, PurseOK
<1>3. /\ wallets'[o][a] = wallets[o][a] - 1 /\ spent'[o][a] = spent[o][a] + 1
      /\ \A p \in Customers \ {o} : wallets'[p] = wallets[p] /\ spent'[p] = spent[p]
      /\ \A b \in Assets \ {a} : wallets'[o][b] = wallets[o][b] /\ spent'[o][b] = spent[o][b]
  BY <1>1, <1>2
<1>4. \A p \in Customers, b \in Assets : wallets[p][b] \in Nat /\ spent[p][b] \in Nat
  BY <1>2
<1>5. PurseOK'
  <2>1. wallets[o][a] - 1 \in Nat /\ spent[o][a] + 1 \in Nat
    BY <1>1, <1>4
  <2>2. wallets' \in [Customers -> [Assets -> Nat]]
    BY <1>1, <1>2, <2>1
  <2>3. spent' \in [Customers -> [Assets -> Nat]]
    BY <1>1, <1>2, <2>1
  <2>4. QED  BY <1>1, <1>2, <2>2, <2>3 DEF PurseOK, treasury
<1>6. \A p \in Customers, b \in Assets : wallets'[p][b] + spent'[p][b] = wallets[p][b] + spent[p][b]
  <2>1. wallets'[o][a] + spent'[o][a] = wallets[o][a] + spent[o][a]
    BY <1>3, <1>4
  <2>2. QED  BY <1>3, <2>1
<1>7. SumsOK'
  <2>1. Executed' = Executed /\ \A q \in Executed : quotes'[q] = quotes[q]
    BY <1>1 DEF Executed
  <2>2. \A b \in Assets : inventory'[b] - funded'[b] = inventory[b] - funded[b]
    BY <1>1 DEF treasury
  <2>3. QED  BY <1>2, <1>5, <1>6, <2>1, <2>2, SumsKept
<1>8. PostingOK'
  <2>1. Posting' = Posting /\ \A x \in Posting : QuoteOf(x)' = QuoteOf(x)
    BY <1>1 DEF Posting, QuoteOf
  <2>2. ASSUME NEW x \in Posting
        PROVE  /\ QuoteOf(x).state = "quoted"
               /\ wallets'[QuoteOf(x).owner][QuoteOf(x).source] >= QuoteOf(x).amount
               /\ inventory'[QuoteOf(x).destination] >= QuoteOf(x).pays
    <3>1. QuoteOf(x) \in Quote
      BY <2>2, NoQuoteYet DEF Posting, QuoteOf, ConvertInv, AcceptOK, QuotesOK, Acceptance
    <3>2. QuoteOf(x).owner \in Customers \ {o}
      BY <1>1, <3>1 DEF Quote
    <3>3. wallets'[QuoteOf(x).owner] = wallets[QuoteOf(x).owner]
      BY <1>3, <3>2
    <3>4. QED  BY <1>1, <3>3 DEF ConvertInv, PostingOK, treasury
  <2>3. \A x, z \in Posting : x = z
    BY DEF ConvertInv, PostingOK
  <2>4. QED  BY <2>1, <2>2, <2>3 DEF PostingOK
<1>9. FairOK'
  <2>1. ASSUME NEW p \in Customers
        PROVE  Holding(wallets', p) + Holding(spent', p) <= Holding(Opening, p)
    <3>1. Holding(wallets, p) + Holding(spent, p) <= Holding(Opening, p)
      BY DEF ConvertInv, FairOK
    <3>2. /\ wallets[p] \in [Assets -> Nat] /\ spent[p] \in [Assets -> Nat]
          /\ wallets'[p] \in [Assets -> Nat] /\ spent'[p] \in [Assets -> Nat]
      BY <1>2, <1>5 DEF PurseOK
    <3>3. \A b \in Assets : wallets'[p][b] + spent'[p][b] = wallets[p][b] + spent[p][b]
      BY <1>6
    <3>4. Holding(wallets', p) + Holding(spent', p) = Holding(wallets, p) + Holding(spent, p)
      BY <3>2, <3>3, SameWorth
    <3>5. QED  BY <3>1, <3>4
  <2>2. QED  BY <2>1 DEF FairOK
<1>10. RatesOK' /\ QuotesOK' /\ AcceptOK'
  BY <1>1 DEF ConvertInv, RatesOK, QuotesOK, AcceptOK
<1>11. QED  BY <1>5, <1>7, <1>8, <1>9, <1>10 DEF ConvertInv

\* At the start nothing is quoted, and every wallet is as it was opened.
LEMMA ConvertStart == ConvertInit => ConvertInv
<1> SUFFICES ASSUME ConvertInit
             PROVE  ConvertInv
  OBVIOUS
<1>1. RatesOK /\ QuotesOK /\ AcceptOK
  BY NoQuoteYet DEF ConvertInit, RatesOK, QuotesOK, AcceptOK
<1>2. PostingOK
  BY NoQuoteYet DEF ConvertInit, PostingOK, Posting
<1>3. PurseOK
  BY OpeningAssumption DEF ConvertInit, PurseOK
<1>4. Executed = {} /\ \A o : Own(o) = {}
  BY DEF ConvertInit, Executed, Own
<1>5. \A a : TookOf(quotes, a, {}) = 0 /\ GaveOf(quotes, a, {}) = 0
  <2>1. \A a : {q \in {} : quotes[q].source = a} = {} /\ {q \in {} : quotes[q].destination = a} = {}
    OBVIOUS
  <2>2. QED  BY <2>1, SumEmpty, Zenon DEF TookOf, GaveOf
<1>6. SumsOK
  <2>1. \A a \in Assets : inventory[a] = 0 /\ funded[a] = 0
    BY DEF ConvertInit
  <2>2. \A o \in Customers, a \in Assets :
          wallets[o][a] = Opening[o][a] /\ spent[o][a] = 0 /\ Opening[o][a] \in Nat
    BY OpeningAssumption DEF ConvertInit
  <2>3. ASSUME NEW a \in Assets
        PROVE  /\ inventory[a] = funded[a] + TookOf(quotes, a, Executed) - GaveOf(quotes, a, Executed)
               /\ \A o \in Customers :
                    wallets[o][a] + spent[o][a]
                      = Opening[o][a] - TookOf(quotes, a, Own(o)) + GaveOf(quotes, a, Own(o))
    <3>1. TookOf(quotes, a, Executed) = 0 /\ GaveOf(quotes, a, Executed) = 0
      BY <1>4, <1>5, Zenon
    <3>2. \A o : TookOf(quotes, a, Own(o)) = 0 /\ GaveOf(quotes, a, Own(o)) = 0
      BY <1>4, <1>5, Zenon
    <3>3. inventory[a] = funded[a] + TookOf(quotes, a, Executed) - GaveOf(quotes, a, Executed)
      BY <2>1, <3>1
    <3>4. QED  BY <2>2, <3>2, <3>3
  <2>4. QED  BY <2>3, Zenon DEF SumsOK
<1>7. FairOK
  <2>1. \A o \in Customers : /\ wallets[o] = Opening[o]
                             /\ spent[o]["NGN"] = 0 /\ spent[o]["USDT_BSC"] = 0
                             /\ Opening[o]["NGN"] \in Nat /\ Opening[o]["USDT_BSC"] \in Nat
    BY OpeningAssumption DEF ConvertInit, Assets
  <2>2. QED  BY <2>1 DEF FairOK, Holding
<1>8. QED  BY <1>1, <1>2, <1>3, <1>6, <1>7 DEF ConvertInv

\* Every step of a conversion keeps the invariant.
LEMMA ConvertStep ==
  ASSUME ConvertInv, ConvertNext \/ UNCHANGED convertVars
  PROVE  ConvertInv'
BY ClockAndRates, QuoteCreated, AcceptanceMoves, QuoteExecuted, InventoryFunded, WalletReserved DEF ConvertNext

\* The invariant of the conversions holds.
LEMMA ConvertInvariant == Spec => []ConvertInv
<1>1. Init => ConvertInv
  BY ConvertStart DEF Init
<1>2. ConvertInv /\ [Next]_vars => ConvertInv'
  BY ConvertStep DEF Next, vars
<1>3. QED  BY <1>1, <1>2, PTL DEF Spec

\* However owners race for an inventory, accept a quote twice or spend what they are
\* converting, every wallet and every inventory is what the executed quotes make it, each
\* counted once, and none is overdrawn.
THEOREM AddsUp == Spec => []WalletsAddUp
<1>1. ConvertInv => WalletsAddUp
  <2> SUFFICES ASSUME ConvertInv
               PROVE  WalletsAddUp
    OBVIOUS
  <2>1. ASSUME NEW a \in Assets
        PROVE  /\ inventory[a] >= 0
               /\ inventory[a] = funded[a] + PaidIn(a, Executed) - PaidOut(a, Executed)
    BY TookSum, GaveSum DEF ConvertInv, SumsOK, PurseOK
  <2>2. ASSUME NEW a \in Assets, NEW o \in Customers
        PROVE  /\ wallets[o][a] >= 0
               /\ wallets[o][a] + spent[o][a] = Opening[o][a] - PaidIn(a, Own(o)) + PaidOut(a, Own(o))
    BY TookSum, GaveSum DEF ConvertInv, SumsOK, PurseOK
  <2>3. QED  BY <2>1, <2>2, Zenon DEF WalletsAddUp, Own
<1>2. QED  BY <1>1, ConvertInvariant, PTL

\* Conversions there and back, in parts of any size, at rates no better than the fair one,
\* never leave an owner richer.
THEOREM NobodyGains == Spec => []NobodyGainsByConverting
<1>1. ConvertInv => NobodyGainsByConverting
  <2> SUFFICES ASSUME ConvertInv, NEW o \in Customers
               PROVE  Value(o, wallets) + Value(o, spent) <= Value(o, Opening)
    BY DEF NobodyGainsByConverting
  <2>1. wallets[o] \in [Assets -> Nat] /\ spent[o] \in [Assets -> Nat] /\ Opening[o] \in [Assets -> Nat]
    BY OpeningAssumption DEF ConvertInv, PurseOK
  <2>2. Value(o, wallets) = Holding(wallets, o) /\ Value(o, spent) = Holding(spent, o)
        /\ Value(o, Opening) = Holding(Opening, o)
    BY <2>1, ValueSum
  <2>3. QED  BY <2>2 DEF ConvertInv, FairOK
<1>2. QED  BY <1>1, ConvertInvariant, PTL

-------------------------------------------------------------------------------
(***************************************************************************)
(* Collections of NGN.  A deposit that has left the queue is the only one  *)
(* a worker may be calling about, and an event is recorded for every       *)
(* deposit that was credited.                                              *)
(***************************************************************************)
Collection == [state : State, target : Nat, transaction : Transactions \cup {"none"}]

\* Deposits are numbered as they are created, and each has its row.
RowsOK ==
  /\ requests \in [Intents -> {NoRequest} \cup Collection]
  /\ \E n \in 0..IntentLimit : Created = 1..n

Taken      == Created \ In({"pending"})
Calling(i) == {w \in Workers : At(w, "calling") /\ Current(w) = i}

\* A deposit in the queue has not been asked for, and nobody is asking.
AskInv ==
  /\ asked \in [Intents -> Nat]
  /\ \A i \in Intents \ Taken : asked[i] = 0 /\ Calling(i) = {}
  /\ \A i \in Intents : asked[i] + Cardinality(Calling(i)) <= 1

Payment(i) == [transaction |-> requests[i].transaction, intent |-> i, amount |-> requests[i].target]
TargetOf   == [i \in Intents |-> requests[i].target]

CreditInv ==
  /\ recorded \subseteq sent
  /\ \A i \in In({"settled"}) : Payment(i) \in recorded
  /\ \A i, j \in In({"settled"}) : i # j => requests[i].transaction # requests[j].transaction
  /\ userAvailable = SumFunctionOnSet(TargetOf, In({"settled"}))
  /\ escrowAsset = userAvailable

\* Rows of requests, of the intents that have one.
LEMMA RowTerms ==
  ASSUME RowsOK
  PROVE  /\ Created = {i \in Intents : requests[i].state \in State}
         /\ Created \in SUBSET Intents
         /\ \A i \in Created : requests[i] \in Collection
BY DEF RowsOK, Created, Collection, NoRequest, State

\* The invariant of the collections holds at the start.
LEMMA CollectInits == CollectInit => RowsOK /\ AskInv /\ CreditInv
<1> SUFFICES ASSUME CollectInit PROVE RowsOK /\ AskInv /\ CreditInv
  OBVIOUS
<1>1. Created = {} /\ \A S : In(S) = {}
  BY DEF CollectInit, Created, In
<1>2. RowsOK
  <2>1. 0 \in 0..IntentLimit /\ 1..0 = {}
    BY LimitsAssumption
  <2>2. QED  BY <1>1, <2>1 DEF CollectInit, RowsOK
<1>3. AskInv
  <2>1. \A i : Calling(i) = {}
    BY DEF CollectInit, Calling, At, Idle
  <2>2. QED  BY <2>1, FS_EmptySet DEF CollectInit, AskInv
<1>4. CreditInv
  BY <1>1, SumEmpty DEF CollectInit, CreditInv
<1>5. QED  BY <1>2, <1>3, <1>4

\* A request changes its state and nothing else.
LEMMA CollectionMoved ==
  ASSUME RowsOK, NEW i \in Created, NEW s \in State, requests' = Moves(i, s)
  PROVE  /\ RowsOK' /\ Created' = Created
         /\ requests'[i].state = s
         /\ \A j \in Created \ {i} : requests'[j] = requests[j]
<1>1. i \in Intents /\ requests[i] \in Collection
  BY RowTerms
<1>2. [requests[i] EXCEPT !.state = s] \in Collection /\ [requests[i] EXCEPT !.state = s].state = s
  BY <1>1 DEF Collection
<1>3. /\ requests'[i] = [requests[i] EXCEPT !.state = s]
      /\ \A j \in Intents \ {i} : requests'[j] = requests[j]
      /\ requests' \in [Intents -> {NoRequest} \cup Collection]
  BY <1>1, <1>2 DEF Moves, RowsOK
<1>4. requests'[i] # NoRequest
  BY <1>2, <1>3 DEF NoRequest, State
<1>5. Created' = Created
  BY <1>1, <1>3, <1>4 DEF Created
<1>6. QED  BY <1>1, <1>2, <1>3, <1>5, RowTerms DEF RowsOK

\* There are finitely many calls in progress.
LEMMA CallingSize ==
  ASSUME NEW i, NEW S \in SUBSET Calling(i)
  PROVE  /\ Cardinality(S) \in Nat /\ Cardinality(Calling(i)) \in Nat
         /\ Cardinality(S) <= Cardinality(Calling(i))
<1>1. Calling(i) \in SUBSET Workers
  BY DEF Calling
<1>2. IsFiniteSet(Calling(i))
  BY <1>1, WorkersAssumption, FS_Subset
<1>3. QED  BY <1>2, FS_Subset, FS_CardinalityType

\* Steps that take nothing out of the queue, and start no call.
LEMMA AskKept ==
  ASSUME AskInv, Taken \subseteq Taken', asked' = asked,
         \A w \in Workers : workers'[w] = workers[w] \/ workers'[w].at # "calling"
  PROVE  AskInv'
<1>1. ASSUME NEW i \in Intents
      PROVE  /\ Calling(i)' \subseteq Calling(i)
             /\ asked[i] + Cardinality(Calling(i)') <= 1
  <2>1. Calling(i)' \in SUBSET Calling(i)
    BY DEF Calling, At, Current
  <2>2. /\ Cardinality(Calling(i)') \in Nat /\ Cardinality(Calling(i)) \in Nat
        /\ Cardinality(Calling(i)') <= Cardinality(Calling(i))
    BY <2>1, CallingSize
  <2>3. asked[i] \in Nat /\ asked[i] + Cardinality(Calling(i)) <= 1
    BY DEF AskInv
  <2>4. QED  BY <2>1, <2>2, <2>3
<1>2. QED  BY <1>1 DEF AskInv

Job == [at : {"idle", "claiming", "calling", "answered", "failed"}, page : SUBSET Intents]
WorkersOK == workers \in [Workers -> Job]

\* No worker works at the start.
LEMMA WorkersInit == CollectInit => WorkersOK
BY DEF CollectInit, WorkersOK, Job, Idle

\* Every step keeps the workers sound.
LEMMA WorkersStep ==
  ASSUME WorkersOK, [CollectNext]_collectVars
  PROVE  WorkersOK'
<1>1. CASE \E w \in Workers : Work(w) \/ Crash(w)
  <2>1. PICK w \in Workers : Work(w) \/ Crash(w)
    BY <1>1
  <2>2. workers[w] \in Job
    BY DEF WorkersOK
  <2>3. \E x \in Job : workers' = [workers EXCEPT ![w] = x]
    <3>1. CASE StartRun(w)
      <4>1. In({"pending"}) \subseteq Intents
        BY DEF In, Created
      <4>2. QED  BY <3>1, <4>1 DEF StartRun, Job
    <3>2. CASE Claim(w) \/ ProviderOpens(w) \/ CallFails(w)
      <4>1. PICK place \in {"calling", "answered", "failed"} :
              workers' = [workers EXCEPT ![w].at = place]
        BY <3>2 DEF Claim, ProviderOpens, CallFails
      <4>2. [workers[w] EXCEPT !.at = place] \in Job
        BY <2>2 DEF Job
      <4>3. workers' = [workers EXCEPT ![w] = [workers[w] EXCEPT !.at = place]]
        BY <4>1
      <4>4. QED  BY <4>2, <4>3
    <3>3. CASE GoOn(w)
      BY <2>2, <3>3 DEF GoOn, Job, Idle
    <3>4. CASE Abort(w)
      BY <3>4 DEF Abort, Job, Idle
    <3>5. QED
      BY <2>1, <3>1, <3>2, <3>3, <3>4 DEF Work, SkipTaken, GiveUpStale, RefuseRequest,
         RecordInstructions, RecordFailure, Crash
  <2>4. QED  BY <2>3 DEF WorkersOK
<1>2. CASE \/ UNCHANGED collectVars \/ \E event \in Event : Pay(event) \/ ApplySwervpayCollection(event)
           \/ \E i \in Intents : \/ \E target \in Amounts : CreateFiatDeposit(i, target)
                                 \/ Expire(i) \/ BecomeStale(i)
  <2>1. workers' = workers
    BY <1>2 DEF collectVars, Pay, ApplySwervpayCollection, Credits, CreateFiatDeposit, Expire, BecomeStale
  <2>2. QED  BY <2>1 DEF WorkersOK
<1>3. QED  BY <1>1, <1>2 DEF CollectNext

\* A worker that takes a request out of the queue is the first to call.
LEMMA AskClaimed ==
  ASSUME RowsOK, WorkersOK, AskInv, NEW w \in Workers, Claim(w)
  PROVE  AskInv'
<1>0. PICK k : k = Current(w)
  OBVIOUS
<1>1. /\ k \in In({"pending"}) /\ requests' = Moves(k, "creating") /\ asked' = asked
      /\ workers' = [workers EXCEPT ![w].at = "calling"]
  BY <1>0 DEF Claim
<1>2. k \in Created /\ requests[k].state = "pending" /\ k \in Intents /\ k \notin Taken
  BY <1>1, RowTerms DEF In, Taken
<1>3. /\ Created' = Created /\ requests'[k].state = "creating"
      /\ \A j \in Created \ {k} : requests'[j] = requests[j]
  <2>1. "creating" \in State
    BY DEF State
  <2>2. QED  BY <1>1, <1>2, <2>1, CollectionMoved
<1>4. Taken' = Taken \cup {k}
  BY <1>2, <1>3 DEF Taken, In
<1>5. /\ workers'[w].at = "calling" /\ workers'[w].page = workers[w].page
      /\ \A v \in Workers \ {w} : workers'[v] = workers[v]
  BY <1>1 DEF WorkersOK, Job
<1>6. Current(w)' = k
  BY <1>0, <1>5 DEF Current
<1>7. ASSUME NEW i \in Intents \ {k} PROVE Calling(i)' \subseteq Calling(i)
  BY <1>5, <1>6, <1>7 DEF Calling, At, Current
<1>8. Calling(k)' = {w}
  <2>1. Calling(k) = {}
    BY <1>2 DEF AskInv
  <2>2. \A v \in Workers \ {w} : ~ (At(v, "calling")' /\ Current(v)' = k)
    BY <1>5, <2>1 DEF Calling, At, Current
  <2>3. QED  BY <1>5, <1>6, <2>2 DEF Calling, At
<1>9. ASSUME NEW i \in Intents
      PROVE  /\ i \notin Taken' => asked[i] = 0 /\ Calling(i)' = {}
             /\ asked[i] + Cardinality(Calling(i)') <= 1
  <2>1. asked[i] \in Nat /\ asked[i] + Cardinality(Calling(i)) <= 1
    BY DEF AskInv
  <2>2. CASE i = k
    <3>1. asked[i] = 0
      BY <1>2, <2>2 DEF AskInv
    <3>2. Cardinality(Calling(i)') = 1
      BY <1>8, <2>2, FS_Singleton
    <3>3. QED  BY <1>4, <2>2, <3>1, <3>2
  <2>3. CASE i # k
    <3>1. Calling(i)' \in SUBSET Calling(i)
      BY <1>7, <2>3
    <3>2. i \notin Taken' => asked[i] = 0 /\ Calling(i)' = {}
      BY <1>4, <3>1 DEF AskInv
    <3>3. /\ Cardinality(Calling(i)') \in Nat /\ Cardinality(Calling(i)) \in Nat
          /\ Cardinality(Calling(i)') <= Cardinality(Calling(i))
      BY <3>1, CallingSize
    <3>4. QED  BY <2>1, <3>2, <3>3
  <2>4. QED  BY <2>2, <2>3
<1>10. QED  BY <1>1, <1>9 DEF AskInv

\* A call that has, or may have, arrived ends.
LEMMA AskAnswered ==
  ASSUME WorkersOK, AskInv, NEW w \in Workers, At(w, "calling"), Taken' = Taken,
         asked' \in {asked, [asked EXCEPT ![Current(w)] = @ + 1]},
         workers'[w].at # "calling", \A v \in Workers \ {w} : workers'[v] = workers[v]
  PROVE  AskInv'
<1> DEFINE k == Current(w)
<1>1. ASSUME NEW i \in Intents
      PROVE  /\ asked'[i] \in Nat
             /\ i \notin Taken' => asked'[i] = 0 /\ Calling(i)' = {}
             /\ asked'[i] + Cardinality(Calling(i)') <= 1
  <2>1. asked[i] \in Nat /\ asked[i] + Cardinality(Calling(i)) <= 1
    BY DEF AskInv
  <2>2. Calling(i)' = Calling(i) \ {w}
    BY DEF Calling, At, Current
  <2>3. /\ Cardinality(Calling(i)') \in Nat /\ Cardinality(Calling(i)) \in Nat
        /\ Cardinality(Calling(i)') <= Cardinality(Calling(i))
    BY <2>2, CallingSize
  <2>4. CASE i = k
    <3>1. w \in Calling(i)
      BY <2>4 DEF Calling
    <3>2. i \in Taken
      BY <3>1 DEF AskInv
    <3>3. Cardinality(Calling(i)') = Cardinality(Calling(i)) - 1
      <4>1. IsFiniteSet(Calling(i))
        <5>1. Calling(i) \in SUBSET Workers
          BY DEF Calling
        <5>2. QED  BY <5>1, WorkersAssumption, FS_Subset
      <4>2. QED  BY <2>2, <3>1, <4>1, FS_RemoveElement
    <3>4. asked'[i] = asked[i] \/ asked'[i] = asked[i] + 1
      BY <2>4 DEF AskInv
    <3>5. QED  BY <2>1, <2>3, <3>2, <3>3, <3>4
  <2>5. CASE i # k
    <3>1. asked'[i] = asked[i]
      BY <2>5 DEF AskInv
    <3>2. i \notin Taken => asked[i] = 0 /\ Calling(i)' = {}
      BY <2>2 DEF AskInv
    <3>3. QED  BY <2>1, <2>3, <3>1, <3>2
  <2>6. QED  BY <2>4, <2>5
<1>2. DOMAIN asked' = Intents /\ asked' = [i \in Intents |-> asked'[i]]
  BY DEF AskInv
<1>3. asked' \in [Intents -> Nat]
  BY <1>1, <1>2
<1>4. QED  BY <1>1, <1>3 DEF AskInv

\* Steps that credit nothing keep the sum of what was credited.
LEMMA CreditKept ==
  ASSUME RowsOK, RowsOK', CreditInv, UNCHANGED posted, sent \subseteq sent',
         In({"settled"})' = In({"settled"}),
         \A i \in In({"settled"}) : requests'[i] = requests[i]
  PROVE  CreditInv'
<1> DEFINE S == In({"settled"})
<1>1. /\ S \in SUBSET Intents /\ IsFiniteSet(S)
      /\ \A i \in S : TargetOf[i] \in Int /\ TargetOf'[i] = TargetOf[i]
  <2>1. IsFiniteSet(Intents)
    BY LimitsAssumption, FS_Interval DEF Intents
  <2>2. S \in SUBSET Intents
    BY RowTerms DEF In
  <2>3. ASSUME NEW i \in S PROVE TargetOf[i] \in Int /\ TargetOf'[i] = TargetOf[i]
    <3>1. i \in Intents /\ requests[i] \in Collection
      BY <2>2, RowTerms DEF In
    <3>2. QED  BY <3>1, <2>3 DEF TargetOf, Collection
  <2>4. QED  BY <2>1, <2>2, <2>3, FS_Subset
<1>2. SumFunctionOnSet(TargetOf', S) = SumFunctionOnSet(TargetOf, S)
  <2> DEFINE g == TargetOf'
             f == TargetOf
  <2>1. \A i \in S : f[i] \in Int /\ g[i] = f[i]
    BY <1>1
  <2> HIDE DEF g, f, S
  <2>2. SumFunctionOnSet(g, S) = SumFunctionOnSet(f, S)
    BY <1>1, <2>1, SumEqual
  <2>3. QED  BY <2>2 DEF g, f
<1>3. \A i \in S : Payment(i)' = Payment(i)
  BY DEF Payment
<1>4. QED  BY <1>2, <1>3 DEF CreditInv, posted

\* Steps of the worker that move no request.
LEMMA RowsKept ==
  ASSUME RowsOK, CreditInv, requests' = requests, UNCHANGED posted, sent \subseteq sent'
  PROVE  RowsOK' /\ CreditInv' /\ Taken' = Taken
<1>1. Created' = Created /\ \A S : In(S)' = In(S)
  BY DEF Created, In
<1>2. RowsOK'
  BY <1>1 DEF RowsOK
<1>3. CreditInv'
  BY <1>1, <1>2, CreditKept
<1>4. QED  BY <1>1, <1>2, <1>3 DEF Taken

\* The worker moves only requests that are not settled.
LEMMA RowsMoved ==
  ASSUME RowsOK, CreditInv, NEW i \in In({"pending", "creating"}),
         NEW s \in {"creating", "available", "uncertain"}, requests' = Moves(i, s),
         UNCHANGED <<posted, sent>>
  PROVE  RowsOK' /\ CreditInv' /\ Taken \subseteq Taken'
            /\ (requests[i].state = "creating" => Taken' = Taken)
<1>1. i \in Created /\ requests[i].state \in {"pending", "creating"} /\ s \in State
  BY DEF In, State
<1>2. /\ RowsOK' /\ Created' = Created /\ requests'[i].state = s
      /\ \A j \in Created \ {i} : requests'[j] = requests[j]
  BY <1>1, CollectionMoved
<1>3. In({"settled"})' = In({"settled"}) /\ i \notin In({"settled"})
  BY <1>1, <1>2 DEF In
<1>4. \A j \in In({"settled"}) : requests'[j] = requests[j]
  BY <1>2, <1>3 DEF In
<1>5. CreditInv'
  BY <1>2, <1>3, <1>4, CreditKept
<1>6. Taken \subseteq Taken' /\ (requests[i].state = "creating" => Taken' = Taken)
  BY <1>1, <1>2 DEF Taken, In
<1>7. QED  BY <1>2, <1>5, <1>6

\* The next deposit joins the queue.
LEMMA CollectCreated ==
  ASSUME RowsOK, AskInv, CreditInv, NEW i \in Intents, NEW target \in Amounts,
         CreateFiatDeposit(i, target)
  PROVE  RowsOK' /\ AskInv' /\ CreditInv'
<1>1. /\ i = Cardinality(Created) + 1
      /\ requests' = [requests EXCEPT ![i] =
           [state |-> "pending", target |-> target, transaction |-> "none"]]
      /\ UNCHANGED <<posted, sent, asked, workers>>
  BY DEF CreateFiatDeposit
<1>2. PICK n \in 0..IntentLimit : Created = 1..n
  BY DEF RowsOK
<1>3. i = n + 1 /\ i \notin Created /\ n + 1 \in 0..IntentLimit
  <2>1. Cardinality(1..n) = n
    BY <1>2, LimitsAssumption, FS_Interval
  <2>2. QED  BY <1>1, <1>2, <2>1, LimitsAssumption DEF Intents
<1>4. [state |-> "pending", target |-> target, transaction |-> "none"] \in Collection
  BY DepositAmountsAssumption DEF Collection, State
<1>5. /\ requests' \in [Intents -> {NoRequest} \cup Collection]
      /\ requests'[i] # NoRequest /\ requests'[i].state = "pending"
      /\ \A j \in Intents \ {i} : requests'[j] = requests[j]
  <2>1. [state |-> "pending", target |-> target, transaction |-> "none"] # NoRequest
    BY DEF NoRequest
  <2>2. QED  BY <1>1, <1>4, <2>1 DEF RowsOK
<1>6. Created' = Created \cup {i}
  BY <1>5 DEF Created
<1>7. RowsOK'
  <2>1. Created' = 1..(n + 1)
    BY <1>2, <1>3, <1>6
  <2>2. QED  BY <1>3, <1>5, <2>1 DEF RowsOK
<1>8. /\ In({"settled"})' = In({"settled"}) /\ Taken' = Taken
      /\ \A j \in In({"settled"}) : requests'[j] = requests[j]
  BY <1>3, <1>5, <1>6 DEF In, Taken, Created
<1>9. AskInv'
  BY <1>1, <1>8, AskKept
<1>10. CreditInv'
  BY <1>1, <1>7, <1>8, CreditKept
<1>11. QED  BY <1>7, <1>9, <1>10

\* An event no recorded one shares its transaction with pays for its deposit.
LEMMA CollectCredited ==
  ASSUME RowsOK, AskInv, CreditInv, NEW event \in Event, ApplySwervpayCollection(event)
  PROVE  RowsOK' /\ AskInv' /\ CreditInv'
<1>0. PICK i : i = event.intent
  OBVIOUS
<1>1. /\ event \in sent /\ \A e \in recorded : e.transaction # event.transaction
      /\ i \in In({"available"}) /\ event.amount = requests[i].target
      /\ requests' = [requests EXCEPT ![i].state = "settled", ![i].transaction = event.transaction]
      /\ recorded' = recorded \cup {event}
      /\ userAvailable' = userAvailable + event.amount /\ escrowAsset' = escrowAsset + event.amount
      /\ UNCHANGED <<workers, asked, sent>>
  BY <1>0 DEF ApplySwervpayCollection, Credits
<1>2. i \in Created /\ i \in Intents /\ requests[i] \in Collection /\ requests[i].state = "available"
  BY <1>1, RowTerms DEF In
<1>3. event.transaction \in Transactions /\ event.amount \in Amounts
  BY DEF Event
<1> DEFINE row == [[requests[i] EXCEPT !.state = "settled"] EXCEPT !.transaction = event.transaction]
<1>4. /\ row \in Collection /\ row.state = "settled" /\ row.target = requests[i].target
      /\ row.transaction = event.transaction /\ row # NoRequest
  BY <1>2, <1>3 DEF Collection, State, NoRequest
<1>5. requests' = [requests EXCEPT ![i] = row]
  BY <1>1, <1>2 DEF RowsOK
<1> HIDE DEF row
<1>6. /\ requests' \in [Intents -> {NoRequest} \cup Collection] /\ requests'[i] = row
      /\ \A j \in Intents \ {i} : requests'[j] = requests[j]
  BY <1>2, <1>4, <1>5 DEF RowsOK
<1>7. Created' = Created
  BY <1>2, <1>4, <1>6 DEF Created
<1>8. RowsOK'
  BY <1>6, <1>7 DEF RowsOK
<1>9. Taken' = Taken
  BY <1>2, <1>4, <1>6, <1>7, RowTerms DEF Taken, In
<1>10. AskInv'
  BY <1>1, <1>9, AskKept
<1>11. In({"settled"})' = In({"settled"}) \cup {i} /\ i \notin In({"settled"})
  BY <1>2, <1>4, <1>6, <1>7, RowTerms DEF In
<1>12. event = [transaction |-> event.transaction, intent |-> i, amount |-> requests[i].target]
  BY <1>0, <1>1 DEF Event
<1>13. \A j \in In({"settled"})' : Payment(j)' \in recorded'
  <2>1. Payment(i)' = event
    BY <1>4, <1>6, <1>12 DEF Payment
  <2>2. ASSUME NEW j \in In({"settled"}) PROVE Payment(j)' = Payment(j) /\ Payment(j) \in recorded
    <3>1. j \in Intents \ {i}
      BY <1>11, RowTerms DEF In
    <3>2. QED  BY <1>6, <3>1 DEF Payment, CreditInv
  <2>3. QED  BY <1>1, <1>11, <2>1, <2>2
<1>14. \A j, k \in In({"settled"})' : j # k => requests'[j].transaction # requests'[k].transaction
  <2>1. ASSUME NEW j \in In({"settled"})
        PROVE  requests'[j] = requests[j] /\ requests[j].transaction # event.transaction
    <3>1. j \in Intents \ {i}
      BY <1>11, RowTerms DEF In
    <3>2. Payment(j) \in recorded /\ Payment(j).transaction = requests[j].transaction
      BY DEF CreditInv, Payment
    <3>3. QED  BY <1>1, <1>6, <3>1, <3>2
  <2>2. \A j, k \in In({"settled"}) : j # k => requests[j].transaction # requests[k].transaction
    BY DEF CreditInv
  <2>3. QED  BY <1>4, <1>6, <1>11, <2>1, <2>2
<1>15. userAvailable' = SumFunctionOnSet(TargetOf', In({"settled"})')
  <2> DEFINE S == In({"settled"})
             f == TargetOf
             g == TargetOf'
  <2>1. S \in SUBSET Intents /\ IsFiniteSet(S) /\ i \notin S
    <3>1. IsFiniteSet(Intents)
      BY LimitsAssumption, FS_Interval DEF Intents
    <3>2. S \in SUBSET Intents
      BY RowTerms DEF In
    <3>3. QED  BY <1>11, <3>1, <3>2, FS_Subset
  <2>2. \A j \in S : f[j] \in Int /\ g[j] = f[j]
    <3> TAKE j \in S
    <3>1. j \in Intents \ {i} /\ requests[j] \in Collection
      BY <2>1, RowTerms DEF In
    <3>2. QED  BY <1>6, <3>1 DEF TargetOf, Collection
  <2>3. g[i] = event.amount /\ event.amount \in Int
    BY <1>1, <1>2, <1>3, <1>4, <1>6, DepositAmountsAssumption DEF TargetOf
  <2>4. userAvailable = SumFunctionOnSet(f, S)
    BY DEF CreditInv
  <2> HIDE DEF S, f, g
  <2>5. SumFunctionOnSet(g, S) = SumFunctionOnSet(f, S) /\ SumFunctionOnSet(f, S) \in Int
    BY <2>1, <2>2, SumEqual, SumType
  <2>6. SumFunctionOnSet(g, S \cup {i}) = g[i] + SumFunctionOnSet(g, S)
    <3>1. \A j \in S \cup {i} : g[j] \in Int
      BY <2>2, <2>3
    <3>2. QED  BY <2>1, <3>1, SumAdd
  <2>7. userAvailable' = SumFunctionOnSet(g, S \cup {i})
    BY <1>1, <2>3, <2>4, <2>5, <2>6
  <2>8. QED  BY <1>11, <2>7 DEF S, g
<1>16. escrowAsset' = userAvailable' /\ recorded' \subseteq sent'
  BY <1>1 DEF CreditInv
<1>17. CreditInv'
  BY <1>13, <1>14, <1>15, <1>16 DEF CreditInv
<1>18. QED  BY <1>8, <1>10, <1>17

\* A worker goes from one step to the next.
LEMMA CollectWorked ==
  ASSUME RowsOK, WorkersOK, AskInv, CreditInv, NEW w \in Workers, Work(w) \/ Crash(w)
  PROVE  RowsOK' /\ AskInv' /\ CreditInv'
<1>1. ASSUME NEW x, workers' = [workers EXCEPT ![w] = x], x.at # "calling"
      PROVE  /\ workers'[w].at # "calling"
             /\ \A v \in Workers \ {w} : workers'[v] = workers[v]
  BY <1>1 DEF WorkersOK
<1>2. GoOn(w) \/ Abort(w) => /\ workers'[w].at # "calling"
                             /\ \A v \in Workers \ {w} : workers'[v] = workers[v]
  <2>1. Idle.at # "calling" /\ \A rest : [at |-> "claiming", page |-> rest].at # "calling"
    BY DEF Idle
  <2>2. QED  BY <1>1, <2>1 DEF GoOn, Abort
<1>3. CASE Claim(w)
  <2>1. PICK i : i = Current(w)
    OBVIOUS
  <2>2. i \in In({"pending", "creating"}) /\ requests' = Moves(i, "creating") /\ UNCHANGED <<posted, sent>>
    BY <1>3, <2>1 DEF Claim, In
  <2>3. RowsOK' /\ CreditInv'
    BY <2>2, RowsMoved
  <2>4. QED  BY <1>3, <2>3, AskClaimed
<1>4. CASE GiveUpStale(w) \/ RecordInstructions(w) \/ RecordFailure(w)
  <2>1. /\ workers'[w].at # "calling" /\ \A v \in Workers \ {w} : workers'[v] = workers[v]
        /\ asked' = asked /\ UNCHANGED <<posted, sent>>
    BY <1>2, <1>4 DEF GiveUpStale, RecordInstructions, RecordFailure
  <2>2. \/ requests' = requests
        \/ \E i \in In({"creating"}), s \in {"available", "uncertain"} : requests' = Moves(i, s)
    BY <1>4 DEF GiveUpStale, RecordInstructions, RecordFailure
  <2>3. RowsOK' /\ CreditInv' /\ Taken' = Taken
    <3>1. CASE requests' = requests
      BY <2>1, <3>1, RowsKept
    <3>2. CASE \E i \in In({"creating"}), s \in {"available", "uncertain"} : requests' = Moves(i, s)
      <4>1. PICK i \in In({"creating"}), s \in {"available", "uncertain"} : requests' = Moves(i, s)
        BY <3>2
      <4>2. i \in In({"pending", "creating"}) /\ requests[i].state = "creating"
        BY DEF In
      <4>3. QED  BY <2>1, <4>1, <4>2, RowsMoved
    <3>3. QED  BY <2>2, <3>1, <3>2
  <2>4. AskInv'
    BY <2>1, <2>3, AskKept
  <2>5. QED  BY <2>3, <2>4
<1>5. CASE StartRun(w) \/ SkipTaken(w) \/ RefuseRequest(w)
  <2>1. /\ workers'[w].at # "calling" /\ \A v \in Workers \ {w} : workers'[v] = workers[v]
        /\ requests' = requests /\ asked' = asked /\ UNCHANGED <<posted, sent>>
    <3>1. StartRun(w) => \E x : workers' = [workers EXCEPT ![w] = x] /\ x.at # "calling"
      <4>1. StartRun(w) => \E page : workers' = [workers EXCEPT ![w] = [at |-> "claiming", page |-> page]]
        BY Zenon DEF StartRun
      <4>2. \A page : [at |-> "claiming", page |-> page].at # "calling"
        OBVIOUS
      <4>3. QED  BY <4>1, <4>2
    <3>2. QED  BY <1>1, <1>2, <1>5, <3>1 DEF StartRun, SkipTaken, RefuseRequest, rows
  <2>2. RowsOK' /\ CreditInv' /\ Taken' = Taken
    BY <2>1, RowsKept
  <2>3. AskInv'
    BY <2>1, <2>2, AskKept
  <2>4. QED  BY <2>2, <2>3
<1>6. CASE ProviderOpens(w) \/ CallFails(w) \/ Crash(w)
  <2>1. /\ workers'[w].at # "calling" /\ \A v \in Workers \ {w} : workers'[v] = workers[v]
        /\ requests' = requests /\ UNCHANGED <<posted, sent>>
    <3>1. ProviderOpens(w) \/ CallFails(w) =>
            \E place \in {"answered", "failed"} : workers' = [workers EXCEPT ![w].at = place]
      BY DEF ProviderOpens, CallFails
    <3>2. ASSUME NEW place \in {"answered", "failed"}, workers' = [workers EXCEPT ![w].at = place]
          PROVE  workers'[w].at # "calling" /\ \A v \in Workers \ {w} : workers'[v] = workers[v]
      BY <3>2 DEF WorkersOK, Job
    <3>3. QED  BY <1>2, <1>6, <3>1, <3>2 DEF ProviderOpens, CallFails, Crash, rows
  <2>2. RowsOK' /\ CreditInv' /\ Taken' = Taken
    BY <2>1, RowsKept
  <2>3. \/ asked' = asked
        \/ At(w, "calling") /\ asked' \in {asked, [asked EXCEPT ![Current(w)] = @ + 1]}
    BY <1>6 DEF ProviderOpens, CallFails, Crash
  <2>4. AskInv'
    BY <2>1, <2>2, <2>3, AskKept, AskAnswered
  <2>5. QED  BY <2>2, <2>4
<1>7. QED  BY <1>3, <1>4, <1>5, <1>6 DEF Work

CollectInv == RowsOK /\ WorkersOK /\ AskInv /\ CreditInv

\* The invariant of the collections is inductive.
LEMMA CollectStep ==
  ASSUME CollectInv, [CollectNext]_collectVars
  PROVE  CollectInv'
<1> USE DEF CollectInv
<1>1. WorkersOK'
  BY WorkersStep
<1>2. CASE \E w \in Workers : Work(w) \/ Crash(w)
  BY <1>1, <1>2, CollectWorked
<1>3. CASE \E i \in Intents, target \in Amounts : CreateFiatDeposit(i, target)
  BY <1>1, <1>3, CollectCreated
<1>4. CASE \E event \in Event : ApplySwervpayCollection(event)
  BY <1>1, <1>4, CollectCredited
<1>5. CASE \/ \E i \in Intents : Expire(i) \/ BecomeStale(i)
           \/ \E event \in Event : Pay(event)
           \/ UNCHANGED collectVars
  <2>1. requests' = requests /\ workers' = workers /\ asked' = asked /\ UNCHANGED posted /\ sent \subseteq sent'
    BY <1>5 DEF Expire, BecomeStale, Pay, collectVars, rows
  <2>2. RowsOK' /\ CreditInv' /\ Taken' = Taken
    BY <2>1, RowsKept
  <2>3. AskInv'
    BY <2>1, <2>2, AskKept
  <2>4. QED  BY <1>1, <2>2, <2>3
<1>6. QED  BY <1>2, <1>3, <1>4, <1>5 DEF CollectNext

\* The invariant of the collections holds.
LEMMA CollectHolds == CollectSpec => []CollectInv
<1>1. CollectInit => CollectInv
  BY CollectInits, WorkersInit DEF CollectInv
<1>2. CollectInv /\ [CollectNext]_collectVars => CollectInv'
  BY CollectStep
<1>3. QED  BY <1>1, <1>2, PTL DEF CollectSpec

\* The sum of the targets, written out.
LEMMA TargetSum ==
  ASSUME RowsOK, NEW S \in SUBSET Created
  PROVE  MapThenSumSet(LAMBDA i : requests[i].target, S) = SumFunctionOnSet(TargetOf, S)
<1> DEFINE D(s) == s = [T \in SUBSET S |-> IF T = {} THEN 0
                          ELSE requests[Pick(T)].target + s[T \ {Pick(T)}]]
           E(s) == Defines(s, TargetOf, S)
<1>1. MapThenSumSet(LAMBDA i : requests[i].target, S) = (CHOOSE s : D(s))[S]
  BY DEF MapThenSumSet, MapThenFoldSet, Pick
<1>2. SumFunctionOnSet(TargetOf, S) = (CHOOSE s : E(s))[S]
  BY SumDef
<1>3. \A T \in SUBSET S : T # {} => TargetOf[Pick(T)] = requests[Pick(T)].target
  BY PickIn, RowTerms DEF TargetOf
<1>4. ASSUME NEW s PROVE D(s) <=> E(s)
  BY <1>3 DEF Defines
<1> HIDE DEF D, E
<1>5. (CHOOSE s : D(s)) = (CHOOSE s : E(s))
  BY <1>4
<1>6. QED  BY <1>1, <1>2, <1>5

\* However many processes read the same page, fail or restart, the provider is
\* asked for an account at most once per deposit.
THEOREM AskedOnce == CollectSpec => []AskedAtMostOnce
<1>1. CollectInv => AskedAtMostOnce
  BY DEF CollectInv, AskInv, Calling, AskedAtMostOnce
<1>2. QED  BY <1>1, CollectHolds, PTL

\* Every credit is one reported payment of exactly the requested amount, no payment
\* pays for two deposits, and wallets and custody hold the sum of them.
THEOREM CreditsReceived == CollectSpec => []CreditsAreReceived
<1>1. ASSUME CollectInv PROVE CreditsAreReceived
  <2>1. /\ \A i \in In({"settled"}) : Payment(i) \in sent
        /\ \A i, j \in In({"settled"}) : i # j => requests[i].transaction # requests[j].transaction
    BY <1>1 DEF CollectInv, CreditInv
  <2>2. userAvailable = MapThenSumSet(LAMBDA i : requests[i].target, In({"settled"}))
    <3>1. In({"settled"}) \in SUBSET Created
      BY DEF In
    <3>2. QED  BY <1>1, <3>1, TargetSum DEF CollectInv, CreditInv
  <2>3. escrowAsset = userAvailable
    BY <1>1 DEF CollectInv, CreditInv
  <2>4. QED  BY <2>1, <2>2, <2>3 DEF CreditsAreReceived, Payment
<1>2. QED  BY <1>1, CollectHolds, PTL
=============================================================================
