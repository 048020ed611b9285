--------------------------- MODULE SettlementContract ---------------------------
(***************************************************************************)
(* contracts/AfridictSettlement.sol as functions of its storage: a call    *)
(* either reverts, when its Can operator is false, or returns the storage  *)
(* after it.  The storage c also holds the token balances the contract and *)
(* the recipients have of the collateral, a token that transfers exactly.  *)
(***************************************************************************)
EXTENDS Manifest

CONSTANTS
  Batches,    \* batch keys
  Recipients, \* smart accounts that can be paid
  MaxItems    \* items of one batch, 100 in the code

NoBatch == [root |-> NoRoot, total |-> 0, count |-> 0, claimed |-> 0]

Deployed(funds) ==
  [balance |-> funds, outstandingLiability |-> 0, paused |-> FALSE,
   batches |-> [b \in Batches |-> NoBatch], bitmap |-> [b \in Batches |-> {}],
   received |-> [o \in Recipients |-> 0]]

SetPaused(c, value) == [c EXCEPT !.paused = value]

Fund(c, amount) == [c EXCEPT !.balance = @ + amount]

(* Mutant: collateral for this batch only.                                  *)
CanCommitAlone(c, b, root, total, count) ==
  /\ ~c.paused
  /\ root # NoRoot /\ total > 0 /\ count \in 1..MaxItems
  /\ c.batches[b].root = NoRoot
  /\ c.balance >= total
CanCommit(c, b, root, total, count) ==
  /\ ~c.paused
  /\ root # NoRoot /\ total > 0 /\ count \in 1..MaxItems
  /\ c.batches[b].root = NoRoot
  /\ c.balance >= c.outstandingLiability + total

CommitBatch(c, b, root, total, count) ==
  [c EXCEPT !.outstandingLiability = @ + total,
            !.batches[b] = [root |-> root, total |-> total, count |-> count, claimed |-> 0]]

CanClaim(c, b, index, recipient, amount, proof) ==
  LET batch == c.batches[b] IN
  /\ ~c.paused
  /\ batch.root # NoRoot /\ index < batch.count /\ amount > 0
  /\ index \notin c.bitmap[b]
  /\ Proves(Leaf(b, index, recipient, amount), proof, batch.root)
  /\ batch.claimed + amount <= batch.total
  /\ amount <= c.balance

Claim(c, b, index, recipient, amount) ==
  [c EXCEPT !.bitmap[b] = @ \cup {index},
            !.batches[b].claimed = @ + amount,
            !.outstandingLiability = @ - amount,
            !.balance = @ - amount,
            !.received[recipient] = @ + amount]
=============================================================================
