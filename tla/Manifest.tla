-------------------------------- MODULE Manifest --------------------------------
(***************************************************************************)
(* The Merkle manifest of a settlement batch (settlement/model.ts) and the *)
(* verification the contract makes.  SHA-256 is taken as injective: a leaf *)
(* is the record of what it hashes, and a sorted pair is the set of its    *)
(* two nodes, because sorting forgets which of them was on the left.       *)
(***************************************************************************)
EXTENDS Integers, Sequences

(* Mutant: the index is not hashed.                                         *)
LeafWithoutIndex(batch, index, recipient, amount) ==
  [batch |-> batch, index |-> 0, recipient |-> recipient, amount |-> amount]
Leaf(batch, index, recipient, amount) ==
  [batch |-> batch, index |-> index, recipient |-> recipient, amount |-> amount]

Pair(left, right) == [pair |-> {left, right}]
NoRoot == [pair |-> {}]

(* The next level; an odd last node is paired with itself.                  *)
Paired(level, i) == IF i < Len(level) THEN level[i + 1] ELSE level[i]
Above(level) ==
  [i \in 1..((Len(level) + 1) \div 2) |-> Pair(level[2 * i - 1], Paired(level, 2 * i - 1))]

(* levels[k] are the nodes k levels above the leaves.                       *)
Levels(leaves) ==
  LET levels[k \in 0..Len(leaves)] == IF k = 0 THEN leaves ELSE Above(levels[k - 1])
  IN  levels
Height(leaves) ==
  CHOOSE k \in 0..Len(leaves) :
    /\ Len(Levels(leaves)[k]) = 1
    /\ \A j \in 0..(k - 1) : Len(Levels(leaves)[j]) > 1

MerkleRoot(leaves) == Levels(leaves)[Height(leaves)][1]

(* The places of the nodes on the way from leaf i to the root.              *)
Way(leaves, i) ==
  LET way[k \in 0..Len(leaves)] == IF k = 0 THEN i ELSE (way[k - 1] + 1) \div 2
  IN  way

(* The siblings met on that way.                                            *)
Sibling(level, i) == IF i % 2 = 1 THEN Paired(level, i) ELSE level[i - 1]
MerkleProof(leaves, i) ==
  [k \in 1..Height(leaves) |-> Sibling(Levels(leaves)[k - 1], Way(leaves, i)[k - 1])]

(* The nodes a proof leads a leaf to.                                       *)
Nodes(leaf, proof) ==
  LET nodes[k \in 0..Len(proof)] == IF k = 0 THEN leaf ELSE Pair(nodes[k - 1], proof[k])
  IN  nodes
Proves(leaf, proof, root) == Nodes(leaf, proof)[Len(proof)] = root
=============================================================================
