----------------------------- MODULE MCIdentity -----------------------------
EXTENDS Identity, TLC

RequestSymmetry == Permutations(Requests)

MCEvents == {[of |-> "q1", at |-> 1, state |-> "IN_REVIEW"], [of |-> "q1", at |-> 2, state |-> "VERIFIED"],
             [of |-> "q1", at |-> 2, state |-> "PENDING"], [of |-> "q2", at |-> 1, state |-> "REQUIRES_RETRY"]}
=============================================================================
