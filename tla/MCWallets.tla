------------------------------- MODULE MCWallets -------------------------------
(* Wallets on small instances: the transfers pay the address Receiver, the  *)
(* one named "dust" less than the minimum; one rate is free, the other has  *)
(* a fee of 5 %.                                                            *)
EXTENDS Wallets, TLC
CONSTANT Receiver
Symmetry == Permutations(Owners) \cup Permutations(Sessions) \cup Permutations(Quotes)
            \cup Permutations(Acceptances)
MCRecipient == [t \in Transfers |-> Receiver]
MCAmount == [t \in Transfers |-> IF t = "dust" THEN 1 ELSE 2]
MCOpening == [o \in Customers |-> [NGN |-> 5, USDT_BSC |-> 2]]
MCSourceMinor == [NGN |-> {2, 5}, USDT_BSC |-> {2}]
MCTerms ==
  {[source |-> "NGN", destination |-> "USDT_BSC", numerator |-> 1, denominator |-> 3,
    bps |-> 0, minimum |-> 2],
   [source |-> "USDT_BSC", destination |-> "NGN", numerator |-> 3, denominator |-> 1,
    bps |-> 500, minimum |-> 2]}
=============================================================================
