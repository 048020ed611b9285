------------------------------ MODULE MCResolution ------------------------------
(* Instance of Resolution for TLC: seven accounts with overlapping           *)
(* capabilities, a fill in each of two assets, and a market of either type.  *)
EXTENDS Resolution, TLC
CONSTANTS creator, p1, p2, r1, r2, r3, fin

MCFunds == [u \in Accounts |-> IF u \in {creator, p1, p2} THEN 3 ELSE 2]

MCFills == "f1" :> [asset |-> "NGN", outcome |-> "long", buyer |-> p1, seller |-> r1,
                    total |-> 5, buyerCollateral |-> 3, sellerCollateral |-> 2]
        @@ "f2" :> [asset |-> "USDT", outcome |-> "short", buyer |-> r1, seller |-> p1,
                    total |-> 2, buyerCollateral |-> 1, sellerCollateral |-> 1]

MCResults == {[kind |-> "outcome", outcome |-> "long"], [kind |-> "cancelled"]}
             \cup {[kind |-> "scalar", value |-> v] : v \in {0, 4}}
MCLower == -2
=============================================================================
