------------------------------ MODULE MCLiquidity ------------------------------
(* Instance of Liquidity for TLC: two markets, each with a pool, or one with *)
(* institutional quotes, or one with both.                                   *)
EXTENDS Liquidity, TLC
CONSTANTS m1, m2, u1, u2, e1, e2

Pool(m) == [market |-> m, outcome |-> "yes"]
MCPrograms == {m1 :> {"amm"} @@ m2 :> {"amm"}, m1 :> {"rfq"} @@ m2 :> {}, m1 :> {"amm", "rfq"} @@ m2 :> {}}
MCMaxRows == [p \in MCPrograms |-> IF {"amm", "rfq"} \subseteq p[m1] THEN 3 ELSE 4]
MCFunds == u1 :> 60 @@ u2 :> 60
MCPools == {Pool(m1), Pool(m2)}
MCLimits == [p \in MCPools |-> [inventory |-> 2, subsidy |-> 30, loss |-> 20, slippage |-> 2000]]
MCReferences == {[price |-> 500000, age |-> 0, life |-> 1]}
MCExposure == e1 :> 62 @@ e2 :> 31
MCRequesters == {<<u1, e1>>}
MCDealers == {<<u2, e2>>, <<u1, e1>>}
Symmetry == Permutations(Connections)
=============================================================================
