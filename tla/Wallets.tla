-------------------------------- MODULE Wallets --------------------------------
(***************************************************************************)
(* The USDT wallet: what the chain brings in, and what is converted from   *)
(* and to naira.  A credit only adds to a wallet, under the lock of owner  *)
(* and asset that a conversion takes as well, so the two need not race     *)
(* with each other: to keep the runs small a behaviour is about one of     *)
(* them, chosen at the start, with everything that races inside it.        *)
(***************************************************************************)
EXTENDS CryptoDeposits, Conversion

VARIABLE subject

vars == <<chainVars, convertVars, subject>>

Init == ChainInit /\ ConvertInit /\ subject \in {"deposits", "conversions"}

Next ==
  /\ \/ subject = "deposits" /\ ChainNext /\ UNCHANGED convertVars
     \/ subject = "conversions" /\ ConvertNext /\ UNCHANGED chainVars
  /\ UNCHANGED subject

Spec == Init /\ [][Next]_vars
=============================================================================
