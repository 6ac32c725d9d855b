----------------------------- MODULE MCRedeemer -----------------------------
(* Redeemer with the markets of two assets, which end one after the other.  *)
EXTENDS Redeemer, TLC

CONSTANTS m1, m2

Ends == m1 :> 0 @@ m2 :> 1
=============================================================================
