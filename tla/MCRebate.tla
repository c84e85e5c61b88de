------------------------------ MODULE MCRebate ------------------------------
(***************************************************************************)
(* Instances of Rebate for TLC.                                            *)
(***************************************************************************)
EXTENDS Rebate

CONSTANTS c1, c2, k1, k2

Sku == [type |-> "sku", valid |-> TRUE]
Integral == [type |-> "integral", valid |-> FALSE]

SkuIntegral == <<Sku, Integral>>

AllRebateFaults == RebateFaultKinds
=============================================================================
