----------------------------- MODULE MCCometbft -----------------------------
(***************************************************************************)
(* Instances of CometbftCache: the numbers of the cfg are small enough for *)
(* a chain that is longer than the threshold by more than one batch.       *)
(***************************************************************************)
EXTENDS CometbftCache
=============================================================================
