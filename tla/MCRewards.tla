----------------------------- MODULE MCRewards -----------------------------
(***************************************************************************)
(* Instances of Rewards: the delegations do not interact, so that one is   *)
(* enough for what happens to its rows, and two for the order of queries.  *)
(***************************************************************************)
EXTENDS Rewards, TLC

CONSTANTS d1, d2

Symmetry == Permutations(Pairs)
=============================================================================
