------------------------------- MODULE MCWeb --------------------------------
(***************************************************************************)
(* Two chains of two epochs.  In the first a voucher comes in the second   *)
(* block of an epoch and pays fees at once, and proposals come block by    *)
(* block.  In the second it comes with the epoch, and there are bonds and  *)
(* unbonds that mature at different epochs.  Meanwhile the duration of an  *)
(* epoch, the time of a block and the gas tokens change.                   *)
(***************************************************************************)
EXTENDS Web

Block(epoch, proposals, bond, unbond, token, fee) ==
    [epoch |-> epoch, proposals |-> proposals, bond |-> bond, unbond |-> unbond,
     token |-> token, fee |-> fee]

MCChains ==
    {<<Block(1, 1, 0, 0, FALSE, "native"), Block(2, 2, 0, 0, FALSE, "none"),
       Block(2, 3, 0, 0, TRUE, "voucher")>>,
     <<Block(1, 0, 2, 2, FALSE, "native"), Block(2, 1, 3, 3, TRUE, "none")>>}

MCNodeParameters ==
    <<[maxBlockTime |-> 1, minDuration |-> 1, gas |-> {"native"}],
      [maxBlockTime |-> 2, minDuration |-> 2, gas |-> {"native", "voucher"}]>>
=============================================================================
