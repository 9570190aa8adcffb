---------------------------- MODULE MCBlockRows -----------------------------
(***************************************************************************)
(* A validator of the genesis and one that may come: blocks in which it    *)
(* comes and is bonded to at once, in which a validator leaves and comes   *)
(* back, and in which the voter changes his mind.                          *)
(***************************************************************************)
EXTENDS BlockRows

CONSTANTS g, v

MCBlocks ==
    {<<>>, <<<<"become", v>>, <<"bond", v>>>>, <<<<"redelegate", v>>, <<"vote", "yay">>>>,
     <<<<"commission", g>>, <<"deactivate", g>>>>, <<<<"deactivate", g>>, <<"reactivate", g>>>>,
     <<<<"vote", "yay">>, <<"vote", "nay">>>>}
=============================================================================
