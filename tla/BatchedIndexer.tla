--------------------------- MODULE BatchedIndexer ---------------------------
(***************************************************************************)
(* What the block cache promises the crawlers that read it: it holds the   *)
(* blocks from the first one up to the recorded height, no step adds more  *)
(* than a batch of consecutive blocks, none takes one away, height and     *)
(* blocks change together, and the height never passes the chain.          *)
(***************************************************************************)
EXTENDS Integers

CONSTANT Most           \* the most blocks one step adds

VARIABLES
    tip,                \* the height of the chain
    held,               \* the heights a reader finds
    height              \* the recorded height

Init == tip \in Nat /\ held = {} /\ height = 0

Grow == tip' = tip + 1 /\ UNCHANGED <<held, height>>

\* The next heights appear, once the chain has them.
HoldMore ==
    \E n \in 1..Most :
        /\ height + n <= tip
        /\ height' = height + n
        /\ held' = held \cup (height + 1)..(height + n)
        /\ UNCHANGED tip

Next == Grow \/ HoldMore

Spec == Init /\ [][Next]_<<tip, held, height>>
=============================================================================
