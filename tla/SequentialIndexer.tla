------------------------- MODULE SequentialIndexer -------------------------
(***************************************************************************)
(* What a block crawler of the indexer promises its readers: the database  *)
(* holds every block from the first one up to some height, no step makes   *)
(* more than one block appear, none makes a block disappear, and the       *)
(* height never passes the chain.                                          *)
(***************************************************************************)
EXTENDS Integers

CONSTANT First          \* the first block the crawler is asked for

VARIABLES
    tip,                \* the height of the chain
    indexed             \* the heights whose rows are in the database

Init == tip \in Nat /\ indexed = {}

Grow == tip' = tip + 1 /\ UNCHANGED indexed

\* The least height that is missing appears, once the chain has it.
IndexNext ==
    \E h \in First..tip :
        /\ indexed = First..(h - 1)
        /\ indexed' = indexed \cup {h}
        /\ UNCHANGED tip

Next == Grow \/ IndexNext

Spec == Init /\ [][Next]_<<tip, indexed>>
=============================================================================
