--------------------------- MODULE CometbftCache ---------------------------
(***************************************************************************)
(* The cometbft indexer (cometbft/src/main.rs), which keeps the blocks and *)
(* their results in the table the other block crawlers read before they    *)
(* ask the node.  A process that is far behind first catches up in         *)
(* batches, each written in one transaction; then it crawls, beginning     *)
(* with the block it recorded last.                                        *)
(***************************************************************************)
EXTENDS Crawl

CONSTANTS
    MaxHeight,      \* bound: the length of the chain
    MaxPruned,      \* bound: the heights the node prunes
    Threshold,      \* CATCH_UP_THRESHOLD
    BatchSize       \* --batch-size

Heights == 1..MaxHeight

ASSUME BoundsAssumption ==
    /\ {MaxHeight, BatchSize} \subseteq Nat \ {0}
    /\ Threshold \in Nat
    /\ MaxPruned \in 0..(MaxHeight - 1)

VARIABLES
    tip,            \* node: its last committed block
    pruned,         \* node: the highest block it has no longer
    goal,           \* process: the last block of the catching up
    conn,           \* process: the one database connection, "up" or "lost"
    cached,         \* database: the heights in cometbft_block
    recorded        \* database: last_processed_block, 0 without a row

node == <<tip, pruned>>
database == <<cached, recorded>>
vars == <<crawlVars, node, goal, conn, database>>

-----------------------------------------------------------------------------

Grow ==
    /\ tip < MaxHeight
    /\ tip' = tip + 1
    /\ UNCHANGED <<crawlVars, pruned, goal, conn, database>>

Prune ==
    /\ pruned < MaxPruned /\ pruned + 1 < tip
    /\ pruned' = pruned + 1
    /\ UNCHANGED <<crawlVars, tip, goal, conn, database>>

\* The node has no block 0, and none that it pruned or that does not exist yet.
Available(h) == pruned < h /\ h <= tip

FromHeight == recorded + 1

\* to_height - CATCH_UP_THRESHOLD wraps around below zero.
FarBehind == tip < Threshold \/ tip - Threshold > FromHeight

\* Faulty variant: the ends of a batch both counted.
BatchMaxInclusive == IF FromHeight + BatchSize < goal THEN FromHeight + BatchSize ELSE goal

\* A batch has BatchSize blocks, or those that are left.
BatchMax == IF FromHeight + BatchSize - 1 < goal THEN FromHeight + BatchSize - 1 ELSE goal

Batch == FromHeight..BatchMax

\* main() begins to catch up, or to crawl.
Start ==
    /\ task = "down"
    /\ tip > 0
    /\ IF FarBehind THEN task' = "fetch" /\ goal' = tip /\ UNCHANGED <<index, mustExit>>
       ELSE CrawlFrom(recorded) /\ UNCHANGED goal
    /\ conn' = "up"
    /\ UNCHANGED <<node, database>>

-----------------------------------------------------------------------------
(* Catching up: initial_query.                                             *)

\* All the blocks of the batch; as long as one fails the batch is fetched again.
FetchBatch ==
    /\ task = "fetch" /\ Batch # {}
    /\ \A h \in Batch : Available(h)
    /\ Proceed("store")
    /\ UNCHANGED <<node, goal, conn, database>>

StoreBatch ==
    /\ task = "store" /\ conn = "up"
    /\ cached' = cached \cup Batch
    /\ recorded' = BatchMax
    /\ Proceed("fetch")
    /\ UNCHANGED <<node, goal, conn>>

CaughtUp ==
    /\ task = "fetch" /\ Batch = {}
    /\ conn = "up"
    /\ CrawlFrom(recorded)
    /\ UNCHANGED <<node, goal, conn, database>>

\* The database fails, with or without the batch: main returns the error.
CatchUpEnds ==
    /\ task \in {"fetch", "store"}
    /\ Gone
    /\ UNCHANGED <<node, goal, conn, database>>

StoreUnheard ==
    /\ task = "store" /\ conn = "up"
    /\ cached' = cached \cup Batch
    /\ recorded' = BatchMax
    /\ Gone
    /\ UNCHANGED <<node, goal, conn>>

-----------------------------------------------------------------------------
(* The crawl: crawling_fn.                                                 *)

ReadBlock ==
    /\ task = "poll"
    /\ Available(index)
    /\ Proceed("commit")
    /\ UNCHANGED <<node, goal, conn, database>>

\* upsert_blocks leaves the row of a block alone, and the height is recorded.
WriteBlock ==
    /\ task = "commit" /\ conn = "up"
    /\ cached' = cached \cup {index}
    /\ recorded' = index
    /\ UNCHANGED <<node, goal>>

Commit == WriteBlock /\ NextIndex /\ UNCHANGED conn

CommitUnheard == WriteBlock /\ FailWith("Database") /\ conn' = "lost"

AttemptFails ==
    /\ task \in {"poll", "commit"}
    /\ \E error \in {"NoAction", "RpcError", "Database"} : FailWith(error)
    /\ UNCHANGED <<node, goal, conn, database>>

ConnectionLost ==
    /\ task # "down" /\ conn = "up"
    /\ conn' = "lost"
    /\ UNCHANGED <<crawlVars, node, goal, database>>

Signal == task \in {"poll", "commit"} /\ CtrlC /\ UNCHANGED <<node, goal, conn, database>>

Killed == Crash /\ UNCHANGED <<node, goal, conn, database>>

-----------------------------------------------------------------------------

Init ==
    /\ CrawlInit
    /\ tip = 0 /\ pruned = 0
    /\ goal = 0 /\ conn = "lost"
    /\ cached = {} /\ recorded = 0

CatchUp == FetchBatch \/ StoreBatch \/ CaughtUp \/ CatchUpEnds \/ StoreUnheard

CrawlBlock == ReadBlock \/ Commit \/ CommitUnheard \/ AttemptFails

Next ==
    \/ Grow
    \/ Prune
    \/ Start
    \/ CatchUp
    \/ CrawlBlock
    \/ ConnectionLost
    \/ Signal
    \/ Killed

Spec == Init /\ [][Next]_vars

\* The chain goes on, docker restarts the process, and calls that can succeed
\* again and again succeed at last.
Fairness ==
    /\ WF_vars(Grow)
    /\ WF_vars(Start)
    /\ SF_vars(FetchBatch)
    /\ SF_vars(StoreBatch)
    /\ SF_vars(CaughtUp)
    /\ SF_vars(ReadBlock)
    /\ SF_vars(Commit)

FairSpec == Spec /\ Fairness

-----------------------------------------------------------------------------
(* The properties.                                                         *)

TypeOK ==
    /\ task \in {"down", "fetch", "store", "poll", "commit"}
    /\ index \in 0..(MaxHeight + 1)
    /\ mustExit \in BOOLEAN
    /\ tip \in 0..MaxHeight /\ pruned \in 0..MaxPruned
    /\ goal \in 0..MaxHeight
    /\ conn \in {"up", "lost"}
    /\ cached \subseteq Heights
    /\ recorded \in 0..MaxHeight

\* The table has exactly the blocks from the first one up to the recorded one,
\* although batches and single blocks, retries and restarts follow each other in
\* any order: a crawler that reads a height up to the recorded one finds it, even
\* when the node pruned it long ago.
CachedPrefix == cached = 1..recorded /\ recorded <= tip

Batched == INSTANCE BatchedIndexer WITH Most <- BatchSize, held <- cached, height <- recorded

\* Catching up and crawling, through retries, unheard commits and restarts, the
\* table only grows, by the blocks after the recorded one and a batch at most.
RefinesBatched == Batched!Spec

\* A crawl that begins without a recorded block asks for block 0, which no node
\* has, until the process is killed.
AsksForBlockZero == task \in {"poll", "commit"} /\ index = 0

\* The crawl begins with the recorded block: a node that pruned it is asked for it
\* again and again, although it is in the table.
KeepsRecorded == pruned = 0 \/ pruned < recorded

\* Every block is in the table at last, if one process at last keeps running with
\* its connection (each new one begins with the recorded block again, and makes no
\* progress when it ends before the next), the node keeps the recorded block and
\* those after it, and the process does not wait for block 0.
EventuallyCached ==
    (/\ <>[](task # "down" /\ conn = "up")
     /\ []KeepsRecorded
     /\ <>[]~AsksForBlockZero)
        => \A h \in Heights : (tip >= h) ~> (h \in cached)
=============================================================================
