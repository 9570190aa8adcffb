------------------------ MODULE CometbftCacheProofs ------------------------
(***************************************************************************)
(* The cache holds the blocks up to the recorded one and no others, and    *)
(* implements the batched indexer, for every length of the chain,          *)
(* threshold, batch size and pruning.                                      *)
(***************************************************************************)
EXTENDS CometbftCache, TLAPS

\* The part of the types that arithmetic needs.
Numbers ==
    /\ tip \in 0..MaxHeight /\ recorded \in Nat /\ goal \in Nat
    /\ pruned \in Nat /\ index \in Nat

\* What each phase of the process knows of the database and of the node: the
\* blocks to be written next follow the recorded one, and exist.
Position ==
    /\ task \in {"fetch", "store"} => goal <= tip
    /\ task = "store" => Batch # {}
    /\ task \in {"poll", "commit"} => index \in {recorded, recorded + 1}
    /\ task = "commit" => index \in 1..tip

CacheInv == Numbers /\ Position /\ CachedPrefix

LEMMA Bounds == MaxHeight \in Nat \ {0} /\ BatchSize \in Nat \ {0}
  BY BoundsAssumption

\* A batch extends the prefix, and ends no later than the catching up.
LEMMA BatchExtends ==
    ASSUME Numbers, Batch # {}
    PROVE  /\ BatchMax \in Nat /\ BatchMax <= goal /\ recorded < BatchMax
           /\ (1..recorded) \cup Batch = 1..BatchMax
<1>1. BatchMax \in Int /\ BatchMax <= goal
  BY Bounds DEF Numbers, BatchMax, FromHeight
<1>2. recorded < BatchMax
  BY <1>1 DEF Numbers, Batch, FromHeight
<1>3. (1..recorded) \cup ((recorded + 1)..BatchMax) = 1..BatchMax
  BY <1>1, <1>2 DEF Numbers
<1> QED
  BY <1>1, <1>2, <1>3 DEF Numbers, Batch, FromHeight

\* Storing a batch, whether the process hears of it or not.
LEMMA BatchStored ==
    ASSUME CacheInv, task = "store", tip' = tip,
           cached' = cached \cup Batch, recorded' = BatchMax
    PROVE  CachedPrefix' /\ recorded' \in Nat
<1>1. /\ BatchMax \in Nat /\ BatchMax <= goal
      /\ (1..recorded) \cup Batch = 1..BatchMax
  BY BatchExtends DEF CacheInv, Position
<1>2. BatchMax <= tip
  BY <1>1 DEF CacheInv, Position, Numbers
<1> QED
  BY <1>1, <1>2 DEF CacheInv, CachedPrefix

\* Writing one block, the recorded one again or the one after it.
LEMMA BlockStored ==
    ASSUME CacheInv, WriteBlock
    PROVE  CachedPrefix' /\ recorded' = index /\ index \in 1..tip /\ UNCHANGED <<node, goal>>
<1>1. index \in 1..tip /\ index \in {recorded, recorded + 1}
  BY DEF CacheInv, Position, WriteBlock
<1>2. (1..recorded) \cup {index} = 1..index
  BY <1>1 DEF CacheInv, Numbers
<1>3. cached' = 1..index /\ recorded' = index /\ tip' = tip
  BY <1>2 DEF WriteBlock, CacheInv, CachedPrefix, node
<1> QED
  BY <1>1, <1>3 DEF CachedPrefix, WriteBlock, CacheInv, Numbers

\* Whatever the error, no block is passed over: the attempt is repeated, or ends
\* with the process.
LEMMA FailureRepeats ==
    ASSUME NEW error \in {"NoAction", "RpcError", "Database"}, FailWith(error)
    PROVE  (task' = "poll" /\ index' = index) \/ (task' = "down" /\ index' = 0)
  BY DEF FailWith, Retryable, Retry, NextIndex, Gone

-----------------------------------------------------------------------------

LEMMA CacheInit == Init => CacheInv
<1> SUFFICES ASSUME Init PROVE CacheInv
  OBVIOUS
<1>1. Numbers /\ Position
  BY Bounds DEF Init, CrawlInit, Numbers, Position
<1>2. CachedPrefix
  BY DEF Init, CachedPrefix
<1> QED
  BY <1>1, <1>2 DEF CacheInv

LEMMA CatchUpStep ==
    ASSUME CacheInv, CatchUp
    PROVE  CacheInv'
<1>1. CASE FetchBatch
  BY <1>1 DEF FetchBatch, CacheInv, Numbers, Position, CachedPrefix, Proceed, node, database,
              Batch, BatchMax, FromHeight
<1>2. CASE StoreBatch
  <2>1. task = "store" /\ tip' = tip /\ task' = "fetch" /\ UNCHANGED <<pruned, index, goal>>
    BY <1>2 DEF StoreBatch, Proceed, node
  <2>2. CachedPrefix' /\ recorded' \in Nat
    BY <1>2, <2>1, BatchStored DEF StoreBatch
  <2> QED
    BY <2>1, <2>2 DEF CacheInv, Numbers, Position
<1>3. CASE CaughtUp
  BY <1>3 DEF CaughtUp, CrawlFrom, CacheInv, Numbers, Position, CachedPrefix, node, database
<1>4. CASE CatchUpEnds
  BY <1>4 DEF CatchUpEnds, Gone, CacheInv, Numbers, Position, CachedPrefix, node, database
<1>5. CASE StoreUnheard
  <2>1. task = "store" /\ tip' = tip /\ task' = "down" /\ index' = 0 /\ UNCHANGED <<pruned, goal>>
    BY <1>5 DEF StoreUnheard, Gone, node
  <2>2. CachedPrefix' /\ recorded' \in Nat
    BY <1>5, <2>1, BatchStored DEF StoreUnheard
  <2> QED
    BY <2>1, <2>2 DEF CacheInv, Numbers, Position
<1> QED
  BY <1>1, <1>2, <1>3, <1>4, <1>5 DEF CatchUp

LEMMA CrawlStep ==
    ASSUME CacheInv, CrawlBlock
    PROVE  CacheInv'
<1>1. CASE ReadBlock
  <2>1. index \in 1..tip
    BY <1>1 DEF ReadBlock, Available, CacheInv, Numbers
  <2> QED
    BY <1>1, <2>1 DEF ReadBlock, Proceed, CacheInv, Numbers, Position, CachedPrefix, node, database
<1>2. CASE Commit
  <2>1. CachedPrefix' /\ recorded' = index /\ index \in 1..tip /\ UNCHANGED <<tip, pruned, goal>>
    BY <1>2, BlockStored DEF Commit, node
  <2>2. (task' = "poll" /\ index' = index + 1) \/ (task' = "down" /\ index' = 0)
    BY <1>2 DEF Commit, NextIndex, Gone
  <2> QED
    BY <2>1, <2>2 DEF CacheInv, Numbers, Position
<1>3. CASE CommitUnheard
  <2>1. CachedPrefix' /\ recorded' = index /\ index \in 1..tip /\ UNCHANGED <<tip, pruned, goal>>
    BY <1>3, BlockStored DEF CommitUnheard, node
  <2>2. (task' = "poll" /\ index' = index) \/ (task' = "down" /\ index' = 0)
    BY <1>3, FailureRepeats DEF CommitUnheard
  <2> QED
    BY <2>1, <2>2 DEF CacheInv, Numbers, Position
<1>4. CASE AttemptFails
  <2>1. /\ (task' = "poll" /\ index' = index) \/ (task' = "down" /\ index' = 0)
        /\ task \in {"poll", "commit"}
        /\ UNCHANGED <<tip, pruned, goal, cached, recorded>>
    BY <1>4, FailureRepeats DEF AttemptFails, node, database
  <2> QED
    BY <2>1 DEF CacheInv, Numbers, Position, CachedPrefix
<1> QED
  BY <1>1, <1>2, <1>3, <1>4 DEF CrawlBlock

LEMMA CacheNext ==
    ASSUME CacheInv, [Next]_vars
    PROVE  CacheInv'
<1>1. CASE Grow
  BY <1>1, Bounds DEF Grow, CacheInv, Numbers, Position, CachedPrefix, crawlVars, database,
                      Batch, BatchMax, FromHeight
<1>2. CASE Prune
  BY <1>2 DEF Prune, CacheInv, Numbers, Position, CachedPrefix, crawlVars, database,
              Batch, BatchMax, FromHeight
<1>3. CASE Start
  BY <1>3, Bounds DEF Start, CrawlFrom, CacheInv, Numbers, Position, CachedPrefix, node, database
<1>4. CASE CatchUp
  BY <1>4, CatchUpStep
<1>5. CASE CrawlBlock
  BY <1>5, CrawlStep
<1>6. CASE ConnectionLost \/ Signal \/ UNCHANGED vars
  <2>1. UNCHANGED <<task, index, tip, pruned, goal, cached, recorded>>
    BY <1>6 DEF ConnectionLost, Signal, CtrlC, vars, crawlVars, node, database
  <2> QED
    BY <2>1 DEF CacheInv, Numbers, Position, CachedPrefix, Batch, BatchMax, FromHeight
<1>7. CASE Killed
  BY <1>7 DEF Killed, Crash, Gone, CacheInv, Numbers, Position, CachedPrefix, node, database
<1> QED
  BY <1>1, <1>2, <1>3, <1>4, <1>5, <1>6, <1>7 DEF Next

\* However batches, single blocks, retries, unheard commits and restarts follow
\* each other, the cache is the prefix of the chain up to the recorded block
\* (cometbft/src/main.rs).
THEOREM CacheCorrect == Spec => []CachedPrefix
<1>1. Spec => []CacheInv
  BY CacheInit, CacheNext, PTL DEF Spec
<1>2. CacheInv => CachedPrefix
  BY DEF CacheInv
<1> QED
  BY <1>1, <1>2, PTL

-----------------------------------------------------------------------------

\* What is left of the types: the phases, and a stream that is only kept while the
\* process crawls.
Control ==
    /\ task \in {"down", "fetch", "store", "poll", "commit"}
    /\ task \notin {"poll", "commit"} => index = 0
    /\ mustExit \in BOOLEAN
    /\ conn \in {"up", "lost"}
    /\ pruned \in 0..MaxPruned
    /\ goal \in 0..MaxHeight

LEMMA ControlInit == Init => Control
<1>1. 0 \in 0..MaxPruned /\ 0 \in 0..MaxHeight
  BY BoundsAssumption
<1> QED
  BY <1>1, Zenon DEF Init, CrawlInit, Control

\* A failed attempt is repeated, or ends with the process.
LEMMA FailureKeepsControl ==
    ASSUME Control, NEW error \in {"NoAction", "RpcError", "Database"}, FailWith(error),
           conn' \in {"up", "lost"}, UNCHANGED <<pruned, goal>>
    PROVE  Control'
  BY DEF FailWith, Retryable, Retry, NextIndex, Gone, Control

LEMMA ControlNext ==
    ASSUME CacheInv, Control, [Next]_vars
    PROVE  Control'
<1>1. CASE Grow \/ ConnectionLost \/ UNCHANGED vars
  BY <1>1 DEF Grow, ConnectionLost, vars, crawlVars, node, database, Control
<1>2. CASE Prune
  BY <1>2, BoundsAssumption DEF Prune, crawlVars, database, Control
<1>3. CASE Start
  BY <1>3 DEF Start, CrawlFrom, node, database, Control, CacheInv, Numbers
<1>4. CASE CatchUp
  BY <1>4 DEF CatchUp, FetchBatch, StoreBatch, CaughtUp, CatchUpEnds, StoreUnheard,
              Proceed, CrawlFrom, Gone, node, database, Control
<1>5. CASE ReadBlock \/ Commit
  BY <1>5 DEF ReadBlock, Commit, WriteBlock, Proceed, NextIndex, Gone, node, database, Control
<1>6. CASE CommitUnheard
  BY <1>6, FailureKeepsControl DEF CommitUnheard, WriteBlock, node
<1>7. CASE AttemptFails
  BY <1>7, FailureKeepsControl DEF AttemptFails, node, Control
<1>8. CASE Signal \/ Killed
  BY <1>8 DEF Signal, CtrlC, Killed, Crash, Gone, node, database, Control
<1> QED
  BY <1>1, <1>2, <1>3, <1>4, <1>5, <1>6, <1>7, <1>8 DEF Next, CrawlBlock

\* Every variable of the cometbft indexer keeps its type, for every chain, threshold
\* and batch size (cometbft/src/main.rs).
THEOREM CacheTypeCorrect == Spec => []TypeOK
<1>1. Spec => [](CacheInv /\ Control)
  BY CacheInit, CacheNext, ControlInit, ControlNext, PTL DEF Spec
<1>2. CacheInv /\ Control => TypeOK
  <2> SUFFICES ASSUME CacheInv, Control PROVE TypeOK
    OBVIOUS
  <2>1. recorded \in 0..MaxHeight /\ cached \subseteq Heights
    BY Bounds DEF CacheInv, Numbers, CachedPrefix, Heights
  <2>2. index \in 0..(MaxHeight + 1)
    BY <2>1, Bounds DEF CacheInv, Numbers, Position, Control
  <2> QED
    BY <2>1, <2>2 DEF CacheInv, Numbers, Control, TypeOK
<1> QED
  BY <1>1, <1>2, PTL

-----------------------------------------------------------------------------
(* The cache implements the batched indexer: only a batch and a single     *)
(* block are written, whoever hears of it.                                 *)

LEMMA BatchHeld ==
    ASSUME CacheInv, task = "store", tip' = tip,
           cached' = cached \cup Batch, recorded' = BatchMax
    PROVE  Batched!HoldMore
<1> DEFINE n == BatchMax - recorded
<1>1. BatchMax \in Nat /\ BatchMax <= tip /\ recorded < BatchMax
  BY BatchExtends DEF CacheInv, Numbers, Position
<1>2. recorded \in Nat /\ tip \in Nat
  BY DEF CacheInv, Numbers
<1>3. BatchMax <= recorded + BatchSize
  BY <1>2, Bounds DEF BatchMax, FromHeight, CacheInv, Numbers
<1>4. n \in 1..BatchSize /\ recorded + n = BatchMax
  BY <1>1, <1>2, <1>3, Bounds
<1>5. Batch = (recorded + 1)..(recorded + n)
  BY <1>4 DEF Batch, FromHeight
<1> HIDE DEF n
<1> QED
  BY <1>1, <1>4, <1>5 DEF Batched!HoldMore

\* The block that a crawl begins with is in the table, so that it adds nothing.
LEMMA BlockHeld ==
    ASSUME CacheInv, WriteBlock
    PROVE  Batched!HoldMore \/ UNCHANGED <<tip, cached, recorded>>
<1>1. /\ recorded \in Nat /\ tip \in Nat /\ cached = 1..recorded
      /\ cached' = cached \cup {index} /\ recorded' = index /\ tip' = tip
      /\ index \in 1..tip /\ index \in {recorded, recorded + 1}
  BY BlockStored DEF CacheInv, Numbers, Position, CachedPrefix, WriteBlock, node
<1>2. CASE index = recorded
  <2>1. index \in 1..recorded
    BY <1>1, <1>2
  <2>2. cached' = cached
    BY <1>1, <2>1
  <2> QED
    BY <1>1, <1>2, <2>2
<1>3. CASE index = recorded + 1
  <2>1. {index} = (recorded + 1)..(recorded + 1) /\ recorded + 1 <= tip
    BY <1>1, <1>3
  <2>2. 1 \in 1..BatchSize
    BY Bounds
  <2> QED
    BY <1>1, <1>3, <2>1, <2>2 DEF Batched!HoldMore
<1> QED
  BY <1>1, <1>2, <1>3

LEMMA StepHolds ==
    ASSUME CacheInv, [Next]_vars
    PROVE  [Batched!Next]_<<tip, cached, recorded>>
<1>1. CASE Grow
  BY <1>1 DEF Grow, database, Batched!Next, Batched!Grow
<1>2. CASE StoreBatch \/ StoreUnheard
  <2>1. /\ task = "store" /\ tip' = tip
        /\ cached' = cached \cup Batch /\ recorded' = BatchMax
    BY <1>2 DEF StoreBatch, StoreUnheard, node
  <2> QED
    BY <2>1, BatchHeld DEF Batched!Next
<1>3. CASE Commit \/ CommitUnheard
  BY <1>3, BlockHeld DEF Commit, CommitUnheard, Batched!Next
<1>4. CASE UNCHANGED <<tip, cached, recorded>>
  BY <1>4
<1>5. \/ Grow \/ StoreBatch \/ StoreUnheard \/ Commit \/ CommitUnheard
      \/ UNCHANGED <<tip, cached, recorded>>
  BY DEF Next, CatchUp, CrawlBlock, Prune, Start, FetchBatch, CaughtUp, CatchUpEnds, ReadBlock,
         AttemptFails, ConnectionLost, Signal, Killed, node, database, vars
<1> QED
  BY <1>1, <1>2, <1>3, <1>4, <1>5

\* A crawler that reads the cache never finds a block gone or a gap below a block
\* that is there, and a transaction of this indexer brings it a batch at most
\* (initial_query and crawling_fn of cometbft/src/main.rs).
THEOREM CacheRefines == Spec => RefinesBatched
<1>1. Init => Batched!Init
  BY DEF Init, Batched!Init
<1> QED
  BY <1>1, CacheInit, CacheNext, StepHolds, PTL DEF Spec, RefinesBatched, Batched!Spec
=============================================================================
