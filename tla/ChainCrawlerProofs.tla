------------------------- MODULE ChainCrawlerProofs -------------------------
(***************************************************************************)
(* Theorems about ChainCrawler, for every chain, every upgrade of its code *)
(* and every mix of trials, snapshots, reindexings, backfills and          *)
(* failures: the progress it records, the types, the checksums in memory,  *)
(* and how fresh the rows it writes are.                                   *)
(***************************************************************************)
EXTENDS ChainCrawler, Integers, FiniteSetTheorems, WellFoundedInduction, TLAPS

-----------------------------------------------------------------------------

\* A bounded set of natural numbers that is not empty has a greatest element: the
\* intervals from its elements up to the bound are finite, and inclusion of finite
\* sets is well-founded.
LEMMA GreatestElement ==
    ASSUME NEW k \in Nat, NEW S \in SUBSET (0..k), S # {}
    PROVE  \E m \in S : \A n \in S : n <= m
<1> DEFINE T == {n..k : n \in S}
<1>1. ASSUME NEW n \in S
      PROVE  /\ n \in Nat /\ n..k \in SUBSET Nat /\ n..k \in FiniteSubsetsOf(Nat)
             /\ n \in n..k /\ \A m \in S : n > m => n..k \subseteq m..k /\ m \notin n..k /\ m \in m..k
  <2>1. n \in 0..k /\ n..k \in SUBSET Nat /\ \A m \in S : m \in 0..k
    OBVIOUS
  <2>2. IsFiniteSet(n..k)
    BY <2>1, FS_Interval
  <2> QED
    BY <2>1, <2>2 DEF FiniteSubsetsOf
<1>2. T \subseteq FiniteSubsetsOf(Nat) /\ T # {}
  <2>1. \A n \in S : n..k \in FiniteSubsetsOf(Nat)
    BY <1>1
  <2> QED
    BY <2>1
<1>3. \A m \in S : m..k \in T
  BY Zenon
<1>4. PICK t \in T : \A u \in T : ~ (<<u, t>> \in StrictSubsetOrdering(Nat))
  <2> HIDE DEF T
  <2> QED
    BY <1>2, FS_StrictSubsetOrderingWellFounded, WFMin
<1>5. PICK m \in S : t = m..k
  OBVIOUS
<1>6. ASSUME NEW n \in S, n > m
      PROVE  FALSE
  <2>1. n..k \subseteq m..k /\ m \notin n..k /\ m \in m..k
    BY <1>1, <1>6
  <2>2. <<n..k, m..k>> \in StrictSubsetOrdering(Nat)
    BY <1>1, <2>1, Zenon DEF StrictSubsetOrdering
  <2> QED
    BY <1>3, <1>4, <1>5, <2>2
<1> QED
  BY <1>1, <1>6

\* What an attempt at a block, or a snapshot, knows of its height.
Ahead ==
    /\ tip \in Nat /\ index \in Nat /\ crawlerState \in Nat
    /\ crawlerState <= tip
    /\ (stage \in {"trial", "crawl"} /\ task \in {"refresh", "balances", "stake", "commit"})
          => index <= tip
    /\ (stage = "snapshot" /\ task \in {"balances", "commit"})
          => crawlerState <= index /\ index <= tip

\* A process that records its progress is nowhere before the recorded block, and
\* passed over nothing between it and the block it is at.
Contiguous ==
    (stage \in {"trial", "reindex", "crawl"} /\ recording) =>
        /\ crawlerState <= index
        /\ stage = "trial" => index = crawlerState
        /\ stage = "reindex" => index <= crawlerState + 1
        /\ \A h \in (crawlerState + 1)..(index - 1) : Keys(chain[h]) \subseteq missed

ProgressInv == Ahead /\ Contiguous

-----------------------------------------------------------------------------
(* The ways an attempt ends.                                               *)

LEMMA AttemptEnds ==
    ASSUME NEW error \in MainErrors, EndsIn(error), index \in Nat
    PROVE  \/ stage' = "idle" /\ index' = 0
           \/ stage' = "snapshot" /\ task' = "poll" /\ index' = index
           \/ /\ stage \in {"trial", "crawl"}
              /\ stage' = "crawl" \/ (stage' = "reindex" /\ stage = "trial")
              /\ task' = "poll"
              /\ recording' = recording
              /\ \/ index' = index
                 \/ stage = "crawl" /\ error = "TaskJoinError" /\ index' = index + 1
<1>1. CASE stage = "crawl" /\ FailWith(error) /\ Stage
  <2>1. CASE mustExit
    BY <1>1, <2>1 DEF FailWith, NextIndex, Gone, Stage
  <2>2. CASE ~mustExit /\ error \in Retryable
    BY <1>1, <2>2 DEF FailWith, Retry, Stage, mode
  <2>3. CASE ~mustExit /\ error \notin Retryable
    <3>1. error = "TaskJoinError"
      BY <2>3 DEF Retryable, MainErrors
    <3> QED
      BY <1>1, <2>3, <3>1 DEF FailWith, NextIndex, Stage, mode
  <2> QED
    BY <2>1, <2>2, <2>3
<1>2. CASE /\ stage = "trial" /\ error = "RpcError"
           /\ BeginSnapshot
           /\ UNCHANGED <<index, mustExit, recording, reindex>>
  BY <1>2 DEF BeginSnapshot
<1>3. CASE stage = "trial" /\ error # "RpcError" /\ EnterCrawl(index)
  BY <1>3 DEF EnterCrawl, CrawlFrom
<1>4. CASE stage = "snapshot" /\ Retry /\ UNCHANGED mode
  BY <1>4 DEF Retry, mode
<1>5. CASE Stop
  BY <1>5 DEF Stop, Gone
<1> QED
  BY <1>1, <1>2, <1>3, <1>4, <1>5 DEF EndsIn

LEMMA AttemptSucceeds ==
    ASSUME EndsWell, index \in Nat
    PROVE  \/ stage' = "idle" /\ index' = 0
           \/ /\ stage \in {"trial", "crawl"}
              /\ stage' = "crawl" \/ (stage' = "reindex" /\ stage = "trial")
              /\ task' = "poll"
              /\ recording' = recording
              /\ index' = index + 1
<1>1. CASE stage = "crawl" /\ NextIndex /\ Stage
  BY <1>1 DEF NextIndex, Gone, Stage, mode
<1>2. CASE stage = "trial" /\ EnterCrawl(index + 1)
  BY <1>2 DEF EnterCrawl, CrawlFrom
<1> QED
  BY <1>1, <1>2 DEF EndsWell

-----------------------------------------------------------------------------
(* The database transaction of a block moves the recorded block on.        *)

LEMMA BlockWritten ==
    ASSUME ProgressInv, WriteBlock
    PROVE  /\ tip' = tip /\ chain' = chain
           /\ index <= tip
           /\ crawlerState' \in Nat /\ crawlerState' <= tip
           /\ crawlerState <= crawlerState'
           /\ recording => crawlerState' = index
           /\ \A h \in (crawlerState + 1)..(crawlerState' - 1) : Keys(chain[h]) \subseteq missed
<1>1. stage \in {"trial", "crawl"} /\ task = "commit" /\ index <= tip
  BY DEF ProgressInv, Ahead, WriteBlock, AtBlock
<1>2. crawlerState' = IF recording THEN index ELSE crawlerState
  BY DEF WriteBlock, Recorded
<1>3. tip' = tip /\ chain' = chain
  BY DEF WriteBlock, node
<1>4. CASE recording
  BY <1>1, <1>2, <1>3, <1>4 DEF ProgressInv, Ahead, Contiguous
<1>5. CASE ~recording
  <2>1. crawlerState' = crawlerState
    BY <1>2, <1>5
  <2>2. (crawlerState + 1)..(crawlerState' - 1) = {}
    BY <2>1 DEF ProgressInv, Ahead
  <2> QED
    BY <1>1, <1>3, <1>5, <2>1, <2>2 DEF ProgressInv, Ahead
<1> QED
  BY <1>4, <1>5

LEMMA BlockCommitted ==
    ASSUME ProgressInv, Commit \/ CommitUnheard
    PROVE  ProgressInv'
<1>1. WriteBlock
  BY DEF Commit, CommitUnheard
<1>2. /\ tip' = tip /\ chain' = chain /\ index <= tip
      /\ crawlerState' \in Nat /\ crawlerState' <= tip
      /\ recording => crawlerState' = index
  BY <1>1, BlockWritten
<1>3. tip \in Nat /\ index \in Nat
  BY DEF ProgressInv, Ahead
<1>4. \/ stage' = "idle" /\ index' = 0
      \/ stage' = "snapshot" /\ task' = "poll" /\ index' = index
      \/ /\ stage' \in {"crawl", "reindex"} /\ task' = "poll"
         /\ recording' = recording
         /\ index' = index \/ index' = index + 1
  <2>1. CASE Commit
    BY <1>3, <2>1, AttemptSucceeds DEF Commit
  <2>2. CASE CommitUnheard
    <3>1. EndsIn("Database") /\ "Database" \in MainErrors
      BY <2>2 DEF CommitUnheard, MainErrors
    <3> QED
      BY <1>3, <3>1, AttemptEnds
  <2> QED
    BY <2>1, <2>2
<1>5. Ahead'
  BY <1>2, <1>3, <1>4 DEF Ahead
<1>6. Contiguous'
  <2>1. SUFFICES ASSUME stage' \in {"trial", "reindex", "crawl"}, recording'
                 PROVE  Contiguous'
    BY DEF Contiguous
  <2>2. /\ stage' \in {"crawl", "reindex"} /\ recording
        /\ index' = index \/ index' = index + 1
    BY <1>4, <2>1
  <2>3. crawlerState' = index
    BY <1>2, <2>2
  <2>4. (crawlerState' + 1)..(index' - 1) = {}
    BY <1>3, <2>2, <2>3
  <2> QED
    BY <1>3, <2>2, <2>3, <2>4 DEF Contiguous
<1> QED
  BY <1>5, <1>6 DEF ProgressInv

\* An attempt that ends without having written: the recorded block stays.
LEMMA NothingWritten ==
    ASSUME ProgressInv, NEW error \in MainErrors, EndsIn(error),
           UNCHANGED <<chain, tip, crawlerState>>, missed \subseteq missed',
           (stage = "crawl" /\ recording /\ error = "TaskJoinError") => Keys(chain[index]) \subseteq missed'
    PROVE  ProgressInv'
<1>1. /\ tip \in Nat /\ index \in Nat /\ crawlerState \in Nat /\ crawlerState <= tip
  BY DEF ProgressInv, Ahead
<1>2. \/ stage' = "idle" /\ index' = 0
      \/ stage' = "snapshot" /\ task' = "poll" /\ index' = index
      \/ /\ stage \in {"trial", "crawl"}
         /\ stage' = "crawl" \/ (stage' = "reindex" /\ stage = "trial")
         /\ task' = "poll"
         /\ recording' = recording
         /\ \/ index' = index
            \/ stage = "crawl" /\ error = "TaskJoinError" /\ index' = index + 1
  BY <1>1, AttemptEnds
<1>3. Ahead'
  BY <1>1, <1>2 DEF Ahead
<1>4. Contiguous'
  <2>1. SUFFICES ASSUME stage' \in {"trial", "reindex", "crawl"}, recording'
                 PROVE  Contiguous'
    BY DEF Contiguous
  <2>2. /\ stage \in {"trial", "crawl"} /\ recording
        /\ stage' = "crawl" \/ (stage' = "reindex" /\ stage = "trial")
        /\ \/ index' = index
           \/ stage = "crawl" /\ error = "TaskJoinError" /\ index' = index + 1
    BY <1>2, <2>1
  <2>3. /\ crawlerState <= index
        /\ stage = "trial" => index = crawlerState
        /\ \A h \in (crawlerState + 1)..(index - 1) : Keys(chain[h]) \subseteq missed
    BY <2>2 DEF ProgressInv, Contiguous
  <2>4. \A h \in (crawlerState' + 1)..(index' - 1) : Keys(chain'[h]) \subseteq missed'
    <3>1. CASE index' = index
      BY <2>3, <3>1
    <3>2. CASE stage = "crawl" /\ error = "TaskJoinError" /\ index' = index + 1
      <4>1. SUFFICES ASSUME NEW h \in (crawlerState + 1)..index
                     PROVE  Keys(chain[h]) \subseteq missed'
        BY <1>1, <3>2
      <4>2. h = index \/ h \in (crawlerState + 1)..(index - 1)
        BY <1>1
      <4> QED
        BY <2>2, <2>3, <3>2, <4>2
    <3> QED
      BY <2>2, <3>1, <3>2
  <2> QED
    BY <1>1, <2>2, <2>3, <2>4 DEF Contiguous
<1> QED
  BY <1>3, <1>4 DEF ProgressInv

-----------------------------------------------------------------------------
(* The inductive invariant.                                                *)

LEMMA ProgressInit == Init => ProgressInv
  BY DEF Init, CrawlInit, ProgressInv, Ahead, Contiguous

LEMMA ProgressStarts ==
    ASSUME ProgressInv, Starts
    PROVE  ProgressInv'
<1>1. /\ UNCHANGED <<chain, tip, crawlerState, missed>>
      /\ tip \in Nat /\ index \in Nat /\ crawlerState \in Nat /\ crawlerState <= tip
  BY DEF Starts, StartNormal, StartSnapshot, StartTrial, StartBackfill, Started, node, database,
         history, ProgressInv, Ahead
<1>2. \/ index' = index /\ stage' = "snapshot" /\ task' = "poll"
      \/ index' = crawlerState /\ stage' = "trial" /\ task' = "poll"
      \/ index' \in Nat /\ stage' = "crawl" /\ task' = "poll" /\ recording' = FALSE
  <2>1. CASE StartNormal
    BY <2>1 DEF StartNormal, StartSnapshot, StartTrial, BeginSnapshot, CrawlFrom, ResumeAt
  <2>2. ASSUME NEW h \in Heights, StartBackfill(h)
        PROVE  \/ index' = index /\ stage' = "snapshot" /\ task' = "poll"
               \/ index' \in Nat /\ stage' = "crawl" /\ task' = "poll" /\ recording' = FALSE
    BY <2>2, BoundsAssumption DEF StartBackfill, BeginSnapshot, CrawlFrom, Heights
  <2> QED
    BY <2>1, <2>2 DEF Starts
<1>3. Ahead'
  BY <1>1, <1>2 DEF Ahead
<1>4. Contiguous'
  BY <1>1, <1>2 DEF Contiguous
<1> QED
  BY <1>3, <1>4 DEF ProgressInv

LEMMA ProgressCrawl ==
    ASSUME ProgressInv, CrawlBlock
    PROVE  ProgressInv'
<1>1. CASE ReadBlock
  BY <1>1 DEF ReadBlock, AtBlock, Proceed, node, mode, database, history,
              ProgressInv, Ahead, Contiguous
<1>8. CASE RefreshChecksums
  BY <1>8 DEF RefreshChecksums, AtBlock, Proceed, node, mode, database, history,
              ProgressInv, Ahead, Contiguous
<1>2. CASE ReadPruned
  <2>1. /\ EndsIn("Database") /\ "Database" \in MainErrors
        /\ UNCHANGED <<chain, tip, crawlerState, missed>>
    BY <1>2 DEF ReadPruned, MainErrors, node, database, history
  <2> QED
    BY <2>1, NothingWritten
<1>3. CASE QueryBalances
  BY <1>3 DEF QueryBalances, AtBlock, Proceed, node, mode, database, history,
              ProgressInv, Ahead, Contiguous
<1>4. ASSUME NEW d \in Pairs, QueryBond(d) \/ QueryUnbond(d)
      PROVE  ProgressInv'
  BY <1>4 DEF QueryBond, QueryUnbond, crawlVars, node, mode, database, history,
              ProgressInv, Ahead, Contiguous
<1>5. CASE Queried
  BY <1>5 DEF Queried, AtBlock, Proceed, node, mode, database, history,
              ProgressInv, Ahead, Contiguous
<1>6. CASE JoinFails
  <2>1. /\ EndsIn("TaskJoinError") /\ "TaskJoinError" \in MainErrors
        /\ UNCHANGED <<chain, tip, crawlerState>>
        /\ missed \subseteq missed'
        /\ (stage = "crawl" /\ recording) => Keys(chain[index]) \subseteq missed'
    BY <1>6 DEF JoinFails, MainErrors, node, database
  <2> QED
    BY <2>1, NothingWritten
<1>7. CASE Commit \/ CommitUnheard
  BY <1>7, BlockCommitted
<1> QED
  BY <1>1, <1>2, <1>3, <1>4, <1>5, <1>6, <1>7, <1>8 DEF CrawlBlock

LEMMA ProgressSnapshot ==
    ASSUME ProgressInv, InitialQuery
    PROVE  ProgressInv'
<1>1. CASE SnapshotHead
  BY <1>1 DEF SnapshotHead, node, mode, database, ProgressInv, Ahead, Contiguous
<1>2. ASSUME NEW a \in Accounts, SnapshotBalance(a)
      PROVE  ProgressInv'
  BY <1>2 DEF SnapshotBalance, crawlVars, node, mode, database, ProgressInv, Ahead, Contiguous
<1>3. CASE SnapshotStake
  BY <1>3 DEF SnapshotStake, Proceed, node, mode, database, ProgressInv, Ahead, Contiguous
<1>4. CASE Snapshot
  BY <1>4 DEF Snapshot, WriteSnapshot, CrawlFrom, node, ProgressInv, Ahead, Contiguous
<1>5. CASE SnapshotUnheard
  <2>1. /\ index \in Nat /\ crawlerState' = index /\ index <= tip /\ tip' = tip /\ tip \in Nat
        /\ stage = "snapshot"
    BY <1>5 DEF SnapshotUnheard, WriteSnapshot, node, ProgressInv, Ahead
  <2>2. \/ stage' = "idle" /\ index' = 0
        \/ stage' = "snapshot" /\ task' = "poll" /\ index' = index
    <3>1. EndsIn("Database") /\ "Database" \in MainErrors
      BY <1>5 DEF SnapshotUnheard, MainErrors
    <3> QED
      BY <2>1, <3>1, AttemptEnds
  <2> QED
    BY <2>1, <2>2 DEF ProgressInv, Ahead, Contiguous
<1> QED
  BY <1>1, <1>2, <1>3, <1>4, <1>5 DEF InitialQuery

LEMMA ProgressReindexing ==
    ASSUME ProgressInv, Reindexing
    PROVE  ProgressInv'
<1>1. CASE ReindexRead
  BY <1>1 DEF ReindexRead, Proceed, node, mode, database, history, ProgressInv, Ahead, Contiguous
<1>2. CASE DeleteBonds
  BY <1>2 DEF DeleteBonds, Proceed, node, mode, ProgressInv, Ahead, Contiguous
<1>3. CASE DeleteUnbonds
  BY <1>3 DEF DeleteUnbonds, Proceed, node, mode, history, ProgressInv, Ahead, Contiguous
<1>4. CASE ReindexBonds
  <2>1. /\ UNCHANGED <<chain, tip, crawlerState, index, recording>>
        /\ stage = "reindex" /\ stage' = "crawl" /\ task' = "poll"
    BY <1>4 DEF ReindexBonds, CrawlFrom, node
  <2>2. tip \in Nat /\ index \in Nat /\ crawlerState \in Nat /\ crawlerState <= tip
    BY DEF ProgressInv, Ahead
  <2>3. recording => crawlerState <= index /\ index <= crawlerState + 1
    BY <2>1 DEF ProgressInv, Contiguous
  <2>4. recording => (crawlerState + 1)..(index - 1) = {}
    BY <2>2, <2>3
  <2> QED
    BY <2>1, <2>2, <2>3, <2>4 DEF ProgressInv, Ahead, Contiguous
<1> QED
  BY <1>1, <1>2, <1>3, <1>4 DEF Reindexing

LEMMA ProgressNext == ProgressInv /\ [Next]_vars => ProgressInv'
<1> SUFFICES ASSUME ProgressInv, [Next]_vars
             PROVE  ProgressInv'
  OBVIOUS
<1>1. CASE Grow
  BY <1>1, BoundsAssumption DEF Grow, crawlVars, mode, database, history,
                                ProgressInv, Ahead, Contiguous
<1>2. CASE Prune
  BY <1>2 DEF Prune, crawlVars, mode, database, history, ProgressInv, Ahead, Contiguous
<1>3. CASE Starts
  BY <1>3, ProgressStarts
<1>4. CASE CrawlBlock
  BY <1>4, ProgressCrawl
<1>5. CASE InitialQuery
  BY <1>5, ProgressSnapshot
<1>6. CASE Reindexing
  BY <1>6, ProgressReindexing
<1>7. CASE AttemptFails
  <2>1. PICK error \in {"NoAction", "RpcError", "Database"} : EndsIn(error)
    BY <1>7 DEF AttemptFails
  <2>2. /\ error \in MainErrors /\ error # "TaskJoinError"
        /\ UNCHANGED <<chain, tip, crawlerState, missed>>
    BY <1>7 DEF AttemptFails, MainErrors, node, database, history
  <2> QED
    BY <2>1, <2>2, NothingWritten
<1>8. CASE Signal
  BY <1>8 DEF Signal, CtrlC, node, mode, database, history, ProgressInv, Ahead, Contiguous
<1>9. CASE Killed
  BY <1>9 DEF Killed, Stop, Gone, node, database, ProgressInv, Ahead, Contiguous
<1>10. CASE UNCHANGED vars
  BY <1>10 DEF vars, crawlVars, node, mode, database, history, ProgressInv, Ahead, Contiguous
<1> QED
  BY <1>1, <1>2, <1>3, <1>4, <1>5, <1>6, <1>7, <1>8, <1>9, <1>10 DEF Next

-----------------------------------------------------------------------------
(* The theorems.                                                           *)

\* What a step does to the recorded block: only the transaction of a block and
\* that of a snapshot move it.
LEMMA RecordedSteps ==
    ASSUME ProgressInv, [Next]_vars
    PROVE  /\ crawlerState' >= crawlerState
           /\ stage # "snapshot" =>
                \A h \in (crawlerState + 1)..(crawlerState' - 1) : Keys(chain[h]) \subseteq missed
<1>1. crawlerState \in Nat /\ tip \in Nat /\ index \in Nat
  BY DEF ProgressInv, Ahead
<1>2. CASE Commit \/ CommitUnheard
  <2>1. WriteBlock
    BY <1>2 DEF Commit, CommitUnheard
  <2> QED
    BY <1>1, <2>1, BlockWritten
<1>3. CASE Snapshot \/ SnapshotUnheard
  <2>1. stage = "snapshot" /\ crawlerState' = index /\ crawlerState <= index
    BY <1>3 DEF Snapshot, SnapshotUnheard, WriteSnapshot, ProgressInv, Ahead
  <2> QED
    BY <1>1, <2>1
<1>4. CASE crawlerState' = crawlerState
  BY <1>1, <1>4
<1>5. \/ Commit \/ CommitUnheard
      \/ Snapshot \/ SnapshotUnheard
      \/ crawlerState' = crawlerState
  <2>1. CASE Starts
    BY <2>1 DEF Starts, StartNormal, StartSnapshot, StartTrial, StartBackfill, Started, database
  <2>2. CASE CrawlBlock
    BY <2>2 DEF CrawlBlock, ReadBlock, RefreshChecksums, ReadPruned, QueryBalances, QueryBond, QueryUnbond, Queried,
                JoinFails, database
  <2>3. CASE InitialQuery
    BY <2>3 DEF InitialQuery, SnapshotHead, SnapshotBalance, SnapshotStake, database
  <2>4. CASE Reindexing
    BY <2>4 DEF Reindexing, ReindexRead, DeleteBonds, DeleteUnbonds, ReindexBonds, database
  <2>5. CASE Grow \/ Prune \/ AttemptFails \/ Signal \/ Killed \/ UNCHANGED vars
    BY <2>5 DEF Grow, Prune, AttemptFails, Signal, Killed, vars, database
  <2> QED
    BY <2>1, <2>2, <2>3, <2>4, <2>5 DEF Next
<1> QED
  BY <1>2, <1>3, <1>4, <1>5

\* The recorded block exists, and a process that records is nowhere before it.
THEOREM ProgressCorrect == Spec => []ProgressInv
<1>1. Init => ProgressInv
  BY ProgressInit
<1>2. ProgressInv /\ [Next]_vars => ProgressInv'
  BY ProgressNext
<1> QED
  BY <1>1, <1>2, PTL DEF Spec

\* Neither a backfill, a snapshot, a trial nor a retry moves the recorded block
\* back.
THEOREM RecordedNeverBack == Spec => NeverBack
<1>1. ProgressInv /\ [Next]_vars => [crawlerState' >= crawlerState]_vars
  BY RecordedSteps
<1> QED
  BY <1>1, ProgressCorrect, PTL DEF Spec, NeverBack

\* Between two recorded blocks there is none whose changes were not looked up,
\* unless a snapshot replaced it or a task panicked at it.
THEOREM RecordedOneByOne == Spec => OneByOne
<1>1. ProgressInv /\ [Next]_vars =>
        [ stage # "snapshot" =>
            \A h \in (crawlerState + 1)..(crawlerState' - 1) : Keys(chain[h]) \subseteq missed ]_vars
  BY RecordedSteps
<1> QED
  BY <1>1, ProgressCorrect, PTL DEF Spec, OneByOne

-----------------------------------------------------------------------------
(* The types.                                                              *)

\* The height an attempt is at exists.
ProcessTypes ==
    /\ task \in {"down", "poll", "refresh", "balances", "stake", "bonds", "unbonds", "commit"}
    /\ index \in 0..(MaxHeight + 1)
    /\ AtBlock("refresh") \/ AtBlock("balances") \/ AtBlock("stake") \/ AtBlock("commit")
          => index \in Heights
    /\ mustExit \in BOOLEAN
    /\ chain \in Chains
    /\ tip \in 0..MaxHeight /\ pruned \in 0..MaxPruned
    /\ stage \in {"idle", "trial", "snapshot", "reindex", "crawl"}
    /\ recording \in BOOLEAN /\ reindex \in BOOLEAN /\ newEpoch \in BOOLEAN
    /\ conn \in {"up", "lost"}

LookupTypes ==
    /\ lagging \in BOOLEAN
    /\ recipients \subseteq Accounts
    /\ balancesAt \in [Accounts -> -1..MaxHeight]
    /\ bondsAt \in [Pairs -> -1..MaxHeight]
    /\ unbondsAt \in [Pairs -> -1..MaxHeight]

TableTypes ==
    /\ balances \in [Accounts -> [Heights -> -1..MaxHeight]]
    /\ bonds \in Rows /\ unbonds \in Rows

HistoryTypes ==
    /\ missed \subseteq Accounts \cup Pairs
    /\ stale \in BOOLEAN /\ torn \in BOOLEAN
    /\ rare \in 0..MaxRare

LEMMA Bounds == MaxHeight \in Nat \ {0} /\ MaxRare \in Nat /\ MaxPruned \in Nat
  BY BoundsAssumption

LEMMA BlockTypes ==
    ASSUME ProcessTypes, NEW h \in Heights
    PROVE  chain[h] \in Block
  BY ChainAssumption DEF ProcessTypes

\* What is decoded of a block is a part of it.
LEMMA DecodedPart ==
    ASSUME ProcessTypes, index \in Heights
    PROVE  /\ \/ DecodedBlock = chain[index]
              \/ /\ DecodedBlock.touched = chain[index].paid
                 /\ DecodedBlock.bonded = {} /\ DecodedBlock.unbonded = {}
                 /\ DecodedBlock.drained = {} /\ DecodedBlock.withdrawn = {}
                 /\ Keys(DecodedBlock)
                      = chain[index].paid \cup chain[index].rewarded \cup chain[index].funded
           /\ DecodedBlock.epoch = chain[index].epoch
           /\ DecodedBlock.touched \subseteq chain[index].touched
           /\ DecodedBlock.withdrawn \subseteq chain[index].withdrawn
<1> DEFINE b == chain[index]
<1>1. b \in Block /\ b.paid \subseteq b.touched
  BY BlockTypes, ChainAssumption DEF ProcessTypes
<1> HIDE DEF b
<1>2. CASE CodeOf[checksums] = CodeOf[b.epoch]
  BY <1>2 DEF DecodedBlock, Decoded, b
<1>3. CASE CodeOf[checksums] # CodeOf[b.epoch]
  <2>1. Decoded(b) = [b EXCEPT !.touched = b.paid, !.bonded = {}, !.unbonded = {},
                               !.drained = {}, !.withdrawn = {}]
    BY <1>3 DEF Decoded
  <2>2. /\ Decoded(b).touched = b.paid /\ Decoded(b).bonded = {} /\ Decoded(b).unbonded = {}
        /\ Decoded(b).drained = {} /\ Decoded(b).withdrawn = {} /\ Decoded(b).epoch = b.epoch
        /\ Decoded(b).rewarded = b.rewarded /\ Decoded(b).funded = b.funded
    BY <1>1, <2>1 DEF Block
  <2>3. Keys(Decoded(b)) = b.paid \cup b.rewarded \cup b.funded
    BY <2>2 DEF Keys, BondAddresses
  <2> QED
    BY <1>1, <2>2, <2>3 DEF DecodedBlock, b
<1> QED
  BY <1>2, <1>3

LEMMA HighestInRange ==
    ASSUME NEW k \in Nat, NEW S \in SUBSET (1..k)
    PROVE  Highest(S) \in 0..k
<1>1. CASE S = {}
  BY <1>1 DEF Highest
<1>2. CASE S # {}
  <2>1. S \in SUBSET (0..k)
    OBVIOUS
  <2>2. \E m \in S : \A n \in S : n <= m
    BY <1>2, <2>1, GreatestElement
  <2>3. Highest(S) \in S
    BY <1>2, <2>2 DEF Highest
  <2>4. \A m \in S : m \in 0..k
    BY <2>1
  <2> QED
    BY <2>3, <2>4
<1> QED
  BY <1>1, <1>2

\* The values of the chain at a height.
LEMMA ValueTypes ==
    ASSUME NEW h \in -1..MaxHeight
    PROVE  /\ \A a \in Accounts : BalanceAt(a, h) \in 0..MaxHeight
           /\ \A d \in Pairs : BondsOf(d, h) \in [Epochs -> 0..MaxHeight]
           /\ \A d \in Pairs : UnbondsOf(d, h) \in [Epochs -> 0..MaxHeight]
<1>1. \A S \in SUBSET (1..h) : Highest(S) \in 0..MaxHeight
  <2> SUFFICES ASSUME NEW S \in SUBSET (1..h) PROVE Highest(S) \in 0..MaxHeight
    OBVIOUS
  <2>1. S \in SUBSET (1..MaxHeight)
    BY Bounds
  <2> QED
    BY <2>1, Bounds, HighestInRange
<1>2. \A a \in Accounts : BalanceAt(a, h) \in 0..MaxHeight
  BY <1>1 DEF BalanceAt
<1>3. 0 \in 0..MaxHeight
  BY Bounds
<1>4. \A d \in Pairs : BondsOf(d, h) \in [Epochs -> 0..MaxHeight]
  <2> SUFFICES ASSUME NEW d \in Pairs PROVE BondsOf(d, h) \in [Epochs -> 0..MaxHeight]
    OBVIOUS
  <2>1. Highest({g \in 1..h : BondChange(d, chain[g])}) \in 0..MaxHeight
    BY <1>1
  <2> QED
    BY <1>3, <2>1 DEF BondsOf
<1>5. \A d \in Pairs : UnbondsOf(d, h) \in [Epochs -> 0..MaxHeight]
  <2> SUFFICES ASSUME NEW d \in Pairs, NEW e \in Epochs
               PROVE  Highest({g \in 1..h : /\ chain[g].epoch = e /\ d \in chain[g].unbonded
                              /\ \A j \in (g + 1)..h :
                                    ~(d \in chain[j].withdrawn /\ Matured(e, chain[j]))}) \in 0..MaxHeight
    BY DEF UnbondsOf
  <2> QED
    BY <1>1
<1> QED
  BY <1>2, <1>4, <1>5

-----------------------------------------------------------------------------
(* Rows.                                                                   *)

LEMMA UpsertTypes ==
    ASSUME NEW t \in [Epochs -> 0..MaxHeight], NEW r \in [Epochs -> 0..MaxHeight]
    PROVE  Upsert(t, r) \in [Epochs -> 0..MaxHeight]
  BY DEF Upsert

LEMMA InsertTypes ==
    ASSUME LookupTypes, NEW t \in Rows
    PROVE  InsertBonds(t) \in Rows /\ InsertUnbonds(t) \in Rows
<1>1. \A d \in Pairs : Upsert(t[d], BondsOf(d, bondsAt[d])) \in [Epochs -> 0..MaxHeight]
  BY UpsertTypes, ValueTypes DEF LookupTypes, Rows
<1>2. \A d \in Pairs : Upsert(t[d], UnbondsOf(d, unbondsAt[d])) \in [Epochs -> 0..MaxHeight]
  BY UpsertTypes, ValueTypes DEF LookupTypes, Rows
<1> QED
  BY <1>1, <1>2 DEF InsertBonds, InsertUnbonds, Rows

LEMMA BalanceTypes ==
    ASSUME LookupTypes, TableTypes, NEW h \in Nat
    PROVE  InsertBalances(h) \in [Accounts -> [Heights -> -1..MaxHeight]]
<1>1. \A a \in Accounts : BalanceAt(a, balancesAt[a]) \in -1..MaxHeight
  BY ValueTypes DEF LookupTypes
<1> QED
  BY <1>1 DEF InsertBalances, TableTypes

LEMMA EmptyTypes == Empty \in Rows
  BY Bounds DEF Empty, Rows

LEMMA ClearTypes == TableTypes => ClearBonds \in Rows
  BY Bounds DEF TableTypes, ClearBonds, Rows

LEMMA RemoveTypes ==
    ASSUME NEW b, NEW t \in Rows
    PROVE  RemoveWithdraws(b, t) \in Rows
  BY Bounds DEF RemoveWithdraws, Rows

LEMMA ForgetTypes == Forget => LookupTypes' /\ newEpoch' = FALSE
<1>1. -1 \in -1..MaxHeight
  BY Bounds
<1> QED
  BY <1>1 DEF Forget, Nothing, NotAsked, LookupTypes

LEMMA BlockKeys ==
    ASSUME ProcessTypes, AtBlock("commit")
    PROVE  Keys(chain[index]) \subseteq Accounts \cup Pairs
<1>1. index \in Heights
  BY DEF ProcessTypes
<1> QED
  BY <1>1, BlockTypes DEF Keys, BondAddresses, Block

LEMMA LostKeys ==
    ASSUME ProcessTypes, LookupTypes, AtBlock("commit")
    PROVE  Lost(chain[index]) \subseteq Accounts \cup Pairs
<1>1. index \in Heights
  BY DEF ProcessTypes
<1>2. /\ chain[index].rewarded \subseteq Accounts /\ chain[index].funded \subseteq Accounts
      /\ Keys(chain[index]) \subseteq Accounts \cup Pairs
  BY <1>1, BlockTypes, BlockKeys DEF Block
<1>3. Unanswered(balancesAt) \subseteq Accounts /\ Unanswered(bondsAt) \subseteq Pairs
      /\ Unanswered(unbondsAt) \subseteq Pairs
  BY DEF LookupTypes, Unanswered
<1> QED
  BY <1>2, <1>3 DEF Lost

-----------------------------------------------------------------------------
(* The types of a step.                                                    *)

ChainTypes == ProcessTypes /\ LookupTypes /\ TableTypes /\ HistoryTypes

LEMMA ChainTypesInit == Init => ChainTypes
<1> SUFFICES ASSUME Init PROVE ChainTypes
  OBVIOUS
<1>1. 0 \in 0..MaxHeight /\ 0 \in 0..MaxPruned /\ 0 \in 0..MaxRare /\ 0 \in 0..(MaxHeight + 1)
      /\ -1 \in -1..MaxHeight
  BY Bounds
<1>2. ProcessTypes
  BY <1>1 DEF Init, CrawlInit, AtBlock, ProcessTypes
<1>3. LookupTypes /\ TableTypes
  BY <1>1, EmptyTypes DEF Init, Nothing, NotAsked, LookupTypes, TableTypes
<1>4. HistoryTypes
  BY <1>1 DEF Init, HistoryTypes
<1> QED
  BY <1>2, <1>3, <1>4 DEF ChainTypes

\* A process that begins to crawl, to try, or to take a snapshot.
LEMMA BeginTypes ==
    ASSUME ProcessTypes, ProgressInv, UNCHANGED <<chain, tip, pruned>>, conn' \in {"up", "lost"},
           newEpoch' \in BOOLEAN, recording' \in BOOLEAN, reindex' \in BOOLEAN,
           mustExit' \in BOOLEAN,
           stage' \in {"idle", "trial", "snapshot", "reindex", "crawl"},
           task' \in {"down", "poll"}, index' \in 0..(MaxHeight + 1)
    PROVE  ProcessTypes'
  BY DEF ProcessTypes, AtBlock

LEMMA EndTypes ==
    ASSUME ProcessTypes, ProgressInv, UNCHANGED <<chain, tip, pruned>>, conn' \in {"up", "lost"},
           \/ \E error \in MainErrors : EndsIn(error) /\ (error = "TaskJoinError" => AtBlock("commit"))
           \/ EndsWell /\ AtBlock("commit")
    PROVE  ProcessTypes' /\ LookupTypes'
<1>1. Forget
  BY DEF EndsIn, EndsWell
<1>2. LookupTypes' /\ newEpoch' = FALSE
  BY <1>1, ForgetTypes
<1>3. 0 \in 0..(MaxHeight + 1) /\ (index \in Heights => index + 1 \in 0..(MaxHeight + 1))
  BY Bounds DEF Heights
<1> DEFINE Ended ==
      /\ task' \in {"down", "poll"}
      /\ stage' \in {"idle", "trial", "snapshot", "reindex", "crawl"}
      /\ recording' \in BOOLEAN /\ reindex' \in BOOLEAN /\ mustExit' \in BOOLEAN
      /\ index' \in {0, index} \/ (index' = index + 1 /\ AtBlock("commit"))
<1>4. Ended
  <2>1. ASSUME NEW error \in MainErrors, EndsIn(error), error = "TaskJoinError" => AtBlock("commit")
        PROVE  Ended
    BY <2>1 DEF EndsIn, FailWith, Retryable, MainErrors, Retry, NextIndex, Gone, Stop, Stage, mode,
                BeginSnapshot, EnterCrawl, CrawlFrom, ProcessTypes
  <2>2. CASE EndsWell /\ AtBlock("commit")
    BY <2>2 DEF EndsWell, NextIndex, Gone, Stage, mode, EnterCrawl, CrawlFrom, ProcessTypes
  <2> QED
    BY <2>1, <2>2
<1>5. index' \in 0..(MaxHeight + 1)
  BY <1>3, <1>4 DEF ProcessTypes
<1> QED
  BY <1>2, <1>4, <1>5, BeginTypes

LEMMA StartsTypes ==
    ASSUME ChainTypes, ProgressInv, Starts
    PROVE  ChainTypes'
<1>1. Started
  BY DEF Starts, StartNormal, StartSnapshot, StartTrial, StartBackfill
<1>2. LookupTypes' /\ TableTypes' /\ newEpoch' = newEpoch
  BY <1>1 DEF Started, lookups, database, ChainTypes, LookupTypes, TableTypes
<1>3. crawlerState \in 0..(MaxHeight + 1)
  BY Bounds DEF ProgressInv, Ahead, ChainTypes, ProcessTypes
<1>4. CASE StartNormal
  <2>1. /\ task' = "poll" /\ stage' \in {"trial", "snapshot"}
        /\ recording' \in BOOLEAN /\ reindex' \in BOOLEAN /\ mustExit' \in BOOLEAN
        /\ index' \in {index, crawlerState}
    BY <1>4 DEF StartNormal, StartSnapshot, StartTrial, BeginSnapshot, CrawlFrom, ResumeAt,
                ChainTypes, ProcessTypes
  <2>2. rare' \in 0..MaxRare
    <3>1. rare' = rare \/ (rare < MaxRare /\ rare' = rare + 1)
      BY <1>4 DEF StartNormal, StartSnapshot
    <3> QED
      BY <3>1, Bounds DEF ChainTypes, HistoryTypes
  <2> QED
    BY <1>1, <1>2, <1>3, <2>1, <2>2, BeginTypes
       DEF Started, node, history, ChainTypes, ProcessTypes, HistoryTypes
<1>5. ASSUME NEW h \in Heights, StartBackfill(h)
      PROVE  ChainTypes'
  <2>1. /\ task' = "poll" /\ stage' \in {"crawl", "snapshot"}
        /\ recording' \in BOOLEAN /\ reindex' \in BOOLEAN /\ mustExit' \in BOOLEAN
        /\ index' \in {index, h}
    BY <1>5 DEF StartBackfill, BeginSnapshot, CrawlFrom, ChainTypes, ProcessTypes
  <2>2. rare' \in 0..MaxRare
    BY <1>5, Bounds DEF StartBackfill, ChainTypes, HistoryTypes
  <2>3. h \in 0..(MaxHeight + 1)
    BY Bounds DEF Heights
  <2> QED
    BY <1>1, <1>2, <2>1, <2>2, <2>3, BeginTypes
       DEF Started, node, history, ChainTypes, ProcessTypes, HistoryTypes
<1> QED
  BY <1>4, <1>5 DEF Starts

LEMMA WriteBlockTypes ==
    ASSUME ChainTypes, ProgressInv, WriteBlock
    PROVE  TableTypes' /\ HistoryTypes' /\ AtBlock("commit") /\ UNCHANGED <<chain, tip, pruned>>
<1>1. balances' \in [Accounts -> [Heights -> -1..MaxHeight]]
  BY BalanceTypes DEF WriteBlock, ChainTypes, ProgressInv, Ahead
<1>2. bonds' \in Rows /\ unbonds' \in Rows
  <2>1. ClearBonds \in Rows
    BY ClearTypes DEF ChainTypes
  <2>2. unbonds \in Rows
    BY DEF ChainTypes, TableTypes
  <2> QED
    BY <2>1, <2>2, InsertTypes, RemoveTypes DEF WriteBlock, ChainTypes
<1>3. missed' \subseteq Accounts \cup Pairs
  BY LostKeys DEF WriteBlock, MissedAfter, ChainTypes, HistoryTypes
<1> QED
  BY <1>1, <1>2, <1>3 DEF WriteBlock, node, TableTypes, ChainTypes, HistoryTypes

LEMMA CrawlBlockTypes ==
    ASSUME ChainTypes, ProgressInv, CrawlBlock
    PROVE  ChainTypes'
<1>1. CASE ReadBlock
  <2>1. index \in Heights
    BY <1>1, Bounds DEF ReadBlock, AtBlock, ChainTypes, ProcessTypes, Heights
  <2> QED
    BY <1>1, <2>1 DEF ReadBlock, AtBlock, Proceed, node, mode, database, history,
                      ChainTypes, ProcessTypes, LookupTypes, TableTypes, HistoryTypes
<1>8. CASE RefreshChecksums
  BY <1>8 DEF RefreshChecksums, AtBlock, Proceed, node, mode, database, history,
              ChainTypes, ProcessTypes, LookupTypes, TableTypes, HistoryTypes
<1>2. CASE ReadPruned
  <2>1. /\ EndsIn("Database") /\ "Database" \in MainErrors
        /\ UNCHANGED <<chain, tip, pruned>> /\ conn' = conn
    BY <1>2 DEF ReadPruned, MainErrors, node
  <2>2. ProcessTypes' /\ LookupTypes'
    BY <2>1, EndTypes DEF ChainTypes, ProcessTypes
  <2> QED
    BY <1>2, <2>2 DEF ReadPruned, database, history, ChainTypes, TableTypes, HistoryTypes
<1>3. CASE QueryBalances
  <2>1. index \in Heights /\ AtBlock("balances")
    BY <1>3 DEF QueryBalances, ChainTypes, ProcessTypes
  <2>5. PICK listed \in SUBSET Accounts : \E lost \in SUBSET ChangedBalances(listed) :
           /\ recipients' = listed
           /\ rare + Cardinality(lost) <= MaxRare
           /\ rare' = rare + Cardinality(lost)
           /\ balancesAt' = [a \in Accounts |-> IF a \in lost THEN NoAnswer
                                ELSE IF a \in ChangedBalances(listed) THEN index ELSE NotAsked]
    BY <1>3, Zenon DEF QueryBalances
  <2>2. PICK lost \in SUBSET ChangedBalances(listed) :
           /\ recipients' = listed
           /\ rare + Cardinality(lost) <= MaxRare
           /\ rare' = rare + Cardinality(lost)
           /\ balancesAt' = [a \in Accounts |-> IF a \in lost THEN NoAnswer
                                ELSE IF a \in ChangedBalances(listed) THEN index ELSE NotAsked]
    BY <2>5
  <2>3. rare' \in 0..MaxRare
    <3>1. ChangedBalances(listed) \subseteq Accounts
      BY <2>1, DecodedPart, BlockTypes DEF ChangedBalances, Block, ChainTypes
    <3>2. IsFiniteSet(lost)
      BY <2>2, <3>1, FS_Subset, BoundsAssumption
    <3>3. Cardinality(lost) \in Nat
      BY <3>2, FS_CardinalityType
    <3> QED
      BY <2>2, <3>3, Bounds DEF ChainTypes, HistoryTypes
  <2>4. balancesAt' \in [Accounts -> -1..MaxHeight] /\ recipients' \subseteq Accounts
    <3>1. index \in -1..MaxHeight /\ 0 \in -1..MaxHeight /\ -1 \in -1..MaxHeight
      BY <2>1, Bounds DEF Heights
    <3> QED
      BY <2>2, <3>1 DEF NoAnswer, NotAsked
  <2> QED
    BY <1>3, <2>1, <2>3, <2>4
       DEF QueryBalances, AtBlock, Proceed, node, mode, database, history,
           ChainTypes, ProcessTypes, LookupTypes, TableTypes, HistoryTypes
<1>4. ASSUME NEW d \in Pairs, QueryBond(d) \/ QueryUnbond(d)
      PROVE  ChainTypes'
  <2>1. PICK answer \in {tip, NoAnswer} :
           /\ Answers(answer)
           /\ \/ bondsAt' = [bondsAt EXCEPT ![d] = answer] /\ unbondsAt' = unbondsAt
              \/ unbondsAt' = [unbondsAt EXCEPT ![d] = answer] /\ bondsAt' = bondsAt
    BY <1>4 DEF QueryBond, QueryUnbond
  <2>2. answer \in -1..MaxHeight
    BY Bounds DEF NoAnswer, ChainTypes, ProcessTypes
  <2>3. rare' \in 0..MaxRare
    BY <2>1, Bounds DEF Answers, ChainTypes, HistoryTypes
  <2>4. UNCHANGED <<crawlVars, node, mode, conn, newEpoch, lagging, recipients, balancesAt,
                    database, history>>
    BY <1>4 DEF QueryBond, QueryUnbond
  <2>5. LookupTypes'
    BY <2>1, <2>2, <2>4 DEF ChainTypes, LookupTypes
  <2> QED
    BY <2>3, <2>4, <2>5 DEF crawlVars, node, mode, database, history, AtBlock,
                            ChainTypes, ProcessTypes, TableTypes, HistoryTypes
<1>5. CASE Queried
  BY <1>5 DEF Queried, AtBlock, Proceed, node, mode, lookups, database, history,
              ChainTypes, ProcessTypes, LookupTypes, TableTypes, HistoryTypes
<1>6. CASE JoinFails
  <2>1. /\ EndsIn("TaskJoinError") /\ "TaskJoinError" \in MainErrors /\ AtBlock("commit")
        /\ UNCHANGED <<chain, tip, pruned>> /\ conn' = conn
    BY <1>6 DEF JoinFails, MainErrors, node
  <2>2. ProcessTypes' /\ LookupTypes'
    BY <2>1, EndTypes DEF ChainTypes, ProcessTypes
  <2>3. missed' \subseteq Accounts \cup Pairs
    BY <1>6, <2>1, BlockKeys DEF JoinFails, ChainTypes, HistoryTypes
  <2>4. rare' \in 0..MaxRare
    BY <1>6, Bounds DEF JoinFails, ChainTypes, HistoryTypes
  <2> QED
    BY <1>6, <2>2, <2>3, <2>4 DEF JoinFails, database, ChainTypes, TableTypes, HistoryTypes
<1>7. CASE Commit \/ CommitUnheard
  <2>1. TableTypes' /\ HistoryTypes' /\ AtBlock("commit") /\ UNCHANGED <<chain, tip, pruned>>
    BY <1>7, WriteBlockTypes DEF Commit, CommitUnheard
  <2>2. \/ EndsWell /\ conn' = conn
        \/ EndsIn("Database") /\ "Database" \in MainErrors /\ conn' = "lost"
    BY <1>7 DEF Commit, CommitUnheard, MainErrors
  <2>3. ProcessTypes' /\ LookupTypes'
    BY <2>1, <2>2, EndTypes DEF ChainTypes, ProcessTypes
  <2> QED
    BY <2>1, <2>3 DEF ChainTypes
<1> QED
  BY <1>1, <1>2, <1>3, <1>4, <1>5, <1>6, <1>7, <1>8 DEF CrawlBlock

LEMMA SnapshotTypes ==
    ASSUME ChainTypes, ProgressInv, InitialQuery
    PROVE  ChainTypes'
<1>1. CASE SnapshotHead
  <2>1. index' \in 0..(MaxHeight + 1)
    BY <1>1, Bounds DEF SnapshotHead, ChainTypes, ProcessTypes
  <2> QED
    BY <1>1, <2>1 DEF SnapshotHead, AtBlock, node, mode, lookups, database, history,
                      ChainTypes, ProcessTypes, LookupTypes, TableTypes, HistoryTypes
<1>2. ASSUME NEW a \in Accounts, SnapshotBalance(a)
      PROVE  ChainTypes'
  <2>1. tip \in -1..MaxHeight
    BY Bounds DEF ChainTypes, ProcessTypes
  <2>2. LookupTypes'
    BY <1>2, <2>1 DEF SnapshotBalance, ChainTypes, LookupTypes
  <2> QED
    BY <1>2, <2>2 DEF SnapshotBalance, crawlVars, node, mode, database, history, AtBlock,
                      ChainTypes, ProcessTypes, TableTypes, HistoryTypes
<1>3. CASE SnapshotStake
  <2>1. tip \in -1..MaxHeight
    BY Bounds DEF ChainTypes, ProcessTypes
  <2>2. LookupTypes'
    BY <1>3, <2>1 DEF SnapshotStake, ChainTypes, LookupTypes
  <2> QED
    BY <1>3, <2>2 DEF SnapshotStake, Proceed, node, mode, database, history, AtBlock,
                      ChainTypes, ProcessTypes, TableTypes, HistoryTypes
<1>4. CASE Snapshot \/ SnapshotUnheard
  <2>1. WriteSnapshot
    BY <1>4 DEF Snapshot, SnapshotUnheard
  <2>2. TableTypes'
    <3>1. balances' \in [Accounts -> [Heights -> -1..MaxHeight]]
      BY <2>1, BalanceTypes DEF WriteSnapshot, ChainTypes, ProgressInv, Ahead
    <3>2. bonds' \in Rows /\ unbonds' \in Rows
      BY <2>1, InsertTypes DEF WriteSnapshot, ChainTypes, TableTypes
    <3> QED
      BY <3>1, <3>2 DEF TableTypes
  <2>3. HistoryTypes'
    BY <2>1 DEF WriteSnapshot, ChainTypes, HistoryTypes
  <2>4. ProcessTypes' /\ LookupTypes'
    <3>1. CASE Snapshot
      BY <3>1, <2>1, ForgetTypes DEF Snapshot, WriteSnapshot, CrawlFrom, node, AtBlock,
                                     ChainTypes, ProcessTypes
    <3>2. CASE SnapshotUnheard
      BY <3>2, <2>1, EndTypes DEF SnapshotUnheard, WriteSnapshot, node, MainErrors,
                                  ChainTypes
    <3> QED
      BY <1>4, <3>1, <3>2
  <2> QED
    BY <2>2, <2>3, <2>4 DEF ChainTypes
<1> QED
  BY <1>1, <1>2, <1>3, <1>4 DEF InitialQuery

LEMMA ReindexTypes ==
    ASSUME ChainTypes, Reindexing
    PROVE  ChainTypes'
<1>1. CASE ReindexRead
  <2>1. tip \in -1..MaxHeight
    BY Bounds DEF ChainTypes, ProcessTypes
  <2>2. LookupTypes'
    BY <1>1, <2>1 DEF ReindexRead, ChainTypes, LookupTypes
  <2> QED
    BY <1>1, <2>2 DEF ReindexRead, Proceed, node, mode, database, history, AtBlock,
                      ChainTypes, ProcessTypes, TableTypes, HistoryTypes
<1>2. CASE DeleteBonds
  BY <1>2, EmptyTypes DEF DeleteBonds, Proceed, node, mode, lookups, AtBlock,
                          ChainTypes, ProcessTypes, LookupTypes, TableTypes, HistoryTypes
<1>3. CASE DeleteUnbonds
  BY <1>3, EmptyTypes DEF DeleteUnbonds, Proceed, node, mode, lookups, history, AtBlock,
                          ChainTypes, ProcessTypes, LookupTypes, TableTypes, HistoryTypes
<1>4. CASE ReindexBonds
  <2>1. bonds' \in Rows /\ unbonds' \in Rows /\ balances' = balances
    BY <1>4, InsertTypes DEF ReindexBonds, ChainTypes, TableTypes
  <2>2. LookupTypes' /\ newEpoch' = FALSE
    BY <1>4, ForgetTypes DEF ReindexBonds
  <2> QED
    BY <1>4, <2>1, <2>2 DEF ReindexBonds, CrawlFrom, node, AtBlock,
                            ChainTypes, ProcessTypes, TableTypes, HistoryTypes
<1> QED
  BY <1>1, <1>2, <1>3, <1>4 DEF Reindexing

LEMMA ChainTypesNext ==
    ASSUME ChainTypes, ProgressInv, [Next]_vars
    PROVE  ChainTypes'
<1>1. CASE Grow \/ Prune
  <2>1. tip' \in 0..MaxHeight /\ pruned' \in 0..MaxPruned
    BY <1>1, Bounds DEF Grow, Prune, ChainTypes, ProcessTypes
  <2> QED
    BY <1>1, <2>1 DEF Grow, Prune, crawlVars, mode, lookups, database, history, AtBlock,
                      ChainTypes, ProcessTypes, LookupTypes, TableTypes, HistoryTypes
<1>2. CASE Starts
  BY <1>2, StartsTypes
<1>3. CASE CrawlBlock
  BY <1>3, CrawlBlockTypes
<1>4. CASE InitialQuery
  BY <1>4, SnapshotTypes
<1>5. CASE Reindexing
  BY <1>5, ReindexTypes
<1>6. CASE AttemptFails
  <2>1. PICK error \in {"NoAction", "RpcError", "Database"} : EndsIn(error)
    BY <1>6 DEF AttemptFails
  <2>2. /\ error \in MainErrors /\ error # "TaskJoinError"
        /\ UNCHANGED <<chain, tip, pruned>> /\ conn' = conn
    BY <1>6 DEF AttemptFails, MainErrors, node
  <2>3. ProcessTypes' /\ LookupTypes'
    BY <2>1, <2>2, EndTypes DEF ChainTypes, ProcessTypes
  <2> QED
    BY <1>6, <2>3 DEF AttemptFails, database, history, ChainTypes, TableTypes, HistoryTypes
<1>7. CASE Signal \/ UNCHANGED vars
  <2>1. UNCHANGED <<task, index, node, mode, conn, lookups, database, history, rare>>
    BY <1>7 DEF Signal, CtrlC, vars, crawlVars
  <2>2. mustExit' \in BOOLEAN
    BY <1>7 DEF Signal, CtrlC, vars, crawlVars, ChainTypes, ProcessTypes
  <2>3. ProcessTypes'
    BY <2>1, <2>2 DEF node, mode, lookups, AtBlock, ChainTypes, ProcessTypes
  <2>4. LookupTypes' /\ TableTypes' /\ HistoryTypes'
    BY <2>1 DEF lookups, database, history, ChainTypes, LookupTypes, TableTypes, HistoryTypes
  <2> QED
    BY <2>3, <2>4 DEF ChainTypes
<1>8. CASE Killed
  <2>1. LookupTypes' /\ newEpoch' = FALSE
    BY <1>8, ForgetTypes DEF Killed
  <2>2. 0 \in 0..(MaxHeight + 1)
    BY Bounds
  <2>3. ProcessTypes'
    BY <1>8, <2>1, <2>2 DEF Killed, Stop, Gone, node, AtBlock, ChainTypes, ProcessTypes
  <2>4. TableTypes' /\ HistoryTypes'
    BY <1>8 DEF Killed, database, history, ChainTypes, TableTypes, HistoryTypes
  <2> QED
    BY <2>1, <2>3, <2>4 DEF ChainTypes
<1> QED
  BY <1>1, <1>2, <1>3, <1>4, <1>5, <1>6, <1>7, <1>8 DEF Next

-----------------------------------------------------------------------------
(* What is shown is as of the recorded block or later.                     *)

\* The balances are asked for once the block is known; in a block those that it
\* changes, as of it, and in a snapshot all of them, as of it or later.
AskedBalances ==
    /\ (stage \in {"trial", "crawl"} /\ task \in {"stake", "commit"}) =>
          /\ ~newEpoch => recipients = {}
          /\ \A a \in Accounts :
                a \in ChangedBalances(recipients) => balancesAt[a] \in {index, NoAnswer}
    /\ (stage \in {"trial", "crawl"} /\ task \in {"stake", "commit"}) =>
          \A a \in Accounts : a \notin ChangedBalances(recipients) => balancesAt[a] = NotAsked
    /\ (stage = "snapshot" /\ task \in {"balances", "commit"}) =>
          \A a \in Accounts : balancesAt[a] > 0 => index <= balancesAt[a] /\ balancesAt[a] <= tip
    /\ (stage = "snapshot" /\ task = "commit") => \A a \in Accounts : balancesAt[a] > 0

\* The node answers a lookup of a pair as of the recorded block or later, and
\* as of the block of the attempt or later.
AskedStake ==
    /\ \A d \in Pairs : \A k \in {bondsAt[d], unbondsAt[d]} :
          k > 0 => crawlerState <= k /\ k <= tip /\ (stage # "reindex" => index <= k)
    /\ AtBlock("commit") =>
          /\ \A d \in BondAddresses(DecodedBlock) : bondsAt[d] # NotAsked
          /\ \A d \in DecodedBlock.unbonded : unbondsAt[d] # NotAsked
    /\ \/ stage = "snapshot" /\ task = "commit"
       \/ stage = "reindex" /\ task \in {"bonds", "unbonds", "commit"}
       => \A d \in Pairs : bondsAt[d] > 0 /\ unbondsAt[d] > 0

NothingAsked ==
    /\ balancesAt = Nothing(Accounts)
    /\ bondsAt = Nothing(Pairs)
    /\ unbondsAt = Nothing(Pairs)

\* A process has asked for nothing before its attempt begins, and it began when
\* there was a block.
Began ==
    /\ task \in {"down", "poll"} => NothingAsked
    /\ task # "down" => tip >= 1

\* A reindexing fills the tables it emptied.
Emptied ==
    (stage = "reindex" /\ task \in {"unbonds", "commit"}) =>
        /\ torn
        /\ bonds = Empty
        /\ task = "commit" => unbonds = Empty

LookupInv == AskedBalances /\ AskedStake /\ Began /\ Emptied

\* A row of a balance is as of its height or later.
BalanceRows ==
    \A a \in Accounts, g \in Heights :
        balances[a][g] # NotAsked => \E k \in g..tip : balances[a][g] = BalanceAt(a, k)

\* No change of a balance up to the recorded block is without a row at it or above.
BalanceKept ==
    \A a \in Accounts \ missed : \A h \in 1..crawlerState :
        BalanceChange(a, chain[h]) => \E g \in Heights : h <= g /\ balances[a][g] # NotAsked

\* What BondsFresh says, before there is a recorded block too.
BondRows ==
    ~torn =>
        \A d \in Pairs \ missed, e \in Epochs : \E h \in Since :
            \/ bonds[d][e] = BondsOf(d, h)[e]
            \/ stale /\ BondsOf(d, h)[e] = 0

UnbondRows ==
    ~torn =>
        \A d \in Pairs \ missed, e \in Epochs : \E h \in Since :
            \/ unbonds[d][e] = UnbondsOf(d, h)[e]
            \/ /\ UnbondsOf(d, h)[e] = 0
               /\ \E g \in 0..crawlerState : unbonds[d][e] = UnbondsOf(d, g)[e]

\* Whatever was missed, a row of an unbond was right once.
UnbondPast ==
    \A d \in Pairs, e \in Epochs : \E g \in 0..tip : unbonds[d][e] = UnbondsOf(d, g)[e]

-----------------------------------------------------------------------------
(* The values of the chain between its changes.                            *)

\* They are functions of the history.
LEMMA SameValues ==
    ASSUME chain' = chain
    PROVE  /\ \A d, h : BondsOf(d, h)' = BondsOf(d, h)
           /\ \A d, h : UnbondsOf(d, h)' = UnbondsOf(d, h)
<1>1. \A d, h : BondedIn(d, h)' = BondedIn(d, h)
  BY DEF BondedIn
<1>2. \A d, h : BondsOf(d, h)' = BondsOf(d, h)
  BY <1>1 DEF BondsOf
<1>3. \A d, h : UnbondsOf(d, h)' = UnbondsOf(d, h)
  BY DEF UnbondsOf
<1> QED
  BY <1>2, <1>3

LEMMA HighestIs ==
    ASSUME NEW k \in Nat, NEW S \in SUBSET (1..k), S # {}
    PROVE  Highest(S) \in S /\ Highest(S) \in 1..k /\ \A g \in S : g <= Highest(S)
<1>1. S \in SUBSET (0..k) /\ \A m \in S : m \in 1..k
  OBVIOUS
<1>2. \E m \in S : \A n \in S : n <= m
  BY <1>1, GreatestElement
<1>3. Highest(S) \in S /\ \A g \in S : g <= Highest(S)
  BY <1>2 DEF Highest
<1> QED
  BY <1>1, <1>3

LEMMA BalanceSteady ==
    ASSUME NEW a, NEW h \in Nat, NEW k \in Nat, h <= k,
           \A g \in (h + 1)..k : ~BalanceChange(a, chain[g])
    PROVE  BalanceAt(a, k) = BalanceAt(a, h)
<1>1. {g \in 1..k : BalanceChange(a, chain[g])}
        = {g \in 1..h : BalanceChange(a, chain[g])}
  <2>1. ASSUME NEW g \in 1..k, g \notin 1..h
        PROVE  g \in (h + 1)..k
    BY <2>1
  <2>2. 1..h \subseteq 1..k
    OBVIOUS
  <2> QED
    BY <2>1, <2>2 DEF BalanceChange
<1> QED
  BY <1>1 DEF BalanceAt

LEMMA BalancePositive ==
    ASSUME NEW a, NEW k \in Nat, NEW h \in 1..k, BalanceChange(a, chain[h])
    PROVE  BalanceAt(a, k) \in 1..k
<1> DEFINE S == {g \in 1..k : BalanceChange(a, chain[g])}
<1>1. S \in SUBSET (1..k) /\ S # {}
  BY DEF BalanceChange
<1> HIDE DEF S
<1>2. Highest(S) \in 1..k
  BY <1>1, HighestIs
<1> QED
  BY <1>2 DEF BalanceAt, S

LEMMA BondsSteady ==
    ASSUME NEW d, NEW h \in Nat, NEW k \in Nat, h <= k,
           \A g \in (h + 1)..k : ~BondChange(d, chain[g])
    PROVE  BondsOf(d, k) = BondsOf(d, h)
<1> DEFINE Open(n) == {g \in 1..n : /\ d \in chain[g].bonded
                                    /\ \A j \in (g + 1)..n : d \notin chain[j].drained}
           Changed(n) == {g \in 1..n : BondChange(d, chain[g])}
<1>1. \A g \in 1..k : g \in 1..h \/ g \in (h + 1)..k
  OBVIOUS
<1>2. \A g \in 1..h : g \in 1..k
  OBVIOUS
<1>3. Changed(k) = Changed(h)
  BY <1>1, <1>2
<1>4. ASSUME NEW g \in 1..h
      PROVE  (\A j \in (g + 1)..k : d \notin chain[j].drained)
                <=> (\A j \in (g + 1)..h : d \notin chain[j].drained)
  <2>1. \A j \in (g + 1)..h : j \in (g + 1)..k
    OBVIOUS
  <2>2. \A j \in (g + 1)..k : j \in (g + 1)..h \/ j \in (h + 1)..k
    OBVIOUS
  <2>3. \A j \in (h + 1)..k : d \notin chain[j].drained
    BY DEF BondChange
  <2> QED
    BY <2>1, <2>2, <2>3
<1>5. \A g \in (h + 1)..k : d \notin chain[g].bonded
  BY DEF BondChange
<1>6. Open(k) = Open(h)
  BY <1>1, <1>2, <1>4, <1>5
<1>7. BondedIn(d, k) = BondedIn(d, h)
  <2>1. \A n : BondedIn(d, n) = {chain[g].epoch : g \in Open(n)}
    BY DEF BondedIn
  <2> HIDE DEF Open
  <2> QED
    BY <1>6, <2>1
<1> QED
  BY <1>3, <1>7 DEF BondsOf

\* What makes the unbonds of an epoch that a pair has change.
UnbondChange(d, e, b) ==
    \/ b.epoch = e /\ d \in b.unbonded
    \/ d \in b.withdrawn /\ Matured(e, b)

LEMMA UnbondsSteady ==
    ASSUME NEW d, NEW e \in Epochs, NEW h \in Nat, NEW k \in Nat, h <= k,
           \A g \in (h + 1)..k : ~UnbondChange(d, e, chain[g])
    PROVE  UnbondsOf(d, k)[e] = UnbondsOf(d, h)[e]
<1> DEFINE Left(j) == d \in chain[j].withdrawn /\ Matured(e, chain[j])
           Open(n) == {g \in 1..n : /\ chain[g].epoch = e /\ d \in chain[g].unbonded
                                    /\ \A j \in (g + 1)..n : ~Left(j)}
<1>1. \A g \in 1..k : g \in 1..h \/ g \in (h + 1)..k
  OBVIOUS
<1>2. \A g \in 1..h : g \in 1..k
  OBVIOUS
<1>3. ASSUME NEW g \in 1..h
      PROVE  (\A j \in (g + 1)..k : ~Left(j)) <=> (\A j \in (g + 1)..h : ~Left(j))
  <2>1. \A j \in (g + 1)..h : j \in (g + 1)..k
    OBVIOUS
  <2>2. \A j \in (g + 1)..k : j \in (g + 1)..h \/ j \in (h + 1)..k
    OBVIOUS
  <2>3. \A j \in (h + 1)..k : ~Left(j)
    BY DEF UnbondChange
  <2> QED
    BY <2>1, <2>2, <2>3
<1>4. Open(k) = Open(h)
  BY <1>1, <1>2, <1>3 DEF UnbondChange
<1>5. \A n : UnbondsOf(d, n)[e] = Highest(Open(n))
  BY DEF UnbondsOf
<1> HIDE DEF Open
<1> QED
  BY <1>4, <1>5

LEMMA EpochTypes ==
    ASSUME NEW c \in Chains, NEW h \in Heights
    PROVE  c[h].epoch \in Epochs /\ c[h].epoch \in Nat
<1>1. c[h] \in Block
  BY ChainAssumption
<1> QED
  BY <1>1, BoundsAssumption DEF Block

LEMMA EpochsGrow ==
    ASSUME NEW c \in Chains, NEW g \in Heights, NEW h \in Heights, g <= h
    PROVE  c[g].epoch <= c[h].epoch
<1>1. c[g].epoch \in Nat /\ c[h].epoch \in Nat
  BY EpochTypes
<1>2. CASE g = h
  BY <1>1, <1>2
<1>3. CASE g < h
  <2>1. g \in 1..(h - 1)
    BY <1>3 DEF Heights
  <2> QED
    BY <2>1, ChainAssumption
<1> QED
  BY <1>2, <1>3 DEF Heights

\* The epochs between two heights of one epoch are that epoch.
LEMMA SameEpoch ==
    ASSUME NEW c \in Chains, NEW g \in Heights, NEW k \in Heights, NEW h \in Heights,
           g <= k, k <= h, c[g].epoch = c[h].epoch
    PROVE  c[k].epoch = c[h].epoch
<1>1. c[g].epoch <= c[k].epoch /\ c[k].epoch <= c[h].epoch
  BY EpochsGrow
<1>2. c[g].epoch \in Nat /\ c[k].epoch \in Nat /\ c[h].epoch \in Nat
  BY EpochTypes
<1> QED
  BY <1>1, <1>2

\* Once they are withdrawn, the matured unbonds of a pair do not come back: those
\* that are made later are of a later epoch.
LEMMA WithdrawnForGood ==
    ASSUME chain \in Chains, NEW d, NEW e \in Epochs, NEW h \in Heights, NEW k \in Heights,
           h <= k, d \in chain[h].withdrawn, Matured(e, chain[h])
    PROVE  UnbondsOf(d, k)[e] = 0
<1> DEFINE S == {g \in 1..k : /\ chain[g].epoch = e /\ d \in chain[g].unbonded
                              /\ \A j \in (g + 1)..k :
                                    ~(d \in chain[j].withdrawn /\ Matured(e, chain[j]))}
<1>1. SUFFICES ASSUME NEW g \in S PROVE FALSE
  <2>1. S = {}
    BY <1>1
  <2> QED
    BY <2>1 DEF UnbondsOf, Highest
<1>2. h \in Nat /\ k \in Nat /\ g \in 1..k /\ k <= MaxHeight /\ MaxHeight \in Nat
  BY Bounds DEF Heights
<1>3. h \notin (g + 1)..k
  BY <1>1
<1>4. g >= h /\ g \in Heights
  BY <1>2, <1>3 DEF Heights
<1>5. chain[h].epoch \in Nat /\ e \in Nat /\ chain[g].epoch = e
  BY <1>1, EpochTypes, BoundsAssumption
<1>6. chain[h].epoch <= chain[g].epoch
  BY <1>2, <1>4, EpochsGrow
<1> QED
  BY <1>5, <1>6, BoundsAssumption DEF Matured

LEMMA NothingAtZero ==
    ASSUME NEW d, NEW e \in Epochs
    PROVE  BondsOf(d, 0)[e] = 0 /\ UnbondsOf(d, 0)[e] = 0
<1>1. 1..0 = {}
  OBVIOUS
<1> QED
  BY <1>1 DEF BondsOf, UnbondsOf, BondedIn, Highest

-----------------------------------------------------------------------------
(* What an attempt has asked for.                                          *)

LEMMA Cleared ==
    ASSUME NothingAsked', task' \in {"down", "poll"}, task' = "poll" => tip' >= 1
    PROVE  LookupInv'
<1>1. /\ \A a \in Accounts : balancesAt'[a] = -1
      /\ \A d \in Pairs : bondsAt'[d] = -1 /\ unbondsAt'[d] = -1
  BY DEF NothingAsked, Nothing, NotAsked
<1>2. AskedBalances'
  BY <1>1 DEF AskedBalances
<1>3. AskedStake'
  BY <1>1 DEF AskedStake, AtBlock
<1>4. Began' /\ Emptied'
  BY DEF Began, Emptied
<1> QED
  BY <1>2, <1>3, <1>4 DEF LookupInv

\* However an attempt, or the process, ends, what was asked for is forgotten.
LEMMA Forgotten ==
    ASSUME LookupInv, task # "down", tip' = tip,
           \/ \E error \in MainErrors : EndsIn(error)
           \/ EndsWell
           \/ Forget /\ task' \in {"down", "poll"}
    PROVE  LookupInv'
<1>1. Forget
  BY DEF EndsIn, EndsWell
<1>2. task' \in {"down", "poll"}
  <2>1. ASSUME NEW error \in MainErrors, EndsIn(error)
        PROVE  task' \in {"down", "poll"}
    BY <2>1 DEF EndsIn, FailWith, Retry, NextIndex, Gone, Stop, BeginSnapshot, EnterCrawl, CrawlFrom
  <2>2. CASE EndsWell
    BY <2>2 DEF EndsWell, NextIndex, Gone, EnterCrawl, CrawlFrom
  <2> QED
    BY <2>1, <2>2
<1>3. NothingAsked'
  BY <1>1 DEF Forget, NothingAsked
<1>4. tip' >= 1
  BY DEF LookupInv, Began
<1> QED
  BY <1>2, <1>3, <1>4, Cleared

LEMMA LookupStarts ==
    ASSUME LookupInv, ProgressInv, Starts
    PROVE  LookupInv'
<1>1. Started /\ task' = "poll"
  BY DEF Starts, StartNormal, StartSnapshot, StartTrial, StartBackfill, BeginSnapshot, CrawlFrom
<1>2. NothingAsked' /\ tip' > 0
  BY <1>1 DEF Started, node, lookups, LookupInv, Began, NothingAsked
<1>3. tip' >= 1
  BY <1>1, <1>2 DEF Started, node, ProgressInv, Ahead
<1> QED
  BY <1>1, <1>2, <1>3, Cleared

\* What a step of the process that changes neither the block it is at nor the
\* database has to keep.
LEMMA LookupsKept ==
    ASSUME LookupInv, ChainTypes, UNCHANGED <<chain, index, stage, checksums, crawlerState>>,
           UNCHANGED <<task, lookups, bonds, unbonds, torn>>, tip' \in Nat, tip' >= tip
    PROVE  LookupInv'
<1>1. /\ UNCHANGED <<newEpoch, recipients, balancesAt, bondsAt, unbondsAt>>
      /\ DecodedBlock' = DecodedBlock
      /\ ChangedBalances(recipients)' = ChangedBalances(recipients)
  BY DEF lookups, ChangedBalances, DecodedBlock, Decoded
<1>2. tip \in Nat /\ index \in Nat
  BY Bounds DEF ChainTypes, ProcessTypes
<1>3. /\ \A a \in Accounts : balancesAt[a] \in Int
      /\ \A d \in Pairs : bondsAt[d] \in Int /\ unbondsAt[d] \in Int
  BY Bounds DEF ChainTypes, LookupTypes
<1>4. AskedBalances'
  BY <1>1, <1>2, <1>3 DEF LookupInv, AskedBalances
<1>5. AskedStake'
  BY <1>1, <1>2, <1>3 DEF LookupInv, AskedStake, AtBlock, BondAddresses
<1>6. Began'
  BY <1>1, <1>2 DEF LookupInv, Began, NothingAsked
<1>7. Emptied'
  BY DEF LookupInv, Emptied
<1> QED
  BY <1>4, <1>5, <1>6, <1>7 DEF LookupInv

LEMMA LookupCrawl ==
    ASSUME LookupInv, ChainTypes, ProgressInv, CrawlBlock
    PROVE  LookupInv'
<1> USE DEF LookupInv
<1>0. tip \in Nat /\ index \in Nat /\ crawlerState \in Nat /\ crawlerState <= tip
  BY DEF ProgressInv, Ahead
<1>1. CASE ReadBlock
  <2>1. /\ UNCHANGED <<tip, stage, balancesAt, bondsAt, unbondsAt>>
        /\ task = "poll" /\ task' \in {"refresh", "balances"} /\ stage \in {"trial", "crawl"}
    BY <1>1 DEF ReadBlock, AtBlock, Proceed, node, mode
  <2>2. /\ \A d \in Pairs : bondsAt'[d] = -1 /\ unbondsAt'[d] = -1
    BY <2>1 DEF Began, NothingAsked, Nothing, NotAsked
  <2> QED
    BY <2>1, <2>2 DEF AskedBalances, AskedStake, AtBlock, Began, Emptied
<1>8. CASE RefreshChecksums
  <2>1. /\ UNCHANGED <<tip, stage, index, crawlerState, balancesAt, bondsAt, unbondsAt>>
        /\ task = "refresh" /\ task' = "balances" /\ stage \in {"trial", "crawl"}
    BY <1>8 DEF RefreshChecksums, AtBlock, Proceed, node, mode, database
  <2> QED
    BY <2>1 DEF AskedBalances, AskedStake, AtBlock, Began, Emptied
<1>2. CASE ReadPruned
  <2>1. EndsIn("Database") /\ "Database" \in MainErrors /\ tip' = tip /\ task # "down"
    BY <1>2 DEF ReadPruned, AtBlock, MainErrors, node
  <2> QED
    BY <2>1, Forgotten
<1>3. CASE QueryBalances
  <2>1. /\ UNCHANGED <<chain, tip, index, stage, checksums, newEpoch, bondsAt, unbondsAt>>
        /\ crawlerState' = crawlerState
        /\ stage \in {"trial", "crawl"} /\ task = "balances" /\ task' = "stake"
    BY <1>3 DEF QueryBalances, AtBlock, Proceed, node, mode, codes, database
  <2>2. PICK listed \in IF newEpoch THEN SUBSET Accounts ELSE {{}} :
           \E lost \in SUBSET ChangedBalances(listed) :
              /\ recipients' = listed
              /\ balancesAt' = [a \in Accounts |-> IF a \in lost THEN NoAnswer
                                  ELSE IF a \in ChangedBalances(listed) THEN index ELSE NotAsked]
    BY <1>3, Zenon DEF QueryBalances
  <2>6. PICK lost \in SUBSET ChangedBalances(listed) :
              /\ recipients' = listed
              /\ balancesAt' = [a \in Accounts |-> IF a \in lost THEN NoAnswer
                                  ELSE IF a \in ChangedBalances(listed) THEN index ELSE NotAsked]
    BY <2>2
  <2>3. ChangedBalances(recipients)' = ChangedBalances(listed)
    BY <2>1, <2>6 DEF ChangedBalances, DecodedBlock, Decoded
  <2>4. AskedBalances'
    BY <2>1, <2>2, <2>6, <2>3 DEF AskedBalances
  <2>5. AskedStake'
    BY <2>1 DEF AskedStake, AtBlock
  <2> QED
    BY <2>1, <2>4, <2>5 DEF Began, Emptied
<1>4. ASSUME NEW d \in Pairs, QueryBond(d) \/ QueryUnbond(d)
      PROVE  LookupInv'
  <2>1. /\ UNCHANGED <<chain, tip, index, stage, task, checksums, newEpoch, recipients>>
        /\ UNCHANGED <<balancesAt, crawlerState>>
        /\ stage \in {"trial", "crawl"} /\ task = "stake"
    BY <1>4 DEF QueryBond, QueryUnbond, AtBlock, crawlVars, node, mode, codes, database
  <2>2. PICK answer \in {tip, NoAnswer} :
           \/ bondsAt' = [bondsAt EXCEPT ![d] = answer] /\ unbondsAt' = unbondsAt
           \/ unbondsAt' = [unbondsAt EXCEPT ![d] = answer] /\ bondsAt' = bondsAt
    BY <1>4 DEF QueryBond, QueryUnbond
  <2>3. index <= tip
    BY <2>1 DEF ProgressInv, Ahead
  <2>4. bondsAt \in [Pairs -> -1..MaxHeight] /\ unbondsAt \in [Pairs -> -1..MaxHeight]
    BY DEF ChainTypes, LookupTypes
  <2>5. ChangedBalances(recipients)' = ChangedBalances(recipients)
    BY <2>1 DEF ChangedBalances, DecodedBlock, Decoded
  <2>6. AskedBalances'
    BY <2>1, <2>5 DEF AskedBalances
  <2>7. ASSUME NEW c \in Pairs, NEW k \in {bondsAt'[c], unbondsAt'[c]}, k > 0
        PROVE  crawlerState <= k /\ k <= tip /\ index <= k
    <3>1. k = answer \/ k \in {bondsAt[c], unbondsAt[c]}
      BY <2>2, <2>4, <2>7
    <3>2. CASE k = answer
      BY <1>0, <2>3, <2>7, <3>2 DEF NoAnswer
    <3>3. CASE k \in {bondsAt[c], unbondsAt[c]}
      BY <2>1, <2>7, <3>3 DEF AskedStake
    <3> QED
      BY <3>1, <3>2, <3>3
  <2>8. AskedStake'
    BY <2>1, <2>7 DEF AskedStake, AtBlock
  <2> QED
    BY <2>1, <2>6, <2>8 DEF Began, Emptied
<1>5. CASE Queried
  <2>1. /\ UNCHANGED <<chain, tip, index, stage, checksums, newEpoch, crawlerState>>
        /\ UNCHANGED <<recipients, balancesAt, bondsAt, unbondsAt>>
        /\ stage \in {"trial", "crawl"} /\ task = "stake" /\ task' = "commit"
        /\ \A d \in BondAddresses(DecodedBlock) : bondsAt[d] # NotAsked
        /\ \A d \in DecodedBlock.unbonded : unbondsAt[d] # NotAsked
    BY <1>5 DEF Queried, AtBlock, Proceed, node, mode, codes, lookups, database
  <2>2. DecodedBlock' = DecodedBlock
        /\ ChangedBalances(recipients)' = ChangedBalances(recipients)
    BY <2>1 DEF ChangedBalances, DecodedBlock, Decoded
  <2>3. AskedBalances'
    BY <2>1, <2>2 DEF AskedBalances
  <2>4. AskedStake'
    BY <2>1, <2>2 DEF AskedStake, AtBlock, BondAddresses
  <2> QED
    BY <2>1, <2>3, <2>4 DEF Began, Emptied
<1>6. CASE JoinFails
  <2>1. EndsIn("TaskJoinError") /\ "TaskJoinError" \in MainErrors /\ tip' = tip /\ task # "down"
    BY <1>6 DEF JoinFails, AtBlock, MainErrors, node
  <2> QED
    BY <2>1, Forgotten
<1>7. CASE Commit \/ CommitUnheard
  <2>1. /\ EndsWell \/ (EndsIn("Database") /\ "Database" \in MainErrors)
        /\ tip' = tip /\ task # "down"
    BY <1>7 DEF Commit, CommitUnheard, WriteBlock, AtBlock, MainErrors, node
  <2> QED
    BY <2>1, Forgotten
<1> QED
  BY <1>1, <1>2, <1>3, <1>4, <1>5, <1>6, <1>7, <1>8 DEF CrawlBlock

LEMMA LookupSnapshot ==
    ASSUME LookupInv, ChainTypes, ProgressInv, InitialQuery
    PROVE  LookupInv'
<1> USE DEF LookupInv
<1>0. tip \in Nat /\ index \in Nat /\ crawlerState \in Nat /\ crawlerState <= tip
  BY DEF ProgressInv, Ahead
<1>1. CASE SnapshotHead
  <2>1. /\ UNCHANGED <<tip, stage, balancesAt, bondsAt, unbondsAt>>
        /\ task = "poll" /\ task' = "balances" /\ stage = "snapshot"
    BY <1>1 DEF SnapshotHead, node, mode, lookups
  <2>2. /\ \A a \in Accounts : balancesAt'[a] = -1
        /\ \A d \in Pairs : bondsAt'[d] = -1 /\ unbondsAt'[d] = -1
    BY <2>1 DEF Began, NothingAsked, Nothing, NotAsked
  <2> QED
    BY <2>1, <2>2 DEF AskedBalances, AskedStake, AtBlock, Began, Emptied
<1>2. ASSUME NEW a \in Accounts, SnapshotBalance(a)
      PROVE  LookupInv'
  <2>1. /\ UNCHANGED <<chain, tip, index, stage, task, bondsAt, unbondsAt, crawlerState>>
        /\ stage = "snapshot" /\ task = "balances"
        /\ balancesAt' = [balancesAt EXCEPT ![a] = tip]
        /\ index <= tip
    BY <1>2 DEF SnapshotBalance, crawlVars, node, mode, database, ProgressInv, Ahead
  <2>2. balancesAt \in [Accounts -> -1..MaxHeight]
    BY DEF ChainTypes, LookupTypes
  <2>3. AskedBalances'
    BY <1>0, <2>1, <2>2 DEF AskedBalances
  <2>4. AskedStake'
    BY <2>1 DEF AskedStake, AtBlock
  <2> QED
    BY <2>1, <2>3, <2>4 DEF Began, Emptied
<1>3. CASE SnapshotStake
  <2>1. /\ UNCHANGED <<chain, tip, index, stage, balancesAt, crawlerState>>
        /\ stage = "snapshot" /\ task = "balances" /\ task' = "commit"
        /\ Accounts = Answered(balancesAt)
        /\ bondsAt' = [d \in Pairs |-> tip] /\ unbondsAt' = [d \in Pairs |-> tip]
        /\ index <= tip /\ tip >= 1
    BY <1>3 DEF SnapshotStake, Proceed, node, mode, database, ProgressInv, Ahead, Began
  <2>2. AskedBalances'
    BY <2>1 DEF AskedBalances, Answered
  <2>3. AskedStake'
    BY <1>0, <2>1 DEF AskedStake, AtBlock
  <2> QED
    BY <2>1, <2>2, <2>3 DEF Began, Emptied
<1>4. CASE Snapshot \/ SnapshotUnheard
  <2>1. WriteSnapshot /\ tip' = tip /\ task # "down"
    BY <1>4 DEF Snapshot, SnapshotUnheard, WriteSnapshot, node
  <2>2. \/ EndsIn("Database") /\ "Database" \in MainErrors
        \/ Forget /\ task' \in {"down", "poll"}
    BY <1>4 DEF Snapshot, SnapshotUnheard, CrawlFrom, MainErrors
  <2> QED
    BY <2>1, <2>2, Forgotten
<1> QED
  BY <1>1, <1>2, <1>3, <1>4 DEF InitialQuery

LEMMA LookupReindexing ==
    ASSUME LookupInv, ChainTypes, ProgressInv, Reindexing
    PROVE  LookupInv'
<1> USE DEF LookupInv
<1>0. tip \in Nat /\ index \in Nat /\ crawlerState \in Nat /\ crawlerState <= tip
  BY DEF ProgressInv, Ahead
<1>1. CASE ReindexRead
  <2>1. /\ UNCHANGED <<tip, index, stage, crawlerState>>
        /\ stage = "reindex" /\ task' = "bonds" /\ tip >= 1
        /\ bondsAt' = [d \in Pairs |-> tip] /\ unbondsAt' = [d \in Pairs |-> tip]
    BY <1>1 DEF ReindexRead, Proceed, node, mode, database, Began
  <2> QED
    BY <1>0, <2>1 DEF AskedBalances, AskedStake, AtBlock, Began, Emptied
<1>2. CASE DeleteBonds
  <2>1. /\ UNCHANGED <<tip, index, stage, crawlerState, bondsAt, unbondsAt>>
        /\ stage = "reindex" /\ task = "bonds" /\ task' = "unbonds"
        /\ bonds' = Empty /\ torn' = TRUE
    BY <1>2 DEF DeleteBonds, Proceed, node, mode, lookups
  <2>2. AskedStake'
    BY <2>1 DEF AskedStake, AtBlock
  <2> QED
    BY <2>1, <2>2 DEF AskedBalances, Began, Emptied, Empty
<1>3. CASE DeleteUnbonds
  <2>1. /\ UNCHANGED <<tip, index, stage, crawlerState, bondsAt, unbondsAt, bonds, torn>>
        /\ stage = "reindex" /\ task = "unbonds" /\ task' = "commit"
        /\ unbonds' = Empty
    BY <1>3 DEF DeleteUnbonds, Proceed, node, mode, lookups, history
  <2>2. AskedStake'
    BY <2>1 DEF AskedStake, AtBlock
  <2> QED
    BY <2>1, <2>2 DEF AskedBalances, Began, Emptied, Empty
<1>4. CASE ReindexBonds
  <2>1. Forget /\ task' = "poll" /\ task # "down" /\ tip' = tip
    BY <1>4 DEF ReindexBonds, CrawlFrom, node
  <2> QED
    BY <2>1, Forgotten
<1> QED
  BY <1>1, <1>2, <1>3, <1>4 DEF Reindexing

LEMMA LookupNext ==
    ASSUME LookupInv, ChainTypes, ProgressInv, [Next]_vars
    PROVE  LookupInv'
<1>0. tip \in Nat /\ index \in Nat
  BY DEF ProgressInv, Ahead
<1>1. CASE Grow \/ Prune \/ Signal \/ UNCHANGED vars
  <2>1. /\ UNCHANGED <<chain, index, stage, checksums, crawlerState>>
        /\ UNCHANGED <<task, lookups, bonds, unbonds, torn>>
        /\ tip' = tip \/ tip' = tip + 1
    BY <1>1 DEF Grow, Prune, Signal, CtrlC, vars, crawlVars, node, mode, codes, lookups, database,
                history
  <2> QED
    BY <1>0, <2>1, LookupsKept
<1>2. CASE Starts
  BY <1>2, LookupStarts
<1>3. CASE CrawlBlock
  BY <1>3, LookupCrawl
<1>4. CASE InitialQuery
  BY <1>4, LookupSnapshot
<1>5. CASE Reindexing
  BY <1>5, LookupReindexing
<1>6. CASE AttemptFails
  <2>1. PICK error \in {"NoAction", "RpcError", "Database"} : EndsIn(error)
    BY <1>6 DEF AttemptFails
  <2>2. error \in MainErrors /\ tip' = tip /\ task # "down"
    BY <1>6 DEF AttemptFails, MainErrors, node
  <2> QED
    BY <2>1, <2>2, Forgotten
<1>7. CASE Killed
  <2>1. Forget /\ task' = "down" /\ task # "down" /\ tip' = tip
    BY <1>7 DEF Killed, Stop, Gone, node
  <2> QED
    BY <2>1, Forgotten
<1> QED
  BY <1>1, <1>2, <1>3, <1>4, <1>5, <1>6, <1>7 DEF Next

LEMMA LookupInit == Init => LookupInv
<1> SUFFICES ASSUME Init PROVE LookupInv
  OBVIOUS
<1>1. /\ \A a \in Accounts : balancesAt[a] = -1
      /\ \A d \in Pairs : bondsAt[d] = -1 /\ unbondsAt[d] = -1
  BY DEF Init, Nothing, NotAsked
<1>2. AskedBalances /\ AskedStake
  BY <1>1 DEF Init, CrawlInit, AskedBalances, AskedStake, AtBlock
<1>3. Began /\ Emptied
  BY DEF Init, CrawlInit, Began, Emptied, NothingAsked
<1> QED
  BY <1>2, <1>3 DEF LookupInv

-----------------------------------------------------------------------------
(* What the steps do to the rows.                                          *)

\* The steps that write rows, or give up on those of a block.
LEMMA WritingSteps ==
    ASSUME ProgressInv, [Next]_vars
    PROVE  /\ chain' = chain /\ tip' \in Nat /\ tip' >= tip
           /\ \/ WriteBlock
              \/ WriteSnapshot
              \/ ReindexBonds
              \/ DeleteBonds
              \/ DeleteUnbonds
              \/ /\ missed \subseteq missed'
                 /\ UNCHANGED <<crawlerState, balances, bonds, unbonds, stale, torn>>
<1>0. tip \in Nat
  BY DEF ProgressInv, Ahead
<1>1. chain' = chain /\ (tip' = tip \/ tip' = tip + 1)
  <2>1. CASE Starts
    BY <2>1 DEF Starts, StartNormal, StartSnapshot, StartTrial, StartBackfill, Started, node
  <2>2. CASE CrawlBlock
    BY <2>2 DEF CrawlBlock, ReadBlock, RefreshChecksums, ReadPruned, QueryBalances, QueryBond, QueryUnbond, Queried,
                JoinFails, Commit, CommitUnheard, WriteBlock, node
  <2>3. CASE InitialQuery
    BY <2>3 DEF InitialQuery, SnapshotHead, SnapshotBalance, SnapshotStake, Snapshot,
                SnapshotUnheard, WriteSnapshot, node
  <2>4. CASE Reindexing
    BY <2>4 DEF Reindexing, ReindexRead, DeleteBonds, DeleteUnbonds, ReindexBonds, node
  <2>5. CASE Grow \/ Prune \/ AttemptFails \/ Signal \/ Killed \/ UNCHANGED vars
    BY <2>5 DEF Grow, Prune, AttemptFails, Signal, Killed, vars, node
  <2> QED
    BY <2>1, <2>2, <2>3, <2>4, <2>5 DEF Next
<1> DEFINE Kept == /\ missed \subseteq missed'
                   /\ UNCHANGED <<crawlerState, balances, bonds, unbonds, stale, torn>>
<1>2. CASE Starts
  <2>1. Kept
    BY <1>2 DEF Starts, StartNormal, StartSnapshot, StartTrial, StartBackfill, Started,
                database, history
  <2> QED
    BY <1>0, <1>1, <2>1
<1>3. CASE CrawlBlock
  <2>1. CASE Commit \/ CommitUnheard
    BY <1>0, <1>1, <2>1 DEF Commit, CommitUnheard
  <2>2. CASE ~(Commit \/ CommitUnheard)
    <3>1. Kept
      BY <1>3, <2>2 DEF CrawlBlock, ReadBlock, RefreshChecksums, ReadPruned, QueryBalances, QueryBond, QueryUnbond,
                        Queried, JoinFails, database, history
    <3> QED
      BY <1>0, <1>1, <3>1
  <2> QED
    BY <2>1, <2>2
<1>4. CASE InitialQuery
  <2>1. CASE Snapshot \/ SnapshotUnheard
    BY <1>0, <1>1, <2>1 DEF Snapshot, SnapshotUnheard
  <2>2. CASE ~(Snapshot \/ SnapshotUnheard)
    <3>1. Kept
      BY <1>4, <2>2 DEF InitialQuery, SnapshotHead, SnapshotBalance, SnapshotStake, database, history
    <3> QED
      BY <1>0, <1>1, <3>1
  <2> QED
    BY <2>1, <2>2
<1>5. CASE Reindexing
  <2>1. CASE ReindexRead
    <3>1. Kept
      BY <2>1 DEF ReindexRead, database, history
    <3> QED
      BY <1>0, <1>1, <3>1
  <2> QED
    BY <1>0, <1>1, <1>5, <2>1 DEF Reindexing
<1>6. CASE Grow \/ Prune \/ AttemptFails \/ Signal \/ Killed \/ UNCHANGED vars
  <2>1. Kept
    BY <1>6 DEF Grow, Prune, AttemptFails, Signal, Killed, vars, database, history
  <2> QED
    BY <1>0, <1>1, <2>1
<1> QED
  BY <1>2, <1>3, <1>4, <1>5, <1>6 DEF Next

\* The state the writing steps are taken in.
ReadyInv == ChainTypes /\ ProgressInv /\ LookupInv

LEMMA ReadyFacts ==
    ASSUME ReadyInv
    PROVE  /\ tip \in Nat /\ index \in Nat /\ crawlerState \in Nat /\ crawlerState <= tip
           /\ chain \in Chains /\ MaxHeight \in Nat /\ tip <= MaxHeight
           /\ balancesAt \in [Accounts -> -1..MaxHeight]
           /\ bondsAt \in [Pairs -> -1..MaxHeight] /\ unbondsAt \in [Pairs -> -1..MaxHeight]
           /\ balances \in [Accounts -> [Heights -> -1..MaxHeight]]
           /\ bonds \in Rows /\ unbonds \in Rows
  BY Bounds DEF ReadyInv, ChainTypes, ProcessTypes, LookupTypes, TableTypes, ProgressInv, Ahead

-----------------------------------------------------------------------------
(* The checksums.  Only the first block of the node's epoch refreshes      *)
(* them, so the argument is about the blocks after it: a process that is   *)
(* past the first block of the node's epoch refreshed them in that epoch,  *)
(* or was started in it, or leapt over that block with a snapshot.         *)

CodeTypes == checksums \in Epochs /\ leapt \in BOOLEAN

PastFirst == \E g \in 1..(index - 1) : chain[g].epoch = CurrentEpoch

\* The process is at a height, and records its progress.
Walking ==
    /\ recording
    /\ stage \in {"trial", "reindex", "crawl"} \/ (stage = "snapshot" /\ task # "poll")

Decoding == stage \in {"trial", "crawl"} /\ task \in {"balances", "stake", "commit"}

CodeInv ==
    /\ CodeTypes
    /\ Walking => index <= tip + 1
    /\ (Walking /\ ~leapt) => (PastFirst => checksums = CurrentEpoch)
    /\ (Decoding /\ lagging) => chain[index].epoch < CurrentEpoch
    /\ (Decoding /\ recording /\ ~leapt /\ ~lagging) => checksums = chain[index].epoch

\* What the codes are after a step.
LEMMA CodeSteps ==
    ASSUME [Next]_vars
    PROVE  \/ UNCHANGED codes
           \/ Refreshed /\ chain' = chain /\ tip' = tip /\ (Starts \/ RefreshChecksums \/ ReadPruned)
           \/ SnapshotHead
<1>1. CASE Starts
  <2>1. Started
    BY <1>1 DEF Starts, StartNormal, StartSnapshot, StartTrial, StartBackfill
  <2> QED
    BY <1>1, <2>1 DEF Started, node
<1>2. CASE CrawlBlock
  <2>1. CASE RefreshChecksums
    BY <2>1 DEF RefreshChecksums, node
  <2>2. CASE ReadPruned
    BY <2>2 DEF ReadPruned, node
  <2>3. CASE ~RefreshChecksums /\ ~ReadPruned
    BY <1>2, <2>3 DEF CrawlBlock, ReadBlock, QueryBalances, QueryBond, QueryUnbond, Queried, JoinFails,
                      Commit, CommitUnheard, WriteBlock
  <2> QED
    BY <2>1, <2>2, <2>3
<1>3. CASE InitialQuery
  BY <1>3 DEF InitialQuery, SnapshotBalance, SnapshotStake, Snapshot, SnapshotUnheard, WriteSnapshot
<1>4. CASE Reindexing
  BY <1>4 DEF Reindexing, ReindexRead, DeleteBonds, DeleteUnbonds, ReindexBonds
<1>5. CASE Grow \/ Prune \/ AttemptFails \/ Signal \/ Killed \/ UNCHANGED vars
  BY <1>5 DEF Grow, Prune, AttemptFails, Signal, Killed, vars
<1> QED
  BY <1>1, <1>2, <1>3, <1>4, <1>5 DEF Next

LEMMA CodeTypesStep ==
    ASSUME ReadyInv, CodeTypes, [Next]_vars
    PROVE  CodeTypes'
<1>1. CASE UNCHANGED codes
  BY <1>1 DEF codes, CodeTypes
<1>2. CASE Refreshed /\ (Starts \/ RefreshChecksums \/ ReadPruned)
  <2>1. tip >= 1
    <3>1. CASE Starts
      BY <3>1, ReadyFacts DEF Starts, StartNormal, StartSnapshot, StartTrial, StartBackfill, Started
    <3>2. CASE RefreshChecksums \/ ReadPruned
      BY <3>2 DEF RefreshChecksums, ReadPruned, AtBlock, ReadyInv, LookupInv, Began
    <3> QED
      BY <1>2, <3>1, <3>2
  <2>2. tip \in Heights
    BY <2>1, ReadyFacts DEF Heights
  <2>3. CurrentEpoch \in Epochs
    BY <2>2, ReadyFacts, EpochTypes DEF CurrentEpoch
  <2> QED
    BY <1>2, <2>3 DEF Refreshed, CodeTypes
<1>3. CASE SnapshotHead
  BY <1>3 DEF SnapshotHead, CodeTypes
<1> QED
  BY <1>1, <1>2, <1>3, CodeSteps

\* A block of the node's epoch that no block of that epoch precedes is the first
\* one the node answers with.
LEMMA FirstIsFound ==
    ASSUME tip \in Nat, index \in 1..tip, chain[index].epoch = CurrentEpoch, ~PastFirst
    PROVE  FirstBlockInEpoch = index
<1> DEFINE P(h) == /\ chain[h].epoch = CurrentEpoch
                   /\ \A g \in 1..tip : chain[g].epoch = CurrentEpoch => h <= g
<1>1. index \in Nat /\ 1 <= index /\ index <= tip
  OBVIOUS
<1>2. \A g \in 1..tip : chain[g].epoch = CurrentEpoch => index <= g
  <2>1. SUFFICES ASSUME NEW g \in 1..tip, chain[g].epoch = CurrentEpoch, g < index
                 PROVE  FALSE
    BY <1>1
  <2>2. g \in 1..(index - 1)
    BY <1>1, <2>1
  <2> QED
    BY <2>1, <2>2 DEF PastFirst
<1>3. P(index)
  BY <1>2
<1>4. \A h \in 1..tip : P(h) => h = index
  BY <1>1, <1>3
<1>5. FirstBlockInEpoch = CHOOSE h \in 1..tip : P(h)
  BY DEF FirstBlockInEpoch
<1> HIDE DEF P
<1> QED
  BY <1>3, <1>4, <1>5

\* A process that was walking, and is where it was or past the block it decoded.
LEMMA CodeKept ==
    ASSUME ReadyInv, CodeInv, UNCHANGED <<chain, tip, codes>>, ~Decoding',
           Walking' => /\ Walking
                       /\ index' = index \/ (index' = index + 1 /\ Decoding)
    PROVE  CodeInv'
<1>1. /\ CurrentEpoch' = CurrentEpoch /\ tip' = tip /\ chain' = chain
      /\ checksums' = checksums /\ leapt' = leapt
  BY DEF CurrentEpoch, codes
<1>2. tip \in Nat /\ index \in Nat
  BY ReadyFacts
<1>3. Decoding => index <= tip
  BY DEF Decoding, ReadyInv, ProgressInv, Ahead
<1>4. Walking' => index' <= tip' + 1
  BY <1>1, <1>2, <1>3 DEF CodeInv
<1>5. ASSUME Walking', ~leapt', PastFirst'
      PROVE  checksums' = CurrentEpoch'
  <2>1. PICK g \in 1..(index' - 1) : chain[g].epoch = CurrentEpoch
    BY <1>1, <1>5 DEF PastFirst
  <2>2. Walking /\ ~leapt
    BY <1>1, <1>5
  <2>3. CASE g \in 1..(index - 1)
    BY <1>1, <2>1, <2>2, <2>3 DEF CodeInv, PastFirst
  <2>4. CASE g \notin 1..(index - 1)
    <3>1. index' = index + 1 /\ Decoding /\ g = index
      BY <1>2, <1>5, <2>1, <2>4
    <3>2. CurrentEpoch \in Nat
      <4>1. tip \in Heights
        BY <1>2, <1>3, <2>1, <3>1, ReadyFacts DEF Heights
      <4> QED
        BY <4>1, EpochTypes, ReadyFacts DEF CurrentEpoch
    <3>3. ~lagging
      BY <2>1, <3>1, <3>2 DEF CodeInv
    <3> QED
      BY <1>1, <2>1, <2>2, <3>1, <3>3 DEF CodeInv, Walking
  <2> QED
    BY <2>3, <2>4
<1> QED
  BY <1>1, <1>4, <1>5 DEF CodeInv, CodeTypes

\* What was asked for goes on, at the same block.
LEMMA CodeGoesOn ==
    ASSUME CodeInv,
           UNCHANGED <<chain, tip, codes, index, stage, recording, lagging>>,
           Decoding' => Decoding, Walking' => Walking
    PROVE  CodeInv'
<1>1. CurrentEpoch' = CurrentEpoch /\ checksums' = checksums /\ leapt' = leapt
  BY DEF CurrentEpoch, codes
<1>2. PastFirst' <=> PastFirst
  BY <1>1 DEF PastFirst
<1> QED
  BY <1>1, <1>2 DEF CodeInv, CodeTypes, Walking

\* However an attempt ends.
LEMMA CodeEnds ==
    ASSUME ReadyInv, CodeInv, UNCHANGED <<chain, tip, codes>>,
           \/ \E error \in MainErrors : EndsIn(error) /\ (error = "TaskJoinError" => Decoding)
           \/ EndsWell /\ Decoding
    PROVE  CodeInv'
<1>0. index \in Nat
  BY ReadyFacts
<1>1. CASE EndsWell /\ Decoding
  <2>1. \/ stage' = "idle"
        \/ /\ stage \in {"trial", "crawl"} /\ stage' \in {"crawl", "reindex"} /\ task' = "poll"
           /\ recording' = recording /\ index' = index + 1
    BY <1>0, <1>1, AttemptSucceeds
  <2>2. ~Decoding' /\ (Walking' => Walking /\ index' = index + 1)
    BY <2>1 DEF Decoding, Walking
  <2> QED
    BY <1>1, <2>2, CodeKept
<1>2. ASSUME NEW error \in MainErrors, EndsIn(error), error = "TaskJoinError" => Decoding
      PROVE  CodeInv'
  <2>1. \/ stage' = "idle"
        \/ stage' = "snapshot" /\ task' = "poll"
        \/ /\ stage \in {"trial", "crawl"} /\ stage' \in {"crawl", "reindex"} /\ task' = "poll"
           /\ recording' = recording
           /\ index' = index \/ (error = "TaskJoinError" /\ index' = index + 1)
    BY <1>0, <1>2, AttemptEnds
  <2>2. ~Decoding' /\ (Walking' => Walking /\ (index' = index \/ (index' = index + 1 /\ Decoding)))
    BY <1>2, <2>1 DEF Decoding, Walking
  <2> QED
    BY <2>2, CodeKept
<1> QED
  BY <1>1, <1>2

LEMMA CodeStarts ==
    ASSUME ReadyInv, CodeTypes', Starts
    PROVE  CodeInv'
<1>1. Started /\ task' = "poll" /\ tip' = tip /\ chain' = chain
  BY DEF Starts, StartNormal, StartSnapshot, StartTrial, StartBackfill, BeginSnapshot, CrawlFrom,
         Started, node
<1>2. checksums' = CurrentEpoch'
  BY <1>1 DEF Started, Refreshed, CurrentEpoch
<1>3. Walking' => index' = crawlerState
  BY DEF Starts, StartNormal, StartSnapshot, StartTrial, StartBackfill, BeginSnapshot, CrawlFrom,
         ResumeAt, Walking
<1>4. Walking' => index' <= tip' + 1
  BY <1>1, <1>3, ReadyFacts
<1> QED
  BY <1>1, <1>2, <1>4 DEF CodeInv, Decoding

LEMMA CodeReads ==
    ASSUME ReadyInv, CodeInv, ReadBlock \/ RefreshChecksums, CodeTypes'
    PROVE  CodeInv'
<1>1. /\ UNCHANGED <<chain, tip, index, stage, recording>> /\ stage \in {"trial", "crawl"}
      /\ tip \in Nat /\ index \in Nat /\ index <= tip /\ chain \in Chains
      /\ lagging' = (CurrentEpoch # chain[index].epoch)
  BY ReadyFacts DEF ReadBlock, RefreshChecksums, Proceed, node, mode, AtBlock, ReadyInv,
                    ProgressInv, Ahead
<1>2. CurrentEpoch' = CurrentEpoch /\ (PastFirst' <=> PastFirst)
  BY <1>1 DEF CurrentEpoch, PastFirst
<1>3. index \in Heights /\ tip \in Heights
  <2>1. CASE ReadBlock
    <3>1. pruned \in Nat /\ pruned < index
      BY <2>1, Bounds DEF ReadBlock, ReadyInv, ChainTypes, ProcessTypes
    <3> QED
      BY <1>1, <3>1, ReadyFacts DEF Heights
  <2>2. CASE RefreshChecksums
    <3>1. index \in Heights
      BY <2>2 DEF RefreshChecksums, ReadyInv, ChainTypes, ProcessTypes
    <3> QED
      BY <1>1, <3>1, ReadyFacts DEF Heights
  <2> QED
    BY <2>1, <2>2
<1>4. /\ chain[index].epoch \in Nat /\ CurrentEpoch \in Nat
      /\ chain[index].epoch <= CurrentEpoch
  BY <1>1, <1>3, EpochTypes, EpochsGrow DEF CurrentEpoch
<1>5. lagging' => chain'[index'].epoch < CurrentEpoch'
  <2>1. /\ lagging' => CurrentEpoch # chain[index].epoch
        /\ chain'[index'].epoch = chain[index].epoch /\ CurrentEpoch' = CurrentEpoch
    BY <1>1, <1>2
  <2>2. CurrentEpoch # chain[index].epoch => chain[index].epoch < CurrentEpoch
    BY <1>4
  <2> QED
    BY <2>1, <2>2
<1>6. CASE RefreshChecksums
  <2>1. checksums' = CurrentEpoch
    BY <1>6 DEF RefreshChecksums, Refreshed
  <2>2. ~lagging' => checksums' = chain'[index'].epoch
    BY <1>1, <2>1
  <2>3. index' <= tip' + 1
    BY <1>1
  <2>4. checksums' = CurrentEpoch'
    BY <1>2, <2>1
  <2> QED
    BY <1>5, <2>2, <2>3, <2>4 DEF CodeInv
<1>7. CASE ReadBlock
  <2>1. /\ checksums' = checksums /\ leapt' = leapt
        /\ task' = IF FirstBlockInEpoch = index THEN "refresh" ELSE "balances"
    BY <1>7 DEF ReadBlock, Proceed, codes
  <2>2. Walking' <=> Walking
    BY <1>1 DEF Walking
  <2>3. ASSUME Decoding', recording, ~leapt, ~lagging'
        PROVE  checksums = chain[index].epoch
    <3>1. FirstBlockInEpoch # index /\ CurrentEpoch = chain[index].epoch
      BY <1>1, <2>1, <2>3 DEF Decoding
    <3>2. index \in 1..tip
      BY <1>1, <1>3 DEF Heights
    <3>3. PastFirst
      BY <1>1, <3>1, <3>2, FirstIsFound
    <3> QED
      BY <1>1, <2>3, <3>1, <3>3 DEF CodeInv, Walking
  <2> QED
    BY <1>1, <1>2, <1>5, <2>1, <2>2, <2>3 DEF CodeInv
<1> QED
  BY <1>6, <1>7

\* A new block of the same epoch needs the same checksums, and one of a new
\* epoch is ahead of the process.
LEMMA CodeGrows ==
    ASSUME ReadyInv, CodeInv, Grow
    PROVE  CodeInv'
<1>1. /\ UNCHANGED <<chain, task, index, stage, recording, checksums, leapt, lagging>>
      /\ tip' = tip + 1 /\ tip' \in Heights /\ tip \in Nat /\ index \in Nat /\ chain \in Chains
  BY ReadyFacts DEF Grow, crawlVars, mode, codes, lookups, Heights
<1>2. (Walking' <=> Walking) /\ (Decoding' <=> Decoding)
  BY <1>1 DEF Walking, Decoding
<1>3. ASSUME Walking, ~leapt, PastFirst'
      PROVE  checksums = CurrentEpoch'
  <2>1. PICK g \in 1..(index - 1) : chain[g].epoch = CurrentEpoch'
    BY <1>1, <1>3 DEF PastFirst
  <2>2. g \in 1..tip
    BY <1>1, <1>3, <2>1 DEF CodeInv
  <2>3. g \in Heights /\ tip \in Heights /\ g <= tip /\ tip <= tip'
    BY <1>1, <2>2, Bounds DEF Heights
  <2>4. chain[g].epoch = chain[tip'].epoch
    BY <1>1, <2>1 DEF CurrentEpoch
  <2>5. chain[tip].epoch = chain[tip'].epoch
    BY <1>1, <2>3, <2>4, SameEpoch
  <2>6. CurrentEpoch' = CurrentEpoch
    BY <1>1, <2>5 DEF CurrentEpoch
  <2> QED
    BY <1>3, <2>1, <2>6 DEF CodeInv, PastFirst
<1>4. ASSUME Decoding, lagging
      PROVE  chain[index].epoch < CurrentEpoch'
  <2>1. index \in Heights /\ index <= tip
    BY <1>4 DEF Decoding, AtBlock, ReadyInv, ChainTypes, ProcessTypes, ProgressInv, Ahead
  <2>2. tip \in Heights /\ tip <= tip'
    BY <1>1, <2>1, Bounds DEF Heights
  <2>3. CurrentEpoch <= chain[tip'].epoch
    BY <1>1, <2>2, EpochsGrow DEF CurrentEpoch
  <2>4. /\ chain[index].epoch \in Nat /\ CurrentEpoch \in Nat /\ chain[tip'].epoch \in Nat
    BY <1>1, <2>1, <2>2, EpochTypes DEF CurrentEpoch
  <2>5. CurrentEpoch' = chain[tip'].epoch
    BY <1>1 DEF CurrentEpoch
  <2> QED
    BY <1>4, <2>3, <2>4, <2>5 DEF CodeInv
<1>5. Walking => index' <= tip' + 1
  BY <1>1 DEF CodeInv
<1> QED
  BY <1>1, <1>2, <1>3, <1>4, <1>5 DEF CodeInv, CodeTypes

LEMMA CodeStep ==
    ASSUME ReadyInv, CodeInv, [Next]_vars
    PROVE  CodeInv'
<1>0. CodeTypes'
  BY CodeTypesStep DEF CodeInv
<1>1. CASE Grow
  BY <1>1, CodeGrows
<1>2. CASE Starts
  BY <1>0, <1>2, CodeStarts
<1>3. CASE CrawlBlock
  <2>1. CASE ReadBlock \/ RefreshChecksums
    BY <1>0, <2>1, CodeReads
  <2>2. CASE ReadPruned
    <3>1. /\ EndsIn("Database") /\ "Database" \in MainErrors /\ UNCHANGED <<chain, tip>>
          /\ Refreshed \/ UNCHANGED codes
          /\ stage \in {"trial", "crawl"}
      BY <2>2 DEF ReadPruned, MainErrors, node, AtBlock
    <3>2. CASE UNCHANGED codes
      BY <3>1, <3>2, CodeEnds
    <3>3. CASE Refreshed
      <4>1. \/ stage' = "idle"
            \/ stage' = "snapshot" /\ task' = "poll"
            \/ /\ stage' \in {"crawl", "reindex"} /\ task' = "poll"
               /\ recording' = recording /\ index' = index
        BY <3>1, AttemptEnds, ReadyFacts
      <4>2. ~Decoding' /\ (Walking' => Walking /\ index' = index)
        BY <3>1, <4>1 DEF Decoding, Walking
      <4>3. checksums' = CurrentEpoch'
        BY <3>1, <3>3 DEF Refreshed, CurrentEpoch
      <4> QED
        BY <1>0, <3>1, <4>2, <4>3 DEF CodeInv
    <3> QED
      BY <3>1, <3>2, <3>3
  <2>3. CASE QueryBalances \/ Queried \/ \E d \in Pairs : QueryBond(d) \/ QueryUnbond(d)
    <3>1. /\ UNCHANGED <<chain, tip, codes, index, stage, recording, lagging>> /\ Decoding
      BY <2>3 DEF QueryBalances, Queried, QueryBond, QueryUnbond, AtBlock, Proceed, crawlVars, node,
                  mode, lookups, Decoding
    <3>2. Walking' => Walking
      BY <3>1 DEF Walking, Decoding
    <3> QED
      BY <3>1, <3>2, CodeGoesOn
  <2>4. CASE JoinFails
    <3>1. /\ EndsIn("TaskJoinError") /\ "TaskJoinError" \in MainErrors
          /\ UNCHANGED <<chain, tip, codes>> /\ Decoding
      BY <2>4 DEF JoinFails, MainErrors, node, AtBlock, Decoding
    <3> QED
      BY <3>1, CodeEnds
  <2>5. CASE Commit \/ CommitUnheard
    <3>1. /\ UNCHANGED <<chain, tip, codes>> /\ Decoding
          /\ EndsWell \/ (EndsIn("Database") /\ "Database" \in MainErrors)
      BY <2>5 DEF Commit, CommitUnheard, WriteBlock, MainErrors, node, AtBlock, Decoding
    <3> QED
      BY <3>1, CodeEnds
  <2> QED
    BY <1>3, <2>1, <2>2, <2>3, <2>4, <2>5 DEF CrawlBlock
<1>4. CASE InitialQuery
  <2>1. CASE SnapshotHead
    <3>1. /\ UNCHANGED <<chain, tip>> /\ stage' = "snapshot" /\ index' = tip /\ checksums' = checksums
          /\ leapt' = (/\ CurrentEpoch # checksums
                       /\ \E g \in 1..(tip - 1) : chain[g].epoch = CurrentEpoch)
      BY <2>1 DEF SnapshotHead, node, mode
    <3>2. CurrentEpoch' = CurrentEpoch
      BY <3>1 DEF CurrentEpoch
    <3>3. PastFirst' <=> \E g \in 1..(tip - 1) : chain[g].epoch = CurrentEpoch
      BY <3>1, <3>2 DEF PastFirst
    <3>4. index' <= tip' + 1
      BY <3>1, ReadyFacts
    <3> QED
      BY <1>0, <3>1, <3>2, <3>3, <3>4 DEF CodeInv, Decoding
  <2>2. CASE SnapshotStake \/ \E a \in Accounts : SnapshotBalance(a)
    <3>1. /\ UNCHANGED <<chain, tip, codes, index, stage, recording, lagging>>
          /\ stage = "snapshot" /\ task = "balances"
      BY <2>2 DEF SnapshotStake, SnapshotBalance, Proceed, crawlVars, node, mode, lookups
    <3>2. (Walking' => Walking) /\ ~Decoding'
      BY <3>1 DEF Walking, Decoding
    <3> QED
      BY <3>1, <3>2, CodeGoesOn
  <2>3. CASE Snapshot
    <3>1. /\ UNCHANGED <<chain, tip, codes, index, recording>>
          /\ stage = "snapshot" /\ task = "commit" /\ task' = "poll"
      BY <2>3 DEF Snapshot, WriteSnapshot, CrawlFrom, node
    <3>2. (Walking' => Walking) /\ ~Decoding'
      BY <3>1 DEF Walking, Decoding
    <3> QED
      BY <3>1, <3>2, CodeKept
  <2>4. CASE SnapshotUnheard
    <3>1. /\ UNCHANGED <<chain, tip, codes>> /\ EndsIn("Database") /\ "Database" \in MainErrors
      BY <2>4 DEF SnapshotUnheard, WriteSnapshot, MainErrors, node
    <3> QED
      BY <3>1, CodeEnds
  <2> QED
    BY <1>4, <2>1, <2>2, <2>3, <2>4 DEF InitialQuery
<1>5. CASE Reindexing
  <2>1. /\ UNCHANGED <<chain, tip, codes, index, recording>> /\ stage = "reindex"
        /\ stage' = "reindex" \/ (stage' = "crawl" /\ task' = "poll")
    BY <1>5 DEF Reindexing, ReindexRead, DeleteBonds, DeleteUnbonds, ReindexBonds, Proceed, CrawlFrom,
                node, mode
  <2>2. (Walking' => Walking) /\ ~Decoding'
    BY <2>1 DEF Walking, Decoding
  <2> QED
    BY <2>1, <2>2, CodeKept
<1>6. CASE AttemptFails
  <2>1. PICK error \in {"NoAction", "RpcError", "Database"} : EndsIn(error)
    BY <1>6 DEF AttemptFails
  <2>2. error \in MainErrors /\ error # "TaskJoinError" /\ UNCHANGED <<chain, tip, codes>>
    BY <1>6 DEF AttemptFails, MainErrors, node
  <2> QED
    BY <2>1, <2>2, CodeEnds
<1>7. CASE Prune \/ Signal \/ UNCHANGED vars
  <2>1. UNCHANGED <<chain, tip, codes, index, stage, recording, lagging, task>>
    BY <1>7 DEF Prune, Signal, CtrlC, vars, crawlVars, node, mode, lookups
  <2>2. (Walking' => Walking) /\ (Decoding' => Decoding)
    BY <2>1 DEF Walking, Decoding
  <2> QED
    BY <2>1, <2>2, CodeGoesOn
<1>8. CASE Killed
  <2>1. UNCHANGED <<chain, tip, codes>> /\ stage' = "idle"
    BY <1>8 DEF Killed, Stop, node
  <2>2. ~Walking' /\ ~Decoding'
    BY <2>1 DEF Walking, Decoding
  <2> QED
    BY <2>1, <2>2, CodeKept
<1> QED
  BY <1>1, <1>2, <1>3, <1>4, <1>5, <1>6, <1>7, <1>8 DEF Next

LEMMA CodeInit == Init => CodeInv
<1> SUFFICES ASSUME Init PROVE CodeInv
  OBVIOUS
<1>1. 1 \in Heights
  BY Bounds DEF Heights
<1>2. CodeTypes
  BY <1>1, EpochTypes DEF Init, CodeTypes
<1> QED
  BY <1>2 DEF Init, CodeInv, Walking, Decoding

-----------------------------------------------------------------------------
(* The transaction of a block.                                             *)

\* The transaction of a block: the recorded block afterwards, and the keys that
\* nothing between it and the one before can have changed.
LEMMA WriteFacts ==
    ASSUME ReadyInv, WriteBlock
    PROVE  /\ tip' = tip /\ chain' = chain
           /\ \A k \in missed : k \in missed' \/ (k \in Answered(balancesAt) /\ recording)
           /\ \A d \in Pairs : d \in missed => d \in missed'
           /\ recording => crawlerState' = index
           /\ index \in Heights /\ index <= tip
           /\ crawlerState <= crawlerState' /\ crawlerState' <= tip
           /\ crawlerState' = index \/ crawlerState' = crawlerState
           /\ \A h \in (crawlerState + 1)..(crawlerState' - 1) : Keys(chain[h]) \subseteq missed
           /\ AtBlock("commit") /\ stage # "snapshot" /\ stage # "reindex"
<1>1. index \in Heights /\ AtBlock("commit")
  BY DEF WriteBlock, ReadyInv, ChainTypes, ProcessTypes
<1>2. crawlerState' = index \/ crawlerState' = crawlerState
  BY DEF WriteBlock, Recorded
<1>3. /\ \A k \in missed : k \in missed' \/ (k \in Answered(balancesAt) /\ recording)
      /\ \A d \in Pairs : d \in missed => d \in missed'
  <2>1. \A k \in missed : k \in missed' \/ (k \in Answered(balancesAt) /\ recording)
    BY DEF WriteBlock, MissedAfter
  <2>2. \A d \in Pairs : d \notin Answered(balancesAt)
    BY BoundsAssumption DEF Answered, ReadyInv, ChainTypes, LookupTypes
  <2> QED
    BY <2>1, <2>2
<1> QED
  BY <1>1, <1>2, <1>3, BlockWritten DEF WriteBlock, AtBlock, ReadyInv, node

\* A block that becomes the recorded one is decoded with the code of its epoch, or
\* what is not seen in it is lost.
LEMMA Unseen ==
    ASSUME ReadyInv, CodeInv, WriteBlock, crawlerState' # crawlerState
    PROVE  /\ recording /\ crawlerState < index /\ crawlerState' = index
           /\ missed' = (missed \cup Lost(chain[index])) \ Answered(balancesAt)
           /\ \/ DecodedBlock = chain[index]
              \/ Keys(chain[index]) \ Keys(DecodedBlock) \subseteq Lost(chain[index])
<1>1. /\ recording /\ crawlerState' = index
      /\ crawlerState <= crawlerState' /\ crawlerState \in Nat /\ index \in Nat
      /\ Decoding
  BY WriteFacts, ReadyFacts DEF WriteBlock, Recorded, AtBlock, Decoding
<1>2. crawlerState < index
  BY <1>1
<1>3. CASE leapt \/ lagging
  BY <1>1, <1>2, <1>3 DEF WriteBlock, MissedAfter, Lost, DecodedBlock
<1>4. CASE ~leapt /\ ~lagging
  <2>1. checksums = chain[index].epoch
    BY <1>1, <1>4 DEF CodeInv
  <2>2. DecodedBlock = chain[index]
    BY <2>1 DEF DecodedBlock, Decoded
  <2> QED
    BY <1>1, <1>2, <2>2 DEF WriteBlock, MissedAfter
<1> QED
  BY <1>3, <1>4

\* Of a pair that is not missed, whatever the block changes was decoded.
LEMMA PairSeen ==
    ASSUME ReadyInv, CodeInv, WriteBlock, crawlerState' # crawlerState,
           NEW d \in Pairs, d \notin missed'
    PROVE  /\ d \notin Lost(chain[index])
           /\ d \notin Keys(chain[index]) \/ DecodedBlock = chain[index]
<1>1. d \notin Lost(chain[index])
  <2>1. d \notin Answered(balancesAt)
    BY BoundsAssumption DEF Answered, ReadyInv, ChainTypes, LookupTypes
  <2> QED
    BY <2>1, Unseen
<1>2. CASE DecodedBlock # chain[index]
  <2>1. index \in Heights /\ ProcessTypes
    BY WriteFacts DEF ReadyInv, ChainTypes
  <2>2. /\ Keys(DecodedBlock) = chain[index].paid \cup chain[index].rewarded \cup chain[index].funded
        /\ chain[index] \in Block
    BY <1>2, <2>1, DecodedPart, BlockTypes
  <2>3. Keys(DecodedBlock) \subseteq Accounts
    BY <2>2 DEF Block
  <2>4. d \notin Keys(DecodedBlock)
    BY <2>3, BoundsAssumption
  <2> QED
    BY <1>1, <1>2, <2>4, Unseen
<1> QED
  BY <1>1, <1>2

\* Of an account that is not missed, whatever the block changes was asked for.
LEMMA AccountSeen ==
    ASSUME ReadyInv, CodeInv, WriteBlock, crawlerState' # crawlerState,
           NEW a \in Accounts, a \notin missed', BalanceChange(a, chain[index])
    PROVE  a \in Answered(balancesAt)
<1> SUFFICES ASSUME a \notin Answered(balancesAt) PROVE FALSE
  OBVIOUS
<1>1. a \notin Lost(chain[index])
  BY Unseen
<1>2. /\ stage \in {"trial", "crawl"} /\ task = "commit" /\ index \in Heights /\ index \in Nat
      /\ index > 0
  BY WriteFacts, ReadyFacts DEF AtBlock, Heights
<1>3. /\ ~newEpoch => recipients = {}
      /\ a \in ChangedBalances(recipients) => balancesAt[a] \in {index, NoAnswer}
  BY <1>2 DEF ReadyInv, LookupInv, AskedBalances
<1>4. /\ a \notin chain[index].rewarded \/ newEpoch
      /\ a \notin chain[index].funded \/ a \in recipients
      /\ a \notin Unanswered(balancesAt)
  BY <1>1 DEF Lost
<1>5. a \in ChangedBalances(recipients)
  <2>1. CASE a \in chain[index].rewarded \cup chain[index].funded
    BY <1>3, <1>4, <2>1 DEF ChangedBalances
  <2>2. CASE a \notin chain[index].rewarded \cup chain[index].funded
    <3>1. a \in chain[index].touched /\ a \in Keys(chain[index])
      BY <2>2 DEF BalanceChange, Keys
    <3>2. DecodedBlock = chain[index] \/ a \in Keys(DecodedBlock)
      BY <1>1, <3>1, Unseen
    <3>3. ProcessTypes
      BY DEF ReadyInv, ChainTypes
    <3>4. a \in DecodedBlock.touched
      BY <1>2, <2>2, <3>1, <3>2, <3>3, DecodedPart
    <3> QED
      BY <3>4 DEF ChangedBalances
  <2> QED
    BY <2>1, <2>2
<1>6. balancesAt[a] = index
  BY <1>3, <1>4, <1>5, ReadyFacts DEF Unanswered
<1> QED
  BY <1>2, <1>6, ReadyFacts DEF Answered

-----------------------------------------------------------------------------
(* Balances.                                                               *)

BalanceInv == BalanceRows /\ BalanceKept

\* Rows are added as of their height or later, and none is replaced.
LEMMA BalancesInserted ==
    ASSUME ReadyInv, BalanceRows, balances' = InsertBalances(index), chain' = chain, tip' = tip,
           \A a \in Accounts : balancesAt[a] > 0 => index <= balancesAt[a] /\ balancesAt[a] <= tip
    PROVE  /\ BalanceRows'
           /\ \A a \in Accounts, g \in Heights :
                 balances[a][g] # NotAsked => balances'[a][g] # NotAsked
<1>1. ASSUME NEW a \in Accounts, NEW g \in Heights
      PROVE  \/ balances'[a][g] = balances[a][g]
             \/ /\ g = index /\ balancesAt[a] > 0 /\ balances[a][g] = NotAsked
                /\ balances'[a][g] = BalanceAt(a, balancesAt[a])
  BY DEF InsertBalances, Answered
<1>2. \A a, k : BalanceAt(a, k)' = BalanceAt(a, k)
  BY DEF BalanceAt
<1>3. BalanceRows'
  <2>1. SUFFICES ASSUME NEW a \in Accounts, NEW g \in Heights, balances'[a][g] # NotAsked
                 PROVE  \E k \in g..tip : balances'[a][g] = BalanceAt(a, k)
    BY <1>2 DEF BalanceRows
  <2>2. CASE balances'[a][g] = balances[a][g]
    BY <2>1, <2>2 DEF BalanceRows
  <2>3. CASE g = index /\ balancesAt[a] > 0 /\ balances'[a][g] = BalanceAt(a, balancesAt[a])
    <3>1. balancesAt[a] \in g..tip
      BY <2>3, ReadyFacts
    <3> QED
      BY <2>3, <3>1
  <2> QED
    BY <1>1, <2>2, <2>3
<1> QED
  BY <1>1, <1>3

LEMMA BalancesOfBlock ==
    ASSUME ReadyInv, CodeInv, BalanceInv, WriteBlock
    PROVE  BalanceInv'
<1>0. /\ tip' = tip /\ chain' = chain
      /\ index \in Heights /\ index \in Nat /\ index >= 1 /\ index <= tip
      /\ crawlerState \in Nat /\ crawlerState' \in Nat
      /\ crawlerState <= crawlerState'
      /\ crawlerState' = index \/ crawlerState' = crawlerState
      /\ recording => crawlerState' = index
      /\ \A h \in (crawlerState + 1)..(crawlerState' - 1) : Keys(chain[h]) \subseteq missed
      /\ \A k \in missed : k \in missed' \/ (k \in Answered(balancesAt) /\ recording)
      /\ stage \in {"trial", "crawl"} /\ task = "commit" /\ stage # "snapshot"
      /\ balances' = InsertBalances(index)
  BY WriteFacts, ReadyFacts DEF AtBlock, Heights, WriteBlock
<1>1. /\ \A a \in Accounts :
            a \in ChangedBalances(recipients) => balancesAt[a] \in {index, NoAnswer}
      /\ \A a \in Accounts : a \notin ChangedBalances(recipients) => balancesAt[a] = NotAsked
  BY <1>0 DEF ReadyInv, LookupInv, AskedBalances
<1>2. \A a \in Accounts : balancesAt[a] > 0 => index <= balancesAt[a] /\ balancesAt[a] <= tip
  BY <1>0, <1>1 DEF NoAnswer, NotAsked
<1>3. /\ BalanceRows'
      /\ \A a \in Accounts, g \in Heights :
            balances[a][g] # NotAsked => balances'[a][g] # NotAsked
  BY <1>0, <1>2, BalancesInserted DEF BalanceInv
\* Where the node answered there is a row of the block.
<1>4. ASSUME NEW a \in Accounts, a \in Answered(balancesAt)
      PROVE  balances'[a][index] # NotAsked
  <2>1. balancesAt[a] = index
    BY <1>1, <1>4, ReadyFacts DEF Answered, NoAnswer, NotAsked
  <2>2. CASE balances[a][index] # NotAsked
    BY <1>0, <1>3, <2>2
  <2>3. CASE balances[a][index] = NotAsked
    <3>1. balances'[a][index] = BalanceAt(a, index)
      BY <1>0, <1>4, <2>1, <2>3 DEF InsertBalances
    <3>2. BalanceAt(a, index) \in 0..MaxHeight
      <4>1. index \in -1..MaxHeight
        BY <1>0, Bounds DEF Heights
      <4> QED
        BY <4>1, ValueTypes
    <3> QED
      BY <3>1, <3>2 DEF NotAsked
  <2> QED
    BY <2>2, <2>3
<1>5. BalanceKept'
  <2>1. SUFFICES ASSUME NEW a \in Accounts, a \notin missed', NEW h \in 1..crawlerState',
                        BalanceChange(a, chain[h])
                 PROVE  \E g \in Heights : h <= g /\ balances'[a][g] # NotAsked
    BY <1>0 DEF BalanceKept, BalanceChange
  <2>2. CASE a \in Answered(balancesAt) /\ crawlerState' = index
    <3>1. h <= index
      BY <1>0, <2>1, <2>2
    <3> QED
      BY <1>0, <1>4, <2>2, <3>1
  <2>3. CASE ~(a \in Answered(balancesAt) /\ crawlerState' = index)
    <3>1. a \notin missed
      BY <1>0, <2>1, <2>3
    <3>2. CASE h \in 1..crawlerState
      <4>1. PICK g \in Heights : h <= g /\ balances[a][g] # NotAsked
        BY <2>1, <3>1, <3>2 DEF BalanceInv, BalanceKept
      <4> QED
        BY <1>3, <4>1
    <3>3. CASE h \in (crawlerState + 1)..(crawlerState' - 1)
      <4>1. a \in Keys(chain[h])
        BY <2>1 DEF Keys, BalanceChange
      <4> QED
        BY <1>0, <3>1, <3>3, <4>1
    <3>4. CASE h = index /\ crawlerState' # crawlerState
      <4>1. a \in Answered(balancesAt)
        BY <2>1, <3>4, AccountSeen
      <4> QED
        BY <1>0, <2>3, <3>4, <4>1
    <3>5. \/ h \in 1..crawlerState
          \/ h \in (crawlerState + 1)..(crawlerState' - 1)
          \/ h = index /\ crawlerState' # crawlerState
      <4>1. /\ crawlerState \in Int /\ crawlerState' \in Int /\ index \in Int
            /\ h \in Int /\ 1 <= h /\ h <= crawlerState'
        BY <1>0
      <4>2. CASE crawlerState' = crawlerState
        BY <4>1, <4>2
      <4>3. CASE crawlerState' # crawlerState
        <5>1. crawlerState' = index
          BY <1>0, <4>3
        <5>2. /\ h \in Int /\ crawlerState \in Int /\ index \in Int
              /\ 1 <= h /\ h <= index
          BY <4>1, <5>1
        <5>3. h \in 1..crawlerState \/ h \in (crawlerState + 1)..(index - 1) \/ h = index
          BY <5>2
        <5> QED
          BY <4>3, <5>1, <5>3, Zenon
      <4> QED
        BY <4>2, <4>3
    <3> QED
      BY <3>2, <3>3, <3>4, <3>5
  <2> QED
    BY <2>2, <2>3
<1> QED
  BY <1>3, <1>5 DEF BalanceInv

LEMMA BalancesOfSnapshot ==
    ASSUME ReadyInv, BalanceInv, WriteSnapshot
    PROVE  BalanceInv'
<1>0. /\ stage = "snapshot" /\ task = "commit" /\ crawlerState' = index /\ index \in Nat
      /\ balances' = InsertBalances(index) /\ chain' = chain /\ tip' = tip
      /\ index <= tip /\ tip \in Nat /\ tip <= MaxHeight
  BY ReadyFacts DEF WriteSnapshot, node, ReadyInv, ProgressInv, Ahead
<1>1. \A a \in Accounts : balancesAt[a] > 0 /\ index <= balancesAt[a] /\ balancesAt[a] <= tip
  BY <1>0 DEF ReadyInv, LookupInv, AskedBalances
<1>2. /\ BalanceRows'
      /\ \A a \in Accounts, g \in Heights :
            balances[a][g] # NotAsked => balances'[a][g] # NotAsked
  BY <1>0, <1>1, BalancesInserted DEF BalanceInv
<1>3. BalanceKept'
  <2>1. SUFFICES ASSUME NEW a \in Accounts, NEW h \in 1..index, BalanceChange(a, chain[h])
                 PROVE  \E g \in Heights : h <= g /\ balances'[a][g] # NotAsked
    BY <1>0 DEF BalanceKept, BalanceChange
  <2>2. index \in Heights /\ h <= index
    BY <1>0, ReadyFacts DEF Heights
  <2>3. balancesAt[a] \in Nat /\ h \in 1..balancesAt[a]
    BY <1>0, <1>1, <2>2, ReadyFacts
  <2>4. BalanceAt(a, balancesAt[a]) \in 1..balancesAt[a]
    BY <2>1, <2>3, BalancePositive
  <2>5. balances'[a][index] # NotAsked
    <3>1. CASE balances[a][index] # NotAsked
      BY <1>2, <2>2, <3>1
    <3>2. CASE balances[a][index] = NotAsked
      <4>1. a \in Answered(balancesAt)
        BY <1>1, ReadyFacts DEF Answered
      <4>2. balances'[a][index] = BalanceAt(a, balancesAt[a])
        BY <1>0, <2>2, <2>3, <2>4, <3>2, <4>1 DEF InsertBalances
      <4> QED
        BY <2>3, <2>4, <4>2 DEF NotAsked
    <3> QED
      BY <3>1, <3>2
  <2> QED
    BY <2>2, <2>5
<1> QED
  BY <1>2, <1>3 DEF BalanceInv

LEMMA BalanceStep ==
    ASSUME ReadyInv, CodeInv, BalanceInv, [Next]_vars
    PROVE  BalanceInv'
<1>1. CASE WriteBlock
  BY <1>1, BalancesOfBlock
<1>2. CASE WriteSnapshot
  BY <1>2, BalancesOfSnapshot
<1>3. CASE /\ UNCHANGED <<crawlerState, balances, chain>> /\ tip' \in Nat /\ tip' >= tip
           /\ \A a \in Accounts : a \in missed => a \in missed'
  <2>1. BalanceRows'
    <3>1. SUFFICES ASSUME NEW a \in Accounts, NEW g \in Heights, balances[a][g] # NotAsked
                   PROVE  \E k \in g..tip' : balances[a][g] = BalanceAt(a, k)
      BY <1>3 DEF BalanceRows, BalanceAt
    <3>2. PICK k \in g..tip : balances[a][g] = BalanceAt(a, k)
      BY <3>1 DEF BalanceInv, BalanceRows
    <3>3. k \in g..tip'
      BY <1>3, ReadyFacts DEF Heights
    <3> QED
      BY <3>2, <3>3
  <2>2. BalanceKept'
    BY <1>3 DEF BalanceInv, BalanceKept, BalanceChange
  <2> QED
    BY <2>1, <2>2 DEF BalanceInv
<1>4. CASE ReindexBonds
  <2>1. UNCHANGED <<crawlerState, balances, chain, tip>> /\ missed' = missed \ Pairs
    BY <1>4 DEF ReindexBonds, node
  <2>2. \A a \in Accounts : a \notin Pairs
    BY BoundsAssumption
  <2> QED
    BY <1>3, <2>1, <2>2, ReadyFacts
<1>5. CASE DeleteBonds \/ DeleteUnbonds
  <2>1. UNCHANGED <<crawlerState, balances, chain, tip, missed>>
    BY <1>5 DEF DeleteBonds, DeleteUnbonds, node, history
  <2> QED
    BY <1>3, <2>1, ReadyFacts
<1> QED
  BY <1>1, <1>2, <1>3, <1>4, <1>5, WritingSteps DEF ReadyInv

\* The row shown is the last one: nothing changed between its height and the
\* recorded block, or it is not as of a block before the recorded one.
LEMMA ShownIsFresh ==
    ASSUME ReadyInv, BalanceInv
    PROVE  BalanceFresh
<1> SUFFICES ASSUME NEW a \in Accounts, a \notin missed
             PROVE  \E h \in crawlerState..tip : Shown(a) = BalanceAt(a, h)
  BY DEF BalanceFresh, Since
<1> DEFINE S == {g \in Heights : balances[a][g] # NotAsked}
           top == Highest(S)
<1>0. tip \in Nat /\ crawlerState \in Nat /\ crawlerState <= tip /\ MaxHeight \in Nat
  BY ReadyFacts
<1>1. S \in SUBSET (1..MaxHeight)
  BY DEF Heights
<1>2. ASSUME NEW h \in 1..crawlerState, BalanceChange(a, chain[h])
      PROVE  \E g \in S : h <= g
  BY <1>2 DEF BalanceInv, BalanceKept
<1>3. Shown(a) = IF top = 0 THEN 0 ELSE balances[a][top]
  BY DEF Shown
<1>4. CASE S = {}
  <2>1. top = 0
    BY <1>4 DEF Highest
  <2>2. \A g \in 1..crawlerState : ~BalanceChange(a, chain[g])
    BY <1>2, <1>4 DEF BalanceChange
  <2>3. BalanceAt(a, crawlerState) = 0
    BY <2>2 DEF BalanceAt, Highest
  <2> QED
    BY <1>0, <1>3, <2>1, <2>3
<1>5. CASE S # {}
  <2>1. top \in S /\ top \in 1..MaxHeight /\ \A g \in S : g <= top
    <3> HIDE DEF S
    <3> QED
      BY <1>0, <1>1, <1>5, HighestIs
  <2> HIDE DEF top
  <2>2. top \in Heights /\ balances[a][top] # NotAsked /\ Shown(a) = balances[a][top]
    BY <1>3, <2>1
  <2>3. PICK k \in top..tip : Shown(a) = BalanceAt(a, k)
    BY <2>2 DEF BalanceInv, BalanceRows
  <2>4. k \in Nat /\ k <= tip /\ top <= k /\ top \in Nat
    BY <1>0, <2>1
  <2>5. CASE crawlerState <= k
    BY <1>0, <2>3, <2>4, <2>5
  <2>6. CASE k < crawlerState
    <3>1. ASSUME NEW g \in (k + 1)..crawlerState
          PROVE  ~BalanceChange(a, chain[g])
      <4>1. g \in 1..crawlerState /\ top < g
        BY <1>0, <2>4
      <4>2. ~(\E h \in S : g <= h)
        <5>1. \A h \in S : h <= top /\ h \in Nat
          BY <2>1, <1>1
        <5> QED
          BY <4>1, <2>4, <5>1
      <4> QED
        BY <1>2, <4>1, <4>2
    <3>2. BalanceAt(a, crawlerState) = BalanceAt(a, k)
      BY <1>0, <2>4, <2>6, <3>1, BalanceSteady
    <3> QED
      BY <1>0, <2>3, <3>2
  <2> QED
    BY <1>0, <2>4, <2>5, <2>6
<1> QED
  BY <1>4, <1>5

-----------------------------------------------------------------------------
(* Bonds.                                                                  *)

\* What the chain had of a pair that the recorded block and the ones before it
\* did not change is what it had at the recorded block.
LEMMA PassedOver ==
    ASSUME ReadyInv, WriteBlock, NEW d \in Pairs, d \notin missed',
           NEW h \in crawlerState..tip, NEW g \in (h + 1)..crawlerState'
    PROVE  d \notin Keys(chain[g]) \/ g = index
<1>1. /\ d \notin missed
      /\ crawlerState' = index \/ crawlerState' = crawlerState
      /\ \A k \in (crawlerState + 1)..(crawlerState' - 1) : Keys(chain[k]) \subseteq missed
      /\ crawlerState \in Nat /\ tip \in Nat /\ index \in Nat
  BY WriteFacts, ReadyFacts
<1>2. g \in (crawlerState + 1)..(crawlerState' - 1) \/ g = index
  BY <1>1
<1> QED
  BY <1>1, <1>2

LEMMA BondsOfBlock ==
    ASSUME ReadyInv, CodeInv, BondRows, WriteBlock
    PROVE  BondRows'
<1>0. /\ tip' = tip /\ chain' = chain
      /\ index \in Nat /\ index <= tip /\ tip \in Nat
      /\ crawlerState \in Nat /\ crawlerState <= crawlerState' /\ crawlerState' <= tip
      /\ crawlerState' = index \/ crawlerState' = crawlerState
      /\ AtBlock("commit") /\ stage # "reindex" /\ torn' = torn /\ stale' = stale
      /\ bonds' = InsertBonds(ClearBonds)
      /\ bondsAt \in [Pairs -> -1..MaxHeight] /\ MaxHeight \in Nat
  BY WriteFacts, ReadyFacts DEF WriteBlock
<1>1. SUFFICES ASSUME ~torn, NEW d \in Pairs, d \notin missed', NEW e \in Epochs
               PROVE  \E h \in crawlerState'..tip :
                         \/ bonds'[d][e] = BondsOf(d, h)[e]
                         \/ stale /\ BondsOf(d, h)[e] = 0
  BY <1>0, SameValues DEF BondRows, Since
<1>2. CASE bondsAt[d] > 0
  <2> DEFINE k == bondsAt[d]
  <2>1. crawlerState <= k /\ k <= tip /\ index <= k /\ k \in Nat
    BY <1>0, <1>2 DEF ReadyInv, LookupInv, AskedStake
  <2>2. k \in crawlerState'..tip
    BY <1>0, <2>1
  <2>3. bonds'[d][e] = BondsOf(d, k)[e]
    <3>1. d \in Answered(bondsAt)
      BY <1>0, <1>2 DEF Answered
    <3>2. ClearBonds[d] = [f \in Epochs |-> 0]
      BY <3>1 DEF ClearBonds
    <3>3. bonds'[d] = Upsert(ClearBonds[d], BondsOf(d, k))
      BY <1>0, <3>1 DEF InsertBonds
    <3> HIDE DEF k
    <3> QED
      BY <3>2, <3>3 DEF Upsert
  <2> QED
    BY <2>2, <2>3
<1>3. CASE ~(bondsAt[d] > 0)
  <2>1. d \notin Answered(bondsAt)
    BY <1>0, <1>3 DEF Answered
  <2>2. bonds'[d] = bonds[d]
    BY <1>0, <2>1 DEF InsertBonds, ClearBonds
  <2>3. ASSUME crawlerState' # crawlerState
        PROVE  ~BondChange(d, chain[index])
    <3>1. /\ d \notin Lost(chain[index])
          /\ d \notin Keys(chain[index]) \/ DecodedBlock = chain[index]
      BY <1>1, <2>3, PairSeen
    <3>2. bondsAt[d] = NotAsked
      BY <1>0, <1>3, <3>1 DEF Lost, Unanswered, NoAnswer, NotAsked
    <3>3. d \notin BondAddresses(DecodedBlock)
      BY <1>0, <3>2 DEF ReadyInv, LookupInv, AskedStake
    <3> QED
      BY <3>1, <3>3 DEF Keys, BondAddresses, BondChange
  <2>5. d \notin missed
    BY <1>1, WriteFacts
  <2>6. PICK h \in crawlerState..tip : \/ bonds[d][e] = BondsOf(d, h)[e]
                                       \/ stale /\ BondsOf(d, h)[e] = 0
    BY <1>1, <2>5 DEF BondRows, Since
  <2>7. CASE h >= crawlerState'
    <3>1. h \in crawlerState'..tip
      BY <1>0, <2>7
    <3> QED
      BY <2>2, <2>6, <3>1
  <2>8. CASE h < crawlerState'
    <3>1. ASSUME NEW g \in (h + 1)..crawlerState'
          PROVE  ~BondChange(d, chain[g])
      <4>1. d \notin Keys(chain[g]) \/ g = index
        BY <1>1, <2>6, PassedOver
      <4>2. d \notin Keys(chain[g]) => ~BondChange(d, chain[g])
        BY DEF Keys, BondAddresses, BondChange
      <4>3. crawlerState' # crawlerState
        BY <1>0, <2>6, <2>8
      <4> QED
        BY <2>3, <4>1, <4>2, <4>3
    <3>2. BondsOf(d, crawlerState') = BondsOf(d, h)
      <4>1. h \in Nat /\ crawlerState' \in Nat /\ h <= crawlerState'
        BY <1>0, <2>8
      <4> QED
        BY <3>1, <4>1, BondsSteady
    <3>3. crawlerState' \in crawlerState'..tip
      BY <1>0
    <3> QED
      BY <2>2, <2>6, <3>2, <3>3
  <2> QED
    BY <1>0, <2>7, <2>8
<1> QED
  BY <1>2, <1>3

LEMMA BondsOfSnapshot ==
    ASSUME ReadyInv, WriteSnapshot
    PROVE  BondRows'
<1>0. /\ stage = "snapshot" /\ task = "commit" /\ crawlerState' = index
      /\ chain' = chain /\ tip' = tip /\ bonds' = InsertBonds(bonds)
      /\ stale' = (stale \/ <<bonds, unbonds>> # <<Empty, Empty>>)
      /\ bondsAt \in [Pairs -> -1..MaxHeight] /\ MaxHeight \in Nat
      /\ index \in Nat /\ tip \in Nat
  BY ReadyFacts DEF WriteSnapshot, node
<1>1. SUFFICES ASSUME NEW d \in Pairs, NEW e \in Epochs
               PROVE  \E h \in index..tip :
                         \/ bonds'[d][e] = BondsOf(d, h)[e]
                         \/ stale' /\ BondsOf(d, h)[e] = 0
  BY <1>0, SameValues DEF BondRows, Since
<1> DEFINE k == bondsAt[d]
<1>2. k > 0 /\ index <= k /\ k <= tip /\ k \in Nat
  BY <1>0 DEF ReadyInv, LookupInv, AskedStake
<1>3. d \in Answered(bondsAt)
  BY <1>0, <1>2 DEF Answered
<1>4. bonds'[d] = Upsert(bonds[d], BondsOf(d, k))
  BY <1>0, <1>3 DEF InsertBonds
<1> HIDE DEF k
<1>5. bonds'[d][e] = IF BondsOf(d, k)[e] # 0 THEN BondsOf(d, k)[e] ELSE bonds[d][e]
  BY <1>4 DEF Upsert
<1>6. k \in index..tip
  BY <1>0, <1>2
<1>7. stale' \/ bonds = Empty
  BY <1>0
<1>8. bonds = Empty => bonds[d][e] = 0
  BY DEF Empty
<1> QED
  BY <1>5, <1>6, <1>7, <1>8

LEMMA BondsOfReindexing ==
    ASSUME ReadyInv, ReindexBonds
    PROVE  BondRows'
<1>0. /\ stage = "reindex" /\ task = "commit" /\ crawlerState' = crawlerState
      /\ chain' = chain /\ tip' = tip /\ bonds' = InsertBonds(bonds)
      /\ bondsAt \in [Pairs -> -1..MaxHeight] /\ MaxHeight \in Nat
      /\ crawlerState \in Nat /\ tip \in Nat
  BY ReadyFacts DEF ReindexBonds, node
<1>1. SUFFICES ASSUME NEW d \in Pairs, NEW e \in Epochs
               PROVE  \E h \in crawlerState..tip : bonds'[d][e] = BondsOf(d, h)[e]
  BY <1>0, SameValues DEF BondRows, Since
<1> DEFINE k == bondsAt[d]
<1>2. k > 0 /\ crawlerState <= k /\ k <= tip /\ k \in Nat
  BY <1>0 DEF ReadyInv, LookupInv, AskedStake
<1>3. d \in Answered(bondsAt)
  BY <1>0, <1>2 DEF Answered
<1>4. bonds'[d] = Upsert(bonds[d], BondsOf(d, k))
  BY <1>0, <1>3 DEF InsertBonds
<1> HIDE DEF k
<1>5. bonds'[d][e] = IF BondsOf(d, k)[e] # 0 THEN BondsOf(d, k)[e] ELSE bonds[d][e]
  BY <1>4 DEF Upsert
<1>6. bonds[d][e] = 0
  BY <1>0 DEF ReadyInv, LookupInv, Emptied, Empty
<1>7. k \in crawlerState..tip
  BY <1>0, <1>2
<1> QED
  BY <1>5, <1>6, <1>7

LEMMA BondStep ==
    ASSUME ReadyInv, CodeInv, BondRows, [Next]_vars
    PROVE  BondRows'
<1>1. CASE WriteBlock
  BY <1>1, BondsOfBlock
<1>2. CASE WriteSnapshot
  BY <1>2, BondsOfSnapshot
<1>3. CASE ReindexBonds
  BY <1>3, BondsOfReindexing
<1>4. CASE DeleteBonds \/ DeleteUnbonds
  <2>1. torn'
    BY <1>4 DEF DeleteBonds, DeleteUnbonds, history, ReadyInv, LookupInv, Emptied
  <2> QED
    BY <2>1 DEF BondRows
<1>5. CASE /\ chain' = chain /\ tip' \in Nat /\ tip' >= tip /\ missed \subseteq missed'
           /\ UNCHANGED <<crawlerState, bonds, stale, torn>>
  <2>1. SUFFICES ASSUME ~torn, NEW d \in Pairs, d \notin missed, NEW e \in Epochs
                 PROVE  \E h \in crawlerState..tip' : \/ bonds[d][e] = BondsOf(d, h)[e]
                                                      \/ stale /\ BondsOf(d, h)[e] = 0
    BY <1>5, SameValues DEF BondRows, Since
  <2>2. PICK h \in crawlerState..tip : \/ bonds[d][e] = BondsOf(d, h)[e]
                                       \/ stale /\ BondsOf(d, h)[e] = 0
    BY <2>1 DEF BondRows, Since
  <2>3. h \in crawlerState..tip'
    BY <1>5, ReadyFacts
  <2> QED
    BY <2>2, <2>3
<1> QED
  BY <1>1, <1>2, <1>3, <1>4, <1>5, WritingSteps DEF ReadyInv

-----------------------------------------------------------------------------
(* Unbonds.                                                                *)

\* No block withdraws from a pair that shares its source with one pair and its
\* validator with another that the block withdraws from: remove_withdraws
\* would delete the rows of that pair too.
WithdrawnApart ==
    \A c \in Chains, h \in Heights :
        {d[1] : d \in c[h].withdrawn} \X {d[2] : d \in c[h].withdrawn} \subseteq c[h].withdrawn

UnbondInv == UnbondRows /\ UnbondPast

LEMMA UnbondWritten ==
    ASSUME ReadyInv, WithdrawnApart, WriteBlock, NEW d \in Pairs, NEW e \in Epochs
    PROVE  unbonds'[d][e] =
              IF d \in DecodedBlock.withdrawn /\ Matured(e, chain[index]) THEN 0
              ELSE IF unbondsAt[d] > 0 /\ UnbondsOf(d, unbondsAt[d])[e] # 0
                   THEN UnbondsOf(d, unbondsAt[d])[e] ELSE unbonds[d][e]
<1>0. /\ index \in Heights /\ chain \in Chains
      /\ unbondsAt \in [Pairs -> -1..MaxHeight] /\ unbonds \in Rows
      /\ unbonds' = RemoveWithdraws(DecodedBlock, InsertUnbonds(unbonds))
  BY WriteFacts, ReadyFacts DEF WriteBlock
<1>9. /\ DecodedBlock.epoch = chain[index].epoch
      /\ DecodedBlock.withdrawn = {} \/ DecodedBlock.withdrawn = chain[index].withdrawn
  BY <1>0, DecodedPart DEF ReadyInv, ChainTypes
<1> DEFINE W == DecodedBlock.withdrawn
           apart == {c[1] : c \in W} \X {c[2] : c \in W}
<1>1. d \in apart <=> d \in W
  <2>1. apart \subseteq W
    <3>1. CASE W = {}
      BY <3>1
    <3>2. CASE W = chain[index].withdrawn
      BY <1>0, <3>2 DEF WithdrawnApart
    <3> QED
      BY <1>9, <3>1, <3>2
  <2>2. d = <<d[1], d[2]>>
    BY DEF Pairs
  <2>3. d \in W => d \in apart
    BY <2>2
  <2> QED
    BY <2>1, <2>3
<1>2. InsertUnbonds(unbonds)[d][e] =
         IF unbondsAt[d] > 0 /\ UnbondsOf(d, unbondsAt[d])[e] # 0
         THEN UnbondsOf(d, unbondsAt[d])[e] ELSE unbonds[d][e]
  <2>1. d \in Answered(unbondsAt) <=> unbondsAt[d] > 0
    BY <1>0 DEF Answered
  <2>2. InsertUnbonds(unbonds)[d] =
           IF unbondsAt[d] > 0 THEN Upsert(unbonds[d], UnbondsOf(d, unbondsAt[d])) ELSE unbonds[d]
    BY <2>1 DEF InsertUnbonds
  <2> QED
    BY <2>2 DEF Upsert
<1>3. unbonds'[d][e] = IF d \in apart /\ Matured(e, chain[index]) THEN 0
                       ELSE InsertUnbonds(unbonds)[d][e]
  <2>1. Matured(e, DecodedBlock) <=> Matured(e, chain[index])
    BY <1>9 DEF Matured
  <2> QED
    BY <1>0, <2>1 DEF RemoveWithdraws
<1> HIDE DEF apart
<1> QED
  BY <1>1, <1>2, <1>3

\* A row that a snapshot or a reindexing leaves.
LEMMA UnbondInserted ==
    ASSUME ReadyInv, unbonds' = InsertUnbonds(unbonds), NEW d \in Pairs, NEW e \in Epochs,
           unbondsAt[d] > 0
    PROVE  unbonds'[d][e] = IF UnbondsOf(d, unbondsAt[d])[e] # 0
                            THEN UnbondsOf(d, unbondsAt[d])[e] ELSE unbonds[d][e]
<1>1. d \in Answered(unbondsAt)
  BY ReadyFacts DEF Answered
<1>2. unbonds'[d] = Upsert(unbonds[d], UnbondsOf(d, unbondsAt[d]))
  BY <1>1 DEF InsertUnbonds
<1> QED
  BY <1>2 DEF Upsert

\* What was read is as of some block, and a row removed is as before the first.
LEMMA UnbondPastStep ==
    ASSUME ReadyInv, WithdrawnApart, UnbondPast, [Next]_vars
    PROVE  UnbondPast'
<1>0. chain' = chain /\ tip' \in Nat /\ tip' >= tip /\ tip \in Nat
  BY WritingSteps, ReadyFacts DEF ReadyInv
<1> SUFFICES ASSUME NEW d \in Pairs, NEW e \in Epochs
             PROVE  \E g \in 0..tip' : unbonds'[d][e] = UnbondsOf(d, g)[e]
  BY <1>0, SameValues DEF UnbondPast
<1>1. CASE unbonds'[d][e] = unbonds[d][e]
  <2>1. PICK g \in 0..tip : unbonds[d][e] = UnbondsOf(d, g)[e]
    BY DEF UnbondPast
  <2>2. g \in 0..tip'
    BY <1>0
  <2> QED
    BY <1>1, <2>1, <2>2
<1>2. CASE unbonds'[d][e] = 0
  BY <1>0, <1>2, NothingAtZero
<1>3. CASE unbondsAt[d] > 0 /\ unbonds'[d][e] = UnbondsOf(d, unbondsAt[d])[e]
  <2>1. unbondsAt[d] <= tip /\ unbondsAt[d] \in Int
    BY <1>3, ReadyFacts DEF ReadyInv, LookupInv, AskedStake
  <2>2. unbondsAt[d] \in 0..tip'
    BY <1>0, <1>3, <2>1
  <2> QED
    BY <1>3, <2>2
<1>4. CASE WriteBlock
  <2>1. \/ unbonds'[d][e] = unbonds[d][e]
        \/ unbonds'[d][e] = 0
        \/ unbondsAt[d] > 0 /\ unbonds'[d][e] = UnbondsOf(d, unbondsAt[d])[e]
    BY <1>4, UnbondWritten
  <2> QED
    BY <1>1, <1>2, <1>3, <2>1
<1>5. CASE WriteSnapshot \/ ReindexBonds
  <2>1. unbonds' = InsertUnbonds(unbonds) /\ unbondsAt[d] > 0
    BY <1>5 DEF WriteSnapshot, ReindexBonds, ReadyInv, LookupInv, AskedStake
  <2>2. \/ unbonds'[d][e] = unbonds[d][e]
        \/ unbonds'[d][e] = UnbondsOf(d, unbondsAt[d])[e]
    BY <2>1, UnbondInserted
  <2> QED
    BY <1>1, <1>3, <2>1, <2>2
<1>6. CASE DeleteBonds
  BY <1>1, <1>6 DEF DeleteBonds
<1>7. CASE DeleteUnbonds
  BY <1>2, <1>7 DEF DeleteUnbonds, Empty
<1> QED
  BY <1>1, <1>4, <1>5, <1>6, <1>7, WritingSteps DEF ReadyInv

LEMMA UnbondsOfBlock ==
    ASSUME ReadyInv, CodeInv, WithdrawnApart, UnbondRows, WriteBlock
    PROVE  UnbondRows'
<1>0. /\ tip' = tip /\ chain' = chain
      /\ index \in Nat /\ index \in Heights /\ index <= tip /\ tip \in Nat /\ chain \in Chains
      /\ crawlerState \in Nat /\ crawlerState <= crawlerState' /\ crawlerState' <= tip
      /\ crawlerState' = index \/ crawlerState' = crawlerState
      /\ AtBlock("commit") /\ stage # "reindex" /\ torn' = torn
      /\ unbondsAt \in [Pairs -> -1..MaxHeight] /\ MaxHeight \in Nat /\ tip <= MaxHeight
  BY WriteFacts, ReadyFacts DEF WriteBlock
<1>1. crawlerState' \in Nat
  BY <1>0
<1>2. SUFFICES ASSUME ~torn, NEW d \in Pairs, d \notin missed', NEW e \in Epochs
               PROVE  \E h \in crawlerState'..tip :
                         \/ unbonds'[d][e] = UnbondsOf(d, h)[e]
                         \/ /\ UnbondsOf(d, h)[e] = 0
                            /\ \E g \in 0..crawlerState' : unbonds'[d][e] = UnbondsOf(d, g)[e]
  BY <1>0, SameValues DEF UnbondRows, Since
<1> DEFINE Fresh(v) == \E h \in crawlerState'..tip :
                          \/ v = UnbondsOf(d, h)[e]
                          \/ /\ UnbondsOf(d, h)[e] = 0
                             /\ \E g \in 0..crawlerState' : v = UnbondsOf(d, g)[e]
           k == unbondsAt[d]
           gone == d \in DecodedBlock.withdrawn /\ Matured(e, chain[index])
<1>8. d \notin missed
  BY <1>2, WriteFacts
<1>3. PICK h \in crawlerState..tip :
         \/ unbonds[d][e] = UnbondsOf(d, h)[e]
         \/ /\ UnbondsOf(d, h)[e] = 0
            /\ \E g \in 0..crawlerState : unbonds[d][e] = UnbondsOf(d, g)[e]
  BY <1>0, <1>2, <1>8 DEF UnbondRows, Since
<1>4. h \in Nat /\ crawlerState <= h /\ h <= tip
  BY <1>0
<1>5. CASE gone
  <2> DEFINE top == IF crawlerState' >= index THEN crawlerState' ELSE index
  <2>1. top \in crawlerState'..tip /\ top \in Heights /\ index <= top
    BY <1>0, <1>1 DEF Heights
  <2> HIDE DEF top
  <2>2. UnbondsOf(d, top)[e] = 0
    <3>1. d \in chain[index].withdrawn /\ Matured(e, chain[index])
      BY <1>0, <1>5, DecodedPart DEF ReadyInv, ChainTypes
    <3> QED
      BY <1>0, <2>1, <3>1, WithdrawnForGood
  <2>3. unbonds'[d][e] = 0
    BY <1>5, UnbondWritten
  <2> QED
    BY <2>1, <2>2, <2>3
<1>6. CASE ~gone /\ k > 0
  <2>1. crawlerState <= k /\ index <= k /\ k <= tip /\ k \in Nat
    BY <1>0, <1>6 DEF ReadyInv, LookupInv, AskedStake
  <2>2. k \in crawlerState'..tip
    BY <1>0, <1>1, <2>1
  <2> HIDE DEF k
  <2>3. CASE UnbondsOf(d, k)[e] # 0
    <3>1. unbonds'[d][e] = UnbondsOf(d, k)[e]
      BY <1>6, <2>3, UnbondWritten DEF k
    <3> QED
      BY <2>2, <3>1
  <2>4. CASE UnbondsOf(d, k)[e] = 0
    <3>1. unbonds'[d][e] = unbonds[d][e]
      BY <1>6, <2>4, UnbondWritten DEF k
    <3>2. CASE unbonds[d][e] = UnbondsOf(d, h)[e]
      <4>1. h \in crawlerState'..tip \/ h \in 0..crawlerState'
        BY <1>0, <1>1, <1>4
      <4> QED
        BY <2>2, <2>4, <3>1, <3>2, <4>1
    <3>3. CASE \E g \in 0..crawlerState : unbonds[d][e] = UnbondsOf(d, g)[e]
      <4>1. \A g \in 0..crawlerState : g \in 0..crawlerState'
        BY <1>0, <1>1
      <4> QED
        BY <2>2, <2>4, <3>1, <3>3, <4>1
    <3> QED
      BY <1>3, <3>2, <3>3
  <2> QED
    BY <2>3, <2>4
<1>7. CASE ~gone /\ ~(k > 0)
  <2>1. ASSUME crawlerState' # crawlerState
        PROVE  ~UnbondChange(d, e, chain[index])
    <3>1. /\ d \notin Lost(chain[index])
          /\ d \notin Keys(chain[index]) \/ DecodedBlock = chain[index]
      BY <1>2, <2>1, PairSeen
    <3>2. k = NotAsked
      BY <1>0, <1>7, <3>1 DEF Lost, Unanswered, NoAnswer, NotAsked
    <3>3. d \notin DecodedBlock.unbonded
      BY <1>0, <3>2 DEF ReadyInv, LookupInv, AskedStake
    <3> QED
      BY <1>7, <3>1, <3>3 DEF UnbondChange, Keys, BondAddresses
  <2>4. unbonds'[d][e] = unbonds[d][e]
    BY <1>7, UnbondWritten
  <2>5. CASE h >= crawlerState'
    <3>1. h \in crawlerState'..tip
      BY <1>0, <1>1, <1>4, <2>5
    <3>2. \A g \in 0..crawlerState : g \in 0..crawlerState'
      BY <1>0, <1>1
    <3> QED
      BY <1>3, <2>4, <3>1, <3>2
  <2>6. CASE h < crawlerState'
    <3>1. ASSUME NEW g \in (h + 1)..crawlerState'
          PROVE  ~UnbondChange(d, e, chain[g])
      <4>1. d \notin Keys(chain[g]) \/ g = index
        BY <1>2, <1>3, PassedOver
      <4>2. d \notin Keys(chain[g]) => ~UnbondChange(d, e, chain[g])
        BY DEF Keys, BondAddresses, UnbondChange
      <4>3. crawlerState' # crawlerState
        BY <1>0, <1>4, <2>6
      <4> QED
        BY <2>1, <4>1, <4>2, <4>3
    <3>2. UnbondsOf(d, crawlerState')[e] = UnbondsOf(d, h)[e]
      BY <1>1, <1>4, <2>6, <3>1, UnbondsSteady
    <3>3. crawlerState' \in crawlerState'..tip
      BY <1>0, <1>1
    <3>4. \A g \in 0..crawlerState : g \in 0..crawlerState'
      BY <1>0, <1>1
    <3> QED
      BY <1>3, <2>4, <3>2, <3>3, <3>4
  <2> QED
    BY <1>1, <1>4, <2>5, <2>6
<1> QED
  BY <1>5, <1>6, <1>7

LEMMA UnbondsOfSnapshot ==
    ASSUME ReadyInv, UnbondPast, WriteSnapshot
    PROVE  UnbondRows'
<1>0. /\ stage = "snapshot" /\ task = "commit" /\ crawlerState' = index
      /\ chain' = chain /\ tip' = tip /\ unbonds' = InsertUnbonds(unbonds)
      /\ index \in Nat /\ tip \in Nat
  BY ReadyFacts DEF WriteSnapshot, node
<1>1. SUFFICES ASSUME NEW d \in Pairs, NEW e \in Epochs
               PROVE  \E h \in index..tip :
                         \/ unbonds'[d][e] = UnbondsOf(d, h)[e]
                         \/ /\ UnbondsOf(d, h)[e] = 0
                            /\ \E g \in 0..index : unbonds'[d][e] = UnbondsOf(d, g)[e]
  BY <1>0, SameValues DEF UnbondRows, Since
<1> DEFINE k == unbondsAt[d]
<1>2. k > 0 /\ index <= k /\ k <= tip /\ k \in Int
  BY <1>0, ReadyFacts DEF ReadyInv, LookupInv, AskedStake
<1>3. unbonds'[d][e] = IF UnbondsOf(d, k)[e] # 0 THEN UnbondsOf(d, k)[e] ELSE unbonds[d][e]
  BY <1>0, <1>2, UnbondInserted
<1>4. PICK g \in 0..tip : unbonds[d][e] = UnbondsOf(d, g)[e]
  BY DEF UnbondPast
<1> HIDE DEF k
<1>5. k \in index..tip
  BY <1>0, <1>2
<1>6. g \in 0..index \/ g \in index..tip
  BY <1>0
<1> QED
  BY <1>3, <1>4, <1>5, <1>6

LEMMA UnbondsOfReindexing ==
    ASSUME ReadyInv, ReindexBonds
    PROVE  UnbondRows'
<1>0. /\ stage = "reindex" /\ task = "commit" /\ crawlerState' = crawlerState
      /\ chain' = chain /\ tip' = tip /\ unbonds' = InsertUnbonds(unbonds)
      /\ crawlerState \in Nat /\ tip \in Nat
  BY ReadyFacts DEF ReindexBonds, node
<1>1. SUFFICES ASSUME NEW d \in Pairs, NEW e \in Epochs
               PROVE  \E h \in crawlerState..tip : unbonds'[d][e] = UnbondsOf(d, h)[e]
  BY <1>0, SameValues DEF UnbondRows, Since
<1> DEFINE k == unbondsAt[d]
<1>2. k > 0 /\ crawlerState <= k /\ k <= tip /\ k \in Int
  BY <1>0, ReadyFacts DEF ReadyInv, LookupInv, AskedStake
<1>3. unbonds'[d][e] = IF UnbondsOf(d, k)[e] # 0 THEN UnbondsOf(d, k)[e] ELSE unbonds[d][e]
  BY <1>0, <1>2, UnbondInserted
<1> HIDE DEF k
<1>4. unbonds[d][e] = 0
  BY <1>0 DEF ReadyInv, LookupInv, Emptied, Empty
<1>5. k \in crawlerState..tip
  BY <1>0, <1>2
<1> QED
  BY <1>3, <1>4, <1>5

LEMMA UnbondStep ==
    ASSUME ReadyInv, CodeInv, WithdrawnApart, UnbondInv, [Next]_vars
    PROVE  UnbondInv'
<1>0. UnbondPast'
  BY UnbondPastStep DEF UnbondInv
<1>1. CASE WriteBlock
  BY <1>0, <1>1, UnbondsOfBlock DEF UnbondInv
<1>2. CASE WriteSnapshot
  BY <1>0, <1>2, UnbondsOfSnapshot DEF UnbondInv
<1>3. CASE ReindexBonds
  BY <1>0, <1>3, UnbondsOfReindexing DEF UnbondInv
<1>4. CASE DeleteBonds \/ DeleteUnbonds
  <2>1. torn'
    BY <1>4 DEF DeleteBonds, DeleteUnbonds, history, ReadyInv, LookupInv, Emptied
  <2> QED
    BY <1>0, <2>1 DEF UnbondInv, UnbondRows
<1>5. CASE /\ chain' = chain /\ tip' \in Nat /\ tip' >= tip /\ missed \subseteq missed'
           /\ UNCHANGED <<crawlerState, unbonds, torn>>
  <2>1. UnbondRows'
    <3>1. SUFFICES ASSUME ~torn, NEW d \in Pairs, d \notin missed, NEW e \in Epochs
                   PROVE  \E h \in crawlerState..tip' :
                             \/ unbonds[d][e] = UnbondsOf(d, h)[e]
                             \/ /\ UnbondsOf(d, h)[e] = 0
                                /\ \E g \in 0..crawlerState : unbonds[d][e] = UnbondsOf(d, g)[e]
      BY <1>5, SameValues DEF UnbondRows, Since
    <3>2. PICK h \in crawlerState..tip :
             \/ unbonds[d][e] = UnbondsOf(d, h)[e]
             \/ /\ UnbondsOf(d, h)[e] = 0
                /\ \E g \in 0..crawlerState : unbonds[d][e] = UnbondsOf(d, g)[e]
      BY <3>1 DEF UnbondInv, UnbondRows, Since
    <3>3. h \in crawlerState..tip'
      BY <1>5, ReadyFacts
    <3> QED
      BY <3>2, <3>3
  <2> QED
    BY <1>0, <2>1 DEF UnbondInv
<1> QED
  BY <1>1, <1>2, <1>3, <1>4, <1>5, WritingSteps DEF ReadyInv

-----------------------------------------------------------------------------
(* The theorems.                                                           *)

LEMMA RowsInit ==
    ASSUME Init
    PROVE  BalanceInv /\ BondRows /\ UnbondInv
<1>0. tip = 0 /\ crawlerState = 0 /\ bonds = Empty /\ unbonds = Empty /\ 0..0 = {0}
  BY DEF Init
<1>1. \A a \in Accounts, g \in Heights : balances[a][g] = NotAsked
  BY DEF Init
<1>2. BalanceInv
  BY <1>0, <1>1 DEF BalanceInv, BalanceRows, BalanceKept
<1>3. \A d \in Pairs, e \in Epochs :
         bonds[d][e] = BondsOf(d, 0)[e] /\ unbonds[d][e] = UnbondsOf(d, 0)[e]
  BY <1>0, NothingAtZero DEF Empty
<1>4. BondRows /\ UnbondRows /\ UnbondPast
  BY <1>0, <1>3 DEF BondRows, UnbondRows, UnbondPast, Since
<1> QED
  BY <1>2, <1>4 DEF UnbondInv

LEMMA ReadyCorrect == Spec => []ReadyInv
<1>1. Init => ReadyInv
  BY ChainTypesInit, ProgressInit, LookupInit DEF ReadyInv
<1>2. ReadyInv /\ [Next]_vars => ReadyInv'
  BY ChainTypesNext, ProgressNext, LookupNext DEF ReadyInv
<1> QED
  BY <1>1, <1>2, PTL DEF Spec

\* The checksums of a process that records are those of the node's epoch once it is
\* past the first block of that epoch, and a block is decoded with the code of its own
\* epoch, unless a snapshot leapt over that first block or the node has left the epoch
\* of the block (query_checksums, chain/src/main.rs:65-66 and 266-273).
THEOREM CodeCorrect == Spec => []CodeInv
  BY CodeInit, CodeStep, ReadyCorrect, PTL DEF Spec

\* Every variable of the chain indexer keeps its type, whatever mix of trials,
\* snapshots, reindexings, backfills and failures (chain/src/main.rs).
THEOREM ChainTypeCorrect == Spec => []TypeOK
<1>1. Spec => []ChainTypes
  BY ChainTypesInit, ChainTypesNext, ProgressCorrect, PTL DEF Spec
<1>2. ChainTypes /\ ProgressInv /\ CodeInv => TypeOK
  <2> SUFFICES ASSUME ChainTypes, ProgressInv, CodeInv PROVE TypeOK
    OBVIOUS
  <2>1. crawlerState \in 0..MaxHeight
    BY Bounds DEF ProgressInv, Ahead, ChainTypes, ProcessTypes
  <2> QED
    BY <2>1 DEF TypeOK, ChainTypes, ProcessTypes, LookupTypes, TableTypes, HistoryTypes, CodeInv, CodeTypes
<1> QED
  BY <1>1, <1>2, ProgressCorrect, CodeCorrect, PTL

\* The balance shown for an account is one it had at the recorded block or later,
\* whatever mix of snapshots, trials, backfills, lagging and restarts wrote the
\* rows (insert_balances, balance.rs), unless the recorded block that changed it last
\* missed it: a dropped lookup, a skipped block, a recipient of funding that was not
\* listed yet, or a block taken with old checksums by a process that lags or leapt.  A
\* process that keeps pace sees everything a block of any code changes.
THEOREM BalancesFresh == Spec => []BalanceFresh
<1>1. Init => BalanceInv
  BY RowsInit
<1>2. ReadyInv /\ CodeInv /\ BalanceInv /\ [Next]_vars => BalanceInv'
  BY BalanceStep
<1>3. ReadyInv /\ BalanceInv => BalanceFresh
  BY ShownIsFresh
<1> QED
  BY <1>1, <1>2, <1>3, ReadyCorrect, CodeCorrect, PTL DEF Spec

\* A row of a bond, or its absence, is as of the recorded block or later
\* (clear_bonds and insert_bonds, pos.rs), but for a pair that a recorded block missed
\* in one of the ways above, and for what an older snapshot or a broken reindexing left.
THEOREM BondsCorrect == Spec => []BondsFresh
<1>1. Init => BondRows
  BY RowsInit
<1>2. ReadyInv /\ CodeInv /\ BondRows /\ [Next]_vars => BondRows'
  BY BondStep
<1>3. BondRows => BondsFresh
  BY DEF BondRows, BondsFresh
<1> QED
  BY <1>1, <1>2, <1>3, ReadyCorrect, CodeCorrect, PTL DEF Spec

\* So is a row of an unbond, with the same exceptions, or it is of an unbond withdrawn
\* since, as long as no block withdraws from pairs that cross (remove_withdraws,
\* pos.rs).
THEOREM UnbondsCorrect ==
    ASSUME WithdrawnApart
    PROVE  Spec => []UnbondsFresh
<1>1. Init => UnbondInv
  BY RowsInit
<1>2. ReadyInv /\ CodeInv /\ UnbondInv /\ [Next]_vars => UnbondInv'
  BY UnbondStep
<1>3. UnbondInv => UnbondsFresh
  BY DEF UnbondInv, UnbondRows, UnbondsFresh
<1> QED
  BY <1>1, <1>2, <1>3, ReadyCorrect, CodeCorrect, PTL DEF Spec
=============================================================================
