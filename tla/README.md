# Formal models of the Namada indexer

TLA+ modules, TLC instances and TLAPS proofs about the crawlers of the Namada
indexer. Paths are relative to the root of the repository.

1. Inventory of the system
2. Plan
3. Modules and how they correspond to the code
4. Runs, bounds and fairness
5. What is proved
6. What the runs found
7. What is only model-checked, and what is not modelled
8. How to run it

## 1. Inventory

The indexer is a set of processes that read a Namada node over RPC and write one
Postgres database, from which a web server answers. The processes share no memory
and send each other no messages: they interact through tables, each writing its
own in one database transaction per index, and through the order in which they
happen to run. `docker-compose.yml` restarts each (`restart: unless-stopped`).

| component | state | operations | talks to |
|---|---|---|---|
| crawl loop (`shared/src/crawler.rs`) | next index, Ctrl-C flag | attempt, retry every error but `TaskJoinError`, next index, exit | every indexer runs it |
| transactions (`transactions/`) | `crawler_state`, transactions, `ibc_ack`, token flows, MASP pool; checksums in memory | start, backfill, index a block | node; `token` rows of chain; blocks of cometbft |
| chain (`chain/`) | `crawler_state`, tokens, balances, supplies, rate limits, bonds, unbonds, redelegations, validators, proposals, votes, keys; checksums in memory | trial crawl, snapshot (`initial_query`), reindex, backfill, index a block | node (latest state and past heights); blocks of cometbft; rows of governance and rewards |
| governance (`governance/`) | results and votes of proposals, `public_good_funding` | tick: epoch, running rows, tallies, executed rows, payments, one transaction | node; the rows chain inserts |
| rewards (`rewards/`) | `pos_rewards` | index an epoch: delegations, one query each, upsert | node; validators; chain marks rows as claimed |
| cometbft (`cometbft/`) | `cometbft_block`, its `crawler_state` | catch up in batches, crawl a block | node; read by chain and transactions |
| pos (`pos/`) | `validators`, its `crawler_state` | upsert the set of an epoch | node; rows chain writes too |
| parameters (`parameters/`) | `chain_parameters`, `gas_price` | read twice, overwrite some columns, each epoch | node; read by webserver |
| webserver (`webserver/`) | none | read-only REST queries, each of several statements | every table |
| block extraction (`shared/src/block.rs`, `block_result.rs`, `transaction.rs`, `utils.rs`) | none | pure functions from a block and its events to rows | chain, transactions |
| orm, migrations | the schema: unique and foreign keys | | every writer |

What is hard, and what makes each component correct:

- **Progress and its record.** A crawler holds one connection for its life, retries an
  index for ever, may be killed anywhere, and may commit without hearing of it. Correct:
  the recorded height and the rows agree, nothing is passed over or taken twice where that
  is not idempotent.
- **Reading a moving chain.** Balances are read at the indexed height, bonds and unbonds
  at the node's latest state, a snapshot at whatever the node is at. Correct: what is
  shown is what the chain had at the recorded height or later.
- **Rows with two writers.** Chain resets proposals that governance advances, and marks
  rewards that the rewards indexer rewrites, between any two queries of the other.
  Correct: nothing ahead of the chain, nothing taken back, nothing offered that was
  claimed.
- **Rows that refer to rows.** Bonds, balances, flows, rate limits and votes refer to
  validators and tokens that another indexer, or a later block, inserts. Correct: a
  reference finds its row, and the refusal of the database does not stop a crawler.
- **Outcomes by events.** What a block changed is derived from its transactions and their
  events, for batches, fees out of the shielded pool and vouchers that went several ways.
  Correct: what the chain kept is listed, and nothing else.
- **Answers of several statements.** A request reads one table after another while
  indexers commit. Correct: the answer is of some moment, or says no more than what holds
  in all of them.
- **Epochs.** Refreshing code checksums, executing proposals, paying funding and fetching
  rewards are tied to the first block or the current number of an epoch, which passes
  whether the process looks or not.
- **The edges of numbers.** Three starts subtract unsigned heights, which wrap in the
  release build (`Dockerfile:15`).

The list of hazards, each at its line and with the properties that watch it, is
in `PROJECT.json`.

## 2. Plan

Done, in this order: the crawl loop; the transactions indexer with its abstract
specification and its proofs; the chain indexer's core tables and its progress
proofs; governance with its proofs; rewards with its proofs; the block cache with
its proof; block extraction against the node that executes the block; the rows of
validators, redelegations and votes with the pos indexer; the parameters indexer
and the web server's reads.

To do, extending the model:

1. the cache together with a reader: a crawler that falls back to the node;
2. liveness of the whole chain indexer, with snapshots that pass over blocks;
3. the rows of the transactions indexer other than packets and flows: the MASP pool and
   the history under backfills;
4. votes of a voter with several delegations, and slashing.

Proved since: what the tables of the transactions indexer hold (`PacketRows`,
`SettledStatus`, the two properties of flows), the freshness of balances, bonds and
unbonds, the rows two indexers write (`BlockRows`), the payments of a proposal
(`PaidWhenExecuted`), the invariants of the web server, all of extraction, and that
the cache implements an abstract specification of its own.

Nothing that runs check is left to prove but the liveness properties, for which
section 7 says why.

## 3. Modules and how they correspond to the code

`Crawl` is the part of a process that lives in memory: `task` (the phase of the
attempt, `"down"` without a process), `index` and `mustExit`. Its operators are
the ways an attempt ends: `NextIndex` (the result of `RetryIf::spawn` is dropped,
whatever it was), `Retry`, `FailWith(error)`, `CtrlC`, `Crash`. The crawlers EXTEND
it and add their phases and their database; a step of a phase is what happens
between two awaits whose order matters to another actor.

`conn` is in every crawler: the one connection taken at the start. When it is lost
every later use fails with `Database`, which is retried with the same lost
connection until the process is restarted; when a commit is executed but not heard
of (`CommitUnheard`, `StoreUnheard`, `SnapshotUnheard`) it is lost as well.

**`TransactionsCrawler`** (`transactions/src/main.rs` and its services and
repository). `chain` is one of `Chains`: what each block sends, receives,
acknowledges, relays, and its epoch. `ReadBlock`, `ReadFirstBlock`,
`RefreshChecksums` and `Commit` are `crawling_fn`; `StartNormal` and `StartBackfill`
are the two ways `main` chooses the first block; `CommitRejected` is a database
transaction refused by a unique key (`insert_ibc_sequence`) or by the foreign key
of the token flows, whose tokens the chain indexer inserts (`TokenIndexed`).
`Recorded` is `insert_crawler_state`, `FlowRows` is the additive conflict clause. The
flows of a block are of its events (`Deposited`, `Withdrawn`): a received packet, a sent
packet and a successful acknowledgement each add to their row.

**`SequentialIndexer`** is the abstract specification: `indexed` is a prefix of the
chain that grows by one block at a time. `TransactionsCrawler` implements it with
the heights that have rows as `indexed` (`RefinesSequential`).

**`ChainCrawler`** (`chain/src/main.rs`, `services/namada.rs`, `repository/pos.rs`,
`repository/balance.rs`). `stage` is where `main` is: `"trial"` (one attempt outside
the loop), `"snapshot"`, `"reindex"`, `"crawl"`. A block queries balances at its
height (`QueryBalances`), bonds and unbonds at the latest state, pair by pair
(`QueryBond`, `QueryUnbond`), each of which may be dropped (`.ok()?`) or panic
(`JoinFails`), and writes in the order of the code: balances, `ClearBonds`,
`InsertBonds`, `InsertUnbonds`, `RemoveWithdraws`, `Recorded`. The snapshot reads
the head, the balances and the stake while blocks arrive. A balance is the height
that changed it last, a bond the height of its last change: the data is abstracted
to what tells a fresh value from a stale one.

What a block is found to change depends on the code of its transactions. `checksums`
are those the process asked for, at startup (`Started`) and at the first block of the
node's epoch (`RefreshChecksums`); `Decoded` is what is left of a block whose epoch has
other code (`CodeOf`): only the accounts that pay fees. The recipients of public goods
funding, whose balances are asked for at the first block of the node's epoch, are read
from the governance indexer's table, which may hold any of them yet (`recipients`).

The exceptions of the freshness properties are named by histories. `missed` holds what a
recorded block did not bring up to date (`Lost`): a lookup that was dropped, a block that
was skipped, a recipient who was not listed, rewards of an epoch whose first block was
taken late, and what is not seen in a block of other code by a process that is `lagging`
(the node had left the epoch of the block) or `leapt` (its snapshot began in the middle of
an epoch after that of its checksums). An account leaves `missed` with the next recorded
block that has its balance (`MissedAfter`), all of them with a snapshot, the pairs with a
reindexing. Outside these cases a process that keeps pace decodes every block, which is an
invariant the proofs rest on and not an assumption. `stale` and `torn` are about snapshots
over older rows and a reindexing that was cut short. Of unbonds less is true than of
bonds: `insert_unbonds` (`chain/src/repository/pos.rs:111-165`) only upserts, and what a
withdrawal deletes is by the epochs that matured at its block, so a row may be as of an
earlier block, of an unbond that was withdrawn since (`UnbondsFresh`).

**`Governance`** (`governance/src/main.rs` and its repository). Every query of a
tick is a step (`ReadEpoch` ... `ReadPayments`), `Commit` is the transaction.
`InsertProposals` is the other writer, the chain indexer's `insert_proposals`, whose
conflict clause puts result and votes back to their defaults: for a new block, or
again for a trial, an unheard commit, a backfill or a snapshot. The loop's index
means nothing to a tick, so the module has its own three-line loop. The tallies of
one tick are read in one step: they go to different rows. A payment is inserted unless
its proposal and its recipient have a row (`Inserted`, the unique index and
`on_conflict_do_nothing`), so of a retroactive and a continuous payment to the same
recipient one is kept, whichever the SDK's set of actions lists first.

Three histories name the exceptions of the properties, and no more than them: `reset`
holds the rows that were inserted again after the tick in progress had read them to be
executed, with the phase they were reset in; `raced` those a tick executed all the same,
until they are inserted once more; `unpaid` those a tick executed without seeing their
payments, because it came after the activation epoch or the reset was between the
query of the rows to execute and that of the payments.

**`Rewards`** (`rewards/src/main.rs` and its service and repository). An epoch
earns one unit, so the amount of a row tells from which claim it accrued.
`ReadReward` is one query of `process_batch`; `IndexClaim` is the chain indexer's
`delete_claimed_rewards`, which marks the rows of the delegation whatever their
epoch. All delegations are bonded throughout and their validators in the table.
What a claim during an attempt, or one indexed late, does to a row is named by the
histories `racing` and `late`.

**`CometbftCache`** (`cometbft/src/main.rs`). `FarBehind` is the choice of line 50
with its wrap-around; `FetchBatch`, `StoreBatch`, `CaughtUp` are `initial_query`;
`ReadBlock`, `Commit` are `crawling_fn`, which begins with the block recorded last.

**`BatchedIndexer`** is the abstract specification of the cache, for those who read it:
the blocks from the first one to the recorded height, growing by a batch at most.
`CometbftCache` implements it with `cached` as `held` and `recorded` as `height`
(`RefinesBatched`).

**`NamadaBlock`** is external: what a node does with the transactions of a block. Fees
come first, the first inner transaction may pay them out of the shielded pool and is kept
whatever becomes of its batch (`Kept`), an atomic batch stops at its first failure. It
gives the events of the block (`FeeEvents`, `BatchEvents`), each at its place in it
(`Before` is the order of places), and says what each transaction moved (`Touched`),
changed (`Changed`) and put into or took out of the pool (`PoolMoves`), and which token a
packet becomes (`ReceivedToken`). Its last section is what the node lets into a block: a
transfer takes the tokens it pays out from its sources, a shielded packet is received by
the pool, a fee out of the pool is paid by a transfer, and the outcomes of a batch fit
together (`Executed`). It is written from how the code reads events and storage.

**`Extraction`** is the code on the other side of these events
(`shared/src/block_result.rs`, `transaction.rs`, `utils.rs`, `block.rs`): outcomes
(`Applied`, `MaspRef`), tokens of packets (`TraceWhenReceiving`, `GetIbcToken`), kinds
of transactions (`TransferToTxKind`, `KindOf`), success (`WasSuccessful`), the places of
what succeeded (`SuccessfulAt`, `PlaceOf`), and the lists the indexers get
(`AddressesWithBalanceChange`, `BondAddresses`, `PoolEntries`,
`GasEstimates`, `GovernanceProposals` ...). `Finalize` is the chain, `DecodeTx` one
raw transaction of `get_block`, `Commit` what of it goes into tables that outlive
the block: tokens and proposals. `get_block` and the events are loops over sequences in
the code and sets of places here: `First` is `find`, an order the code relies on is a
comparison of places, and the ids of proposals are counts of those before.

**`BlockRows`** (`chain/src/main.rs`, `chain/src/repository/pos.rs`, `gov.rs`, `pos/`).
A chain whose changes of validators take effect `Pipeline` epochs later, and of which
a set of transactions is the set of their positions (`Effective`, `InBlock`); the chain
indexer that reads a snapshot in five steps (`SnapshotHead` ... `WriteSnapshot`) and
goes on block by block (`WriteBlock`, in the order of the code: validators, states,
metadata, bonds, redelegations, votes); the pos indexer (`PosTick`). `BondPanics` is
the `.expect` inside the closure that holds the connection, after which the
connection is of no use. Whether the recorded block is recent enough is left to
`ChainCrawler`: a process may begin with a trial or with a snapshot.

**`Web`** (`webserver/`, `parameters/`). A request is a kind, an argument and what it has
read so far; `Reads` is the order of the statements of its handler, `Found` what a
statement finds. Between two of them indexers commit. The tables follow from how far their
writers are (`chainAt`, `base`, `txAt`, `posAt`), except `parameters`, whose indexer is
modelled step by step. `got` holds what was read by table, `done` how many reads there
were. `IsChain` says what the node guarantees of its blocks. `walk` is a client that reads
the pages of the proposals one after another. `RateLimitsFit` is the foreign key of
`ibc_rate_limits`.

`MCTransactions`, `MCChain`, `MCGovernance`, `MCRewards`, `MCCometbft`, `MCExtraction`,
`MCBlockRows` and `MCWeb` give the constants values. Definitions under a comment "Faulty
variant" are mutations used to show that each property can fail; no specification uses
them.

## 4. Runs, bounds and fairness

| run | checks | bounds and why they are enough |
|---|---|---|
| `tx_crawl` | which blocks, packets, flows and checksums the database holds, in every state | 3 blocks, 2 epochs, 2 packets of 2 tokens, each chain of the listed heights of sending, answering, failing and receiving, 1 backfill: a packet is sent, answered and answered again in different blocks, an epoch begins between them, and a backfill can begin before, at and after each |
| `tx_live` | refinement of `SequentialIndexer`, every block indexed at last | the same with one answer and no backfill (a backfill does not extend the prefix) |
| `chain_crawl` | freshness of balances, bonds and unbonds; the recorded block never goes back, and one by one | 4 blocks whose epochs are 1122, 1222 or 1123, in four histories that pay rewards or funding when an epoch begins, the code upgraded with every epoch, read limit 2, 1 pruned block, 2 pairs: far enough behind for a snapshot, near enough for a trial, an unbond that matures and is withdrawn, one of two heights of an epoch, an epoch of several blocks for a snapshot to begin in and one of a single block to lag behind; `MaxRare` = 1 dropped lookup, panic, backfill or reindex in a behaviour, any number of unlisted recipients |
| `governance` | results, votes, payments; every proposal executed at last | 4 epochs, 2 proposals activated in different epochs, one removing the payment the other adds, one paying a recipient once and continuously; 2 repeated insertions or lost lookups: a row is reset before, between and after any of the queries of a tick, and again after it was executed |
| `rewards` | amounts, offered and claimed rewards, contiguous epochs | 3 epochs, 2 delegations with a claim each; 1 lost lookup, repeated claim block or backfill. Symmetric in the delegations, which only the enumeration of queries tells apart |
| `cometbft_cache` | the cache is a prefix that grows by a batch at most, and complete at last | 6 blocks, threshold and batch 2, 2 pruned: two batches, a partial batch, a wrap-around, a crawl after each |
| `extraction` | what the indexer derives from a block, against what the node changed | chains of up to 2 blocks (`MaxBlocks`) of up to 2 transactions (`MaxPerBlock`), 3 in all (`MaxTxs`), out of one of every kind, batches of two in every outcome the node can give them, fees in two tokens and out of the pool, vouchers of one and two hops and of NAM: two transactions meet in a block or in two, where the order of events, the count of ids and the tokens known already can matter |
| `block_rows` | rows that are referred to, rows with two writers, every block indexed | 4 blocks in 3 epochs with a pipeline of 2, a validator of the genesis and one that comes; 1 kill or restart: a change is announced in one epoch and takes effect within the chain, a snapshot begins before, at and after each |
| `web` | what answers relate, panics, pages; the parameters of the chain at last; the chain indexer waits for an epoch only | 2 chains of 2 epochs (3 and 2 blocks), a page of one row: a voucher that comes within an epoch and pays fees at once, a proposal with each block, bonds and unbonds that mature at different epochs, parameters that change; 1 end of the parameters indexer |
| `tx_reindex`, `chain_unbonds`, `extraction_fees` | disagreements of section 6, one property each | as above |

`MaxRare` and `MaxFaults` bound rare events together because each of them is
independent of a second one of its kind, or repeats it (a row reset twice is reset);
in the other modules kills, lost connections, unheard commits and Ctrl-C are
unbounded. The deadlock check is off in `extraction`, `block_rows` and `web`, where
the bounded chain ends and the indexers with it.

Fairness, in `FairSpec` of each module with a liveness property: the chain goes on
and a process that is down is restarted (weak: docker's restart policy); a query or
a commit that can succeed again and again succeeds at last (strong: attempts fail
in between, so it is enabled over and over and not continuously). No fairness is
given to failures, restarts of a running process, or another indexer, except that
the chain indexer inserts each token at last (`tx_live`). The liveness properties
state what else they need: a connection that holds from some moment on, since the
code never replaces one. `EventuallyCached` needs more, and each premise is a way
the cache stops: a process that ends before it gets past the recorded block, a node
that pruned the recorded block, a crawl that begins with block 0. In `BlockRows` and
`Web` an indexer as a whole is weakly fair: between its steps something of it is
always enabled, as a process that ends is started again; the node, requests and the
ends of processes are not. `EventuallyIndexed` of `BlockRows` names the one stop there
is, two different votes of a voter in a block, and `WaitsForEpochOnly` the rate limits
of a token that a later block brings.

## 5. What is proved

For every value of the constants that satisfies the named assumptions
(`BoundsAssumption`, `ScheduleAssumption`, ...), of `Spec` without fairness:

- **`TransactionsCrawlerProofs`**: `TypeCorrect`; `PrefixCorrect` (`IndexedPrefix`) and
  `PositionCorrect` (`WorksOnNextBlock`) from `PrefixInv`. `IndexedPrefix` alone is not
  inductive: a commit extends the prefix only if the block in progress is the one after
  the recorded one, which holds unless the connection was lost in an unheard commit, in
  which case no commit can happen before the restart. `CrawlerRefines`: without backfills
  every step maps to a step of `SequentialIndexer` or a stutter, because the rows change
  only in `WriteBlock`. `ChecksumsCorrect` (`FreshChecksums`): the invariant adds what the
  code in memory is worth in each phase between two first blocks of epochs, and that the
  epochs of a chain do not decrease. `PacketRowsCorrect`, `SettledStatusCorrect`,
  `FlowsNotLost` and `EventsCountedOnce` (`FlowsCountEvents`) relate a table to the blocks
  that have rows: only `WriteBlock` changes either. What is counted once is an event, not
  a packet: a packet that was sent and acknowledged has two (section 6). That each is
  counted once needs the prefix (a block is written again only by a backfill) and that the
  chain sends, receives and answers a packet in one block at most (`ChainAssumption`); the
  sums are cardinalities of disjoint sets.
- **`ChainCrawlerProofs`**: `CodeCorrect` (`CodeInv`) is what makes the indexer see the
  blocks it takes. It cannot say that the checksums are those of the block: they are not,
  at the first block of an epoch before it refreshed them, nor for a process that is an
  epoch behind. It says that a process that records and has a height (`Walking`) has the
  checksums of the node's epoch once it is past the first block of it (`PastFirst`), for
  it refreshed them there or came later and asked for them at startup; so in the phases
  after `ReadBlock` (`Decoding`) a block is decoded by the code of its own epoch, unless
  `lagging` or `leapt`. `ProgressCorrect`, `RecordedNeverBack`, `RecordedOneByOne`.
  `Ahead` places the height of each stage between the recorded block and the tip;
  `Contiguous` says that a process that records passed over nothing but what a panicked
  task lost. `ChainTypeCorrect` rests on `Ahead` (the block that is written exists) and on
  the greatest element of a bounded set, which the value of the chain at a height is.
  `BalancesFresh`, `BondsCorrect` and `UnbondsCorrect` need an invariant over what is in
  memory (`LookupInv`): an answer about a balance is as of the block that is indexed, one
  about stake as of that block or a later one, and a reindexing fills what it emptied;
  `BalanceKept` adds that no change up to the recorded block is without a row. `PairSeen`
  and `AccountSeen` join the two: a key a block changes and that is not missed was among
  those it asked for. `UnbondsCorrect` assumes `WithdrawnApart`, that no block has
  withdrawals of crossing pairs: without it the statement is false, as the run
  `chain_unbonds` shows.
- **`BlockRowsProofs`**: `RowsInvariant`, and from it `CrawlNeverPanics`
  (`PanicsOnlyInSnapshots`), `RedelegationsAndVotesListed` (`RowsListed`) and the action
  property `SettledRowsKept` (`OnlyLaggardsRevert`). `ChainInv` says what the node
  guarantees of the chain, among it that who is bonded to came before or in the same
  block; `SnapshotInv` what the parts of a snapshot are worth while blocks arrive (`Cut`:
  its block lies in its epoch), and `CameInv` that everyone who came by the recorded block
  has a row. The panic is excluded for the block that is indexed because it is the
  recorded one or the next. A row of a settled validator is the same function of every set
  of transactions that contains its changes (`RowDependsOn`), which is why it does not
  matter who writes it last.
- **`GovernanceProofs`**: `GovTypeCorrect`, `ResultsCorrect`, `FundingCorrect`,
  `TicksAdvance`, `VotesCorrect`. What was read is never invalidated by the other writer,
  who only puts rows back to `pending`: `StatusSound` and `ReadSound` say so for what the
  tick holds in memory, `VotingSound` relates `votingPeriod` rows to the epoch the tick
  read. `VotesCorrect` needs that the rows to be tallied and those to be executed are
  disjoint in one tick (`FinalRead`), and that a row the tick is about to execute still
  has its final votes or is in `reset`. `ExecutedArePaid` (`PaidWhenExecuted`) is an
  invariant of every executed row, not of the moment of the commit: a row about to be
  executed in its activation epoch is about to be paid unless it was reset before the
  second of the two queries; a reset after it, up to the commit, costs the votes and not
  the payments. A listed payment stays, under the unique key, but for a removal by a
  proposal that passed.
- **`RewardsProofs`**: `RewardsTypeCorrect`, `AmountsCorrect`, `OffersCorrect`,
  `MarksCorrect`, `EpochsCorrect`, all from `RewardsInv`. Alone, none of the middle three
  is inductive: a row is written from memory, so `MemorySound` says what an amount that
  was read is worth until it is written, whatever the chain indexer does meanwhile, and
  `Begun` that only epochs that began have rows. That the amount accrued since a claim
  (`ClaimableSound`) rests on the greatest element of a finite set of epochs
  (`GreatestElement`).
- **`CometbftCacheProofs`**: `CacheCorrect` (`CachedPrefix`) from `CacheInv`: the process
  is at the recorded block or the next, and a batch begins after the recorded block and
  ends no later than the tip it was started with. `CacheTypeCorrect` from `CacheInv` and
  the phases. `CacheRefines` (`RefinesBatched`): a stored batch is a step of
  `BatchedIndexer`, whether the process hears of it or not; the block a crawl begins with
  is a stutter, as it is in the table; nothing else changes what a reader finds. It
  implies `CachedPrefix`, and so the run checks only the refinement.
- **`ExtractionProofs`**: `SuccessCorrect`, `ChangesCorrect`, `PoolCorrect`,
  `TokensCorrect` and `ProposalsCorrect`, one for each invariant of the run, for chains,
  blocks and batches of any size. `DecodingCorrect` (`PlaceInv`) is the invariant of the
  loop: `decoded` is the wrappers of the block after the last indexed one, up to the raw
  transaction that was taken, each once and in order (`Decodes`). With it the outcome that
  is read is the outcome there was (`OutcomeRead`), and what counts as successful is in
  one to one correspondence with the places the node kept, without the fee payments that
  `masp_ref` misses. `TokensCorrect` needs `TokenInv`: the node executes nothing with a
  token that does not exist, so a token that is sent or returned came in an earlier block,
  and has its row, or in this one, but for the exceptions the property names.
  `ProposalsCorrect` is from `ProposalInv`, by which every row is of a proposal of an
  indexed block, under the id of the chain: an id is the number of proposals before it,
  which is the sum of those in the blocks before and those before it in its own, two
  finite sets without a common element. `ProposalIdsDistinct` (`IdsDistinct`) concludes
  that two proposals never meet under one key. The constants are assumed to be what the
  node lets into a block (`RawsAssumption`).
- **`WebProofs`**: `WebInvariant`, and from it `AnswersRelate` (`AnswersInStep`),
  `PanicsHaveReason` (`PanicsExplained`) and `PagesMissNothing` (`NothingSkipped`). The
  three speak of the end of a request only, so the invariant says of every table what a
  read of it is worth from then on (`StillHolds`): a recorded state was recorded once, a
  set of tokens holds at least those there were when the request came, merged unbonds were
  due at an epoch that is past. Each is kept by whatever an indexer commits (`Stays`), for
  indexers only go on (`Onward`). Of the pages, `SeenBy(k)`: all proposals but those that
  are now on the first k pages have been seen, or were not there at the first; a new
  proposal only weakens it. That the last page is the last rests on the number of pages
  being rounded up (`Division`).

## 6. What the runs found

Runs that refute what a comment or a document says:

- `tx_reindex`: a comment says old transactions can be reindexed
  (`transactions/src/repository/transactions.rs:44-47`); a block that sent a packet
  cannot, since `insert_ibc_sequence` (111-126) has no conflict clause.
- `chain_unbonds`: withdrawals of one block delete matured unbonds of pairs that did not
  withdraw (`chain/src/repository/pos.rs:208-239`; `swagger.yml:272`).
- `extraction_fees`: a fee paid by a failed batch counts as a success
  (`shared/src/transaction.rs:364-366`), but `masp_ref`
  (`shared/src/block_result.rs:564-592`) looks at the first MASP event of the block only.

Disagreements that the models show, without a run of their own:

- checksums are refreshed "for new epochs" (`transactions/src/main.rs:162-164`), but a
  first block is recognised by the node's latest epoch: not while the indexer lags;
- the status of a transfer (`swagger.yml:974`) is also set by messages the chain rejected
  (`transactions/src/services/tx.rs:124-183`);
- the comment at `chain/src/main.rs:708-711` relies on an error that a query without a
  height (`chain/src/services/namada.rs:265`) does not return: a snapshot can write later
  balances under the height it began with;
- the fallback for pruned blocks (`chain/src/main.rs:122-126`) waits for `RpcError`; a
  pruned block gives `Database` (279-282);
- an acknowledged packet counts twice as withdrawn (`shared/src/block_result.rs:397-410`
  gives `Withdraw` for the sent packet and for its successful acknowledgement), and a
  withdrawal that failed or timed out, and was refunded, stays counted once:
  `FlowsCountEvents` and `FlowsNeverLost` speak of events. A deposit is counted by the
  received packet only (`transactions/src/services/tx.rs:26-27`), which says nothing of
  whether the receipt succeeded.

Exceptions written into passing properties, each a way the code can go wrong:

- `PanicsOnlyInSnapshots`: a validator that is created, and bonded to, while a snapshot is
  read makes the snapshot panic on its bond; it is retried on the lost connection a few
  times, then the process ends and begins anew.
- `RowsListed`: a snapshot asks for redelegations to the validators of the current epoch
  (`chain/src/main.rs:729-736`), although it stores the validators of the pipeline epoch:
  those to a validator not yet active are missing.
- `OnlyLaggardsRevert`: a chain indexer that is behind by the pipeline or more sets back
  what the pos indexer wrote, until the pos indexer comes to its next epoch.
- `EventuallyIndexed` of `BlockRows`: a block with two different votes of one voter is
  refused for ever (`chain/src/repository/gov.rs:65`).
- `WaitsForEpochOnly`: at the first block of the node's epoch the rate limits of all its
  tokens are inserted, also of one that a later block brought
  (`chain/src/main.rs:289-303`): the block is refused until the epoch is over.
- `PanicsExplained`: a transaction with a fee token the chain indexer did not come to
  panics the request (`webserver/src/entity/transaction.rs:166`), and so does a duration
  of the first epoch divided by times of a later one
  (`parameters/src/repository/parameters.rs:15-30` refreshes one and not the other).
- `ProposalIds`, `TokensListed`: one proposal of unknown code shifts the ids after it, and
  vouchers of NAM that came over another way are taken for NAM
  (`shared/src/utils.rs:442-491`).

- `BalanceFresh`, `BondsFresh`, `UnbondsFresh`, the same flaw of the checksums: a chain
  indexer that lags behind an epoch decodes its remaining blocks with older code, as the
  first block is recognised by the node's latest epoch (`chain/src/main.rs:266-273`), and
  so does one whose snapshot begins in the middle of an epoch after the one it asked in
  for its checksums (65-66), for the rest of that epoch. If the code was upgraded, what
  their transactions change is not asked for. It comes right for an account with its next
  change that is seen, for a pair likewise only by a snapshot or a reindexing for certain.
  The rewards of an epoch are missed by a process that lags behind its first block.
- `BalanceFresh`: a recipient of public goods funding is asked for if the governance
  indexer listed the payment before (`chain/src/repository/pgf.rs:11-27`). Its tick of the
  activation epoch runs beside the chain indexer's first block of that epoch, and nothing
  orders them.
- `BondsFresh`: a second snapshot leaves old bonds (`stale`); a crash inside a reindexing
  leaves none (`torn`).
- `FinalVotes`: a proposal reset after a tick read it to be executed is executed without
  votes, which nothing tallies again (`raced`).
- `PaidWhenExecuted`: payments of a proposal whose activation epoch passes without a
  complete tick are never listed (`governance/src/repository/governance.rs:62-65` compares
  with equality while `get_all_executed_proposals` uses `le`), nor are those of a proposal
  reset between the two queries (`unpaid`). Of two payments of a proposal to one recipient
  the second is dropped (`governance/src/repository/pgf.rs:32`).
- `PoolListed`: a shielded transfer that leaves over IBC with a transparent refund address
  is listed as two withdrawals from the pool, one for each of its accounts
  (`IbcUnshieldingTransfer`), and the entries of a voucher of NAM, which is taken for NAM,
  are not compared. What does not count as successful (`extraction_fees`) is not listed at
  all.
- `ClaimedNotOffered`: a claim indexed while the rewards indexer holds the amount in
  memory (`racing`). `MarkedWasClaimed`: a claim indexed in a later epoch than its own
  marks the rewards of those epochs as well (`late`).

Ways a crawler stops that no module has, because each is a panic on one event or
message: the process is restarted, takes the same block and panics again.

- a transfer of a non-fungible token over IBC (`todo!` at `shared/src/utils.rs:231-237`
  and `345-348`);
- a message or packet with data that does not parse (`.expect` at
  `shared/src/utils.rs:173-180`, `218`, `317`);
- a packet sent by a transaction of an older node, without its hash in the event, of which
  no transaction is left to be its sender (`transactions/src/services/tx.rs:112-116`).

A packet whose event names an inner transaction that is not taken for successful has no
row at all (`tx.rs:87-93`); the models give every sent packet its row.

## 7. What is only model-checked, and what is not modelled

Only model-checked: the liveness properties (TLAPS has no support for fairness here), which
are `EventuallyIndexed` of two modules, `EventuallyExecuted`, `EventuallyCached`,
`RefreshedParameters` and `WaitsForEpochOnly`. Every other property of a passing run is
also a theorem. What a recursion or a fold over a block computes is out of the prover's
reach as well, which is why `Extraction` has none: it speaks of places.
`TypeOK` of `TransactionsCrawler`, `ChainCrawler`, `Governance`,
`Rewards` and `CometbftCache` is proved, and so no run checks it.

Not modelled:

- orm, migrations, utilities and tests, which have no behaviour of their own; the unique
  and foreign keys that matter are at the actions that meet them;
- chain indexer: revealed keys, MASP rates; slashing, which changes bonds without an
  event; an upgrade of the node's wire format; a reindex combined with a backfill; votes
  of a voter with several delegations, which `query_all_votes` reports one by one and of
  which it drops those that fail;
- chain indexer: which kinds an upgrade leaves alone: it is taken to replace the code of
  all of them;
- transactions indexer: the rows of the MASP pool, gas and history once extracted, so
  `PoolListed` does not see that a block taken again adds nothing
  (`on_conflict_do_nothing`); a sent packet without a successful transaction, or without
  any;
- extraction: amounts, memos, descriptions, the contents of proposals; data that does not
  parse and non-fungible tokens (section 6); a block header without the proposer's Namada
  address, for which no proposer is added to those paid (`shared/src/block.rs:737`);
- block rows: `OnlyLaggardsRevert` compares the tables by what the chain says at the epoch
  each writer is at. That a set of transactions is applied in the order of a hash table
  shows only once the pos indexer comes to the epoch and sets the row right;
- web server: requests of a single read; of those of several, the merged bonds, a wrapper
  with its inner transactions and the validators with their ranks; the RPC reads of a tick
  of the parameters indexer, which are one step (`ReadParameters`); blocks in which only
  balances of vouchers change, for which supplies are asked as well (`QueriesSupplies`);
  filters, the rounding of times (`epoch_progress` is negative at the first block of an
  epoch).

## 8. How to run it

    tlc -config tx_crawl.cfg MCTransactions.tla      # and so on, as PROJECT.json lists
    tlapm GovernanceProofs.tla
