---------------------------- MODULE ChainCrawler ----------------------------
(***************************************************************************)
(* The chain indexer (chain/src/main.rs).  At startup the process decides  *)
(* between going on from the recorded block, which it first tries to crawl *)
(* once (the trial), and a snapshot of the node's whole state; an operator *)
(* may ask for a backfill, and for the bonds to be indexed anew.  Then it  *)
(* crawls: it extracts from a block what the transactions changed, asks    *)
(* the node for the new values, and writes them in one transaction.        *)
(*                                                                         *)
(* The kind of a transaction is found with the checksums of the wasm code, *)
(* which the process asks for at startup and at the first block of the     *)
(* node's epoch; a transaction of other code is of an unknown kind, and    *)
(* only its fees are known to change anything.                             *)
(*                                                                         *)
(* Balances are asked for at the height of the block; bonds and unbonds as *)
(* they are when the node answers, which may be blocks later.  A value is  *)
(* represented by the height at which it last changed, and 0 stands for    *)
(* "there is none".  The tables written like the balances (supplies, rate  *)
(* limits, validators, proposals, votes, keys) are left out here.          *)
(***************************************************************************)
EXTENDS Crawl, FiniteSets

CONSTANTS
    Accounts,       \* an owner and a token
    Sources,        \* delegators
    Validators,
    Epochs,
    CodeOf,         \* the version of the wasm code in each epoch
    UnbondingLen,   \* epochs between an unbond and its withdraw epoch
    MaxHeight,      \* bound: the length of the chain
    Chains,         \* the histories considered
    Limit,          \* --storage-read-past-height-limit
    MaxPruned,      \* bound: the heights the node prunes
    MaxRare         \* bound: lookups without answer, panicking tasks, backfills
                    \*        and reindexings, together

Heights == 1..MaxHeight
Pairs == Sources \X Validators

\* The accounts its transactions change, those among them that no kind has to be
\* known for (the payers of fees, the proposer), and the ones the beginning of an
\* epoch changes, with rewards and with public goods funding; the pairs its
\* transactions bond and unbond; the pairs left without a bond, and those whose
\* matured unbonds are withdrawn.
Block == [epoch : Epochs, touched : SUBSET Accounts, paid : SUBSET Accounts,
          rewarded : SUBSET Accounts, funded : SUBSET Accounts,
          bonded : SUBSET Pairs, unbonded : SUBSET Pairs,
          drained : SUBSET Pairs, withdrawn : SUBSET Pairs]

ASSUME BoundsAssumption ==
    /\ MaxHeight \in Nat \ {0}
    /\ MaxPruned \in 0..(MaxHeight - 1)
    /\ {Limit, MaxRare} \subseteq Nat
    /\ UnbondingLen \in Nat \ {0}
    /\ Epochs \subseteq Nat
    /\ DOMAIN CodeOf = Epochs
    /\ IsFiniteSet(Accounts)
    /\ Accounts \cap Pairs = {}

\* Epochs do not go back, only the first block of an epoch pays rewards and public
\* goods funding, and a block does not both bond and empty a pair.
ASSUME ChainAssumption ==
    /\ Chains \subseteq [Heights -> Block]
    /\ \A c \in Chains : \A h \in Heights :
          /\ c[h].bonded \cap c[h].drained = {}
          /\ c[h].paid \subseteq c[h].touched
          /\ \A g \in 1..(h - 1) :
                /\ c[g].epoch <= c[h].epoch
                /\ c[g].epoch = c[h].epoch => c[h].rewarded \cup c[h].funded = {}

VARIABLES
    chain, tip,     \* node: the history, and its last committed block
    pruned,         \* node and cometbft table: the highest block neither has
    stage,          \* process: what it does, "idle" without a process
    recording,      \* process: should_update_crawler_state
    reindex,        \* process: --reindex-bonds has yet to be done
    conn,           \* process: the one database connection, "up" or "lost"
    checksums,      \* process: the epoch of the node when they were asked for
    newEpoch,       \* process: the block is the first of the node's epoch
    recipients,     \* process: the accounts read from public_good_funding
    balancesAt,     \* process: the height at which the node answered a lookup
    bondsAt,        \*    of a balance, of the bonds of a pair,
    unbondsAt,      \*    of the unbonds of a pair
    crawlerState,   \* database: last_processed_block, 0 without a row
    balances,       \* database: the row of an account at a height
    bonds,          \* database: the row of a pair and the epoch it was bonded in
    unbonds,        \* database: the row of a pair and the epoch it was unbonded in
    lagging,        \* history: the node had left the epoch of the block it was asked for
    leapt,          \* history: a snapshot is of a later epoch than the checksums
    missed,         \* history: the keys of which the recorded block lacks a lookup
    stale,          \* history: a snapshot was written over older rows
    torn,           \* history: the bonds are deleted and not yet inserted anew
    rare            \* how many of the rare events happened

node == <<chain, tip, pruned>>
mode == <<stage, recording, reindex>>
codes == <<checksums, leapt>>
lookups == <<newEpoch, lagging, recipients, balancesAt, bondsAt, unbondsAt>>
database == <<crawlerState, balances, bonds, unbonds>>
history == <<missed, stale, torn>>
vars == <<crawlVars, node, mode, codes, conn, lookups, database, history, rare>>

-----------------------------------------------------------------------------
(* The state of the chain at a height.                                     *)

Highest(S) == IF S = {} THEN 0 ELSE CHOOSE h \in S : \A g \in S : g <= h

BalanceChange(a, b) == a \in b.touched \cup b.rewarded \cup b.funded

BalanceAt(a, h) == Highest({g \in 1..h : BalanceChange(a, chain[g])})

BondChange(d, b) == d \in b.bonded \cup b.unbonded \cup b.drained

\* The epochs in which bonds of the pair were made that still hold.
BondedIn(d, h) ==
    {chain[g].epoch : g \in {k \in 1..h : /\ d \in chain[k].bonded
                                          /\ \A j \in (k + 1)..h : d \notin chain[j].drained}}

BondsOf(d, h) ==
    [e \in Epochs |-> IF e \in BondedIn(d, h)
                      THEN Highest({g \in 1..h : BondChange(d, chain[g])}) ELSE 0]

Matured(e, b) == e + UnbondingLen <= b.epoch

UnbondsOf(d, h) ==
    [e \in Epochs |->
        Highest({g \in 1..h : /\ chain[g].epoch = e /\ d \in chain[g].unbonded
                              /\ \A j \in (g + 1)..h :
                                    ~(d \in chain[j].withdrawn /\ Matured(e, chain[j]))})]

-----------------------------------------------------------------------------
(* What the process holds in memory of an attempt.                         *)

NotAsked == -1
NoAnswer == 0

Nothing(keys) == [k \in keys |-> NotAsked]

Forget ==
    /\ newEpoch' = FALSE
    /\ lagging' = FALSE
    /\ recipients' = {}
    /\ balancesAt' = Nothing(Accounts)
    /\ bondsAt' = Nothing(Pairs)
    /\ unbondsAt' = Nothing(Pairs)

Answered(at) == {k \in DOMAIN at : at[k] > 0}
Unanswered(at) == {k \in DOMAIN at : at[k] = NoAnswer}

Stop == Gone /\ stage' = "idle" /\ recording' = FALSE /\ reindex' = FALSE

\* main() has a height to crawl from, and reindexes the bonds before it does.
EnterCrawl(first) ==
    /\ CrawlFrom(first)
    /\ stage' = IF reindex THEN "reindex" ELSE "crawl"
    /\ UNCHANGED <<recording, reindex>>

Stage ==
    IF task' = "down" THEN stage' = "idle" /\ recording' = FALSE /\ reindex' = FALSE
    ELSE UNCHANGED mode

BeginSnapshot == stage' = "snapshot" /\ task' = "poll"

\* An attempt at a block ends in an error.  In the trial an RpcError leads to a
\* snapshot, and any other error to the crawl of the same block.  A snapshot is
\* tried a few times, and main returns its last error, as it does that of a
\* reindexing.
EndsIn(error) ==
    /\ Forget
    /\ \/ stage = "crawl" /\ FailWith(error) /\ Stage
       \/ /\ stage = "trial" /\ error = "RpcError"
          /\ BeginSnapshot
          /\ UNCHANGED <<index, mustExit, recording, reindex>>
       \/ stage = "trial" /\ error # "RpcError" /\ EnterCrawl(index)
       \/ stage = "snapshot" /\ Retry /\ UNCHANGED mode
       \/ stage \in {"snapshot", "reindex"} /\ Stop

EndsWell ==
    /\ Forget
    /\ \/ stage = "crawl" /\ NextIndex /\ Stage
       \/ stage = "trial" /\ EnterCrawl(index + 1)

-----------------------------------------------------------------------------
(* The node.                                                               *)

Grow ==
    /\ tip < MaxHeight
    /\ tip' = tip + 1
    /\ UNCHANGED <<crawlVars, chain, pruned, mode, codes, conn, lookups, database, history, rare>>

Prune ==
    /\ pruned < MaxPruned
    /\ pruned + 1 < tip
    /\ pruned' = pruned + 1
    /\ UNCHANGED <<crawlVars, chain, tip, mode, codes, conn, lookups, database, history, rare>>

CurrentEpoch == chain[tip].epoch

FirstBlockInEpoch ==
    CHOOSE h \in 1..tip : /\ chain[h].epoch = CurrentEpoch
                          /\ \A g \in 1..tip : chain[g].epoch = CurrentEpoch => h <= g

\* Faulty variant: the checksums are asked for at startup only.
LoadedOnce ==
    /\ checksums' = IF task = "down" THEN CurrentEpoch ELSE checksums
    /\ leapt' = FALSE

\* query_checksums: the code of the last committed block.
Refreshed == checksums' = CurrentEpoch /\ leapt' = FALSE

-----------------------------------------------------------------------------
(* Startup: main() up to the trial, the snapshot, or the crawl.            *)

\* last_block_height - storage_read_past_height_limit wraps around below zero.
CanContinue(h) == tip >= Limit /\ h >= tip - Limit

\* The trial takes the recorded block again.
ResumeAt == crawlerState

Started ==
    /\ task = "down"
    /\ tip > 0
    /\ conn' = "up"
    /\ Refreshed
    /\ UNCHANGED <<node, lookups, database, history>>

StartTrial(reindexing) ==
    /\ Started
    /\ crawlerState > 0 /\ CanContinue(crawlerState)
    /\ CrawlFrom(ResumeAt)
    /\ stage' = "trial" /\ recording' = TRUE /\ reindex' = reindexing

StartSnapshot ==
    /\ Started
    /\ ~(crawlerState > 0 /\ CanContinue(crawlerState))
    /\ BeginSnapshot
    /\ recording' = TRUE
    /\ UNCHANGED <<index, mustExit, reindex, rare>>

StartNormal ==
    \/ StartSnapshot
    \/ StartTrial(FALSE) /\ UNCHANGED rare
    \/ rare < MaxRare /\ StartTrial(TRUE) /\ rare' = rare + 1

\* --backfill-from: a height too far back is replaced by a snapshot, after
\* which the crawl does not record its progress either.
StartBackfill(h) ==
    /\ Started
    /\ rare < MaxRare
    /\ rare' = rare + 1
    /\ recording' = FALSE
    /\ UNCHANGED reindex
    /\ IF CanContinue(h) THEN CrawlFrom(h) /\ stage' = "crawl"
       ELSE BeginSnapshot /\ UNCHANGED <<index, mustExit>>

-----------------------------------------------------------------------------
(* An attempt at a block: crawling_fn, in the trial and in the crawl.      *)

AtBlock(phase) == stage \in {"trial", "crawl"} /\ task = phase

\* can_process, the first block of the node's current epoch, and the block; at the
\* first block of that epoch the checksums are asked for in between.
ReadBlock ==
    /\ AtBlock("poll")
    /\ pruned < index /\ index <= tip
    /\ conn = "up"
    /\ newEpoch' = (FirstBlockInEpoch = index)
    /\ lagging' = (CurrentEpoch # chain[index].epoch)
    /\ Proceed(IF newEpoch' THEN "refresh" ELSE "balances")
    /\ UNCHANGED <<node, mode, codes, conn, recipients, balancesAt, bondsAt, unbondsAt, database,
                   history, rare>>

RefreshChecksums ==
    /\ AtBlock("refresh")
    /\ Refreshed
    /\ lagging' = (CurrentEpoch # chain[index].epoch)
    /\ Proceed("balances")
    /\ UNCHANGED <<node, mode, conn, newEpoch, recipients, balancesAt, bondsAt, unbondsAt, database,
                   history, rare>>

\* Neither the cometbft table nor the node has the block; the error of
\* get_cometbft_block_with_fallback is taken for one of the database.
ReadPruned ==
    /\ AtBlock("poll")
    /\ index <= pruned
    /\ IF FirstBlockInEpoch = index THEN Refreshed ELSE UNCHANGED codes
    /\ EndsIn("Database")
    /\ UNCHANGED <<node, conn, database, history, rare>>

\* Block::from, as far as the kinds of the transactions matter: an upgrade is taken
\* to replace the code of them all.
Decoded(b) ==
    IF CodeOf[checksums] = CodeOf[b.epoch] THEN b
    ELSE [b EXCEPT !.touched = b.paid, !.bonded = {}, !.unbonded = {}, !.drained = {},
                   !.withdrawn = {}]

DecodedBlock == Decoded(chain[index])

\* Faulty variant: what the beginning of an epoch changes is forgotten.
ChangedByTxs(listed) == DecodedBlock.touched

\* The accounts whose balance is asked for: addresses_with_balance_change, and
\* on the first block of an epoch the validators and the `listed` PGF recipients.
ChangedBalances(listed) ==
    DecodedBlock.touched \cup IF newEpoch THEN chain[index].rewarded \cup listed ELSE {}

\* query_balance asks at the height of the block, and drops what fails.  The table
\* of the recipients is the governance indexer's: it may hold any of them yet.
QueryBalances ==
    /\ AtBlock("balances")
    /\ \E listed \in IF newEpoch THEN SUBSET Accounts ELSE {{}} :
       \E lost \in SUBSET ChangedBalances(listed) :
          /\ recipients' = listed
          /\ rare + Cardinality(lost) <= MaxRare
          /\ rare' = rare + Cardinality(lost)
          /\ balancesAt' = [a \in Accounts |-> IF a \in lost THEN NoAnswer
                                ELSE IF a \in ChangedBalances(listed) THEN index ELSE NotAsked]
    /\ Proceed("stake")
    /\ UNCHANGED <<node, mode, codes, conn, newEpoch, lagging, bondsAt, unbondsAt, database, history>>

BondAddresses(b) == b.bonded \cup b.unbonded \cup b.drained

\* A lookup is answered with the last state, or dropped after its last retry.
Answers(answer) ==
    \/ answer = tip /\ UNCHANGED rare
    \/ answer = NoAnswer /\ rare < MaxRare /\ rare' = rare + 1

QueryBond(d) ==
    /\ AtBlock("stake")
    /\ d \in BondAddresses(DecodedBlock) /\ bondsAt[d] = NotAsked
    /\ \E answer \in {tip, NoAnswer} :
          Answers(answer) /\ bondsAt' = [bondsAt EXCEPT ![d] = answer]
    /\ UNCHANGED <<crawlVars, node, mode, codes, conn, newEpoch, lagging, recipients, balancesAt,
                   unbondsAt, database, history>>

QueryUnbond(d) ==
    /\ AtBlock("stake")
    /\ \A c \in BondAddresses(DecodedBlock) : bondsAt[c] # NotAsked
    /\ d \in DecodedBlock.unbonded /\ unbondsAt[d] = NotAsked
    /\ \E answer \in {tip, NoAnswer} :
          Answers(answer) /\ unbondsAt' = [unbondsAt EXCEPT ![d] = answer]
    /\ UNCHANGED <<crawlVars, node, mode, codes, conn, newEpoch, lagging, recipients, balancesAt,
                   bondsAt, database, history>>

Queried ==
    /\ AtBlock("stake")
    /\ \A d \in BondAddresses(DecodedBlock) : bondsAt[d] # NotAsked
    /\ \A d \in DecodedBlock.unbonded : unbondsAt[d] # NotAsked
    /\ Proceed("commit")
    /\ UNCHANGED <<node, mode, codes, conn, lookups, database, history, rare>>

Keys(b) == b.touched \cup b.rewarded \cup b.funded \cup BondAddresses(b) \cup b.withdrawn

\* The task that asks for the rate limits on the first block of an epoch
\* panicked: RetryIf gives up, and the crawl goes on with the next block.
JoinFails ==
    /\ AtBlock("commit")
    /\ newEpoch
    /\ rare < MaxRare
    /\ rare' = rare + 1
    /\ EndsIn("TaskJoinError")
    /\ missed' = IF stage = "crawl" /\ recording THEN missed \cup Keys(chain[index]) ELSE missed
    /\ UNCHANGED <<node, codes, conn, database, stale, torn>>

-----------------------------------------------------------------------------
(* The database.                                                           *)

\* insert_balances does nothing where there is a row.
InsertBalances(height) ==
    [a \in Accounts |-> [h \in Heights |->
        IF h = height /\ a \in Answered(balancesAt) /\ balances[a][h] = NotAsked
           /\ (stage = "snapshot" => BalanceAt(a, balancesAt[a]) > 0)
        THEN BalanceAt(a, balancesAt[a]) ELSE balances[a][h]]]

\* clear_bonds: all the pairs the node answered for, with bonds or without.
ClearBonds == [d \in Pairs |->
    IF d \in Answered(bondsAt) THEN [e \in Epochs |-> 0] ELSE bonds[d]]

\* The INSERT ... ON CONFLICT DO UPDATE of the rows that were read.
Upsert(table, read) == [e \in Epochs |-> IF read[e] # 0 THEN read[e] ELSE table[e]]

InsertBonds(table) == [d \in Pairs |->
    IF d \in Answered(bondsAt) THEN Upsert(table[d], BondsOf(d, bondsAt[d])) ELSE table[d]]

InsertUnbonds(table) == [d \in Pairs |->
    IF d \in Answered(unbondsAt) THEN Upsert(table[d], UnbondsOf(d, unbondsAt[d])) ELSE table[d]]

\* Faulty variant: the withdraw epoch of the unbonds is not looked at.
RemoveUnmatured(b, table) == [d \in Pairs |->
    IF d \in b.withdrawn THEN [e \in Epochs |-> 0] ELSE table[d]]

\* remove_withdraws: any of the sources with any of the validators.
RemoveWithdraws(b, table) ==
    LET sources    == {d[1] : d \in b.withdrawn}
        validators == {d[2] : d \in b.withdrawn}
    IN  [d \in Pairs |-> [e \in Epochs |->
            IF d \in sources \X validators /\ Matured(e, b) THEN 0 ELSE table[d][e]]]

\* Faulty variant: the flag is ignored.
RecordedAlways == index

\* upsert_crawler_state, only if should_update_crawler_state.
Recorded == IF recording THEN index ELSE crawlerState

\* What a block that becomes the recorded one does not bring up to date: the
\* lookups that were dropped; what it pays to recipients that were not listed yet;
\* what an epoch pays that the node had left before its first block was crawled; and
\* what is not seen in a block of other code by a process that lags behind the node,
\* or leapt over the block that would have refreshed its checksums.
Lost(b) ==
    Unanswered(balancesAt) \cup Unanswered(bondsAt) \cup Unanswered(unbondsAt)
    \cup (b.funded \ recipients)
    \cup (IF newEpoch THEN {} ELSE b.rewarded)
    \cup (IF lagging \/ leapt THEN Keys(b) \ Keys(Decoded(b)) ELSE {})

\* An account is up to date again once a recorded block has its balance.
MissedAfter(b) ==
    IF ~recording THEN missed
    ELSE (missed \cup IF crawlerState < index THEN Lost(b) ELSE {}) \ Answered(balancesAt)

\* The database transaction of crawling_fn.
WriteBlock ==
    /\ AtBlock("commit")
    /\ conn = "up"
    /\ balances' = InsertBalances(index)
    /\ bonds' = InsertBonds(ClearBonds)
    /\ unbonds' = RemoveWithdraws(DecodedBlock, InsertUnbonds(unbonds))
    /\ crawlerState' = Recorded
    /\ missed' = MissedAfter(chain[index])
    /\ UNCHANGED <<node, codes, stale, torn, rare>>

Commit == WriteBlock /\ EndsWell /\ UNCHANGED conn

\* The transaction is committed, but the connection breaks before the client
\* hears of it, and is not replaced.
CommitUnheard == WriteBlock /\ EndsIn("Database") /\ conn' = "lost"

\* Any other attempt that ends early, at a block, a snapshot or a reindexing.
AttemptFails ==
    /\ task # "down"
    /\ \E error \in {"NoAction", "RpcError", "Database"} : EndsIn(error)
    /\ UNCHANGED <<node, codes, conn, database, history, rare>>

-----------------------------------------------------------------------------
(* The snapshot: try_initial_query.                                        *)

SnapshotHead ==
    /\ stage = "snapshot" /\ task = "poll"
    /\ conn = "up"
    /\ task' = "balances" /\ index' = tip
    /\ leapt' = (/\ CurrentEpoch # checksums
                 /\ \E g \in 1..(tip - 1) : chain[g].epoch = CurrentEpoch)
    /\ UNCHANGED <<mustExit, node, mode, checksums, conn, lookups, database, history, rare>>

\* query_all_balances asks for the last state, one token after the other.
SnapshotBalance(a) ==
    /\ stage = "snapshot" /\ task = "balances"
    /\ balancesAt[a] = NotAsked
    /\ balancesAt' = [balancesAt EXCEPT ![a] = tip]
    /\ UNCHANGED <<crawlVars, node, mode, codes, conn, newEpoch, lagging, recipients, bondsAt,
                   unbondsAt, database, history, rare>>

\* query_all_bonds_and_unbonds is one query of the last state.
SnapshotStake ==
    /\ stage = "snapshot" /\ task = "balances"
    /\ Accounts = Answered(balancesAt)
    /\ bondsAt' = [d \in Pairs |-> tip]
    /\ unbondsAt' = [d \in Pairs |-> tip]
    /\ Proceed("commit")
    /\ UNCHANGED <<node, mode, codes, conn, newEpoch, lagging, recipients, balancesAt, database,
                   history, rare>>

Empty == [d \in Pairs |-> [e \in Epochs |-> 0]]

\* Nothing is removed from the tables.
WriteSnapshot ==
    /\ stage = "snapshot" /\ task = "commit"
    /\ conn = "up"
    /\ balances' = InsertBalances(index)
    /\ bonds' = InsertBonds(bonds)
    /\ unbonds' = InsertUnbonds(unbonds)
    /\ crawlerState' = index
    /\ missed' = {}
    /\ stale' = (stale \/ <<bonds, unbonds>> # <<Empty, Empty>>)
    /\ torn' = FALSE
    /\ UNCHANGED <<node, codes, rare>>

\* The crawl begins with the height of the snapshot.
Snapshot ==
    /\ WriteSnapshot
    /\ Forget
    /\ CrawlFrom(index)
    /\ stage' = "crawl"
    /\ UNCHANGED <<recording, reindex, conn>>

SnapshotUnheard == WriteSnapshot /\ EndsIn("Database") /\ conn' = "lost"

-----------------------------------------------------------------------------
(* --reindex-bonds: the tables are emptied by two statements of their own, *)
(* and filled by a transaction.                                            *)

ReindexRead ==
    /\ stage = "reindex" /\ task = "poll"
    /\ bondsAt' = [d \in Pairs |-> tip]
    /\ unbondsAt' = [d \in Pairs |-> tip]
    /\ Proceed("bonds")
    /\ UNCHANGED <<node, mode, codes, conn, newEpoch, lagging, recipients, balancesAt, database,
                   history, rare>>

DeleteBonds ==
    /\ stage = "reindex" /\ task = "bonds"
    /\ conn = "up"
    /\ bonds' = Empty
    /\ torn' = TRUE
    /\ Proceed("unbonds")
    /\ UNCHANGED <<node, mode, codes, conn, lookups, crawlerState, balances, unbonds, missed, stale,
                   rare>>

DeleteUnbonds ==
    /\ stage = "reindex" /\ task = "unbonds"
    /\ conn = "up"
    /\ unbonds' = Empty
    /\ Proceed("commit")
    /\ UNCHANGED <<node, mode, codes, conn, lookups, crawlerState, balances, bonds, history, rare>>

ReindexBonds ==
    /\ stage = "reindex" /\ task = "commit"
    /\ conn = "up"
    /\ bonds' = InsertBonds(bonds)
    /\ unbonds' = InsertUnbonds(unbonds)
    /\ missed' = missed \ Pairs
    /\ stale' = FALSE /\ torn' = FALSE
    /\ Forget
    /\ CrawlFrom(index)
    /\ stage' = "crawl" /\ reindex' = FALSE
    /\ UNCHANGED <<node, codes, recording, conn, crawlerState, balances, rare>>

-----------------------------------------------------------------------------

\* Ctrl-C is handled once the crawl has begun; before, it kills the process.
Signal ==
    /\ stage = "crawl"
    /\ CtrlC
    /\ UNCHANGED <<node, mode, codes, conn, lookups, database, history, rare>>

Killed ==
    /\ task # "down"
    /\ Stop /\ Forget
    /\ UNCHANGED <<node, codes, conn, database, history, rare>>

Init ==
    /\ CrawlInit
    /\ chain \in Chains
    /\ tip = 0 /\ pruned = 0
    /\ stage = "idle" /\ recording = FALSE /\ reindex = FALSE
    /\ conn = "lost"
    /\ checksums = chain[1].epoch /\ leapt = FALSE
    /\ newEpoch = FALSE /\ lagging = FALSE
    /\ recipients = {}
    /\ balancesAt = Nothing(Accounts)
    /\ bondsAt = Nothing(Pairs) /\ unbondsAt = Nothing(Pairs)
    /\ crawlerState = 0
    /\ balances = [a \in Accounts |-> [h \in Heights |-> NotAsked]]
    /\ bonds = Empty /\ unbonds = Empty
    /\ missed = {} /\ stale = FALSE /\ torn = FALSE
    /\ rare = 0

Starts == StartNormal \/ \E h \in Heights : StartBackfill(h)

CrawlBlock ==
    \/ ReadBlock
    \/ RefreshChecksums
    \/ ReadPruned
    \/ QueryBalances
    \/ \E d \in Pairs : QueryBond(d) \/ QueryUnbond(d)
    \/ Queried
    \/ JoinFails
    \/ Commit
    \/ CommitUnheard

InitialQuery ==
    \/ SnapshotHead
    \/ \E a \in Accounts : SnapshotBalance(a)
    \/ SnapshotStake
    \/ Snapshot
    \/ SnapshotUnheard

Reindexing == ReindexRead \/ DeleteBonds \/ DeleteUnbonds \/ ReindexBonds

Next ==
    \/ Grow
    \/ Prune
    \/ Starts
    \/ CrawlBlock
    \/ InitialQuery
    \/ Reindexing
    \/ AttemptFails
    \/ Signal
    \/ Killed

Spec == Init /\ [][Next]_vars

-----------------------------------------------------------------------------
(* The properties.                                                         *)

Rows == [Pairs -> [Epochs -> 0..MaxHeight]]

TypeOK ==
    /\ task \in {"down", "poll", "refresh", "balances", "stake", "bonds", "unbonds", "commit"}
    /\ index \in 0..(MaxHeight + 1)
    /\ mustExit \in BOOLEAN
    /\ chain \in Chains
    /\ tip \in 0..MaxHeight /\ pruned \in 0..MaxPruned
    /\ stage \in {"idle", "trial", "snapshot", "reindex", "crawl"}
    /\ {recording, reindex, newEpoch, lagging, leapt, stale, torn} \subseteq BOOLEAN
    /\ conn \in {"up", "lost"}
    /\ checksums \in Epochs
    /\ recipients \subseteq Accounts
    /\ balancesAt \in [Accounts -> -1..MaxHeight]
    /\ {bondsAt, unbondsAt} \subseteq [Pairs -> -1..MaxHeight]
    /\ crawlerState \in 0..MaxHeight
    /\ balances \in [Accounts -> [Heights -> -1..MaxHeight]]
    /\ {bonds, unbonds} \subseteq Rows
    /\ missed \subseteq Accounts \cup Pairs
    /\ rare \in 0..MaxRare

\* The balances view: the row of the highest height.
Shown(a) ==
    LET h == Highest({g \in Heights : balances[a][g] # NotAsked})
    IN  IF h = 0 THEN 0 ELSE balances[a][h]

\* The heights from the recorded block on: what is shown may be as of any of them.
Since == crawlerState..tip

\* The balance shown for an account is one it had at the recorded block or
\* later, whatever mix of snapshots, trials, backfills, lagging and restarts
\* wrote the rows, unless the last recorded block that changed it missed it (Lost):
\* its lookup was dropped, its recipient not listed, its block skipped, or taken
\* with old checksums by a process that lags or leapt.
BalanceFresh ==
    crawlerState > 0 =>
        \A a \in Accounts \ missed : \E h \in Since : Shown(a) = BalanceAt(a, h)

\* A row of a bond, or its absence, is what the chain had at the recorded block
\* or later, unless a block missed the pair (Lost).  A row may outlive its bond if a
\* snapshot was written over it.
BondsFresh ==
    (crawlerState > 0 /\ ~torn) =>
        \A d \in Pairs \ missed, e \in Epochs : \E h \in Since :
            \/ bonds[d][e] = BondsOf(d, h)[e]
            \/ stale /\ BondsOf(d, h)[e] = 0

\* The same of the unbonds, which are removed by the blocks that withdraw them
\* and inserted as of a later state of the chain.  Nothing clears the rows of a
\* pair before they are inserted, so one may also be as of an earlier block, of
\* an unbond the chain has withdrawn since.
UnbondsFresh ==
    (crawlerState > 0 /\ ~torn) =>
        \A d \in Pairs \ missed, e \in Epochs : \E h \in Since :
            \/ unbonds[d][e] = UnbondsOf(d, h)[e]
            \/ /\ UnbondsOf(d, h)[e] = 0
               /\ \E g \in 0..crawlerState : unbonds[d][e] = UnbondsOf(d, g)[e]

\* The recorded block does not go back: a backfill does not record, and a
\* snapshot, a trial and a retry record the same block or a later one.
NeverBack == [][crawlerState' >= crawlerState]_vars

\* Only a snapshot, or the panic of a task, may pass over a block.
OneByOne ==
    [][ stage # "snapshot" =>
          \A h \in (crawlerState + 1)..(crawlerState' - 1) : Keys(chain[h]) \subseteq missed ]_vars

\* "Get all the unbonds for an an address" (swagger.yml:272): an unbond that the
\* chain had at the recorded block, and has had since, is in the table.
UnbondsListed ==
    (crawlerState > 0 /\ ~torn) =>
        \A d \in Pairs \ missed, e \in Epochs :
            (\A h \in Since : UnbondsOf(d, h)[e] # 0) => unbonds[d][e] # 0
=============================================================================
