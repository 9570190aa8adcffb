----------------------------- MODULE BlockRows ------------------------------
(***************************************************************************)
(* Rows that refer to other rows, and the rows two indexers write.  The    *)
(* chain indexer (chain/src/main.rs) begins with a snapshot of the node    *)
(* and goes on block by block; it inserts the validators a block creates,  *)
(* announces changes of their state and commission at once, and refuses a  *)
(* block whose bonds or redelegations name a validator without a row.  The *)
(* pos indexer (pos/src/main.rs) writes every validator as it is at the    *)
(* beginning of an epoch, where a change shows Pipeline epochs after its   *)
(* block.                                                                  *)
(*                                                                         *)
(* A row of a validator is its state and how often its commission changed; *)
(* voting power moves with the state and is left out, as are the           *)
(* descriptions.  There is one delegator, who bonds and redelegates, and   *)
(* one voter with one delegation, who votes on one proposal: the node      *)
(* keeps his last vote.  Whether a recorded block is recent enough to go   *)
(* on from is ChainCrawler's: here it may be or not.                       *)
(***************************************************************************)
EXTENDS Integers, Sequences, FiniteSets, FiniteSetsExt

CONSTANTS
    Validators,
    Genesis,        \* those that are validators from the beginning
    Pipeline,       \* epochs until a change takes effect
    Blocks,         \* the blocks considered: sequences of transactions
    MaxBlocks,      \* bound: blocks of the chain
    MaxEpoch,       \* bound: epochs of the chain
    MaxFaults       \* bound: processes that are killed or end over the node

\* The changes of a validator, what refers to one, and the votes.
StateKinds == {"become", "deactivate", "reactivate"}
Transactions ==
    (StateKinds \cup {"commission", "bond", "redelegate"}) \X Validators
        \cup {"vote"} \X {"yay", "nay", "abstain"}

ASSUME PipelineAssumption == Pipeline \in Nat \ {0} /\ Genesis \subseteq Validators
ASSUME BlocksAssumption == Blocks \subseteq Seq(Transactions) /\ {MaxBlocks, MaxEpoch, MaxFaults} \subseteq Nat

VARIABLES
    chain,          \* node: the transactions in order, with their blocks and epochs
    tip,            \* node: the last block and its epoch
    task,           \* chain indexer: what it does next, "down" without a process
    conn,           \* chain indexer: its connection, "up" or "poisoned"
    at,             \* chain indexer: the block of the attempt
    snap,           \* chain indexer: what it read for the snapshot
    posNext,        \* pos indexer: the epoch it takes next
    rows,           \* database: validators
    redelegations,  \* database: the validators with a redelegation of the delegator
    vote,           \* database: the row of the voter, "none" without
    height,         \* database: the block the chain indexer recorded
    posEpoch,       \* database: the epoch the pos indexer recorded
    base,           \* history: the block and the epoch of the last snapshot
    faults          \* how many faults there were

node == <<chain, tip>>
process == <<task, conn, at, snap>>
pos == <<posNext, posEpoch>>
database == <<rows, redelegations, vote, height>>
vars == <<node, process, pos, database, base, faults>>

-----------------------------------------------------------------------------
(* The node.  Values of an epoch that has begun never change.  A set of   *)
(* transactions is the set of their positions in the chain.                *)

Of(txs, among, v, kinds) == {i \in among : txs[i].kind \in kinds /\ txs[i].arg = v}
Effective(txs, x) == {i \in DOMAIN txs : txs[i].epoch + Pipeline <= x}
InBlock(h) == {i \in DOMAIN chain : chain[i].block = h}
Named(txs, among, kind) == {txs[i].arg : i \in {j \in among : txs[j].kind = kind}}

\* The validators, and the state and commission of one, after some of the changes.
SetAfter(txs, among) == Genesis \cup Named(txs, among, "become")
StateAfter(txs, among, v) ==
    LET changes == Of(txs, among, v, StateKinds)
    IN IF changes # {} /\ txs[Max(changes)].kind = "deactivate" THEN "inactive" ELSE "consensus"
CommissionAfter(txs, among, v) == Cardinality(Of(txs, among, v, {"commission"}))

NoRow == [state |-> "none", commission |-> 0]
RowsAfter(txs, among) ==
    [v \in Validators |-> IF v \in SetAfter(txs, among)
                          THEN [state |-> StateAfter(txs, among, v),
                                commission |-> CommissionAfter(txs, among, v)]
                          ELSE NoRow]

\* The same at epoch x.
SetAt(txs, x) == SetAfter(txs, Effective(txs, x))
RowsAt(txs, x) == RowsAfter(txs, Effective(txs, x))

\* What the node executes: changes of a validator that exists, and that are one.
Executes(txs, t) ==
    LET later == Effective(txs, t.epoch + Pipeline)
        State(s) == t.arg \in SetAfter(txs, later) /\ StateAfter(txs, later, t.arg) = s
    IN CASE t.kind = "become" -> t.arg \notin SetAfter(txs, later)
         [] t.kind = "deactivate" -> State("consensus")
         [] t.kind = "reactivate" -> State("inactive")
         [] t.kind = "vote" -> TRUE
         [] OTHER -> t.arg \in SetAfter(txs, later)

Grow(block, epoch) ==
    LET added == [i \in DOMAIN block |-> [kind |-> block[i][1], arg |-> block[i][2],
                                          block |-> tip.block + 1, epoch |-> epoch]]
    IN /\ tip.block < MaxBlocks
       /\ \A i \in DOMAIN added : Executes(chain \o SubSeq(added, 1, i - 1), added[i])
       /\ chain' = chain \o added
       /\ tip' = [block |-> tip.block + 1, epoch |-> epoch]
       /\ UNCHANGED <<process, pos, database, base, faults>>

-----------------------------------------------------------------------------
(* The snapshot: try_initial_query, retried a few times by initial_query.  *)

NoSnap == [block |-> 0, epoch |-> 0, rows |-> [v \in Validators |-> NoRow],
           redelegations |-> {}, bonds |-> {}, vote |-> "none"]

Init ==
    /\ chain = <<>> /\ tip = [block |-> 1, epoch |-> 1]
    /\ task = "down" /\ conn = "up" /\ at = 0 /\ snap = NoSnap
    /\ posNext = 1 /\ posEpoch = 0
    /\ rows = [v \in Validators |-> NoRow] /\ redelegations = {} /\ vote = "none" /\ height = 0
    /\ base = [block |-> 0, epoch |-> 0] /\ faults = 0

\* A process goes on from the block it recorded, which it tries again, or
\* begins with a snapshot if there is none or it is too old.
Start(stage) ==
    /\ task = "down"
    /\ stage = "trial" => height > 0
    /\ task' = stage /\ conn' = "up"
    /\ at' = IF stage = "trial" THEN height ELSE 0
    /\ snap' = NoSnap
    /\ UNCHANGED <<node, pos, database, base, faults>>

SnapshotStep(stage, next) ==
    /\ task = stage
    /\ task' = next
    /\ UNCHANGED <<node, conn, at, pos, database, base, faults>>

SnapshotHead ==
    /\ SnapshotStep("head", "set")
    /\ snap' = [snap EXCEPT !.block = tip.block, !.epoch = tip.epoch]

\* Faulty variant: the validators of the current epoch.
SetOfEpoch(epoch) == RowsAt(chain, epoch)

\* Validators are read at the pipeline: they can be bonded to in advance.
SetInAdvance(epoch) == RowsAt(chain, epoch + Pipeline)

SnapshotSet ==
    /\ SnapshotStep("set", "redelegations")
    /\ snap' = [snap EXCEPT !.rows = SetInAdvance(snap.epoch)]

\* The redelegations are asked for the validators of the epoch.
SnapshotRedelegations ==
    /\ SnapshotStep("redelegations", "stake")
    /\ snap' = [snap EXCEPT !.redelegations =
                   Named(chain, DOMAIN chain, "redelegate") \cap SetAt(chain, snap.epoch)]

Votes(among) == {i \in among : chain[i].kind = "vote"}
VoteIn(among) == IF Votes(among) = {} THEN "none" ELSE chain[Max(Votes(among))].arg

\* Bonds and votes, of the chain as it is by now.
SnapshotStake ==
    /\ SnapshotStep("stake", "write")
    /\ snap' = [snap EXCEPT !.bonds = Named(chain, DOMAIN chain, "bond"),
                           !.vote = VoteIn(DOMAIN chain)]

With(table, new) == [v \in Validators |-> IF new[v] # NoRow THEN new[v] ELSE table[v]]
HaveRows(table) == {v \in Validators : table[v] # NoRow}

InsertVote(new) == IF new = "none" THEN vote ELSE new

\* Faulty variant: only the last rows are kept.
InsertRedelegationsOver(new) == new
InsertRedelegations(new) == redelegations \cup new

SnapshotFits ==
    snap.bonds \cup snap.redelegations \subseteq HaveRows(With(rows, snap.rows))

WriteSnapshot ==
    /\ task = "write" /\ conn = "up" /\ SnapshotFits
    /\ rows' = With(rows, snap.rows)
    /\ redelegations' = InsertRedelegations(snap.redelegations)
    /\ vote' = InsertVote(snap.vote)
    /\ height' = snap.block
    /\ base' = [block |-> snap.block, epoch |-> snap.epoch]
    /\ task' = "crawl" /\ at' = snap.block
    /\ snap' = NoSnap
    /\ UNCHANGED <<node, conn, pos, faults>>

-----------------------------------------------------------------------------
(* A block: crawling_fn, from the trial at the start or from the loop.     *)

\* The snapshot's block is crawled once more: the loop begins with it.
Crawling == task \in {"trial", "crawl"}

\* One row for the voter: two different votes in a block are two rows of one
\* INSERT for it, which the database refuses.
VotesAccepted == Cardinality(Named(chain, InBlock(at), "vote")) <= 1

\* A new validator is inactive for now, whatever its row was.
UpsertValidators(table) ==
    [v \in Validators |-> IF v \in Named(chain, InBlock(at), "become")
                          THEN [state |-> "inactive", commission |-> 0] ELSE table[v]]

Announced == [deactivate |-> "deactivating", reactivate |-> "reactivating"]

\* The changes of a block are a set: of two for a validator, either is last.
UpsertStates(table, last) ==
    LET Changes(v) == {kind \in DOMAIN Announced : v \in Named(chain, InBlock(at), kind)}
        Final(v) == IF last[v] \in Changes(v) THEN last[v] ELSE CHOOSE kind \in Changes(v) : TRUE
    IN [v \in Validators |-> IF Changes(v) = {} \/ table[v] = NoRow THEN table[v]
                             ELSE [table[v] EXCEPT !.state = Announced[Final(v)]]]

\* The new commission is in force at once, also in the row of the node's epoch.
UpdateMetadata(table) ==
    [v \in Validators |-> IF v \in Named(chain, InBlock(at), "commission") /\ table[v] # NoRow
                          THEN [table[v] EXCEPT !.commission =
                              CommissionAfter(chain, {i \in DOMAIN chain : chain[i].block <= at}, v)]
                          ELSE table[v]]

\* Faulty variant: bonds are inserted before the validators.
KnownBefore == HaveRows(rows)

\* The validators that bonds and redelegations can refer to.
KnownInWrite == HaveRows(UpsertValidators(rows))

BlockFits == Named(chain, InBlock(at), "bond") \subseteq KnownInWrite

Attempt ==
    /\ Crawling /\ at <= tip.block
    /\ UNCHANGED <<node, pos, base, faults>>

WriteBlock ==
    /\ Attempt /\ conn = "up" /\ VotesAccepted
    /\ BlockFits /\ Named(chain, InBlock(at), "redelegate") \subseteq KnownInWrite
    /\ \E last \in [Validators -> DOMAIN Announced] :
          rows' = UpdateMetadata(UpsertStates(UpsertValidators(rows), last))
    /\ redelegations' = InsertRedelegations(Named(chain, InBlock(at), "redelegate"))
    /\ vote' = InsertVote(VoteIn(InBlock(at)))
    /\ height' = at
    /\ task' = "crawl" /\ at' = at + 1
    /\ UNCHANGED <<conn, snap>>

Unfit ==
    IF task = "write" THEN ~SnapshotFits
    ELSE Crawling /\ at <= tip.block /\ VotesAccepted /\ ~BlockFits

\* A bond of a validator without a row panics in the closure that holds the
\* connection, which is of no use from then on.  A snapshot is retried a few times,
\* then the process ends with the error; the loop would retry for ever.
BondPanics ==
    /\ conn = "up" /\ Unfit
    /\ conn' = "poisoned"
    /\ task' = IF task = "write" THEN "down" ELSE "crawl"
    /\ UNCHANGED <<node, at, snap, pos, database, base, faults>>

\* The node fails: the trial gives way to a snapshot, the loop tries again.
TrialFails ==
    /\ task = "trial"
    /\ task' = "head" /\ at' = 0
    /\ UNCHANGED <<node, conn, snap, pos, database, base, faults>>

\* Refused votes are an error of the database: the trial goes over to the loop.
TrialRefused ==
    /\ Attempt /\ task = "trial" /\ ~VotesAccepted
    /\ task' = "crawl"
    /\ UNCHANGED <<conn, at, snap, database>>

Killed ==
    /\ task # "down" /\ faults < MaxFaults
    /\ task' = "down"
    /\ faults' = faults + 1
    /\ UNCHANGED <<node, conn, at, snap, pos, database, base>>

-----------------------------------------------------------------------------
(* The pos indexer.  It is one action, for what it reads no longer changes.*)

PosTick ==
    /\ posNext <= tip.epoch
    /\ rows' = With(rows, RowsAt(chain, posNext))
    /\ posEpoch' = posNext /\ posNext' = posNext + 1
    /\ UNCHANGED <<node, process, redelegations, vote, height, base, faults>>

\* A process begins with the epoch of the node.
PosRestart ==
    /\ posNext < tip.epoch /\ faults < MaxFaults
    /\ posNext' = tip.epoch
    /\ faults' = faults + 1
    /\ UNCHANGED <<node, process, posEpoch, database, base>>

-----------------------------------------------------------------------------
Snapshots ==
    \/ SnapshotHead \/ SnapshotSet \/ SnapshotRedelegations \/ SnapshotStake
    \/ WriteSnapshot
Crawls == WriteBlock \/ TrialRefused \/ BondPanics
Indexer == (\E stage \in {"trial", "head"} : Start(stage)) \/ Snapshots \/ Crawls

Next ==
    \/ \E block \in Blocks, epoch \in tip.epoch..MaxEpoch : epoch <= tip.epoch + 1 /\ Grow(block, epoch)
    \/ Indexer \/ TrialFails \/ Killed
    \/ PosTick \/ PosRestart

Spec == Init /\ [][Next]_vars

\* The processes run, and are started again when they end (restart:
\* unless-stopped in docker-compose.yml).
FairSpec == Spec /\ WF_vars(Indexer) /\ WF_vars(PosTick)

-----------------------------------------------------------------------------
(* Properties.                                                             *)

\* The indexer panics over the validator of a bond only in a snapshot, and only if
\* one came after the block the snapshot began with: a block never names one whose
\* row is not there, neither after a snapshot nor while the pos indexer lags.
PanicsOnlyInSnapshots ==
    conn = "poisoned" =>
        /\ task = "down"
        /\ \E i \in DOMAIN chain : chain[i].kind = "become" /\ chain[i].block > snap.block

\* Every redelegation of an indexed block has its row, but for those to a
\* validator that was not in the set of the snapshot's epoch.  The row of the
\* voter is his last vote of an indexed block, or one he cast since: a vote that
\* none of an indexed block comes after.
RowsListed ==
    /\ \A i \in DOMAIN chain :
          chain[i].kind = "redelegate" /\ chain[i].block <= height =>
              \/ chain[i].arg \in redelegations
              \/ chain[i].block <= base.block /\ chain[i].arg \notin SetAt(chain, base.epoch)
    /\ (\E i \in Votes(DOMAIN chain) : chain[i].block <= height) =>
          \E i \in Votes(DOMAIN chain) :
              /\ vote = chain[i].arg
              /\ \A j \in Votes(DOMAIN chain) : j > i => chain[j].block > height

\* What is shown of a validator, if the last of its changes has taken effect.
Settled(v) ==
    /\ v \in SetAt(chain, posEpoch)
    /\ Of(chain, DOMAIN chain, v, StateKinds \cup {"commission"}) \subseteq Effective(chain, posEpoch)
Right(v) == rows[v] = RowsAt(chain, posEpoch)[v]

\* The write of a block or a snapshot that is Pipeline epochs older than what the
\* pos indexer has written.
Lags ==
    \/ task = "write" /\ snap.epoch + Pipeline <= posEpoch
    \/ Crawling /\ \E i \in DOMAIN chain : chain[i].block = at /\ chain[i].epoch + Pipeline <= posEpoch

\* A row that shows what the chain has settled on is set back only by a chain
\* indexer that lags behind the pos indexer by the pipeline or more.
OnlyLaggardsRevert ==
    [][\A v \in Validators : Settled(v) /\ Right(v) => Right(v)' \/ Lags]_vars

\* Every block is indexed at last, and the crawl never panics, unless a block has
\* two different votes of one voter.
EventuallyIndexed ==
    <>[](height = tip.block \/ (Crawling /\ at <= tip.block /\ ~VotesAccepted))
=============================================================================
