------------------------ MODULE TransactionsCrawler ------------------------
(***************************************************************************)
(* The transactions indexer (transactions/src/main.rs): a process that     *)
(* takes the blocks of the chain one after the other, decodes the          *)
(* transactions of each with the checksums of the wasm code it holds in    *)
(* memory, and writes what it found in one database transaction.           *)
(*                                                                         *)
(* A block is what the indexer reads of it and the properties tell apart:  *)
(* the IBC packets its end events report sent, received and successfully   *)
(* acknowledged, and, in order, the relayer transactions that carry an     *)
(* acknowledgement or a timeout, applied or rejected by the chain.  The    *)
(* rows of the wrapper and inner transactions, of the history, of the gas  *)
(* estimates and of the MASP pool are one thing here, `rows`: they are     *)
(* written together and keyed by the transaction.                          *)
(***************************************************************************)
EXTENDS Crawl, FiniteSets, Sequences

CONSTANTS
    Packets,        \* IBC packets
    Tokens,         \* IBC tokens
    TokenOf,        \* the token a packet moves
    Epochs,         \* the epochs of the chain
    CodeOf,         \* the version of the wasm code in effect in each epoch
    MaxHeight,      \* bound: the length of the chain
    Chains,         \* the histories considered
    FromBlock,      \* --from-block-height
    MaxBackfills    \* bound: how often an operator starts a backfill

Heights == 1..MaxHeight

\* IbcAckStatus; "unknown" is also the status of a row nothing answered yet.
Status == {"unknown", "success", "fail", "timeout"}

Relay == [packet : Packets, status : Status, applied : BOOLEAN]

Block == [epoch : Epochs, sent : SUBSET Packets, received : SUBSET Packets,
          acked : SUBSET Packets, relays : Seq(Relay)]

Happens(kind, c, h) ==
    CASE kind = "sent" -> c[h].sent
      [] kind = "received" -> c[h].received
      [] kind = "acked" -> c[h].acked

Kinds == {"sent", "received", "acked"}

\* The packets a block answers, with an acknowledgement or a timeout.
Answered(b) ==
    {b.relays[i].packet : i \in {j \in DOMAIN b.relays : b.relays[j].applied}}

ASSUME BoundsAssumption ==
    /\ MaxHeight \in Nat \ {0}
    /\ FromBlock \in Heights
    /\ MaxBackfills \in Nat
    /\ IsFiniteSet(Packets)
    /\ Epochs \subseteq Nat
    /\ TokenOf \in [Packets -> Tokens]
    /\ DOMAIN CodeOf = Epochs

\* What the chain guarantees: epochs do not go back, the IBC module sends,
\* receives and acknowledges a packet at most once, and a packet that was sent
\* is answered by at most one applied transaction, in a later block.
ASSUME ChainAssumption ==
    /\ Chains \subseteq [Heights -> Block]
    /\ \A c \in Chains : \A g, h \in Heights :
          g < h => /\ c[g].epoch <= c[h].epoch
                   /\ \A kind \in Kinds :
                        Happens(kind, c, g) \cap Happens(kind, c, h) = {}
                   /\ Answered(c[h]) \cap Answered(c[g]) = {}
                   /\ Answered(c[g]) \cap c[h].sent = {}

VARIABLES
    chain,          \* the history, which the node reveals block by block
    tip,            \* the height of the last committed block
    checksums,      \* process: the version of the code the checksums are of
    backfilling,    \* process: --backfill-from was given
    conn,           \* process: the one database connection, "up" or "lost"
    crawlerState,   \* database: last_processed_block, 0 without a row
    rows,           \* database: the transactions of a height: none, or their kinds
    ibcAck,         \* database: the status of a packet, "none" without a row
    flows,          \* database: the row of a token and an epoch
    tokenRows,      \* database: the tokens the chain indexer has inserted
    backfills       \* how many backfills were started

node == <<chain, tip>>
process == <<checksums, backfilling, conn>>
database == <<crawlerState, rows, ibcAck, flows, tokenRows>>
vars == <<crawlVars, node, process, database, backfills>>

-----------------------------------------------------------------------------
(* What one block makes the crawler write.                                 *)

Moved(packets, token) == {p \in packets : TokenOf[p] = token}

Deposited(b, token) == Cardinality(Moved(b.received, token))

\* as_fungible_token_packet gives Withdraw for a packet sent, and again for the
\* fungible_token_packet event of its acknowledgement: a packet that was sent and
\* acknowledged is withdrawn twice.
Withdrawn(b, token) ==
    Cardinality(Moved(b.sent, token)) + Cardinality(Moved(b.acked, token))

FlowTokens(b) == {TokenOf[p] : p \in b.sent \cup b.received \cup b.acked}

\* Transaction::deserialize knows the kind of a transaction if the hash of its
\* code is among the checksums.
KindOf(b) == IF checksums = CodeOf[b.epoch] THEN "known" ELSE "unknown"

\* Faulty variant: timeouts are forgotten.
AcksWithoutTimeouts(b) ==
    {i \in DOMAIN b.relays : KindOf(b) = "known" /\ b.relays[i].status # "timeout"}

\* get_ibc_ack_packet: the transactions whose decoded message carries an
\* acknowledgement or a timeout, whether or not the chain applied them.
AcksOf(b) == {i \in DOMAIN b.relays : KindOf(b) = "known"}

\* Faulty variant: only packets of decoded transactions are inserted.
AckRowsOfKnown(b) ==
    [p \in Packets |-> IF p \in b.sent /\ KindOf(b) = "known" THEN "unknown" ELSE ibcAck[p]]

\* insert_ibc_sequence, then one UPDATE for each acknowledgement in order.  Every packet
\* a block sent has its event from an inner transaction that was kept; get_ibc_packets
\* drops the others, which no node emits.
AckRows(b) ==
    [p \in Packets |->
        LET acks == {i \in AcksOf(b) : b.relays[i].packet = p}
            row  == IF p \in b.sent THEN "unknown" ELSE ibcAck[p]
        IN  IF acks = {} \/ row = "none" THEN row
            ELSE b.relays[CHOOSE i \in acks : \A j \in acks : j <= i].status]

\* Faulty variant: the upsert overwrites the row.
FlowRowsReplaced(b) ==
    [t \in Tokens |-> [e \in Epochs |->
        IF e # b.epoch \/ t \notin FlowTokens(b) THEN flows[t][e]
        ELSE [deposit |-> Deposited(b, t), withdraw |-> Withdrawn(b, t)]]]

\* upsert_ibc_token_flows adds to the row.
FlowRows(b) ==
    [t \in Tokens |-> [e \in Epochs |->
        IF e # b.epoch THEN flows[t][e]
        ELSE [deposit  |-> flows[t][e].deposit + Deposited(b, t),
              withdraw |-> flows[t][e].withdraw + Withdrawn(b, t)]]]

\* The constraints of the tables: a flow refers to a token, and the INSERT of a
\* packet has no ON CONFLICT clause.
Accepted(b) ==
    /\ FlowTokens(b) \subseteq tokenRows
    /\ \A p \in b.sent : ibcAck[p] = "none"

-----------------------------------------------------------------------------
(* The node and the other processes.                                       *)

Grow ==
    /\ tip < MaxHeight
    /\ tip' = tip + 1
    /\ UNCHANGED <<crawlVars, chain, process, database, backfills>>

\* The chain indexer inserts the token of a packet when it gets to it.
TokenIndexed(t) ==
    /\ t \notin tokenRows
    /\ tokenRows' = tokenRows \cup {t}
    /\ UNCHANGED <<crawlVars, node, process, crawlerState, rows, ibcAck, flows,
                   backfills>>

-----------------------------------------------------------------------------
(* The process.                                                            *)

CurrentEpoch == chain[tip].epoch

FirstBlockInEpoch ==
    CHOOSE h \in 1..tip : /\ chain[h].epoch = CurrentEpoch
                          /\ \A g \in 1..tip : chain[g].epoch = CurrentEpoch => h <= g

\* query_checksums: the code in effect at the last committed block.
LatestCode == CodeOf[CurrentEpoch]

\* Faulty variant: the last recorded block is taken again.
NextBlockAgain == IF crawlerState > FromBlock THEN crawlerState ELSE FromBlock

\* The block after the last recorded one, or the configured first block.
NextBlock ==
    LET resume == IF crawlerState = 0 THEN 1 ELSE crawlerState + 1
    IN  IF resume > FromBlock THEN resume ELSE FromBlock

\* main() up to the call of `crawl`.
Start(first, backfill) ==
    /\ task = "down"
    /\ tip > 0
    /\ CrawlFrom(first)
    /\ checksums' = LatestCode
    /\ backfilling' = backfill
    /\ conn' = "up"
    /\ UNCHANGED <<node, database>>

StartNormal == Start(NextBlock, FALSE) /\ UNCHANGED backfills

StartBackfill(h) ==
    /\ backfills < MaxBackfills
    /\ Start(h, TRUE)
    /\ backfills' = backfills + 1

\* can_process, then the block from the cometbft table or from the node.
ReadBlock ==
    /\ task = "poll"
    /\ index <= tip
    /\ conn = "up"
    /\ Proceed("epoch")
    /\ UNCHANGED <<node, process, database, backfills>>

\* Faulty variant: the checksums are loaded at startup only.
ReadFirstBlockNoRefresh ==
    /\ task = "epoch"
    /\ Proceed("commit")
    /\ UNCHANGED <<node, process, database, backfills>>

\* get_first_block_in_epoch asks for the node's current epoch.
ReadFirstBlock ==
    /\ task = "epoch"
    /\ Proceed(IF FirstBlockInEpoch = index THEN "refresh" ELSE "commit")
    /\ UNCHANGED <<node, process, database, backfills>>

RefreshChecksums ==
    /\ task = "refresh"
    /\ checksums' = LatestCode
    /\ Proceed("commit")
    /\ UNCHANGED <<node, backfilling, conn, database, backfills>>

\* Faulty variant: a backfill records its height too.
RecordedByBackfill == index

\* insert_crawler_state, unless the process backfills.
Recorded == IF backfilling THEN crawlerState ELSE index

\* The database transaction of crawling_fn.
WriteBlock ==
    LET b == chain[index] IN
    /\ task = "commit"
    /\ conn = "up"
    /\ Accepted(b)
    /\ rows' = [rows EXCEPT ![index] = KindOf(b)]
    /\ crawlerState' = Recorded
    /\ ibcAck' = AckRows(b)
    /\ flows' = FlowRows(b)
    /\ UNCHANGED <<node, checksums, backfilling, tokenRows, backfills>>

Commit == WriteBlock /\ NextIndex /\ UNCHANGED conn

\* Faulty variant: the retry gets a new connection.
CommitUnheardReconnects == WriteBlock /\ FailWith("Database") /\ UNCHANGED conn

\* The transaction is committed, and the connection breaks before the client
\* hears of it: the attempt ends in a Database error.
CommitUnheard == WriteBlock /\ FailWith("Database") /\ conn' = "lost"

\* The database refuses a row and rolls the transaction back.
CommitRejected ==
    /\ task = "commit"
    /\ conn = "up"
    /\ ~Accepted(chain[index])
    /\ FailWith("Database")
    /\ UNCHANGED <<node, process, database, backfills>>

\* Any other attempt that ends early: the block does not exist yet (NoAction),
\* a call of the node fails (RpcError), or the database does (Database).
AttemptFails ==
    /\ task # "down"
    /\ \E error \in {"NoAction", "RpcError", "Database"} : FailWith(error)
    /\ UNCHANGED <<node, process, database, backfills>>

\* The connection is taken from the pool once, and nothing replaces it.
ConnectionLost ==
    /\ task # "down"
    /\ conn = "up"
    /\ conn' = "lost"
    /\ UNCHANGED <<crawlVars, node, checksums, backfilling, database, backfills>>

Signal == CtrlC /\ UNCHANGED <<node, process, database, backfills>>

Killed == Crash /\ UNCHANGED <<node, process, database, backfills>>

-----------------------------------------------------------------------------

NoFlows == [t \in Tokens |-> [e \in Epochs |-> [deposit |-> 0, withdraw |-> 0]]]

Init ==
    /\ CrawlInit
    /\ chain \in Chains
    /\ tip = FromBlock - 1
    /\ checksums = CodeOf[chain[FromBlock].epoch]
    /\ backfilling = FALSE
    /\ conn = "lost"
    /\ crawlerState = 0
    /\ rows = [h \in Heights |-> "none"]
    /\ ibcAck = [p \in Packets |-> "none"]
    /\ flows = NoFlows
    /\ tokenRows = {}
    /\ backfills = 0

Work ==
    \/ ReadBlock
    \/ ReadFirstBlock
    \/ RefreshChecksums
    \/ Commit
    \/ CommitUnheard
    \/ CommitRejected
    \/ AttemptFails

Next ==
    \/ Grow
    \/ \E t \in Tokens : TokenIndexed(t)
    \/ StartNormal
    \/ \E h \in Heights : StartBackfill(h)
    \/ Work
    \/ ConnectionLost
    \/ Signal
    \/ Killed

Spec == Init /\ [][Next]_vars

(***************************************************************************)
(* Fairness.  The node goes on, the chain indexer gets to every token,     *)
(* docker restarts the process (`restart: unless-stopped`).  RetryIf calls *)
(* the closure again for as long as it fails, so a call that can succeed   *)
(* again and again succeeds at last.  Nothing is assumed of the failures:  *)
(* they may go on for ever, between the successes.                         *)
(***************************************************************************)
Fairness ==
    /\ WF_vars(Grow)
    /\ \A t \in Tokens : WF_vars(TokenIndexed(t))
    /\ WF_vars(StartNormal)
    /\ SF_vars(ReadBlock)
    /\ SF_vars(ReadFirstBlock)
    /\ SF_vars(RefreshChecksums)
    /\ SF_vars(Commit)

FairSpec == Spec /\ Fairness

-----------------------------------------------------------------------------
(* The properties.                                                         *)

Indexed == {h \in Heights : rows[h] # "none"}

\* The packets to which something happened in an indexed block of an epoch.
IndexedPackets(kind, e) ==
    {p \in Packets : \E h \in Indexed :
                        chain[h].epoch = e /\ p \in Happens(kind, chain, h)}

SentPackets == {p \in Packets : \E h \in Indexed : p \in chain[h].sent}

TypeOK ==
    /\ task \in {"down", "poll", "epoch", "refresh", "commit"}
    /\ index \in Nat
    /\ mustExit \in BOOLEAN
    /\ chain \in Chains
    /\ tip \in 0..MaxHeight
    /\ checksums \in {CodeOf[e] : e \in Epochs}
    /\ backfilling \in BOOLEAN
    /\ conn \in {"up", "lost"}
    /\ crawlerState \in 0..MaxHeight
    /\ rows \in [Heights -> {"none", "known", "unknown"}]
    /\ ibcAck \in [Packets -> Status \cup {"none"}]
    /\ flows \in [Tokens -> [Epochs -> [deposit : Nat, withdraw : Nat]]]
    /\ tokenRows \subseteq Tokens
    /\ backfills \in 0..MaxBackfills

\* Through retries, unheard commits, crashes and restarts the indexed blocks
\* stay the ones from the first up to last_processed_block, and none of them is
\* ahead of the chain: no height is skipped and none is taken twice.  A
\* backfill may add blocks above, never a gap below.
IndexedPrefix ==
    /\ crawlerState <= tip
    /\ FromBlock..crawlerState \subseteq Indexed
    /\ backfills = 0 => Indexed = FromBlock..crawlerState

\* The flows of a token in an epoch count every event of the indexed blocks of that
\* epoch exactly once: the additive upsert is not idempotent, so this rests on every
\* block being written once.  It is once for an event, not for a packet: a withdrawal
\* has two events, the packet sent and its acknowledgement, and counts for both.
FlowsCountEvents ==
    backfills = 0 =>
        \A t \in Tokens, e \in Epochs :
            /\ flows[t][e].deposit = Cardinality(Moved(IndexedPackets("received", e), t))
            /\ flows[t][e].withdraw = Cardinality(Moved(IndexedPackets("sent", e), t))
                                      + Cardinality(Moved(IndexedPackets("acked", e), t))

\* Reindexing may count an event again, but no sequence of crawls and backfills
\* loses one: a packet received, a packet sent, or an acknowledgement.
FlowsNeverLost ==
    \A t \in Tokens, e \in Epochs :
        /\ flows[t][e].deposit >= Cardinality(Moved(IndexedPackets("received", e), t))
        /\ flows[t][e].withdraw >= Cardinality(Moved(IndexedPackets("sent", e), t))
                                  + Cardinality(Moved(IndexedPackets("acked", e), t))

\* A row of ibc_ack exists exactly for the packets that indexed blocks sent.
PacketRows == \A p \in Packets : ibcAck[p] # "none" <=> p \in SentPackets

\* Every answer that indexed blocks carry for a packet was applied and decoded.
Settled(p) ==
    \A h \in Indexed : \A i \in DOMAIN chain[h].relays :
        chain[h].relays[i].packet = p => rows[h] = "known" /\ chain[h].relays[i].applied

AppliedStatus(p) ==
    {s \in Status : \E h \in Indexed : \E i \in DOMAIN chain[h].relays :
        chain[h].relays[i] = [packet |-> p, status |-> s, applied |-> TRUE]}

\* What the chain says became of a packet is what the indexer shows, once the
\* block is indexed, as long as every relayer transaction for the packet was
\* applied and decoded.
SettledStatus ==
    backfills = 0 => \A p \in SentPackets :
        Settled(p) => ibcAck[p] \in IF AppliedStatus(p) = {} THEN {"unknown"}
                                    ELSE AppliedStatus(p)

\* An indexer that keeps pace decodes with the code of the block's epoch: when
\* a block of the node's current epoch is about to be written, the checksums
\* are those of that epoch, although only its first block refreshes them.
FreshChecksums ==
    (backfills = 0 /\ task = "commit" /\ chain[index].epoch = CurrentEpoch)
        => checksums = LatestCode

\* A process that holds its connection works on the block after the last one
\* it recorded; only a process that cannot write any more may be behind.
WorksOnNextBlock ==
    (task # "down" /\ ~backfilling /\ conn = "up") => index = NextBlock

Sequential == INSTANCE SequentialIndexer WITH First <- FromBlock, indexed <- Indexed

\* Without backfills the crawler implements the sequential indexer.
RefinesSequential == Sequential!Spec

\* "Allow updating transactions kind + data so that if the indexer is updated
\* with new transaction type support, we can easily go back & reindex any old
\* transactions" (transactions/src/repository/transactions.rs:44-47): a
\* backfill does not meet a block the database refuses once it has the tokens.
ReindexAccepted ==
    (task = "commit" /\ backfilling /\ FlowTokens(chain[index]) \subseteq tokenRows)
        => Accepted(chain[index])

\* Every block of the chain is indexed at last, through failing calls, crashes
\* and restarts, if from some moment on the process has a connection that holds:
\* nothing but a restart replaces a broken one.
EventuallyIndexed ==
    <>[](task # "down" => conn = "up")
        => \A h \in FromBlock..MaxHeight : (tip >= h) ~> (h \in Indexed)
=============================================================================
