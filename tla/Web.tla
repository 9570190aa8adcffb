-------------------------------- MODULE Web ---------------------------------
(***************************************************************************)
(* The webserver (webserver/src) over tables that four indexers fill.  A   *)
(* request is a handler that reads one table after another, each in a      *)
(* statement of its own, while the indexers commit in between; its answer  *)
(* is computed from what it got.  The parameters indexer                   *)
(* (parameters/src/main.rs) is here in full, for only the webserver uses   *)
(* its rows.  The other indexers are seen from outside: the chain indexer  *)
(* begins with a snapshot and commits block by block (ChainCrawler), the   *)
(* transactions indexer does so from the first block (TransactionsCrawler),*)
(* the pos indexer by epochs (BlockRows).  What a table holds follows from *)
(* how far its writer is.                                                  *)
(*                                                                         *)
(* A block has an epoch, the number of proposals there are by then, the    *)
(* epochs from which its bond counts and its unbond can be withdrawn (0    *)
(* for none), whether it brings the voucher token to the chain, and the    *)
(* token with which its transactions pay their fees ("none" without one),  *)
(* which is one of the chain's by then.                                    *)
(***************************************************************************)
EXTENDS Integers, SequencesExt

CONSTANTS
    Chains,         \* the chains considered
    NodeParameters, \* for each epoch: maxBlockTime, minDuration, gas tokens
    Nothing,        \* a row that is not there
    PerPage,        \* ITEM_PER_PAGE
    MaxFaults       \* bound: ends of the parameters indexer

Blocks == [epoch : Nat \ {0}, proposals : Nat, bond : Nat, unbond : Nat,
           token : BOOLEAN, fee : {"none", "native", "voucher"}]

\* A chain has a first block; its epochs and proposals do not decrease, and the
\* node has parameters for each epoch.
IsChain(c) ==
    /\ c \in Seq(Blocks) /\ c # <<>>
    /\ \A h \in DOMAIN c :
          /\ 1..c[h].epoch \subseteq DOMAIN NodeParameters
          /\ c[h].fee = "voucher" => \E i \in 1..h : c[i].token
          /\ \A g \in 1..h : c[g].epoch <= c[h].epoch /\ c[g].proposals <= c[h].proposals

ASSUME WebAssumption ==
    /\ \A c \in Chains : IsChain(c)
    /\ \A e \in DOMAIN NodeParameters :
          /\ NodeParameters[e] \in [maxBlockTime : Nat, minDuration : Nat, gas : SUBSET STRING]
          /\ NodeParameters[e].maxBlockTime \in 1..NodeParameters[e].minDuration
    /\ Nothing \notin [block : Nat, epoch : Nat]
    /\ PerPage \in Nat \ {0}
    /\ MaxFaults \in Nat

VARIABLES
    chain, tip,     \* node: its blocks, and how many there are so far
    chainAt, base,  \* chain indexer: the block it recorded, and that of its snapshot
    txAt,           \* transactions indexer: the block it recorded
    posAt,          \* pos indexer: the epoch it recorded
    parameters,     \* database: the rows of chain_parameters and gas_price
    crawler,        \* parameters indexer: its stage, epoch and what it read
    request,        \* the request that is served
    walk,           \* the client that reads the proposals page by page
    faults

node == <<chain, tip>>
indexers == <<chainAt, base, txAt, posAt>>
vars == <<node, indexers, parameters, crawler, request, walk, faults>>

EpochOf(h) == chain[h].epoch
Epoch == EpochOf(tip)

NoParameters == [maxBlockTime |-> 0, minDuration |-> 0, gas |-> {}]
NoWalk == [due |-> {}, seen |-> {}, pages |-> 0]

Init ==
    /\ chain \in Chains /\ tip = 1
    /\ chainAt = 0 /\ base = 0 /\ txAt = 0 /\ posAt = 0
    /\ parameters = NoParameters
    /\ crawler = [stage |-> "parameters", next |-> 1, got |-> NoParameters]
    /\ request = [kind |-> "idle", arg |-> 0, got |-> <<>>, done |-> 0, asked |-> 0]
    /\ walk = NoWalk
    /\ faults = 0

Grow ==
    /\ tip < Len(chain)
    /\ tip' = tip + 1
    /\ UNCHANGED <<chain, indexers, parameters, crawler, request, walk, faults>>

-----------------------------------------------------------------------------
(* The indexers, from outside.                                             *)

Commits(row) ==
    /\ row
    /\ UNCHANGED <<node, parameters, crawler, request, walk, faults>>

CommitSnapshot ==
    /\ chainAt = 0
    /\ Commits(chainAt' = tip /\ base' = tip /\ UNCHANGED <<txAt, posAt>>)

\* The first block of the epoch the node is in by now.
FirstBlockInEpoch(h) == EpochOf(h) = Epoch /\ (h = 1 \/ EpochOf(h - 1) # Epoch)

\* The blocks that brought the tokens of the node.
QueryTokens == {h \in 1..tip : chain[h].token}

\* Faulty variant: the limits are inserted before the tokens of the block.
RateLimitsBeforeTokens(h) == FirstBlockInEpoch(h) => \A i \in QueryTokens : i < h

\* At that block the rate limits of all tokens the node has by now are inserted,
\* and the database refuses those of a token it does not know.
RateLimitsFit(h) == FirstBlockInEpoch(h) => \A i \in QueryTokens : i <= h

CommitBlock ==
    /\ chainAt > 0 /\ chainAt < tip
    /\ RateLimitsFit(chainAt + 1)
    /\ Commits(chainAt' = chainAt + 1 /\ UNCHANGED <<base, txAt, posAt>>)

CommitTransactions ==
    /\ txAt < tip
    /\ Commits(txAt' = txAt + 1 /\ UNCHANGED <<chainAt, base, posAt>>)

CommitValidators ==
    /\ posAt < Epoch
    /\ Commits(posAt' = posAt + 1 /\ UNCHANGED <<chainAt, base, txAt>>)

-----------------------------------------------------------------------------
(* The parameters indexer.                                                 *)

Crawls(stage, next) ==
    /\ crawler.stage = stage
    /\ crawler' = next
    /\ UNCHANGED <<node, indexers, request, walk>>

\* An epoch that has begun is taken; the node answers with its latest values.  The
\* queries of get_parameters are one step: they are answered from one epoch.
ReadParameters ==
    /\ crawler.next <= Epoch
    /\ Crawls("parameters",
              [crawler EXCEPT !.stage = "gas",
                              !.got = [NodeParameters[Epoch] EXCEPT !.gas = {}]])
    /\ UNCHANGED <<parameters, faults>>

ReadGasPrices ==
    /\ Crawls("gas", [crawler EXCEPT !.stage = "write", !.got.gas = NodeParameters[Epoch].gas])
    /\ UNCHANGED <<parameters, faults>>

\* Faulty variant: the first row stays.
UpsertParametersOnce(row, new) == IF row = NoParameters THEN new ELSE row

\* On conflict some columns are set, the duration of an epoch not among them.
UpsertParameters(row, new) ==
    IF row = NoParameters THEN new ELSE [row EXCEPT !.maxBlockTime = new.maxBlockTime]

\* A price is inserted or set, never removed.
UpsertGasPrices(row, new) == [row EXCEPT !.gas = parameters.gas \cup new.gas]

WriteParameters ==
    /\ Crawls("write", [stage |-> "parameters", next |-> crawler.next + 1, got |-> NoParameters])
    /\ parameters' = UpsertGasPrices(UpsertParameters(parameters, crawler.got), crawler.got)
    /\ UNCHANGED faults

\* A query of the checksums or of the prices that fails panics: the process ends,
\* and the next one begins with the epoch of the node.
ParametersRestart ==
    /\ crawler.stage = "gas" /\ faults < MaxFaults
    /\ Crawls("gas", [stage |-> "parameters", next |-> Epoch, got |-> NoParameters])
    /\ faults' = faults + 1
    /\ UNCHANGED parameters

-----------------------------------------------------------------------------
(* What the tables hold.                                                   *)

ChainState == IF chainAt = 0 THEN Nothing ELSE [block |-> chainAt, epoch |-> EpochOf(chainAt)]
PosState == IF posAt = 0 THEN Nothing ELSE [epoch |-> posAt]
ChainParameters == IF parameters = NoParameters THEN Nothing ELSE parameters

\* Faulty variant: the snapshot inserts no tokens.
TokensTableWithoutSnapshot ==
    {"native"} \cup {"voucher" : h \in {i \in base + 1..chainAt : chain[i].token}}

\* The snapshot inserts all tokens there are, a block those it brings.
TokensTable ==
    IF chainAt = 0 THEN {}
    ELSE {"native"} \cup {"voucher" : h \in {i \in 1..chainAt : chain[i].token}}

\* The epochs a bond or an unbond of the delegator is labelled with, by block.
Bonds == {[block |-> h, epoch |-> chain[h].bond] : h \in {i \in 1..chainAt : chain[i].bond > 0}}
Unbonds == {[block |-> h, epoch |-> chain[h].unbond] : h \in {i \in 1..chainAt : chain[i].unbond > 0}}

Matured(epoch) == {u \in Unbonds : u.epoch <= epoch}

\* Faulty variant: all unbonds of a validator make one row.
MergedUnbondsOfValidator(epoch) ==
    IF Unbonds = {} THEN {}
    ELSE {[unbonds |-> Unbonds, epoch |-> IF Matured(epoch) # {} THEN 0
                                          ELSE Max({u.epoch : u \in Unbonds})]}

\* Those that can be withdrawn make one row with epoch 0, the others one by epoch.
MergedUnbonds(epoch) ==
    LET Key(u) == IF u.epoch <= epoch THEN 0 ELSE u.epoch
    IN {[unbonds |-> {u \in Unbonds : Key(u) = k}, epoch |-> k] : k \in {Key(u) : u \in Unbonds}}

Transactions(h) == IF h <= txAt /\ chain[h].fee # "none" THEN {chain[h].fee} ELSE {}

\* Faulty variant: a whole page further.
OffsetOfNext(page) == page * PerPage
Offset(page) == (page - 1) * PerPage

\* A page, and the number of rows; a page after the last one has neither.
Page(rows, page) ==
    LET found == {rows[i] : i \in {j \in DOMAIN rows : j - Offset(page) \in 1..PerPage}}
    IN [rows |-> found, total |-> IF found = {} THEN 0 ELSE Len(rows)]
PagesOf(total) == (total + PerPage - 1) \div PerPage

\* The proposals, the newest first.
ProposalCount == IF chainAt = 0 THEN 0 ELSE chain[chainAt].proposals
Proposals == [i \in 1..ProposalCount |-> ProposalCount + 1 - i]

\* The tokens the client has a balance of: each that has come.
Balances == TokensTable

\* Both indexers insert a block, the chain indexer since its snapshot.
HasBlock(h) == h >= 1 /\ (h <= txAt \/ (base > 0 /\ h \in base..chainAt))

\* A block that asks for the supplies of its epoch: one with a transaction, or
\* that of the snapshot.  A block without fees asks for nothing: it changes no balance
\* of a token here.
QueriesSupplies(h) == h = base \/ chain[h].fee # "none"

\* An epoch has its supplies once the first such block is indexed.
HasSupply(epoch) ==
    base > 0 /\ \E h \in base..chainAt : chain[h].epoch = epoch /\ QueriesSupplies(h)

\* Without an epoch in the request, the supply asked for is of the recorded one.
TokenSupply ==
    IF chainAt > 0 /\ HasSupply(EpochOf(chainAt)) THEN [epoch |-> EpochOf(chainAt)] ELSE Nothing

-----------------------------------------------------------------------------
(* Requests: what each handler reads, in its order.                        *)

StatusReads == <<"height", "epoch">>
BondsReads == <<"pos", "bonds">>
UnbondsReads == <<"unbonds", "state", "parameters">>
MergedUnbondsReads == <<"state", "pos", "merged", "parameters">>
WithdrawsReads == <<"state", "matured">>
ProposalsReads == <<"proposals", "state", "parameters">>
BlockReads == <<"block", "previous", "tokens", "transactions">>
RecentReads == <<"tokens", "recent">>
SupplyReads == <<"supply", "locked">>
GasReads == <<"tokens", "prices">>
BalanceReads == <<"balances", "tokens">>

Reads == [status |-> StatusReads, bonds |-> BondsReads, unbonds |-> UnbondsReads,
          merged |-> MergedUnbondsReads, withdraws |-> WithdrawsReads,
          proposals |-> ProposalsReads, block |-> BlockReads, recent |-> RecentReads,
          supply |-> SupplyReads, gas |-> GasReads, balances |-> BalanceReads]

Kinds == DOMAIN Reads
Got(r, table) == r.got[table]
HasRead(r, table) == table \in DOMAIN r.got

\* What a read of the request finds now, Nothing for a row that is not there.
Found(r, table) ==
    CASE table \in {"height", "epoch", "state"} -> ChainState
      [] table = "pos" -> PosState
      [] table = "parameters" -> ChainParameters
      [] table = "bonds" -> Bonds
      [] table = "unbonds" -> Unbonds
      [] table = "merged" -> MergedUnbonds(Got(r, "pos").epoch)
      [] table = "matured" -> Matured(Got(r, "state").epoch)
      [] table = "proposals" -> Page(Proposals, r.arg)
      [] table = "block" -> IF HasBlock(r.arg) THEN [block |-> r.arg] ELSE Nothing
      [] table = "previous" -> HasBlock(r.arg - 1)
      [] table = "tokens" -> TokensTable
      [] table = "balances" -> Balances
      [] table = "transactions" -> Transactions(r.arg)
      [] table = "recent" -> UNION {Transactions(h) : h \in 1..txAt}
      [] table = "supply" -> TokenSupply
      [] table = "locked" -> chainAt
      [] table = "prices" -> parameters.gas

\* The handler ends after its last read, or at a row that is not there.
Missing(r) == \E table \in DOMAIN r.got : Got(r, table) = Nothing
Served(r) == r.kind \in Kinds => r.done = Len(Reads[r.kind]) \/ Missing(r)

-----------------------------------------------------------------------------
(* Answers: what the handlers make of what they read.                      *)

\* A row of unbonds can be withdrawn once its epoch is recorded.
CanWithdraw(row, state) == state.epoch >= row.epoch

BondActive(bond, pos) == bond.epoch <= pos.epoch

\* Times are computed for each row: the blocks of an epoch, by division, divide
\* its duration.
TimesPanic(row) == row.minDuration \div row.maxBlockTime = 0

\* The transactions are shown with their fee tokens, which must be known.
FeeTokenUnknown(r, table) == ~(Got(r, table) \subseteq Got(r, "tokens"))

HasRows(r) ==
    CASE r.kind = "unbonds" -> Got(r, "unbonds") # {}
      [] r.kind = "merged" -> Got(r, "merged") # {}
      [] r.kind = "proposals" -> Got(r, "proposals").rows # {}
      [] OTHER -> FALSE

\* The stream of the status expects that the chain indexer has begun.
StatusMissing(r) == r.kind = "status" /\ Missing(r)

Panics(r) ==
    \/ HasRead(r, "parameters") /\ ~Missing(r) /\ HasRows(r) /\ TimesPanic(Got(r, "parameters"))
    \/ HasRead(r, "transactions") /\ FeeTokenUnknown(r, "transactions")
    \/ HasRead(r, "recent") /\ FeeTokenUnknown(r, "recent")
    \/ StatusMissing(r)

\* Only prices of known tokens are shown.
PricesShown(r) == Got(r, "prices") \cap Got(r, "tokens")

\* A row for each known token, with the balance or zero.
BalancesShown(r) == Got(r, "balances") \cap Got(r, "tokens")

Answered(r) == Served(r) /\ ~Missing(r) /\ ~Panics(r)

Args == [k \in Kinds |-> CASE k = "block" -> 1..tip [] k = "proposals" -> {1} [] OTHER -> {0}]

\* A client asks; the next page of the proposals, if it did not see the last one.
Ask(kind) ==
    /\ Served(request)
    /\ \E arg \in Args[kind] \cup IF kind = "proposals" /\ Answered(request)
                                     /\ request.kind = kind /\ request.arg < walk.pages
                                  THEN {request.arg + 1} ELSE {} :
          request' = [kind |-> kind, arg |-> arg, got |-> <<>>, done |-> 0,
                       asked |-> IF kind \in {"block", "recent", "status", "gas"} THEN chainAt ELSE 0]
    /\ walk' = IF kind = "proposals" THEN walk ELSE NoWalk
    /\ UNCHANGED <<node, indexers, parameters, crawler, faults>>

Read ==
    /\ ~Served(request)
    /\ LET table == Reads[request.kind][request.done + 1]
           found == Found(request, table)
       IN /\ request' = [request EXCEPT
                 !.done = @ + 1,
                 !.got = [t \in DOMAIN @ \cup {table} |-> IF t = table THEN found ELSE @[t]]]
          /\ walk' = IF table # "proposals" THEN walk
                     ELSE [due |-> IF request.arg = 1 THEN ToSet(Proposals) ELSE walk.due,
                           seen |-> found.rows \cup IF request.arg = 1 THEN {} ELSE walk.seen,
                           pages |-> PagesOf(found.total)]
    /\ UNCHANGED <<node, indexers, parameters, crawler, faults>>

Client == (\E kind \in Kinds : Ask(kind)) \/ Read
Indexers == CommitSnapshot \/ CommitBlock \/ CommitTransactions \/ CommitValidators
Parameters == ReadParameters \/ ReadGasPrices \/ WriteParameters

Next == Grow \/ Indexers \/ Parameters \/ ParametersRestart \/ Client

Spec == Init /\ [][Next]_vars

\* The parameters indexer and the chain indexer run, and are started again when
\* they end.
FairSpec == Spec /\ WF_vars(Parameters) /\ WF_vars(CommitSnapshot \/ CommitBlock)

-----------------------------------------------------------------------------
(* Properties.                                                             *)

\* What an answer relates was read at different times, and yet: a bond shown as
\* active counts, an unbond shown as withdrawable can be withdrawn, also in the
\* row it is merged into, and every unbond is in one row; the epoch of a status is
\* not behind its height; no balance is left out for a token not known yet.
AnswersInStep ==
    Answered(request) =>
        CASE request.kind = "bonds" ->
                \A b \in Got(request, "bonds") : BondActive(b, Got(request, "pos")) => b.epoch <= Epoch
          [] request.kind = "unbonds" ->
                \A u \in Got(request, "unbonds") : CanWithdraw(u, Got(request, "state")) => u.epoch <= Epoch
          [] request.kind = "merged" ->
                \A row \in Got(request, "merged") :
                    /\ CanWithdraw(row, Got(request, "state")) => \A u \in row.unbonds : u.epoch <= Epoch
                    /\ \A other \in Got(request, "merged") \ {row} : row.unbonds \cap other.unbonds = {}
          [] request.kind = "withdraws" -> \A u \in Got(request, "matured") : u.epoch <= Epoch
          [] request.kind = "status" ->
                Got(request, "epoch").epoch \in EpochOf(Got(request, "height").block)..Epoch
          [] request.kind = "balances" -> BalancesShown(request) = Got(request, "balances")
          [] request.kind = "supply" -> Got(request, "supply").epoch <= EpochOf(Got(request, "locked"))
          [] OTHER -> TRUE

\* A request panics only over a transaction of a block the chain indexer had not
\* recorded when the request came, before that indexer has begun, or because the
\* stored duration of an epoch is that of the first row, which the chain has
\* changed since.
PanicsExplained ==
    Served(request) /\ Panics(request) =>
        \/ /\ request.kind \in {"block", "recent"}
           /\ \E h \in request.asked + 1..txAt : chain[h].fee \notin Got(request, "tokens") \cup {"none"}
        \/ request.kind = "status" /\ request.asked = 0
        \/ /\ HasRead(request, "parameters")
           /\ \E e \in 1..Epoch : NodeParameters[e].minDuration # Got(request, "parameters").minDuration

\* A client that reads the proposals page by page has seen, at the last page, every
\* proposal there was when it read the first, although others came in between.
NothingSkipped ==
    request.kind = "proposals" /\ Answered(request) /\ request.arg >= walk.pages =>
        walk.due \subseteq walk.seen

\* The columns that are refreshed, and the gas prices, are at last those of the chain.
RefreshedParameters ==
    <>[](/\ parameters.maxBlockTime = NodeParameters[Epoch].maxBlockTime
         /\ NodeParameters[Epoch].gas \subseteq parameters.gas)

\* The chain indexer catches up with the node, unless it meets the block with which
\* the node's epoch began after a later one of the epoch brought a token: it waits
\* there for the end of the epoch.
WaitsForEpochOnly ==
    <>[](\/ chainAt = tip
         \/ /\ chainAt > 0
            /\ EpochOf(chainAt) < Epoch /\ EpochOf(chainAt + 1) = Epoch
            /\ \E h \in chainAt + 2..tip : EpochOf(h) = Epoch /\ chain[h].token)
=============================================================================
