------------------------------ MODULE WebProofs ------------------------------
(***************************************************************************)
(* What an answer relates, why a request panics, and that no proposal is   *)
(* skipped between pages, for every chain, every length of a page and      *)
(* every order of the commits of the indexers and the reads of a request.  *)
(***************************************************************************)
EXTENDS Web, TLAPS

Heights == 1..Len(chain)

\* How far the node and the indexers are.
Progress ==
    /\ IsChain(chain)
    /\ tip \in Heights
    /\ chainAt \in 0..tip /\ base \in 0..chainAt /\ txAt \in 0..tip
    /\ posAt \in 0..Epoch

\* A row of parameters: the time of a block and the duration of an epoch are those
\* of epochs that have begun, not always of the same one.
IsParameters(row) ==
    /\ row \in [maxBlockTime : Nat, minDuration : Nat, gas : SUBSET STRING]
    /\ \E d, b \in 1..Epoch : /\ row.minDuration = NodeParameters[d].minDuration
                              /\ row.maxBlockTime = NodeParameters[b].maxBlockTime

ParametersRead ==
    /\ DOMAIN crawler = {"stage", "next", "got"}
    /\ parameters = NoParameters \/ IsParameters(parameters)
    /\ crawler.stage # "parameters" => IsParameters(crawler.got)

\* The tokens a request knows at least: those of the chain indexer when it came.
TokensSince(asked, tokens) ==
    asked > 0 => /\ "native" \in tokens
                 /\ (\E i \in 1..asked : chain[i].token) => "voucher" \in tokens

IsState(asked, row) ==
    \/ row = Nothing /\ asked = 0
    \/ \E h \in 1..chainAt : row = [block |-> h, epoch |-> EpochOf(h)]

\* The rows a merge makes of unbonds: what is to be withdrawn at an epoch that is
\* recorded, or the unbonds of one epoch; no unbond in two rows.
IsMerged(rows) ==
    /\ \A row \in rows : /\ row.epoch \in Nat
                         /\ \A u \in row.unbonds : /\ u.epoch \in Nat
                                                   /\ u.epoch <= Epoch \/ u.epoch = row.epoch
    /\ \A row \in rows : \A other \in rows \ {row} : row.unbonds \cap other.unbonds = {}

\* What was read from a table says of the present, although the table went on.
StillHolds(r, table, found) ==
    CASE table \in {"height", "state"} -> IsState(r.asked, found)
      [] table = "epoch" ->
            /\ IsState(r.asked, found)
            /\ HasRead(r, "height") /\ Got(r, "height") # Nothing
            /\ found # Nothing => EpochOf(Got(r, "height").block) <= found.epoch
      [] table = "pos" -> found = Nothing \/ \E e \in 1..posAt : found = [epoch |-> e]
      [] table = "parameters" -> found = Nothing \/ IsParameters(found)
      [] table \in {"bonds", "unbonds"} -> \A b \in found : b.epoch \in Nat
      [] table = "merged" -> IsMerged(found)
      [] table = "matured" -> \A u \in found : u.epoch \in Nat /\ u.epoch <= Epoch
      [] table = "tokens" ->
            /\ TokensSince(r.asked, found)
            /\ r.kind = "balances" => HasRead(r, "balances") /\ Got(r, "balances") \subseteq found
      [] table = "balances" -> found \subseteq TokensTable
      [] table = "transactions" -> \A fee \in found : r.arg \in 1..txAt /\ fee = chain[r.arg].fee /\ fee # "none"
      [] table = "recent" -> \A fee \in found : fee # "none" /\ \E h \in 1..txAt : fee = chain[h].fee
      [] table = "supply" -> found = Nothing \/ \E h \in 1..chainAt : found = [epoch |-> EpochOf(h)]
      [] table = "locked" ->
            /\ HasRead(r, "supply") /\ Got(r, "supply") # Nothing
            /\ found \in 1..chainAt /\ Got(r, "supply").epoch <= EpochOf(found)
      [] OTHER -> TRUE

\* The tables are read in the order of the handler, the last one last.
RequestRead ==
    /\ DOMAIN request = {"kind", "arg", "got", "done", "asked"}
    /\ request.asked \in 0..chainAt
    /\ request.kind \notin Kinds => DOMAIN request.got = {}
    /\ request.kind \in Kinds =>
          /\ request.done \in 0..Len(Reads[request.kind])
          /\ DOMAIN request.got = {Reads[request.kind][i] : i \in 1..request.done}
          /\ \A table \in DOMAIN request.got :
                StillHolds(request, table, Got(request, table))
          /\ request.kind = "block" => request.arg \in Nat \ {0}

\* After k pages, the client has seen all but the k pages that are now the first.
SeenBy(k) == \A x \in walk.due : x > ProposalCount - k * PerPage => x \in walk.seen

Walked ==
    /\ walk.due \subseteq 1..ProposalCount
    /\ request.kind = "proposals" =>
          /\ request.arg \in Nat \ {0}
          /\ HasRead(request, "proposals") =>
                /\ SeenBy(request.arg)
                /\ request.arg >= walk.pages => walk.due \subseteq walk.seen
          /\ ~HasRead(request, "proposals") /\ request.arg > 1 => SeenBy(request.arg - 1)

WebInv == Progress /\ ParametersRead /\ RequestRead /\ Walked

-----------------------------------------------------------------------------
(* The chain.                                                              *)

LEMMA ChainFacts ==
    ASSUME Progress
    PROVE  /\ Len(chain) \in Nat
           /\ \A h \in Heights :
                 /\ chain[h] \in Blocks /\ chain[h].epoch \in Nat \ {0} /\ chain[h].proposals \in Nat
                 /\ chain[h].bond \in Nat /\ chain[h].unbond \in Nat
                 /\ chain[h].token \in BOOLEAN /\ chain[h].fee \in {"none", "native", "voucher"}
                 /\ 1..chain[h].epoch \subseteq DOMAIN NodeParameters
                 /\ chain[h].fee = "voucher" => \E i \in 1..h : chain[i].token
           /\ \A g, h \in Heights : g <= h => /\ chain[g].epoch <= chain[h].epoch
                                              /\ chain[g].proposals <= chain[h].proposals
           /\ Epoch \in Nat \ {0} /\ posAt \in Nat
           /\ \A h \in 1..tip : h \in Heights /\ EpochOf(h) \in 1..Epoch
           /\ \A h \in 1..chainAt : h \in Heights /\ EpochOf(h) \in 1..Epoch /\ h \in 1..tip
           /\ chainAt \in Nat /\ txAt \in Nat /\ tip \in Nat /\ base \in Nat
<1>1. chain \in Seq(Blocks) /\ DOMAIN chain = Heights /\ Len(chain) \in Nat
  BY DEF Progress, IsChain, Heights
<1>2. /\ tip \in Nat /\ chainAt \in Nat /\ txAt \in Nat /\ base \in Nat /\ tip \in Heights
      /\ chainAt <= tip /\ txAt <= tip /\ 1 <= tip /\ tip <= Len(chain)
  BY <1>1 DEF Progress, Heights
<1>3. \A h \in Heights :
         /\ chain[h] \in Blocks
         /\ 1..chain[h].epoch \subseteq DOMAIN NodeParameters
         /\ chain[h].fee = "voucher" => \E i \in 1..h : chain[i].token
         /\ \A g \in 1..h : chain[g].epoch <= chain[h].epoch /\ chain[g].proposals <= chain[h].proposals
  BY <1>1 DEF Progress, IsChain, Heights
<1>4. \A h \in Heights :
         /\ chain[h].epoch \in Nat \ {0} /\ chain[h].proposals \in Nat
         /\ chain[h].bond \in Nat /\ chain[h].unbond \in Nat
         /\ chain[h].token \in BOOLEAN /\ chain[h].fee \in {"none", "native", "voucher"}
  BY <1>3 DEF Blocks
<1>5. \A g, h \in Heights : g <= h => /\ chain[g].epoch <= chain[h].epoch
                                      /\ chain[g].proposals <= chain[h].proposals
  BY <1>1, <1>3 DEF Heights
<1>6. Epoch \in Nat \ {0}
  BY <1>2, <1>4 DEF Epoch, EpochOf
<1>7. \A h \in 1..tip : h \in Heights /\ EpochOf(h) \in 1..Epoch
  <2> SUFFICES ASSUME NEW h \in 1..tip PROVE h \in Heights /\ EpochOf(h) \in 1..Epoch
    OBVIOUS
  <2>1. h \in Heights /\ h <= tip
    BY <1>1, <1>2 DEF Heights
  <2> QED
    BY <1>2, <1>4, <1>5, <2>1 DEF Epoch, EpochOf
<1>8. \A h \in 1..chainAt : h \in 1..tip
  BY <1>2
<1>9. posAt \in Nat
  BY <1>6 DEF Progress
<1> QED
  BY <1>1, <1>2, <1>3, <1>4, <1>5, <1>6, <1>7, <1>8, <1>9

\* The node and the indexers only go on.
Onward ==
    /\ chain' = chain
    /\ tip' \in Heights /\ tip <= tip' /\ chainAt <= chainAt' /\ txAt <= txAt' /\ posAt <= posAt'
    /\ chainAt' \in Nat /\ txAt' \in Nat /\ posAt' \in Nat
    /\ Epoch' \in Nat /\ Epoch <= Epoch'

LEMMA ProgressNext ==
    ASSUME Progress, [Next]_vars
    PROVE  Progress' /\ Onward
<1>0. /\ Len(chain) \in Nat /\ tip \in Nat /\ chainAt \in Nat /\ txAt \in Nat /\ base \in Nat
      /\ Epoch \in Nat \ {0} /\ posAt \in Nat /\ tip \in Heights
      /\ chainAt <= tip /\ txAt <= tip /\ base <= chainAt /\ posAt <= Epoch
  BY ChainFacts DEF Progress
<1>1. chain' = chain /\ Heights' = Heights /\ IsChain(chain)' /\ IsChain(chain)
  <2>1. chain' = chain
    BY DEF vars, node, Next, Grow, Indexers, CommitSnapshot, CommitBlock, CommitTransactions,
           CommitValidators, Commits, Parameters, ReadParameters, ReadGasPrices, WriteParameters,
           ParametersRestart, Crawls, Client, Ask, Read
  <2> QED
    BY <2>1 DEF Heights, Progress, IsChain
<1>2. CASE UNCHANGED <<node, indexers>>
  BY <1>0, <1>1, <1>2 DEF Progress, Onward, node, indexers, Epoch, EpochOf
<1>3. CASE Grow
  <2>1. tip' = tip + 1 /\ tip' \in Heights /\ UNCHANGED indexers
    BY <1>0, <1>3 DEF Grow, Heights
  <2>2. Epoch' = chain[tip'].epoch /\ Epoch = chain[tip].epoch /\ Epoch' \in Nat /\ Epoch <= Epoch'
    <3>1. tip \in Heights /\ tip <= tip'
      BY <1>0, <2>1
    <3>2. Epoch' = chain[tip'].epoch /\ Epoch = chain[tip].epoch
      BY <1>1 DEF Epoch, EpochOf
    <3> QED
      BY <2>1, <3>1, <3>2, ChainFacts
  <2> QED
    <3>1. /\ tip' = tip + 1 /\ tip' \in Heights /\ posAt \in 0..Epoch'
          /\ chainAt' = chainAt /\ base' = base /\ txAt' = txAt /\ posAt' = posAt
      BY <1>0, <2>1, <2>2 DEF indexers
    <3> QED
      BY <1>0, <1>1, <2>2, <3>1 DEF Progress, Onward
<1>4. CASE CommitSnapshot
  BY <1>0, <1>1, <1>4 DEF CommitSnapshot, Commits, Progress, Onward, node, Epoch, EpochOf
<1>5. CASE CommitBlock
  BY <1>0, <1>1, <1>5 DEF CommitBlock, Commits, Progress, Onward, node, Epoch, EpochOf
<1>6. CASE CommitTransactions
  BY <1>0, <1>1, <1>6 DEF CommitTransactions, Commits, Progress, Onward, node, Epoch, EpochOf
<1>7. CASE CommitValidators
  BY <1>0, <1>1, <1>7 DEF CommitValidators, Commits, Progress, Onward, node, Epoch, EpochOf
<1>8. CASE Parameters \/ ParametersRestart \/ Client \/ UNCHANGED vars
  <2>1. UNCHANGED <<node, indexers>>
    BY <1>8 DEF vars, Parameters, ReadParameters, ReadGasPrices, WriteParameters,
                ParametersRestart, Crawls, Client, Ask, Read
  <2> QED
    BY <1>2, <2>1
<1> QED
  BY <1>3, <1>4, <1>5, <1>6, <1>7, <1>8 DEF Next, Indexers

-----------------------------------------------------------------------------
(* The parameters indexer.                                                 *)

LEMMA ParametersStay ==
    ASSUME Progress, Onward, NEW row, IsParameters(row)
    PROVE  IsParameters(row)'
<1>1. \A d \in 1..Epoch : d \in 1..Epoch'
  BY ChainFacts DEF Onward
<1> QED
  BY <1>1 DEF IsParameters

\* The node's answer, and what a price or the time of a block set later makes of a row.
LEMMA NodeAnswers ==
    ASSUME Progress
    PROVE  /\ Epoch \in DOMAIN NodeParameters /\ NodeParameters[Epoch].gas \in SUBSET STRING
           /\ IsParameters([NodeParameters[Epoch] EXCEPT !.gas = {}])
<1>1. Epoch \in DOMAIN NodeParameters /\ Epoch \in 1..Epoch
  <2>1. tip \in Heights
    BY DEF Progress
  <2> QED
    BY <2>1, ChainFacts DEF Epoch, EpochOf
<1>2. NodeParameters[Epoch] \in [maxBlockTime : Nat, minDuration : Nat, gas : SUBSET STRING]
  BY <1>1, WebAssumption
<1> DEFINE row == [NodeParameters[Epoch] EXCEPT !.gas = {}]
<1>3. row \in [maxBlockTime : Nat, minDuration : Nat, gas : SUBSET STRING]
      /\ row.maxBlockTime = NodeParameters[Epoch].maxBlockTime
      /\ row.minDuration = NodeParameters[Epoch].minDuration
  BY <1>2
<1> QED
  BY <1>1, <1>2, <1>3 DEF IsParameters

LEMMA ParametersNext ==
    ASSUME Progress, ParametersRead, [Next]_vars
    PROVE  ParametersRead'
<1>1. Onward
  BY ProgressNext
<1>2. CASE UNCHANGED <<parameters, crawler>>
  BY <1>1, <1>2, ParametersStay DEF ParametersRead
<1>3. CASE ReadParameters
  <2>1. crawler' = [crawler EXCEPT !.stage = "gas", !.got = [NodeParameters[Epoch] EXCEPT !.gas = {}]]
        /\ parameters' = parameters
    BY <1>3 DEF ReadParameters, Crawls
  <2>2. crawler'.got = [NodeParameters[Epoch] EXCEPT !.gas = {}]
        /\ DOMAIN crawler' = {"stage", "next", "got"}
    BY <2>1 DEF ParametersRead
  <2>3. IsParameters(crawler'.got)
    BY <2>2, NodeAnswers
  <2> QED
    BY <1>1, <2>1, <2>2, <2>3, ParametersStay DEF ParametersRead
<1>4. CASE ReadGasPrices
  <2>1. crawler' = [crawler EXCEPT !.stage = "write", !.got.gas = NodeParameters[Epoch].gas]
        /\ parameters' = parameters /\ crawler.stage = "gas"
    BY <1>4 DEF ReadGasPrices, Crawls
  <2>2. IsParameters(crawler.got)
    BY <2>1 DEF ParametersRead
  <2>3. crawler'.got = [crawler.got EXCEPT !.gas = NodeParameters[Epoch].gas]
        /\ DOMAIN crawler' = {"stage", "next", "got"}
    BY <2>1 DEF ParametersRead
  <2>4. IsParameters(crawler'.got)
    BY <2>2, <2>3, NodeAnswers DEF IsParameters
  <2> QED
    BY <1>1, <2>1, <2>3, <2>4, ParametersStay DEF ParametersRead
<1>5. CASE WriteParameters
  <2> DEFINE new == crawler.got
             row == UpsertParameters(parameters, new)
  <2>1. /\ crawler.stage = "write"
        /\ crawler' = [stage |-> "parameters", next |-> crawler.next + 1, got |-> NoParameters]
        /\ parameters' = [row EXCEPT !.gas = parameters.gas \cup new.gas]
    BY <1>5 DEF WriteParameters, Crawls, UpsertGasPrices
  <2>2. IsParameters(new) /\ new.gas \in SUBSET STRING /\ parameters.gas \in SUBSET STRING
    BY <2>1 DEF ParametersRead, IsParameters, NoParameters
  <2>3. IsParameters(row)
    <3>1. CASE parameters = NoParameters
      BY <2>2, <3>1 DEF UpsertParameters
    <3>2. CASE parameters # NoParameters
      BY <2>2, <3>2 DEF UpsertParameters, ParametersRead, IsParameters
    <3> QED
      BY <3>1, <3>2
  <2> HIDE DEF row, new
  <2>4. IsParameters(parameters')
    BY <2>1, <2>2, <2>3 DEF IsParameters
  <2> QED
    BY <1>1, <2>1, <2>4, ParametersStay DEF ParametersRead
<1>6. CASE ParametersRestart
  <2>1. crawler' = [stage |-> "parameters", next |-> Epoch, got |-> NoParameters]
        /\ parameters' = parameters
    BY <1>6 DEF ParametersRestart, Crawls
  <2> QED
    BY <1>1, <2>1, ParametersStay DEF ParametersRead
<1>7. CASE Grow \/ Indexers \/ Client \/ UNCHANGED vars
  <2>1. UNCHANGED <<parameters, crawler>>
    BY <1>7 DEF vars, Grow, Indexers, CommitSnapshot, CommitBlock, CommitTransactions,
                CommitValidators, Commits, Client, Ask, Read
  <2> QED
    BY <1>2, <2>1
<1> QED
  BY <1>3, <1>4, <1>5, <1>6, <1>7 DEF Next, Parameters

-----------------------------------------------------------------------------
(* What a request read.                                                    *)

LEMMA KindsAre ==
    /\ Kinds = {"status", "bonds", "unbonds", "merged", "withdraws", "proposals", "block",
                "recent", "supply", "gas", "balances"}
    /\ Reads["status"] = <<"height", "epoch">>
    /\ Reads["bonds"] = <<"pos", "bonds">>
    /\ Reads["unbonds"] = <<"unbonds", "state", "parameters">>
    /\ Reads["merged"] = <<"state", "pos", "merged", "parameters">>
    /\ Reads["withdraws"] = <<"state", "matured">>
    /\ Reads["proposals"] = <<"proposals", "state", "parameters">>
    /\ Reads["block"] = <<"block", "previous", "tokens", "transactions">>
    /\ Reads["recent"] = <<"tokens", "recent">>
    /\ Reads["supply"] = <<"supply", "locked">>
    /\ Reads["gas"] = <<"tokens", "prices">>
    /\ Reads["balances"] = <<"balances", "tokens">>
  BY DEF Kinds, Reads, StatusReads, BondsReads, UnbondsReads, MergedUnbondsReads, WithdrawsReads,
         ProposalsReads, BlockReads, RecentReads, SupplyReads, GasReads, BalanceReads

TablesRead(k, n) == {Reads[k][i] : i \in 1..n}

\* The reads of a handler are two, three or four tables.
LEMMA Pair ==
    ASSUME NEW k, NEW a, NEW b, Reads[k] = <<a, b>>
    PROVE  /\ Len(Reads[k]) = 2 /\ Reads[k][1] = a /\ Reads[k][2] = b
           /\ TablesRead(k, 0) = {} /\ TablesRead(k, 1) = {a} /\ TablesRead(k, 2) = {a, b}
<1> DEFINE r == Reads[k]
<1>1. r = <<a, b>> /\ \A n : TablesRead(k, n) = {r[i] : i \in 1..n}
  BY DEF TablesRead
<1> HIDE DEF r
<1>2. Len(r) = 2 /\ r[1] = a /\ r[2] = b
  BY <1>1
<1>3. {r[i] : i \in 1..0} = {} /\ {r[i] : i \in 1..1} = {a} /\ {r[i] : i \in 1..2} = {a, b}
  BY <1>2
<1> QED
  BY <1>1, <1>2, <1>3 DEF r

LEMMA Triple ==
    ASSUME NEW k, NEW a, NEW b, NEW c, Reads[k] = <<a, b, c>>
    PROVE  /\ Len(Reads[k]) = 3 /\ Reads[k][1] = a /\ Reads[k][2] = b /\ Reads[k][3] = c
           /\ TablesRead(k, 0) = {} /\ TablesRead(k, 1) = {a} /\ TablesRead(k, 2) = {a, b}
           /\ TablesRead(k, 3) = {a, b, c}
<1> DEFINE r == Reads[k]
<1>1. r = <<a, b, c>> /\ \A n : TablesRead(k, n) = {r[i] : i \in 1..n}
  BY DEF TablesRead
<1> HIDE DEF r
<1>2. Len(r) = 3 /\ r[1] = a /\ r[2] = b /\ r[3] = c
  BY <1>1
<1>3. /\ {r[i] : i \in 1..0} = {} /\ {r[i] : i \in 1..1} = {a} /\ {r[i] : i \in 1..2} = {a, b}
      /\ {r[i] : i \in 1..3} = {a, b, c}
  BY <1>2
<1> QED
  BY <1>1, <1>2, <1>3 DEF r

LEMMA Quadruple ==
    ASSUME NEW k, NEW a, NEW b, NEW c, NEW d, Reads[k] = <<a, b, c, d>>
    PROVE  /\ Len(Reads[k]) = 4
           /\ Reads[k][1] = a /\ Reads[k][2] = b /\ Reads[k][3] = c /\ Reads[k][4] = d
           /\ TablesRead(k, 0) = {} /\ TablesRead(k, 1) = {a} /\ TablesRead(k, 2) = {a, b}
           /\ TablesRead(k, 3) = {a, b, c} /\ TablesRead(k, 4) = {a, b, c, d}
<1> DEFINE r == Reads[k]
<1>1. r = <<a, b, c, d>> /\ \A n : TablesRead(k, n) = {r[i] : i \in 1..n}
  BY DEF TablesRead
<1> HIDE DEF r
<1>2. Len(r) = 4 /\ r[1] = a /\ r[2] = b /\ r[3] = c /\ r[4] = d
  BY <1>1
<1>3. {r[i] : i \in 1..0} = {} /\ {r[i] : i \in 1..1} = {a} /\ {r[i] : i \in 1..2} = {a, b}
  BY <1>2
<1>4. {r[i] : i \in 1..3} = {a, b, c}
  BY <1>2
<1>5. {r[i] : i \in 1..4} = {a, b, c, d}
  BY <1>2
<1> QED
  BY <1>1, <1>2, <1>3, <1>4, <1>5 DEF r

\* Which table a request reads next, and which ones it has read by then.
LEMMA Order ==
    ASSUME NEW k \in Kinds, NEW n \in 0..Len(Reads[k]) - 1
    PROVE  LET table == Reads[k][n + 1]
               before == TablesRead(k, n)
           IN /\ Len(Reads[k]) \in Nat /\ n + 1 \in 0..Len(Reads[k])
              /\ TablesRead(k, n + 1) = before \cup {table}
              /\ table \notin before
              /\ table = "epoch" => "height" \in before
              /\ table = "merged" => "pos" \in before
              /\ table = "matured" => "state" \in before
              /\ table = "locked" => "supply" \in before
              /\ k = "balances" /\ table = "tokens" => "balances" \in before
              /\ table = "transactions" => k = "block"
              /\ table = "proposals" => k = "proposals" /\ n = 0
<1>1. CASE k \in {"status", "bonds", "withdraws", "recent", "supply", "gas", "balances"}
  <2>1. PICK a, b : Reads[k] = <<a, b>>
    BY <1>1, KindsAre
  <2>2. /\ Len(Reads[k]) = 2 /\ Reads[k][1] = a /\ Reads[k][2] = b
        /\ TablesRead(k, 0) = {} /\ TablesRead(k, 1) = {a} /\ TablesRead(k, 2) = {a, b}
    BY <2>1, Pair
  <2>3. <<a, b>> \in {<<"height", "epoch">>, <<"pos", "bonds">>, <<"state", "matured">>,
                      <<"tokens", "recent">>, <<"supply", "locked">>, <<"tokens", "prices">>,
                      <<"balances", "tokens">>}
        /\ (k = "balances" => a = "balances") /\ (k # "balances" => b # "tokens")
    BY <1>1, <2>1, KindsAre
  <2>4. n = 0 \/ n = 1
    BY <2>2
  <2> QED
    BY <1>1, <2>2, <2>3, <2>4
<1>2. CASE k \in {"unbonds", "proposals"}
  <2>1. PICK a, b, c : Reads[k] = <<a, b, c>>
    BY <1>2, KindsAre
  <2>2. /\ Len(Reads[k]) = 3 /\ Reads[k][1] = a /\ Reads[k][2] = b /\ Reads[k][3] = c
        /\ TablesRead(k, 0) = {} /\ TablesRead(k, 1) = {a} /\ TablesRead(k, 2) = {a, b}
        /\ TablesRead(k, 3) = {a, b, c}
    BY <2>1, Triple
  <2>3. a = k /\ b = "state" /\ c = "parameters"
    BY <1>2, <2>1, KindsAre
  <2>4. n = 0 \/ n = 1 \/ n = 2
    BY <2>2
  <2> QED
    BY <1>2, <2>2, <2>3, <2>4
<1>3. CASE k \in {"merged", "block"}
  <2>1. PICK a, b, c, d : Reads[k] = <<a, b, c, d>>
    BY <1>3, KindsAre
  <2>2. /\ Len(Reads[k]) = 4
        /\ Reads[k][1] = a /\ Reads[k][2] = b /\ Reads[k][3] = c /\ Reads[k][4] = d
        /\ TablesRead(k, 0) = {} /\ TablesRead(k, 1) = {a} /\ TablesRead(k, 2) = {a, b}
        /\ TablesRead(k, 3) = {a, b, c} /\ TablesRead(k, 4) = {a, b, c, d}
    BY <2>1, Quadruple
  <2>3. /\ k = "merged" => a = "state" /\ b = "pos" /\ c = "merged" /\ d = "parameters"
        /\ k = "block" => a = "block" /\ b = "previous" /\ c = "tokens" /\ d = "transactions"
    BY <1>3, <2>1, KindsAre
  <2>4. n = 0 \/ n = 1 \/ n = 2 \/ n = 3
    BY <2>2
  <2> QED
    BY <1>3, <2>2, <2>3, <2>4
<1> QED
  BY <1>1, <1>2, <1>3, KindsAre

\* What a request that read all its tables has read.
LEMMA AllRead ==
    ASSUME NEW k \in Kinds
    PROVE  LET all == TablesRead(k, Len(Reads[k]))
           IN /\ Len(Reads[k]) \in Nat /\ TablesRead(k, 0) = {}
              /\ k = "bonds" => all = {"pos", "bonds"}
              /\ k = "unbonds" => all = {"unbonds", "state", "parameters"}
              /\ k = "merged" => all = {"state", "pos", "merged", "parameters"}
              /\ k = "withdraws" => all = {"state", "matured"}
              /\ k = "status" => all = {"height", "epoch"}
              /\ k = "balances" => all = {"balances", "tokens"}
              /\ k = "supply" => all = {"supply", "locked"}
              /\ k = "proposals" => all = {"proposals", "state", "parameters"}
<1>1. CASE k \in {"status", "bonds", "withdraws", "recent", "supply", "gas", "balances"}
  <2>1. PICK a, b : Reads[k] = <<a, b>>
    BY <1>1, KindsAre
  <2>2. /\ TablesRead(k, Len(Reads[k])) = {a, b}
        /\ Len(Reads[k]) \in Nat /\ TablesRead(k, 0) = {}
    BY <2>1, Pair
  <2> QED
    BY <1>1, <2>1, <2>2, KindsAre
<1>2. CASE k \in {"unbonds", "proposals"}
  <2>1. Reads[k] = <<k, "state", "parameters">>
    BY <1>2, KindsAre
  <2>2. /\ TablesRead(k, Len(Reads[k])) = {k, "state", "parameters"}
        /\ Len(Reads[k]) \in Nat /\ TablesRead(k, 0) = {}
    BY <2>1, Triple
  <2> QED
    BY <1>2, <2>2
<1>3. CASE k \in {"merged", "block"}
  <2>1. PICK a, b, c, d : Reads[k] = <<a, b, c, d>>
    BY <1>3, KindsAre
  <2>2. /\ TablesRead(k, Len(Reads[k])) = {a, b, c, d}
        /\ Len(Reads[k]) \in Nat /\ TablesRead(k, 0) = {}
    BY <2>1, Quadruple
  <2> QED
    BY <1>3, <2>1, <2>2, KindsAre
<1> QED
  BY <1>1, <1>2, <1>3, KindsAre

LEMMA TokensStay ==
    ASSUME Progress, Onward
    PROVE  TokensTable \subseteq TokensTable'
<1>1. /\ chainAt \in Nat /\ chainAt' \in Nat /\ chainAt <= chainAt' /\ chain' = chain
  BY ChainFacts DEF Onward
<1>2. \A i \in 1..chainAt : i \in 1..chainAt'
  BY <1>1
<1> QED
  BY <1>1, <1>2 DEF TokensTable

\* What holds of a table that was read is not lost when its writers go on, nor when
\* the request reads another one.
LEMMA Stays ==
    ASSUME Progress, Onward, RequestRead, request.kind \in Kinds,
           NEW table \in DOMAIN request.got,
           UNCHANGED <<request.kind, request.arg, request.asked>>,
           \A t \in DOMAIN request.got : t \in DOMAIN request'.got /\ request'.got[t] = request.got[t]
    PROVE  StillHolds(request, table, Got(request, table))'
<1> DEFINE found == request.got[table]
<1>1. StillHolds(request, table, found) /\ request'.got[table] = found
  BY DEF RequestRead, Got
<1>2. /\ chain' = chain /\ chainAt <= chainAt' /\ txAt <= txAt' /\ posAt <= posAt' /\ Epoch <= Epoch'
      /\ {chainAt, chainAt', txAt, txAt', posAt, posAt', Epoch, Epoch'} \subseteq Nat
      /\ \A h : EpochOf(h)' = EpochOf(h)
  BY ChainFacts DEF Onward, EpochOf
<1>3. /\ \A h \in 1..chainAt : h \in 1..chainAt'
      /\ \A h \in 1..txAt : h \in 1..txAt'
      /\ \A e \in 1..posAt : e \in 1..posAt'
  BY <1>2
<1> HIDE DEF found
<1>4. CASE table \in {"height", "state"}
  BY <1>1, <1>2, <1>3, <1>4 DEF StillHolds, IsState, Got
<1>5. CASE table = "epoch"
  BY <1>1, <1>2, <1>3, <1>5 DEF StillHolds, IsState, Got, HasRead
<1>6. CASE table = "pos"
  BY <1>1, <1>2, <1>3, <1>6 DEF StillHolds, Got
<1>7. CASE table = "parameters"
  <2>1. found = Nothing \/ IsParameters(found)
    BY <1>1, <1>7 DEF StillHolds
  <2>2. IsParameters(found) => /\ found \in [maxBlockTime : Nat, minDuration : Nat, gas : SUBSET STRING]
                               /\ \E d, b \in 1..Epoch' :
                                     /\ found.minDuration = NodeParameters[d].minDuration
                                     /\ found.maxBlockTime = NodeParameters[b].maxBlockTime
    BY <1>2 DEF IsParameters
  <2> QED
    BY <1>1, <1>7, <2>1, <2>2 DEF StillHolds, Got, IsParameters
<1>8. CASE table \in {"bonds", "unbonds"}
  BY <1>1, <1>8 DEF StillHolds, Got
<1>9. CASE table = "merged"
  BY <1>1, <1>2, <1>9 DEF StillHolds, Got, IsMerged
<1>10. CASE table = "matured"
  BY <1>1, <1>2, <1>10 DEF StillHolds, Got
<1>11. CASE table = "tokens"
  BY <1>1, <1>2, <1>11 DEF StillHolds, Got, HasRead, TokensSince
<1>12. CASE table = "balances"
  BY <1>1, <1>12, TokensStay DEF StillHolds, Got
<1>13. CASE table = "transactions"
  BY <1>1, <1>2, <1>3, <1>13 DEF StillHolds, Got
<1>14. CASE table = "recent"
  BY <1>1, <1>2, <1>3, <1>14 DEF StillHolds, Got
<1>15. CASE table = "supply"
  BY <1>1, <1>2, <1>3, <1>15 DEF StillHolds, Got
<1>16. CASE table = "locked"
  BY <1>1, <1>2, <1>3, <1>16 DEF StillHolds, Got, HasRead
<1>17. CASE table \notin {"height", "state", "epoch", "pos", "parameters", "bonds", "unbonds", "merged",
                          "matured", "tokens", "balances", "transactions", "recent", "supply", "locked"}
  BY <1>17 DEF StillHolds
<1> QED
  BY <1>4, <1>5, <1>6, <1>7, <1>8, <1>9, <1>10, <1>11, <1>12, <1>13, <1>14, <1>15, <1>16, <1>17

LEMMA UnbondsAre ==
    ASSUME Progress
    PROVE  /\ \A u \in Unbonds : u.epoch \in Nat
           /\ \A b \in Bonds : b.epoch \in Nat
  BY ChainFacts DEF Bonds, Unbonds

LEMMA MergedHolds ==
    ASSUME Progress, NEW e \in 0..Epoch
    PROVE  IsMerged(MergedUnbonds(e))
<1> DEFINE Key(u) == IF u.epoch <= e THEN 0 ELSE u.epoch
           Row(k) == [unbonds |-> {u \in Unbonds : Key(u) = k}, epoch |-> k]
           rows == {Row(k) : k \in {Key(u) : u \in Unbonds}}
<1>1. MergedUnbonds(e) = rows
  BY DEF MergedUnbonds
<1>2. e \in Nat /\ e <= Epoch /\ Epoch \in Nat
  BY ChainFacts
<1>3. \A u \in Unbonds : /\ u.epoch \in Nat /\ Key(u) \in Nat
                         /\ u.epoch <= Epoch \/ u.epoch = Key(u)
  BY <1>2, UnbondsAre
<1> HIDE DEF Key
<1>4. \A row \in rows : \E u \in Unbonds : row = Row(Key(u))
  OBVIOUS
<1>5. \A k : Row(k).unbonds = {u \in Unbonds : Key(u) = k} /\ Row(k).epoch = k
  OBVIOUS
<1> HIDE DEF Row, rows
<1>6. ASSUME NEW row \in rows
      PROVE  /\ row.epoch \in Nat
             /\ \A u \in row.unbonds : /\ u.epoch \in Nat
                                       /\ u.epoch <= Epoch \/ u.epoch = row.epoch
  BY <1>3, <1>4, <1>5
<1>7. ASSUME NEW row \in rows, NEW other \in rows \ {row}
      PROVE  row.unbonds \cap other.unbonds = {}
  BY <1>4, <1>5
<1> QED
  BY <1>1, <1>6, <1>7 DEF IsMerged

\* A read finds what will still hold.
LEMMA ReadHolds ==
    ASSUME Progress, ParametersRead, RequestRead, Read
    PROVE  RequestRead' /\ request.kind \in Kinds
<1> DEFINE k == request.kind
           n == request.done
           g == request.got
<1>a. PICK table : table = Reads[k][n + 1]
  OBVIOUS
<1>b. PICK found : found = Found(request, table)
  OBVIOUS
<1>1. /\ k \in Kinds /\ n \in 0..Len(Reads[k]) - 1
      /\ \A t \in DOMAIN g : g[t] # Nothing
  <2>1. k \in Kinds /\ n # Len(Reads[k]) /\ ~Missing(request)
    BY DEF Read, Served
  <2>2. n \in 0..Len(Reads[k]) /\ Len(Reads[k]) \in Nat
    BY <2>1, AllRead DEF RequestRead
  <2> QED
    BY <2>1, <2>2 DEF Missing, Got
<1>2. /\ UNCHANGED <<node, indexers, parameters>>
      /\ request' = [request EXCEPT
            !.done = @ + 1,
            !.got = [t \in DOMAIN @ \cup {table} |-> IF t = table THEN found ELSE @[t]]]
  BY <1>a, <1>b DEF Read
<1>3. DOMAIN g = TablesRead(k, n) /\ DOMAIN request = {"kind", "arg", "got", "done", "asked"}
  BY <1>1 DEF RequestRead, TablesRead
<1>4. /\ Len(Reads[k]) \in Nat /\ n + 1 \in 0..Len(Reads[k])
      /\ TablesRead(k, n + 1) = DOMAIN g \cup {table}
      /\ table \notin DOMAIN g
      /\ table = "epoch" => "height" \in DOMAIN g
      /\ table = "merged" => "pos" \in DOMAIN g
      /\ table = "matured" => "state" \in DOMAIN g
      /\ table = "locked" => "supply" \in DOMAIN g
      /\ k = "balances" /\ table = "tokens" => "balances" \in DOMAIN g
      /\ table = "transactions" => k = "block"
  <2> HIDE DEF k, n
  <2> QED
    BY <1>1, <1>3, <1>a, Order
<1>5. /\ DOMAIN request' = {"kind", "arg", "got", "done", "asked"}
      /\ request'.kind = k /\ request'.arg = request.arg /\ request'.asked = request.asked
      /\ request'.done = n + 1
      /\ request'.got = [t \in DOMAIN g \cup {table} |-> IF t = table THEN found ELSE g[t]]
  BY <1>2, <1>3
<1>6. /\ DOMAIN request'.got = DOMAIN g \cup {table}
      /\ request'.got[table] = found
      /\ \A t \in DOMAIN g : request'.got[t] = g[t]
  BY <1>4, <1>5
<1>7. Progress' /\ Onward
  BY <1>2, ProgressNext, ChainFacts DEF Read, Next, Client
<1>8. ASSUME NEW t \in DOMAIN g
      PROVE  StillHolds(request, t, Got(request, t))'
  BY <1>1, <1>5, <1>6, <1>7, Stays
<1>9. /\ UNCHANGED <<chain, tip, chainAt, base, txAt, posAt, parameters>>
      /\ chainAt \in Nat /\ txAt \in Nat /\ posAt \in Nat /\ Epoch \in Nat /\ posAt \in 0..Epoch
      /\ \A h \in 1..chainAt : EpochOf(h) \in 1..Epoch
      /\ \A h, i \in 1..chainAt : h <= i => EpochOf(h) <= EpochOf(i)
      /\ Epoch' = Epoch /\ \A h : EpochOf(h)' = EpochOf(h)
  BY <1>2, ChainFacts DEF node, indexers, Progress, Epoch, EpochOf, Heights
<1>10. /\ request.asked \in 0..chainAt
       /\ ChainState = Nothing => request.asked = 0
       /\ \/ ChainState = Nothing
          \/ chainAt > 0 /\ ChainState = [block |-> chainAt, epoch |-> EpochOf(chainAt)]
  <2>1. chainAt > 0 => [block |-> chainAt, epoch |-> EpochOf(chainAt)] \in [block : Nat, epoch : Nat]
    BY <1>9
  <2> QED
    BY <1>9, <2>1, WebAssumption DEF ChainState, RequestRead
<1>11. StillHolds(request, table, found)'
  <2> USE <1>5, <1>6, <1>9
  <2>1. CASE table \in {"height", "state"}
    <3>1. found = ChainState
      BY <1>b, <2>1 DEF Found
    <3> QED
      BY <1>10, <2>1, <3>1 DEF StillHolds, IsState
  <2>2. CASE table = "epoch"
    <3>1. found = ChainState
      BY <1>b, <2>2 DEF Found
    <3>2. "height" \in DOMAIN g /\ g["height"] # Nothing
      BY <1>1, <1>4, <2>2
    <3>3. PICK h \in 1..chainAt : g["height"] = [block |-> h, epoch |-> EpochOf(h)]
      BY <1>1, <3>2 DEF RequestRead, StillHolds, IsState, Got
    <3>4. found # Nothing => found.epoch = EpochOf(chainAt) /\ EpochOf(h) <= EpochOf(chainAt)
      BY <1>10, <3>1, <3>3
    <3>5. IsState(request.asked, found)'
      BY <1>10, <3>1 DEF IsState
    <3> QED
      BY <2>2, <3>2, <3>3, <3>4, <3>5 DEF StillHolds, Got, HasRead
  <2>3. CASE table = "pos"
    BY <1>b, <2>3 DEF Found, PosState, StillHolds
  <2>4. CASE table = "parameters"
    <3>1. found = Nothing \/ IsParameters(found)
      BY <1>b, <2>4 DEF Found, ChainParameters, ParametersRead
    <3> QED
      BY <2>4, <3>1 DEF StillHolds, IsParameters
  <2>5. CASE table \in {"bonds", "unbonds"}
    BY <1>b, <2>5, UnbondsAre DEF Found, StillHolds
  <2>6. CASE table = "merged"
    <3>1. "pos" \in DOMAIN g /\ g["pos"] # Nothing
      BY <1>1, <1>4, <2>6
    <3>2. PICK e \in 1..posAt : g["pos"] = [epoch |-> e]
      BY <1>1, <3>1 DEF RequestRead, StillHolds, Got
    <3>3. found = MergedUnbonds(e) /\ e \in 0..Epoch
      BY <1>b, <2>6, <3>2 DEF Found, Got
    <3>4. IsMerged(found)
      BY <3>3, MergedHolds
    <3> QED
      BY <2>6, <3>4 DEF StillHolds, IsMerged
  <2>7. CASE table = "matured"
    <3>1. "state" \in DOMAIN g /\ g["state"] # Nothing
      BY <1>1, <1>4, <2>7
    <3>2. PICK h \in 1..chainAt : g["state"] = [block |-> h, epoch |-> EpochOf(h)]
      BY <1>1, <3>1 DEF RequestRead, StillHolds, IsState, Got
    <3>3. found = Matured(EpochOf(h)) /\ EpochOf(h) \in Nat /\ EpochOf(h) <= Epoch
      BY <1>b, <2>7, <3>2 DEF Found, Got
    <3>4. \A u \in found : u.epoch \in Nat /\ u.epoch <= Epoch
      BY <3>3, UnbondsAre DEF Matured
    <3> QED
      BY <2>7, <3>4 DEF StillHolds
  <2>8. CASE table = "tokens"
    <3>1. found = TokensTable
      BY <1>b, <2>8 DEF Found
    <3>2. TokensSince(request.asked, found)
      BY <1>10, <3>1 DEF TokensSince, TokensTable
    <3>3. k = "balances" => "balances" \in DOMAIN g /\ g["balances"] \subseteq found
      BY <1>1, <1>4, <2>8, <3>1 DEF RequestRead, StillHolds, Got
    <3> QED
      BY <1>4, <2>8, <3>2, <3>3 DEF StillHolds, TokensSince, Got, HasRead
  <2>9. CASE table = "balances"
    BY <1>b, <2>9 DEF Found, Balances, StillHolds, TokensTable
  <2>10. CASE table = "transactions"
    <3>1. found = Transactions(request.arg) /\ request.arg \in Nat \ {0}
      BY <1>b, <1>1, <1>4, <2>10 DEF Found, RequestRead
    <3>2. \A fee \in found : request.arg \in 1..txAt /\ fee = chain[request.arg].fee /\ fee # "none"
      BY <3>1 DEF Transactions
    <3> QED
      BY <2>10, <3>2 DEF StillHolds
  <2>11. CASE table = "recent"
    <3>1. found = UNION {Transactions(h) : h \in 1..txAt}
      BY <1>b, <2>11 DEF Found
    <3>2. \A fee \in found : fee # "none" /\ \E h \in 1..txAt : fee = chain[h].fee
      BY <3>1 DEF Transactions
    <3> QED
      BY <2>11, <3>2 DEF StillHolds
  <2>12. CASE table = "supply"
    BY <1>b, <2>12 DEF Found, TokenSupply, StillHolds
  <2>13. CASE table = "locked"
    <3>1. found = chainAt /\ "supply" \in DOMAIN g /\ g["supply"] # Nothing
      BY <1>b, <1>1, <1>4, <2>13 DEF Found
    <3>2. PICK h \in 1..chainAt : g["supply"] = [epoch |-> EpochOf(h)]
      BY <1>1, <3>1 DEF RequestRead, StillHolds, Got
    <3>3. found \in 1..chainAt /\ EpochOf(h) <= EpochOf(chainAt)
      BY <3>1
    <3> QED
      BY <1>4, <2>13, <3>1, <3>2, <3>3 DEF StillHolds, Got, HasRead
  <2>14. CASE table \notin {"height", "state", "epoch", "pos", "parameters", "bonds", "unbonds", "merged",
                            "matured", "tokens", "balances", "transactions", "recent", "supply", "locked"}
    BY <2>14 DEF StillHolds
  <2> QED
    BY <2>1, <2>2, <2>3, <2>4, <2>5, <2>6, <2>7, <2>8, <2>9, <2>10, <2>11, <2>12, <2>13, <2>14
<1>12. \A t \in DOMAIN request'.got : StillHolds(request, t, Got(request, t))'
  BY <1>6, <1>8, <1>11 DEF Got
<1>13. DOMAIN request'.got = {Reads[k][i] : i \in 1..n + 1}
  BY <1>4, <1>6 DEF TablesRead
<1> QED
  BY <1>1, <1>4, <1>5, <1>9, <1>10, <1>12, <1>13 DEF RequestRead

LEMMA RequestNext ==
    ASSUME Progress, ParametersRead, RequestRead, [Next]_vars
    PROVE  RequestRead'
<1>1. Progress' /\ Onward
  BY ProgressNext
<1>2. request.asked \in Nat /\ request.asked <= chainAt /\ chainAt \in Nat /\ chainAt' \in Nat
      /\ chainAt <= chainAt'
  BY <1>1, ChainFacts DEF RequestRead, Onward
<1>3. CASE UNCHANGED request
  <2>1. ASSUME request.kind \in Kinds, NEW table \in DOMAIN request.got
        PROVE  StillHolds(request, table, Got(request, table))'
    BY <1>1, <1>3, <2>1, Stays
  <2> QED
    BY <1>2, <1>3, <2>1 DEF RequestRead
<1>4. ASSUME NEW kind \in Kinds, Ask(kind)
      PROVE  RequestRead'
  <2>1. PICK arg : /\ kind = "block" => arg \in 1..tip
                   /\ request' = [kind |-> kind, arg |-> arg, got |-> <<>>, done |-> 0,
                                  asked |-> IF kind \in {"block", "recent", "status", "gas"}
                                            THEN chainAt ELSE 0]
    BY <1>4 DEF Ask, Args
  <2>2. chainAt' = chainAt /\ (kind = "block" => arg \in Nat \ {0})
    BY <1>4, <2>1, ChainFacts DEF Ask, indexers
  <2>3. /\ DOMAIN request' = {"kind", "arg", "got", "done", "asked"}
        /\ request'.kind = kind /\ request'.arg = arg /\ request'.done = 0
        /\ request'.got = <<>> /\ request'.asked \in 0..chainAt'
    BY <1>2, <2>1, <2>2
  <2>4. DOMAIN request'.got = {} /\ {Reads[kind][i] : i \in 1..0} = {} /\ 0 \in 0..Len(Reads[kind])
    BY <2>3, AllRead
  <2> QED
    BY <2>2, <2>3, <2>4 DEF RequestRead
<1>5. CASE Read
  BY <1>5, ReadHolds
<1>6. CASE Grow \/ Indexers \/ Parameters \/ ParametersRestart \/ UNCHANGED vars
  <2>1. UNCHANGED request
    BY <1>6 DEF vars, Grow, Indexers, CommitSnapshot, CommitBlock, CommitTransactions, CommitValidators,
                Commits, Parameters, ReadParameters, ReadGasPrices, WriteParameters,
                ParametersRestart, Crawls
  <2> QED
    BY <1>3, <2>1
<1> QED
  BY <1>4, <1>5, <1>6 DEF Next, Client

-----------------------------------------------------------------------------
(* The pages of the proposals.                                             *)

LEMMA CountGrows ==
    ASSUME Progress, Progress', Onward
    PROVE  ProposalCount \in Nat /\ ProposalCount' \in Nat /\ ProposalCount <= ProposalCount'
<1>1. /\ chainAt \in Nat /\ chainAt' \in Nat /\ chainAt <= chainAt' /\ chain' = chain
      /\ chainAt > 0 => chainAt \in Heights
  BY ChainFacts DEF Onward
<1>a. chainAt' > 0 => chainAt' \in Heights
  <2>1. Heights' = Heights /\ tip' \in Heights /\ chainAt' <= tip' /\ Len(chain) \in Nat
    BY <1>1, ChainFacts DEF Onward, Heights, Progress
  <2> QED
    BY <1>1, <2>1 DEF Heights
<1>2. ProposalCount \in Nat /\ (chainAt > 0 => ProposalCount = chain[chainAt].proposals)
  BY <1>1, ChainFacts DEF ProposalCount
<1>3. CASE chainAt' = 0
  BY <1>1, <1>2, <1>3 DEF ProposalCount
<1>4. CASE chainAt' > 0 /\ chainAt' \in Heights
  BY <1>1, <1>2, <1>4, ChainFacts DEF ProposalCount
<1> QED
  BY <1>1, <1>a, <1>3, <1>4

LEMMA Division ==
    ASSUME NEW a \in Nat, NEW b \in Nat \ {0}, NEW p \in Nat, p >= (a + b - 1) \div b
    PROVE  a <= p * b
<1> DEFINE q == (a + b - 1) \div b
<1>1. a + b - 1 \in Nat
  OBVIOUS
<1>2. q \in Nat /\ a + b - 1 < q * b + b
  BY <1>1
<1> HIDE DEF q
<1>3. q * b <= p * b
  BY <1>2 DEF q
<1> QED
  BY <1>2, <1>3

\* Page p holds the proposals that are not among the p - 1 pages of newer ones; after
\* the last page none is left.
LEMMA PageHas ==
    ASSUME ProposalCount \in Nat, NEW p \in Nat \ {0}
    PROVE  LET found == Page(Proposals, p)
               C == ProposalCount
           IN /\ p * PerPage \in Nat /\ (p - 1) * PerPage = p * PerPage - PerPage
              /\ \A x \in 1..C : C - p * PerPage < x /\ x <= C - (p - 1) * PerPage => x \in found.rows
              /\ p >= PagesOf(found.total) => C <= p * PerPage
<1> DEFINE found == Page(Proposals, p)
           C == ProposalCount
           o == (p - 1) * PerPage
<1>1. /\ PerPage \in Nat \ {0} /\ p - 1 \in Nat /\ o \in Nat
      /\ p * PerPage = o + PerPage
  BY WebAssumption
<1>2. Offset(p) = o
  BY DEF Offset
<1>3. /\ DOMAIN Proposals = 1..C /\ Len(Proposals) = C
      /\ \A i \in 1..C : Proposals[i] = C + 1 - i
  <2>1. Proposals = [i \in 1..C |-> C + 1 - i]
    BY DEF Proposals
  <2> HIDE DEF C
  <2>2. C \in Nat
    BY DEF C
  <2>3. Proposals \in Seq(Int)
    BY <2>1, <2>2
  <2> QED
    BY <2>1, <2>2, <2>3
<1>4. /\ found.rows = {Proposals[i] : i \in {j \in 1..C : j - o \in 1..PerPage}}
      /\ found.total = IF found.rows = {} THEN 0 ELSE C
  BY <1>2, <1>3 DEF Page
<1> HIDE DEF o, found, C
<1>5. C \in Nat
  BY DEF C
<1>6. ASSUME NEW x \in 1..C, C - (o + PerPage) < x, x <= C - o
      PROVE  x \in found.rows
  <2> PICK i : i = C + 1 - x
    OBVIOUS
  <2>1. i \in 1..C /\ i - o \in 1..PerPage /\ C + 1 - i = x
    BY <1>1, <1>5, <1>6
  <2>2. Proposals[i] = x
    BY <1>3, <2>1
  <2> QED
    BY <1>4, <2>1, <2>2
<1>7. ASSUME p >= PagesOf(found.total)
      PROVE  C <= o + PerPage
  <2>1. CASE found.rows = {}
    <3> SUFFICES ASSUME C > o + PerPage PROVE FALSE
      BY <1>1, <1>5
    <3>1. C - (o + PerPage) + 1 \in 1..C /\ C - (o + PerPage) + 1 <= C - o
      BY <1>1, <1>5
    <3>2. C - (o + PerPage) < C - (o + PerPage) + 1
      BY <1>1, <1>5
    <3> QED
      BY <1>6, <2>1, <3>1, <3>2
  <2>2. CASE found.rows # {}
    <3>1. p >= (C + PerPage - 1) \div PerPage
      BY <1>4, <1>7, <2>2 DEF PagesOf
    <3> QED
      BY <1>1, <1>5, <3>1, Division
  <2> QED
    BY <2>1, <2>2
<1> QED
  BY <1>1, <1>6, <1>7 DEF o, found, C

\* A request that is answered has read all its tables.
LEMMA AnsweredRead ==
    ASSUME RequestRead, request.kind \in Kinds, Answered(request)
    PROVE  DOMAIN request.got = TablesRead(request.kind, Len(Reads[request.kind]))
  BY AllRead DEF RequestRead, Answered, Served, TablesRead

LEMMA ProposalsRead ==
    ASSUME RequestRead, request.kind = "proposals", Answered(request)
    PROVE  HasRead(request, "proposals")
<1>1. "proposals" \in Kinds /\ Reads["proposals"] = <<"proposals", "state", "parameters">>
  BY KindsAre
<1>2. DOMAIN request.got = TablesRead("proposals", Len(Reads["proposals"]))
  BY <1>1, AnsweredRead
<1>3. "proposals" \in TablesRead("proposals", Len(Reads["proposals"]))
  <2>1. TablesRead("proposals", 3) = {"proposals", "state", "parameters"} /\ Len(Reads["proposals"]) = 3
    BY <1>1, Triple
  <2> QED
    BY <2>1
<1> QED
  BY <1>2, <1>3 DEF HasRead

LEMMA WalkedNext ==
    ASSUME Progress, Progress', Onward, ParametersRead, RequestRead, Walked, [Next]_vars
    PROVE  Walked'
<1> DEFINE C == ProposalCount
<1>1. C \in Nat /\ C' \in Nat /\ C <= C' /\ PerPage \in Nat \ {0}
  BY CountGrows, WebAssumption
<1>2. walk.due \subseteq 1..C
  BY DEF Walked
<1>3. \A k \in Nat : k * PerPage \in Nat
  BY <1>1
<1> HIDE DEF C
<1>4. CASE UNCHANGED <<request, walk>>
  <2>1. walk'.due \subseteq 1..C'
    BY <1>1, <1>2, <1>4
  <2>2. ASSUME NEW k \in Nat, SeenBy(k)
        PROVE  SeenBy(k)'
    <3>1. \A x \in walk.due : x > C - k * PerPage => x \in walk.seen
      BY <2>2 DEF SeenBy, C
    <3>2. \A x \in walk.due : x > C' - k * PerPage => x > C - k * PerPage
      BY <1>1, <1>2, <1>3
    <3> QED
      BY <1>4, <3>1, <3>2 DEF SeenBy, C
  <2>3. ASSUME request.kind = "proposals"
        PROVE  /\ request.arg \in Nat \ {0} /\ request.arg - 1 \in Nat
               /\ SeenBy(request.arg) => SeenBy(request.arg)'
               /\ SeenBy(request.arg - 1) => SeenBy(request.arg - 1)'
    <3>1. PICK a : a = request.arg
      OBVIOUS
    <3>2. a \in Nat \ {0} /\ a - 1 \in Nat
      BY <2>3, <3>1 DEF Walked
    <3>3. (SeenBy(a) => SeenBy(a)') /\ (SeenBy(a - 1) => SeenBy(a - 1)')
      BY <2>2, <3>2
    <3>4. request'.arg = a
      BY <1>4, <3>1
    <3> QED
      BY <3>1, <3>2, <3>3, <3>4
  <2> QED
    BY <1>4, <2>1, <2>3 DEF Walked, HasRead, C
<1>5. ASSUME NEW kind \in Kinds, Ask(kind)
      PROVE  Walked'
  <2>1. PICK arg : /\ kind = "proposals" =>
                         \/ arg = 1
                         \/ request.kind = kind /\ Answered(request) /\ arg = request.arg + 1
                   /\ request'.kind = kind /\ request'.arg = arg /\ request'.got = <<>>
    BY <1>5 DEF Ask, Args
  <2>2. walk' = IF kind = "proposals" THEN walk ELSE NoWalk
    BY <1>5 DEF Ask
  <2>3. UNCHANGED <<chain, chainAt>> /\ C' = C
    BY <1>5 DEF Ask, node, indexers, C, ProposalCount
  <2>4. CASE kind # "proposals"
    BY <2>1, <2>2, <2>4 DEF Walked, NoWalk
  <2>5. CASE kind = "proposals"
    <3>1. ~HasRead(request, "proposals")'
      BY <2>1 DEF HasRead
    <3>2. walk'.due \subseteq 1..C'
      BY <1>2, <2>2, <2>3, <2>5
    <3>3. CASE arg = 1
      BY <2>1, <2>5, <3>1, <3>2, <3>3 DEF Walked, C
    <3>4. CASE request.kind = kind /\ Answered(request) /\ arg = request.arg + 1
      <4>1. HasRead(request, "proposals")
        BY <2>5, <3>4, ProposalsRead
      <4>2. SeenBy(request.arg) /\ request.arg \in Nat \ {0}
        BY <2>5, <3>4, <4>1 DEF Walked
      <4>3. request'.arg - 1 = request.arg /\ request'.arg \in Nat \ {0}
        BY <2>1, <3>4, <4>2
      <4>4. SeenBy(request.arg - 1)'
        BY <2>2, <2>3, <2>5, <4>2, <4>3 DEF SeenBy, C
      <4> QED
        BY <2>1, <2>5, <3>1, <3>2, <4>3, <4>4 DEF Walked, C
    <3> QED
      BY <2>1, <2>5, <3>3, <3>4
  <2> QED
    BY <2>4, <2>5
<1>6. CASE Read
  <2> DEFINE k == request.kind
             n == request.done
  <2>a. PICK table : table = Reads[k][n + 1]
    OBVIOUS
  <2>b. PICK found : found = Found(request, table)
    OBVIOUS
  <2>c. PICK p : p = request.arg
    OBVIOUS
  <2>1. k \in Kinds /\ n \in 0..Len(Reads[k]) - 1
    <3>1. k \in Kinds /\ n # Len(Reads[k])
      BY <1>6 DEF Read, Served
    <3> QED
      BY <3>1, AllRead DEF RequestRead
  <2>2. DOMAIN request.got = TablesRead(k, n) /\ (table = "proposals" => k = "proposals")
    <3>1. DOMAIN request.got = TablesRead(k, n)
      BY <2>1 DEF RequestRead, TablesRead
    <3> HIDE DEF k, n
    <3> QED
      BY <2>1, <2>a, <3>1, Order
  <2>3. /\ request'.kind = k /\ request'.arg = p
        /\ DOMAIN request'.got = DOMAIN request.got \cup {table}
    BY <1>6, <2>a, <2>c DEF Read, RequestRead
  <2>4. UNCHANGED <<chain, chainAt>> /\ C' = C
    BY <1>6 DEF Read, node, indexers, C, ProposalCount
  <2>5. CASE table # "proposals"
    <3>1. walk' = walk
      BY <1>6, <2>a, <2>5 DEF Read
    <3>2. HasRead(request, "proposals")' = HasRead(request, "proposals")
      BY <2>3, <2>5 DEF HasRead
    <3>3. \A i : SeenBy(i)' = SeenBy(i)
      BY <2>4, <3>1 DEF SeenBy, C
    <3>4. SeenBy(request.arg)' = SeenBy(request.arg)
          /\ SeenBy(request.arg - 1)' = SeenBy(request.arg - 1)
      <4>1. SeenBy(p)' = SeenBy(p) /\ SeenBy(p - 1)' = SeenBy(p - 1)
        BY <3>3
      <4> QED
        BY <2>c, <2>3, <4>1
    <3> QED
      BY <2>3, <2>4, <2>c, <3>1, <3>2, <3>4 DEF Walked, C
  <2>6. CASE table = "proposals"
    <3>1. found = Page(Proposals, p) /\ k = "proposals" /\ p \in Nat \ {0}
      BY <2>2, <2>6, <2>b, <2>c DEF Found, Walked
    <3>2. /\ walk'.due = IF p = 1 THEN ToSet(Proposals) ELSE walk.due
          /\ walk'.seen = found.rows \cup IF p = 1 THEN {} ELSE walk.seen
          /\ walk'.pages = PagesOf(found.total)
      BY <1>6, <2>a, <2>b, <2>c, <2>6 DEF Read
    <3>3. /\ p * PerPage \in Nat /\ (p - 1) * PerPage = p * PerPage - PerPage
          /\ \A x \in 1..C : C - p * PerPage < x /\ x <= C - (p - 1) * PerPage => x \in found.rows
          /\ p >= PagesOf(found.total) => C <= p * PerPage
      BY <1>1, <3>1, PageHas DEF C
    <3>4. walk'.due \subseteq 1..C
      <4>1. ToSet(Proposals) \subseteq 1..C
        BY <1>1 DEF ToSet, Proposals, C
      <4> QED
        BY <1>2, <3>2, <4>1
    <3>5. ASSUME NEW x \in walk'.due, x > C - p * PerPage
          PROVE  x \in walk'.seen
      <4>1. x \in 1..C
        BY <3>4
      <4>2. CASE p = 1
        <5>1. (p - 1) * PerPage = 0
          BY <1>1, <4>2
        <5> QED
          BY <1>1, <3>2, <3>3, <3>5, <4>1, <5>1
      <4>3. CASE p # 1 /\ x <= C - (p - 1) * PerPage
        BY <3>2, <3>3, <3>5, <4>1, <4>3
      <4>4. CASE p # 1 /\ ~(x <= C - (p - 1) * PerPage)
        <5>1. ~HasRead(request, "proposals")
          <6> HIDE DEF k, n
          <6> QED
            BY <2>1, <2>2, <2>6, <2>a, Order DEF HasRead
        <5>2. SeenBy(p - 1) /\ x \in walk.due
          BY <2>c, <3>1, <3>2, <4>4, <5>1 DEF Walked
        <5>3. x > C - (p - 1) * PerPage
          BY <1>1, <3>3, <4>1, <4>4
        <5>4. x \in walk.seen
          BY <5>2, <5>3 DEF SeenBy, C
        <5> QED
          BY <3>2, <4>4, <5>4
      <4> QED
        BY <4>2, <4>3, <4>4
    <3>6. ASSUME p >= walk'.pages
          PROVE  walk'.due \subseteq walk'.seen
      <4>1. C <= p * PerPage
        BY <3>2, <3>3, <3>6
      <4>2. \A x \in walk'.due : x > C - p * PerPage
        BY <1>1, <3>3, <3>4, <4>1
      <4> QED
        BY <3>5, <4>2
    <3>7. SeenBy(request.arg)'
      BY <2>3, <2>4, <3>5 DEF SeenBy, C
    <3>8. HasRead(request, "proposals")'
      BY <2>3, <2>6 DEF HasRead
    <3> QED
      BY <2>3, <2>4, <3>1, <3>4, <3>6, <3>7, <3>8 DEF Walked, C
  <2> QED
    BY <2>5, <2>6
<1>7. CASE Grow \/ Indexers \/ Parameters \/ ParametersRestart \/ UNCHANGED vars
  <2>1. UNCHANGED <<request, walk>>
    BY <1>7 DEF vars, Grow, Indexers, CommitSnapshot, CommitBlock, CommitTransactions, CommitValidators,
                Commits, Parameters, ReadParameters, ReadGasPrices, WriteParameters,
                ParametersRestart, Crawls
  <2> QED
    BY <1>4, <2>1
<1> QED
  BY <1>5, <1>6, <1>7 DEF Next, Client

-----------------------------------------------------------------------------
(* The properties.                                                         *)

LEMMA WebInit == Init => WebInv
<1> SUFFICES ASSUME Init PROVE WebInv
  OBVIOUS
<1>1. Progress
  <2>1. IsChain(chain) /\ tip = 1 /\ chainAt = 0 /\ base = 0 /\ txAt = 0 /\ posAt = 0
    BY WebAssumption DEF Init
  <2>2. tip \in Heights /\ Epoch \in Nat
    <3>1. chain \in Seq(Blocks) /\ chain # <<>>
      BY <2>1 DEF IsChain
    <3>2. Len(chain) \in Nat /\ 1 \in Heights /\ chain[1] \in Blocks
      BY <3>1 DEF Heights
    <3> QED
      BY <2>1, <3>2 DEF Epoch, EpochOf, Blocks
  <2> QED
    BY <2>1, <2>2 DEF Progress
<1>2. ParametersRead
  BY DEF Init, ParametersRead
<1>3. "idle" \notin Kinds
  BY KindsAre
<1>4. RequestRead
  BY <1>3 DEF Init, RequestRead
<1>5. Walked
  BY DEF Init, Walked, NoWalk
<1> QED
  BY <1>1, <1>2, <1>4, <1>5 DEF WebInv

\* How far the indexers are, what the parameters indexer and the request read, and
\* what the client saw, at every moment.
THEOREM WebInvariant == Spec => []WebInv
<1>1. WebInv /\ [Next]_vars => WebInv'
  <2> SUFFICES ASSUME WebInv, [Next]_vars PROVE WebInv'
    OBVIOUS
  <2>1. Progress' /\ Onward
    BY ProgressNext DEF WebInv
  <2>2. ParametersRead' /\ RequestRead'
    BY ParametersNext, RequestNext DEF WebInv
  <2>3. Walked'
    BY <2>1, WalkedNext DEF WebInv
  <2> QED
    BY <2>1, <2>2, <2>3 DEF WebInv
<1> QED
  BY <1>1, WebInit, PTL DEF Spec

\* Only two handlers show transactions, each after it read the tokens.
LEMMA TransactionsLast ==
    ASSUME NEW k \in Kinds, NEW n \in 0..Len(Reads[k])
    PROVE  /\ "transactions" \in TablesRead(k, n) => k = "block" /\ "tokens" \in TablesRead(k, n)
           /\ "recent" \in TablesRead(k, n) => k = "recent" /\ "tokens" \in TablesRead(k, n)
           /\ k = "status" => TablesRead(k, n) \subseteq {"height", "epoch"}
<1>1. CASE k \in {"status", "bonds", "withdraws", "recent", "supply", "gas", "balances"}
  <2>1. PICK a, b : Reads[k] = <<a, b>>
    BY <1>1, KindsAre
  <2>2. /\ n = 0 \/ n = 1 \/ n = 2
        /\ TablesRead(k, 0) = {} /\ TablesRead(k, 1) = {a} /\ TablesRead(k, 2) = {a, b}
    BY <2>1, Pair
  <2>3. /\ <<a, b>> \in {<<"height", "epoch">>, <<"pos", "bonds">>, <<"state", "matured">>,
                         <<"tokens", "recent">>, <<"supply", "locked">>, <<"tokens", "prices">>,
                         <<"balances", "tokens">>}
        /\ <<a, b>> = <<"tokens", "recent">> => k = "recent"
        /\ k = "status" => <<a, b>> = <<"height", "epoch">>
    BY <1>1, <2>1, KindsAre
  <2> QED
    BY <1>1, <2>2, <2>3
<1>2. CASE k \in {"unbonds", "proposals"}
  <2>1. Reads[k] = <<k, "state", "parameters">>
    BY <1>2, KindsAre
  <2>2. TablesRead(k, n) \subseteq {k, "state", "parameters"}
    <3>1. n = 0 \/ n = 1 \/ n = 2 \/ n = 3
      BY <2>1, Triple
    <3> QED
      BY <2>1, <3>1, Triple
  <2> QED
    BY <1>2, <2>2
<1>3. CASE k \in {"merged", "block"}
  <2>1. PICK a, b, c, d : Reads[k] = <<a, b, c, d>>
    BY <1>3, KindsAre
  <2>2. /\ n = 0 \/ n = 1 \/ n = 2 \/ n = 3 \/ n = 4
        /\ TablesRead(k, 0) = {} /\ TablesRead(k, 1) = {a} /\ TablesRead(k, 2) = {a, b}
        /\ TablesRead(k, 3) = {a, b, c} /\ TablesRead(k, 4) = {a, b, c, d}
    BY <2>1, Quadruple
  <2>3. /\ k = "merged" => a = "state" /\ b = "pos" /\ c = "merged" /\ d = "parameters"
        /\ k = "block" => a = "block" /\ b = "previous" /\ c = "tokens" /\ d = "transactions"
    BY <1>3, <2>1, KindsAre
  <2> QED
    BY <1>3, <2>2, <2>3
<1> QED
  BY <1>1, <1>2, <1>3, KindsAre

LEMMA AnswersHold == WebInv => AnswersInStep
<1> SUFFICES ASSUME WebInv, Answered(request) PROVE AnswersInStep
  BY DEF AnswersInStep
<1> DEFINE k == request.kind
           g == request.got
<1>1. Progress /\ RequestRead
  BY DEF WebInv
<1>2. CASE k \notin Kinds
  BY <1>2, KindsAre DEF AnswersInStep
<1>3. CASE k \in Kinds
  <2>1. DOMAIN g = TablesRead(k, Len(Reads[k]))
    BY <1>1, <1>3, AnsweredRead
  <2>2. \A t \in DOMAIN g : g[t] # Nothing /\ StillHolds(request, t, g[t])
    BY <1>1, <1>3 DEF RequestRead, Answered, Missing, Got
  <2>3. /\ Epoch \in Nat /\ posAt \in Nat /\ posAt \in 0..Epoch
        /\ \A h \in 1..chainAt : EpochOf(h) \in 1..Epoch
    BY <1>1, ChainFacts DEF Progress
  <2>4. ASSUME NEW t \in {"height", "state"}, t \in DOMAIN g
        PROVE  \E h \in 1..chainAt : g[t] = [block |-> h, epoch |-> EpochOf(h)]
    BY <2>2, <2>4 DEF StillHolds, IsState
  <2>5. ASSUME "pos" \in DOMAIN g
        PROVE  \E e \in 1..posAt : g["pos"] = [epoch |-> e]
    BY <2>2, <2>5 DEF StillHolds
  <2>6. CASE k = "bonds"
    <3>1. "pos" \in DOMAIN g /\ "bonds" \in DOMAIN g
      BY <1>3, <2>1, <2>6, AllRead
    <3>2. \A b \in g["bonds"] : b.epoch \in Nat
      BY <2>2, <3>1 DEF StillHolds
    <3>3. g["pos"].epoch \in Nat /\ g["pos"].epoch <= Epoch
      <4>1. PICK e \in 1..posAt : g["pos"] = [epoch |-> e]
        BY <2>5, <3>1
      <4> QED
        BY <2>3, <4>1
    <3> QED
      BY <2>3, <2>6, <3>2, <3>3 DEF AnswersInStep, BondActive, Got
  <2>7. CASE k = "unbonds"
    <3>1. "state" \in DOMAIN g /\ "unbonds" \in DOMAIN g
      BY <1>3, <2>1, <2>7, AllRead
    <3>2. \A u \in g["unbonds"] : u.epoch \in Nat
      BY <2>2, <3>1 DEF StillHolds
    <3>3. g["state"].epoch \in Nat /\ g["state"].epoch <= Epoch
      <4>1. PICK h \in 1..chainAt : g["state"] = [block |-> h, epoch |-> EpochOf(h)]
        BY <2>4, <3>1
      <4> QED
        BY <2>3, <4>1
    <3> QED
      BY <2>3, <2>7, <3>2, <3>3 DEF AnswersInStep, CanWithdraw, Got
  <2>8. CASE k = "merged"
    <3>1. "state" \in DOMAIN g /\ "merged" \in DOMAIN g
      BY <1>3, <2>1, <2>8, AllRead
    <3>2. IsMerged(g["merged"])
      BY <2>2, <3>1 DEF StillHolds
    <3>3. g["state"].epoch \in Nat /\ g["state"].epoch <= Epoch
      <4>1. PICK h \in 1..chainAt : g["state"] = [block |-> h, epoch |-> EpochOf(h)]
        BY <2>4, <3>1
      <4> QED
        BY <2>3, <4>1
    <3>4. ASSUME NEW row \in g["merged"], CanWithdraw(row, g["state"]), NEW u \in row.unbonds
          PROVE  u.epoch <= Epoch
      BY <2>3, <3>2, <3>3, <3>4 DEF IsMerged, CanWithdraw
    <3> QED
      BY <2>8, <3>2, <3>4 DEF AnswersInStep, IsMerged, Got
  <2>9. CASE k = "withdraws"
    <3>1. "matured" \in DOMAIN g
      BY <1>3, <2>1, <2>9, AllRead
    <3> QED
      BY <2>2, <2>9, <3>1 DEF StillHolds, AnswersInStep, Got
  <2>10. CASE k = "status"
    <3>1. "height" \in DOMAIN g /\ "epoch" \in DOMAIN g
      BY <1>3, <2>1, <2>10, AllRead
    <3>2. PICK h \in 1..chainAt : g["height"] = [block |-> h, epoch |-> EpochOf(h)]
      BY <2>4, <3>1
    <3>3. PICK i \in 1..chainAt : g["epoch"] = [block |-> i, epoch |-> EpochOf(i)]
      BY <2>2, <3>1 DEF StillHolds, IsState
    <3>4. EpochOf(h) <= g["epoch"].epoch
      BY <2>2, <3>1, <3>2 DEF StillHolds, Got
    <3>5. g["epoch"].epoch \in EpochOf(g["height"].block)..Epoch
      BY <2>3, <3>2, <3>3, <3>4
    <3> QED
      BY <2>10, <3>5 DEF AnswersInStep, Got
  <2>11. CASE k = "balances"
    <3>1. "tokens" \in DOMAIN g
      BY <1>3, <2>1, <2>11, AllRead
    <3>2. g["balances"] \subseteq g["tokens"]
      BY <2>2, <2>11, <3>1 DEF StillHolds, Got
    <3> QED
      BY <2>11, <3>2 DEF AnswersInStep, BalancesShown, Got
  <2>12. CASE k = "supply"
    <3>1. "locked" \in DOMAIN g
      BY <1>3, <2>1, <2>12, AllRead
    <3> QED
      BY <2>2, <2>12, <3>1 DEF StillHolds, AnswersInStep, Got
  <2>13. CASE k \in {"proposals", "block", "recent", "gas"}
    BY <2>13 DEF AnswersInStep
  <2> QED
    BY <1>3, <2>6, <2>7, <2>8, <2>9, <2>10, <2>11, <2>12, <2>13, KindsAre
<1> QED
  BY <1>2, <1>3

LEMMA PanicsHold == WebInv => PanicsExplained
<1> SUFFICES ASSUME WebInv, Served(request), Panics(request) PROVE PanicsExplained
  BY DEF PanicsExplained
<1> DEFINE k == request.kind
           g == request.got
<1>1. Progress /\ RequestRead
  BY DEF WebInv
<1>2. CASE k \notin Kinds
  BY <1>1, <1>2, KindsAre DEF RequestRead, Panics, HasRead, StatusMissing
<1>3. CASE k \in Kinds
  <2>1. /\ DOMAIN g = TablesRead(k, request.done) /\ request.done \in 0..Len(Reads[k])
        /\ \A t \in DOMAIN g : StillHolds(request, t, g[t])
        /\ request.asked \in 0..chainAt
    BY <1>1, <1>3 DEF RequestRead, TablesRead, Got
  <2>2. /\ chainAt \in Nat /\ txAt \in Nat /\ tip \in Nat /\ txAt <= tip /\ chainAt <= tip
        /\ \A h \in 1..tip : /\ chain[h].fee \in {"none", "native", "voucher"}
                             /\ chain[h].fee = "voucher" => \E i \in 1..h : chain[i].token
    BY <1>1, ChainFacts DEF Progress
  <2>3. request.asked \in Nat /\ request.asked <= chainAt
    BY <2>1, <2>2
  <2>4. CASE HasRead(request, "parameters") /\ ~Missing(request) /\ TimesPanic(Got(request, "parameters"))
    <3> DEFINE row == g["parameters"]
    <3>1. "parameters" \in DOMAIN g /\ row # Nothing /\ row.minDuration \div row.maxBlockTime = 0
      BY <2>4 DEF HasRead, Missing, TimesPanic, Got
    <3>2. IsParameters(row)
      BY <2>1, <3>1 DEF StillHolds
    <3> HIDE DEF row
    <3>3. PICK b \in 1..Epoch : row.maxBlockTime = NodeParameters[b].maxBlockTime
      BY <3>2 DEF IsParameters
    <3>4. b \in DOMAIN NodeParameters
      <4>1. tip \in Heights
        BY <1>1 DEF Progress
      <4> QED
        BY <1>1, <4>1, ChainFacts DEF Epoch, EpochOf
    <3>5. /\ NodeParameters[b].minDuration \in Nat
          /\ row.maxBlockTime \in 1..NodeParameters[b].minDuration
          /\ row.minDuration \in Nat
      BY <3>2, <3>3, <3>4, WebAssumption DEF IsParameters
    <3>6. row.minDuration < row.maxBlockTime
      <4>1. PICK x, y : x = row.minDuration /\ y = row.maxBlockTime
        OBVIOUS
      <4>2. x \in Nat /\ y \in Nat \ {0} /\ x \div y = 0
        BY <3>1, <3>5, <4>1 DEF row
      <4>3. x < y
        BY <4>2
      <4> QED
        BY <4>1, <4>3
    <3>7. NodeParameters[b].minDuration # row.minDuration
      BY <3>5, <3>6
    <3> QED
      BY <2>4, <3>3, <3>7 DEF PanicsExplained, Got, row
  <2>5. ASSUME NEW h \in 1..txAt, k \in {"block", "recent"},
               chain[h].fee \notin g["tokens"], chain[h].fee # "none", "tokens" \in DOMAIN g
        PROVE  PanicsExplained
    <3>1. TokensSince(request.asked, g["tokens"])
      BY <2>1, <2>5 DEF StillHolds
    <3>2. h \in 1..tip
      BY <2>2
    <3>3. ~(h <= request.asked)
      <4> SUFFICES ASSUME h <= request.asked PROVE FALSE
        OBVIOUS
      <4>1. "native" \in g["tokens"] /\ ((\E i \in 1..h : chain[i].token) => "voucher" \in g["tokens"])
        BY <2>3, <3>1 DEF TokensSince
      <4> QED
        BY <2>2, <2>5, <3>2, <4>1
    <3>4. h \in request.asked + 1..txAt
      BY <2>2, <2>3, <3>3
    <3> QED
      BY <2>5, <3>4 DEF PanicsExplained, Got
  <2>6. CASE HasRead(request, "transactions") /\ FeeTokenUnknown(request, "transactions")
    <3>1. k = "block" /\ "tokens" \in DOMAIN g /\ "transactions" \in DOMAIN g
      BY <1>3, <2>1, <2>6, TransactionsLast DEF HasRead
    <3>2. PICK fee \in g["transactions"] : fee \notin g["tokens"]
      BY <2>6 DEF FeeTokenUnknown, Got
    <3>3. request.arg \in 1..txAt /\ fee = chain[request.arg].fee /\ fee # "none"
      BY <2>1, <3>1, <3>2 DEF StillHolds
    <3> QED
      BY <2>5, <3>1, <3>2, <3>3
  <2>7. CASE HasRead(request, "recent") /\ FeeTokenUnknown(request, "recent")
    <3>1. k = "recent" /\ "tokens" \in DOMAIN g /\ "recent" \in DOMAIN g
      BY <1>3, <2>1, <2>7, TransactionsLast DEF HasRead
    <3>2. PICK fee \in g["recent"] : fee \notin g["tokens"]
      BY <2>7 DEF FeeTokenUnknown, Got
    <3>3. fee # "none" /\ \E h \in 1..txAt : fee = chain[h].fee
      BY <2>1, <3>1, <3>2 DEF StillHolds
    <3> QED
      BY <2>5, <3>1, <3>2, <3>3
  <2>8. CASE StatusMissing(request)
    <3>1. PICK t \in DOMAIN g : g[t] = Nothing
      BY <2>8 DEF StatusMissing, Missing, Got
    <3>2. t \in {"height", "epoch"}
      BY <1>3, <2>1, <2>8, <3>1, TransactionsLast DEF StatusMissing
    <3>3. IsState(request.asked, Nothing)
      BY <2>1, <3>1, <3>2 DEF StillHolds
    <3>4. ASSUME NEW h \in 1..chainAt, Nothing = [block |-> h, epoch |-> EpochOf(h)]
          PROVE  FALSE
      BY <1>1, <3>4, ChainFacts, WebAssumption DEF EpochOf
    <3> QED
      BY <2>8, <3>3, <3>4 DEF IsState, StatusMissing, PanicsExplained
  <2> QED
    BY <2>4, <2>6, <2>7, <2>8 DEF Panics
<1> QED
  BY <1>2, <1>3

\* No proposal is skipped.
LEMMA PagesHold == WebInv => NothingSkipped
<1> SUFFICES ASSUME WebInv, request.kind = "proposals", Answered(request), request.arg >= walk.pages
             PROVE  walk.due \subseteq walk.seen
  BY DEF NothingSkipped
<1>1. HasRead(request, "proposals")
  BY ProposalsRead DEF WebInv
<1> QED
  BY <1>1 DEF WebInv, Walked

\* AnswersInStep: whatever the indexers commit between the reads of a request, what
\* it answers as active or withdrawable is so on the chain, no unbond is in two rows,
\* the epoch of a status is not behind its height, and no balance is left out.
THEOREM AnswersRelate == Spec => []AnswersInStep
  BY WebInvariant, AnswersHold, PTL

\* PanicsExplained: a request panics for no other reason than a fee token the chain
\* indexer had not inserted when it came, a state it had not written, or a stored
\* duration of an epoch that the chain has changed.
THEOREM PanicsHaveReason == Spec => []PanicsExplained
  BY WebInvariant, PanicsHold, PTL

\* NothingSkipped: with every length of a page, the client that reads all pages sees
\* each proposal there was at the first, although newer ones move them back.
THEOREM PagesMissNothing == Spec => []NothingSkipped
  BY WebInvariant, PagesHold, PTL
=============================================================================
