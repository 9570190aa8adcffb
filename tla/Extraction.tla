---------------------------- MODULE Extraction -----------------------------
(***************************************************************************)
(* From a block to rows (shared/src/block.rs, block_result.rs,             *)
(* transaction.rs, utils.rs): the outcomes are read from the events of the *)
(* block, every wrapper transaction is decoded with its batch, and         *)
(* functions over the decoded transactions list what changed, so that the  *)
(* chain indexer asks the node for it.  The chain grows by any blocks of   *)
(* the configuration; the indexer decodes them transaction by transaction  *)
(* and commits the tokens and the proposals it found.                      *)
(*                                                                         *)
(* Amounts, memos and the contents of proposals are left out.  A           *)
(* transaction's data decodes if its code is known to the checksums.       *)
(***************************************************************************)
EXTENDS NamadaBlock, SequencesExt

CONSTANTS
    Raws,       \* the raw transactions considered, with their outcomes
    MaxBlocks,  \* bound: blocks of the chain
    MaxPerBlock,  \* bound: transactions of a block
    MaxTxs      \* bound: transactions of the chain

VARIABLES
    chain,      \* node: the blocks
    decoded,    \* indexer: the transactions of the next block decoded so far
    taken,      \* indexer: how many of its raw transactions were looked at
    height,     \* database: the last block that is indexed
    tokens,     \* database: the token table
    proposals   \* database: governance_proposals, an id and the transaction

ASSUME RawsAssumption == \A raw \in Raws : raw = Protocol \/ IsExecutedWrapper(raw)
ASSUME ExtractionBounds == {MaxBlocks, MaxPerBlock, MaxTxs} \subseteq Nat

vars == <<chain, decoded, taken, height, tokens, proposals>>

Block == chain[height + 1]

-----------------------------------------------------------------------------
(* The events of a block: block_result.rs.                                 *)

Events(block) == FeeEvents(block) \cup BatchEvents(block)
First(events) == {e \in events : \A f \in events \ {e} : Before(e.at, f.at)}

\* The outcome of a wrapper, from the first event with its hash.
Applied(events, t) == First({e \in events : e.kind = "tx/applied" /\ e.at[2] = t})
IsWrapperTxApplied(events, t) == \E e \in Applied(events, t) : e.ok
IsInnerTxAccepted(events, t, j) == \E e \in Applied(events, t) : e.batch[j]

\* The event of the inner transaction among those of the pool.  Only the first
\* of them in the block is compared: find_map ends at it also if it is another's.
MaspEvents == {"masp/fee-payment", "masp/transfer"}
MaspRef(events, t, j) ==
    LET refs == {e \in First({f \in events : f.kind \in MaspEvents}) :
                    e.at[2] = t /\ e.at[3] = j}
    IN IF refs = {} THEN "none" ELSE (CHOOSE e \in refs : TRUE).kind

-----------------------------------------------------------------------------
(* Tokens of packets: utils.rs.                                            *)

NoTrace == <<>>
TraceWhenReceiving(denom, channel) ==
    IF ~Returns(denom, channel) THEN <<channel>> \o denom
    ELSE IF Hops(Tail(denom)) = 0 THEN NoTrace ELSE Tail(denom)
TraceWhenSending(denom) == denom

\* A denomination that contains the native token is taken for it, whatever hops
\* it has.
GetIbcToken(trace, denom) ==
    IF Last(denom) = Last(Native) THEN Native
    ELSE IF trace = NoTrace THEN <<Last(denom)>> ELSE trace

TokenOf(i) ==
    GetIbcToken(IF i.msg = "recv" THEN TraceWhenReceiving(i.denom, i.channel)
                ELSE TraceWhenSending(i.denom), i.denom)

-----------------------------------------------------------------------------
(* Decoding a transaction: transaction.rs.                                 *)

Owners(accounts) == {a[1] : a \in accounts}

TransferToTxKind(i) ==
    LET AllMasp(accounts) == Owners(accounts) \subseteq {"masp"}
        AnyMasp(accounts) == "masp" \in Owners(accounts)
    IN CASE i.shielded /\ AllMasp(i.sources) /\ AllMasp(i.targets) -> "ShieldedTransfer"
         [] i.shielded /\ AllMasp(i.sources) /\ ~AllMasp(i.targets) /\ ~AnyMasp(i.targets) ->
                "UnshieldingTransfer"
         [] i.shielded /\ ~AllMasp(i.sources) /\ ~AnyMasp(i.sources) /\ AllMasp(i.targets) ->
                "ShieldingTransfer"
         [] ~i.shielded /\ ~AnyMasp(i.sources) /\ ~AnyMasp(i.targets) -> "TransparentTransfer"
         [] OTHER -> "MixedTransfer"

\* Of fungible tokens only, and of packets that can be decoded: the code panics on the
\* others.
TransferToIbcTxKind(i) ==
    CASE i.msg = "recv" /\ i.shielded -> "IbcShieldingTransfer"
      [] i.msg = "recv" /\ ~i.shielded -> "IbcRecvTransparentTransfer"
      [] i.msg = "transfer" /\ i.shielded -> "IbcUnshieldingTransfer"
      [] i.msg = "transfer" /\ ~i.shielded -> "IbcSendTransparentTransfer"
      [] OTHER -> "IbcMsg"

KindOf(i) ==
    CASE ~i.known -> "Unknown"
      [] i.known /\ i.code = "tx_transfer" -> TransferToTxKind(i)
      [] i.known /\ i.code = "tx_ibc" -> TransferToIbcTxKind(i)
      [] OTHER -> i.code

\* The last transaction of the batch that an event calls a fee payment.
MaspFeePayment(events, t, batch) ==
    LET pays == {j \in DOMAIN batch : MaspRef(events, t, j) = "masp/fee-payment"}
    IN IF pays = {} THEN 0 ELSE CHOOSE j \in pays : \A i \in pays : i <= j

InnerTransaction(events, t, j, inner) ==
    [kind |-> KindOf(inner), data |-> inner, applied |-> IsInnerTxAccepted(events, t, j),
     notes |-> MaspRef(events, t, j) # "none"]

Deserialize(events, t, w) ==
    [tx |-> t, payer |-> w.payer, token |-> w.token, atomic |-> w.atomic,
     applied |-> IsWrapperTxApplied(events, t),
     feePayment |-> MaspFeePayment(events, t, w.batch),
     batch |-> [j \in DOMAIN w.batch |-> InnerTransaction(events, t, j, w.batch[j])]]

\* Faulty variant: a batch that is atomic is not told from one that is not.
SuccessfulUnlessFeePayment(w, j) == w.batch[j].applied

\* An inner transaction counts if it was applied, and its batch was, or need
\* not be.
WasSuccessful(w, j) ==
    /\ w.batch[j].applied
    /\ w.applied \/ w.feePayment = j \/ ~w.atomic

-----------------------------------------------------------------------------
(* What the decoded transactions changed: block.rs.                        *)

IbcTransfers == {"IbcSendTransparentTransfer", "IbcRecvTransparentTransfer",
                 "IbcShieldingTransfer", "IbcUnshieldingTransfer"}
PoolTransfers == {"ShieldingTransfer", "UnshieldingTransfer", "MixedTransfer"}

\* The successful inner transactions of the block: their indices, and themselves
\* with their place in the block.
SuccessfulAt(d) ==
    {at \in UNION {{k} \X DOMAIN d[k].batch : k \in DOMAIN d} : WasSuccessful(d[at[1]], at[2])}
PlaceOf(d, at) == <<d[at[1]].tx, at[2]>>
Successful(d) ==
    {[kind |-> d[at[1]].batch[at[2]].kind, data |-> d[at[1]].batch[at[2]].data,
      at |-> PlaceOf(d, at)] : at \in SuccessfulAt(d)}

\* The accounts of a transfer over IBC on this chain: the receiver, or the
\* sender, and what its transfer takes out of the pool.
IbcAccounts(i) ==
    {<<i.party, TokenOf(i)>>}
        \cup IF i.msg = "transfer" /\ i.shielded THEN {<<"masp", i.denom>>} ELSE {}

\* Faulty variant: the tokens of transfers into and out of the pool are left out.
IbcTokensTransparent(d) ==
    {TokenOf(i.data) : i \in {s \in Successful(d) :
        s.kind \in {"IbcSendTransparentTransfer", "IbcRecvTransparentTransfer"}}} \ {Native}

IbcTokens(d) ==
    {TokenOf(i.data) : i \in {s \in Successful(d) : s.kind \in IbcTransfers}} \ {Native}

\* Faulty variant: the refund of a timeout is forgotten.
RefundOfAck(i) == IF i.msg = "ackError" THEN {<<i.party, TokenOf(i)>>} ELSE {}

\* An acknowledgement of a failure and a timeout give the sender his tokens
\* back.
RefundOf(i) ==
    IF i.msg \in {"ackError", "timeout"} THEN {<<i.party, TokenOf(i)>>} ELSE {}

WithPool(accounts) == accounts \cup {<<"masp", a[2]>> : a \in accounts}

StakeBalances(s) ==
    CASE s.kind \in {"tx_bond", "tx_withdraw", "tx_claim_rewards"} ->
             {<<Delegator(s.data), Native>>}
      [] s.kind = "tx_init_proposal" -> {<<s.data.source, Native>>}
      [] OTHER -> {}

BalancesOf(s, ibcTokens) ==
    CASE s.kind = "IbcMsg" -> RefundOf(s.data)
      [] s.kind = "ShieldedTransfer" -> {<<"masp", token>> : token \in ibcTokens}
      [] s.kind \in PoolTransfers -> WithPool(s.data.sources \cup s.data.targets)
      [] s.kind = "TransparentTransfer" -> s.data.sources \cup s.data.targets
      [] s.kind \in {"IbcSendTransparentTransfer", "IbcRecvTransparentTransfer"} ->
             IbcAccounts(s.data)
      [] s.kind \in {"IbcShieldingTransfer", "IbcUnshieldingTransfer"} ->
             WithPool(IbcAccounts(s.data))
      [] OTHER -> StakeBalances(s)

\* The proposer gets fees in other tokens; its address is one the node knows.
FeesOf(w) ==
    {<<w.payer, w.token>>} \cup IF w.token = Native THEN {} ELSE {<<Proposer, w.token>>}

AddressesWithBalanceChange(d) ==
    (UNION {BalancesOf(s, IbcTokens(d)) : s \in Successful(d)})
        \cup UNION {FeesOf(w) : w \in ToSet(d)}

\* Asked for with every block.
NativeAddresses == {"gov", "pos", "masp", "pgf", "ibc", Proposer} \X {Native}

OfKind(d, kinds) == {s.data : s \in {i \in Successful(d) : i.kind \in kinds}}

BondAddresses(d) ==
    {<<"bond", Delegator(i), i.validator>> : i \in OfKind(d, {"tx_bond", "tx_unbond"})}
        \cup UNION {{<<"bond", i.source, i.validator>>, <<"bond", i.source, i.dest>>} :
                       i \in OfKind(d, {"tx_redelegate"})}
UnbondAddresses(d) ==
    {<<"unbond", Delegator(i), i.validator>> : i \in OfKind(d, {"tx_unbond"})}
WithdrawAddresses(d) ==
    {<<"withdraw", Delegator(i), i.validator>> : i \in OfKind(d, {"tx_withdraw"})}
PosRewards(d) ==
    {<<"claim", Delegator(i), i.validator>> : i \in OfKind(d, {"tx_claim_rewards"})}
GovernanceVotes(d) ==
    {<<"vote", i.source, i.proposal>> : i \in OfKind(d, {"tx_vote_proposal"})}
NewValidators(d) == {<<"validator", i.source>> : i \in OfKind(d, {"tx_become_validator"})}
UpdateValidatorsState(d) ==
    {<<"deactivated", i.source>> : i \in OfKind(d, {"tx_deactivate_validator"})}
        \cup {<<"reactivated", i.source>> : i \in OfKind(d, {"tx_reactivate_validator"})}
ValidatorMetadata(d) ==
    {<<"metadata", i.source>> : i \in OfKind(d, {"tx_change_validator_metadata",
                                                "tx_change_validator_commission"})}
RevealedPks(d) == {<<"key", i.source>> : i \in OfKind(d, {"tx_reveal_pk"})}

ListedChanges(d) ==
    BondAddresses(d) \cup UnbondAddresses(d) \cup WithdrawAddresses(d) \cup PosRewards(d)
        \cup GovernanceVotes(d) \cup NewValidators(d) \cup UpdateValidatorsState(d)
        \cup ValidatorMetadata(d) \cup RevealedPks(d)

\* Faulty variant: every account of a mixed transfer counts, transparent ones too.
PoolEntriesUnfiltered(s) ==
    LET In(accounts) == {<<a[1], a[2], "in">> : a \in accounts}
        Out(accounts) == {<<a[1], a[2], "out">> : a \in accounts}
    IN CASE s.kind \in PoolTransfers -> In(s.data.targets) \cup Out(s.data.sources)
         [] s.kind = "IbcShieldingTransfer" -> In(IbcAccounts(s.data))
         [] s.kind = "IbcUnshieldingTransfer" -> Out(IbcAccounts(s.data))
         [] OTHER -> {}

\* The entries of the MASP pool, an account for each as the code takes them.
PoolEntries(s) ==
    LET In(accounts) == {<<a[1], a[2], "in">> : a \in accounts}
        Out(accounts) == {<<a[1], a[2], "out">> : a \in accounts}
    IN CASE s.kind = "ShieldingTransfer" -> In(s.data.targets)
         [] s.kind = "UnshieldingTransfer" -> Out(s.data.sources)
         [] s.kind = "MixedTransfer" ->
                {e \in In(s.data.targets) \cup Out(s.data.sources) : e[1] = "masp"}
         [] s.kind = "IbcShieldingTransfer" -> In(IbcAccounts(s.data))
         [] s.kind = "IbcUnshieldingTransfer" -> Out(IbcAccounts(s.data))
         [] OTHER -> {}

\* The history of transactions: who sent or received in one, successful or not.
Author(i) ==
    CASE i.kind \in {"IbcMsg", "Unknown", "tx_init_account"} -> {}
      [] i.kind \in {"tx_bond", "tx_unbond", "tx_withdraw", "tx_claim_rewards"} ->
             {Delegator(i.data)}
      [] OTHER -> {i.data.source}
Parties(i) ==
    CASE i.kind \in PoolTransfers \cup {"TransparentTransfer", "ShieldedTransfer"} ->
             Owners(i.data.sources \cup i.data.targets)
      [] i.kind \in IbcTransfers -> Owners(IbcAccounts(i.data))
      [] OTHER -> Author(i)
Sources(d) ==
    UNION {UNION {{<<<<d[t].tx, j>>, owner>> : owner \in Parties(d[t].batch[j])} :
                     j \in DOMAIN d[t].batch} : t \in DOMAIN d}

\* Gas is recorded for a batch that was successful as a whole, with how many of
\* its transactions had notes.
GasEstimates(d) ==
    {[tx |-> w.tx, noted |-> Cardinality({j \in DOMAIN w.batch :
                                   /\ w.batch[j].notes
                                   /\ w.batch[j].kind \in PoolTransfers
                                         \cup {"ShieldedTransfer", "IbcShieldingTransfer",
                                               "IbcUnshieldingTransfer"}})] :
        w \in {v \in ToSet(d) : \A j \in DOMAIN v.batch : WasSuccessful(v, j)}}

\* Faulty variant: a proposal that failed takes an id as well.
ProposalsCounted(d, next) ==
    LET all == {at \in UNION {{k} \X DOMAIN d[k].batch : k \in DOMAIN d} :
                   d[at[1]].batch[at[2]].kind = "tx_init_proposal"}
    IN {[id |-> next + Cardinality({b \in all : Before(b, at)}), at |-> PlaceOf(d, at)] :
           at \in all \cap SuccessfulAt(d)}

\* The proposals of the block: ids are counted on from the chain's counter
\* before it.
GovernanceProposals(d, next) ==
    LET found == {at \in SuccessfulAt(d) : d[at[1]].batch[at[2]].kind = "tx_init_proposal"}
    IN {[id |-> next + Cardinality({b \in found : Before(b, at)}), at |-> PlaceOf(d, at)] :
           at \in found}

-----------------------------------------------------------------------------
(* The chain, and the indexer behind it.                                   *)

Init ==
    /\ chain = <<>>
    /\ decoded = <<>> /\ taken = 0
    /\ height = 0 /\ tokens = {Native} /\ proposals = {}

\* The inner transactions that were kept, by their places in a block and in a
\* chain.
Inners(block) == UNION {{t} \X Kept(block[t]) : t \in {u \in DOMAIN block : IsWrapper(block[u])}}
Places(c) == UNION {{<<h, at[1], at[2]>> : at \in Inners(c[h])} : h \in DOMAIN c}
InnerOf(c, p) == c[p[1]][p[2]].batch[p[3]]

Received(c) == {p \in Places(c) : InnerOf(c, p).code = "tx_ibc" /\ InnerOf(c, p).msg = "recv"}
VoucherOf(i) == ReceivedToken(i.denom, i.channel)

\* The tokens that exist before a place.
Existing(c, place) ==
    {Native} \cup {VoucherOf(InnerOf(c, p)) : p \in {r \in Received(c) : Before(r, place)}}

Finalize(block) ==
    LET grown == Append(chain, block)
    IN /\ Len(chain) < MaxBlocks
       /\ Cardinality(UNION {{h} \X DOMAIN grown[h] : h \in DOMAIN grown}) <= MaxTxs
       /\ \A t \in DOMAIN block : IsWrapper(block[t]) =>
             Needed(block[t]) \subseteq Existing(grown, <<Len(grown), t, 1>>)
       /\ chain' = grown
       /\ UNCHANGED <<decoded, taken, height, tokens, proposals>>

Behind == height < Len(chain)
Complete == Behind /\ taken = Len(Block)

\* A raw transaction that is no wrapper does not decode, but keeps its place.
DecodeTx ==
    /\ Behind /\ taken < Len(Block)
    /\ taken' = taken + 1
    /\ decoded' = IF IsWrapper(Block[taken + 1])
                  THEN Append(decoded, Deserialize(Events(Block), taken + 1, Block[taken + 1]))
                  ELSE decoded
    /\ UNCHANGED <<chain, height, tokens, proposals>>

\* The node's counter after the block before, which holds the next id.
Proposed(c) == {p \in Places(c) : InnerOf(c, p).code = "tx_init_proposal"}
NextGovernanceId == Cardinality({p \in Proposed(chain) : p[1] <= height})

\* Every row of a balance refers to a row of the token table.
RowsAccepted ==
    {a[2] : a \in AddressesWithBalanceChange(decoded)} \subseteq tokens \cup IbcTokens(decoded)

Commit ==
    /\ Complete
    /\ RowsAccepted
    /\ height' = height + 1
    /\ tokens' = tokens \cup IbcTokens(decoded)
    /\ proposals' = proposals \cup
          {[id |-> p.id, at |-> <<height + 1, p.at[1], p.at[2]>>] :
               p \in GovernanceProposals(decoded, NextGovernanceId)}
    /\ decoded' = <<>> /\ taken' = 0
    /\ UNCHANGED chain

\* The attempt ends in an error, or with the process, and is made again.
AttemptFails ==
    /\ taken > 0
    /\ decoded' = <<>> /\ taken' = 0
    /\ UNCHANGED <<chain, height, tokens, proposals>>

Next ==
    \/ \E n \in 1..MaxPerBlock : \E block \in [1..n -> Raws] : Finalize(block)
    \/ DecodeTx
    \/ Commit
    \/ AttemptFails

Spec == Init /\ [][Next]_vars

-----------------------------------------------------------------------------
(* Properties.                                                             *)

InnerAt(block, at) == block[at[1]].batch[at[2]]

\* A fee paid out of the pool by the first transaction of an atomic batch that
\* failed, in a block where another transaction of the pool comes first.
MissedFeePayments(block) ==
    {at \in Inners(block) :
        /\ at[2] = 1 /\ block[at[1]].paysShielded
        /\ block[at[1]].atomic /\ ~block[at[1]].ok
        /\ \E t \in 1..(at[1] - 1) : PaidFromPool(block[t])}

\* The transactions that were kept and that the indexer can see: of known code,
\* and no missed fee payment.
Seen(block) == {at \in Inners(block) \ MissedFeePayments(block) : InnerAt(block, at).known}

\* The transactions that count for the indexer are those the chain kept: none
\* that was rolled back, and all that were not, but for the fee payments that
\* masp_ref does not find; and gas is recorded for the batches kept as a whole.
SuccessSound ==
    Complete =>
        /\ {s.at : s \in Successful(decoded)} = Inners(Block) \ MissedFeePayments(Block)
        /\ {e.tx : e \in GasEstimates(decoded)} =
              {t \in DOMAIN Block : IsWrapper(Block[t]) /\ Kept(Block[t]) = DOMAIN Block[t].batch}

\* Every fee payment of a failed batch that was kept counts (the documentation
\* of was_successful); it does not where another transaction of the pool in the
\* block comes first.
FeePaymentsCount ==
    Complete => \A at \in Inners(Block) :
        at[2] = 1 /\ Block[at[1]].paysShielded => at \in {s.at : s \in Successful(decoded)}

\* The escrow of vouchers that left over another channel, and vouchers of NAM,
\* whose balances are never asked for.
NotAsked(account) ==
    \/ account[1] = "ibc" /\ account[2] # Native
    \/ Last(account[2]) = Last(Native) /\ account[2] # Native

Moved(block) ==
    (UNION {Touched(InnerAt(block, at)) : at \in Seen(block)})
        \cup UNION {{<<w.payer, w.token>>, <<Proposer, w.token>>} :
                       w \in {r \in ToSet(block) : IsWrapper(r)}}

\* Whatever balance a transaction or a fee of the block moved is asked for, and
\* so are exactly the bonds, unbonds, withdrawals, claims, votes, validators and
\* keys that transactions of known code changed, nothing of one that was not kept.
\* The history has the owner of every such balance, but for refunds.
ChangesListed ==
    Complete =>
        /\ {a \in Moved(Block) : ~NotAsked(a)}
              \subseteq AddressesWithBalanceChange(decoded) \cup NativeAddresses
        /\ ListedChanges(decoded) = UNION {Changed(InnerAt(Block, at)) : at \in Seen(Block)}
        /\ \A at \in Seen(Block) :
              \A owner \in Owners(Touched(InnerAt(Block, at))) \ {"ibc", "pos", "gov"} :
                <<at, owner>> \in Sources(decoded) \/ KindOf(InnerAt(Block, at)) = "IbcMsg"

\* A voucher of NAM that did not come back the way NAM left.
IsNamVoucher(i) == Last(i.denom) = Last(Native) /\ VoucherOf(i) # Native

\* A voucher that reached the chain is in the token table once its block is
\* indexed, so that balances and flows can refer to it, and no block is refused
\* for a token that is not; but for vouchers of NAM, which get_ibc_token takes for
\* NAM, and those that transactions of unknown code received.
TokensListed ==
    /\ \A p \in Received(chain) : p[1] <= height /\ InnerOf(chain, p).known =>
          VoucherOf(InnerOf(chain, p)) \in tokens \/ IsNamVoucher(InnerOf(chain, p))
    /\ Complete /\ ~RowsAccepted =>
          \E p \in Received(chain) : /\ p[1] <= height + 1
                                     /\ InnerOf(chain, p).known => IsNamVoucher(InnerOf(chain, p))

\* The id the chain gave a proposal.
ChainId(p) == Cardinality({o \in Proposed(chain) : Before(o, p)})

AfterUnknown(p) ==
    \E o \in Proposed(chain) : o[1] = p[1] /\ Before(o, p) /\ ~InnerOf(chain, o).known

\* A proposal is in the table under the id the chain gave it, unless one of
\* unknown code came before it in its block.
ProposalIds == \A p \in proposals : p.id = ChainId(p.at) \/ AfterUnknown(p.at)

\* The entries of the pool are the moves into and out of it, one for each, but
\* for two of one that leaves over IBC with a refund address of its own.
PoolListed ==
    Complete => \A s \in Successful(decoded) :
        LET voucher == s.data.code = "tx_ibc" /\ Last(s.data.denom) = Last(Native)
        IN s.data.known /\ ~voucher =>
              /\ {<<e[2], e[3]>> : e \in PoolEntries(s)} = PoolMoves(s.data)
              /\ \/ Cardinality(PoolEntries(s)) = Cardinality(PoolMoves(s.data))
                 \/ s.kind = "IbcUnshieldingTransfer" /\ s.data.party # "masp"
=============================================================================
