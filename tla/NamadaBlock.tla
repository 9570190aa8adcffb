---------------------------- MODULE NamadaBlock ----------------------------
(***************************************************************************)
(* External: what a Namada node does with the transactions of a block, as  *)
(* far as the indexers depend on it.  A block is a sequence of raw         *)
(* transactions, protocol ones among them.  A wrapper transaction pays a   *)
(* fee and carries a batch of inner transactions, atomic or not; its       *)
(* outcome is part of its record here, and reaches the indexer only        *)
(* through the events of the block.                                        *)
(*                                                                         *)
(* A token is the sequence of the hops its denomination passed, and of its *)
(* base: <<"nam">> is the native token, <<"c0", "atom">> the voucher of an *)
(* atom received over channel c0, <<"c0", "x", "nam">> the voucher of a    *)
(* NAM that came back over another way than it left.  An account is an     *)
(* owner and a token.                                                      *)
(***************************************************************************)
EXTENDS Naturals, Sequences, FiniteSets

CONSTANT FarEnd     \* the name the other chain gives to a channel's end

Native == <<"nam">>
NoSource == "none"  \* a delegation of a validator to itself
Proposer == "proposer"

\* The order of places in a block or a chain.
Before(p, q) == \E n \in DOMAIN p : p[n] < q[n] /\ \A m \in 1..(n - 1) : p[m] = q[m]

\* A protocol transaction: neither wrapper nor batch.
Protocol == [type |-> "protocol"]
IsWrapper(raw) == raw.type = "wrapper"

-----------------------------------------------------------------------------
(* Execution: fees first, then the batches.  The first inner transaction   *)
(* may pay the fee out of the shielded pool and is kept whatever becomes   *)
(* of the batch; an atomic batch stops at its first failure, and the node  *)
(* keeps nothing else of it.                                               *)

AllAccepted(w) == \A j \in DOMAIN w.batch : w.accepted[j]

Executed(w) ==
    /\ w.paysShielded => w.paid = w.accepted[1]
    /\ ~w.paid => ~w.ok /\ \A j \in DOMAIN w.batch : ~w.accepted[j]
    /\ w.paid /\ AllAccepted(w) => w.ok
    /\ w.paid /\ w.atomic =>
          /\ w.ok = AllAccepted(w)
          /\ \A j \in DOMAIN w.batch, i \in DOMAIN w.batch :
                i < j /\ w.accepted[j] => w.accepted[i]

Kept(w) ==
    IF ~w.paid THEN {}
    ELSE IF w.atomic /\ ~AllAccepted(w) THEN IF w.paysShielded THEN {1} ELSE {}
    ELSE {j \in DOMAIN w.batch : w.accepted[j]}

PaidFromPool(w) == IsWrapper(w) /\ w.paysShielded /\ w.paid

\* The events of a block: the fee payments out of the pool, the other
\* transactions of the pool that were kept, and the outcome of each wrapper, after
\* its batch.  An event is at a place: fees before batches, then the transaction,
\* then the inner one.
FeeEvents(block) ==
    {[kind |-> "masp/fee-payment", at |-> <<1, t, 1>>] :
        t \in {u \in DOMAIN block : PaidFromPool(block[u])}}

InPool(w, j) == w.batch[j].shielded /\ ~(w.paysShielded /\ j = 1)

OutcomeEvents(block) ==
    {[kind |-> "tx/applied", at |-> <<2, t, Len(block[t].batch) + 1>>,
      ok |-> block[t].ok, batch |-> block[t].accepted] :
        t \in {u \in DOMAIN block : IsWrapper(block[u])}}

PoolEvents(block) ==
    UNION {{[kind |-> "masp/transfer", at |-> <<2, t, j>>] :
               j \in {i \in Kept(block[t]) : InPool(block[t], i)}} :
              t \in {u \in DOMAIN block : IsWrapper(block[u])}}

BatchEvents(block) == PoolEvents(block) \cup OutcomeEvents(block)

-----------------------------------------------------------------------------
(* What a kept inner transaction changes.                                  *)

Hops(denom) == Len(denom) - 1

\* ICS 20: a token that comes back loses the hop it left by, any other token
\* gains the hop it arrives by.
Returns(denom, channel) == Hops(denom) > 0 /\ Head(denom) = FarEnd[channel]
ReceivedToken(denom, channel) ==
    IF Returns(denom, channel) THEN Tail(denom) ELSE <<channel>> \o denom
\* A token that did not come by the channel is held in escrow when it leaves.
Escrowed(denom, channel) == ~(Hops(denom) > 0 /\ Head(denom) = channel)

Delegator(i) == IF i.source = NoSource THEN i.validator ELSE i.source

PacketAccounts(i) ==
    LET owner == IF i.shielded THEN "masp" ELSE i.party
        Escrow(token, held) == IF held THEN {<<"ibc", token>>} ELSE {}
    IN CASE i.msg = "recv" ->
                LET token == ReceivedToken(i.denom, i.channel)
                IN {<<owner, token>>} \cup Escrow(token, Returns(i.denom, i.channel))
         [] i.msg = "transfer" ->
                {<<owner, i.denom>>} \cup Escrow(i.denom, Escrowed(i.denom, i.channel))
         [] i.msg \in {"ackError", "timeout"} ->
                {<<i.party, i.denom>>} \cup Escrow(i.denom, Escrowed(i.denom, i.channel))
         [] OTHER -> {}

\* The accounts whose balance it changes.
Touched(i) ==
    CASE i.code = "tx_transfer" -> i.sources \cup i.targets
      [] i.code = "tx_ibc" -> PacketAccounts(i)
      [] i.code \in {"tx_bond", "tx_withdraw", "tx_claim_rewards"} ->
             {<<Delegator(i), Native>>, <<"pos", Native>>}
      [] i.code = "tx_init_proposal" -> {<<i.source, Native>>, <<"gov", Native>>}
      [] OTHER -> {}

\* The stake, votes and validators it changes, each change tagged.
Changed(i) ==
    CASE i.code = "tx_bond" -> {<<"bond", Delegator(i), i.validator>>}
      [] i.code = "tx_unbond" ->
             {<<"bond", Delegator(i), i.validator>>, <<"unbond", Delegator(i), i.validator>>}
      [] i.code = "tx_redelegate" ->
             {<<"bond", i.source, i.validator>>, <<"bond", i.source, i.dest>>}
      [] i.code = "tx_withdraw" -> {<<"withdraw", Delegator(i), i.validator>>}
      [] i.code = "tx_claim_rewards" -> {<<"claim", Delegator(i), i.validator>>}
      [] i.code = "tx_vote_proposal" -> {<<"vote", i.source, i.proposal>>}
      [] i.code = "tx_become_validator" -> {<<"validator", i.source>>}
      [] i.code = "tx_deactivate_validator" -> {<<"deactivated", i.source>>}
      [] i.code = "tx_reactivate_validator" -> {<<"reactivated", i.source>>}
      [] i.code \in {"tx_change_validator_metadata", "tx_change_validator_commission"} ->
             {<<"metadata", i.source>>}
      [] i.code = "tx_reveal_pk" -> {<<"key", i.source>>}
      [] OTHER -> {}

\* What it moves into the shielded pool and out of it, by token.
PoolMoves(i) ==
    CASE i.code = "tx_transfer" ->
             {<<a[2], "out">> : a \in {s \in i.sources : s[1] = "masp"}}
                 \cup {<<a[2], "in">> : a \in {s \in i.targets : s[1] = "masp"}}
      [] i.code = "tx_ibc" /\ i.shielded /\ i.msg = "recv" ->
             {<<ReceivedToken(i.denom, i.channel), "in">>}
      [] i.code = "tx_ibc" /\ i.shielded /\ i.msg = "transfer" -> {<<i.denom, "out">>}
      [] OTHER -> {}

\* The tokens a wrapper needs to exist before it can be executed.
Needed(w) ==
    {w.token} \cup {a[2] : a \in UNION {w.batch[j].sources : j \in
                        {k \in Kept(w) : w.batch[k].code = "tx_transfer"}}}
    \cup {w.batch[j].denom : j \in {k \in Kept(w) : /\ w.batch[k].code = "tx_ibc"
                                                  /\ w.batch[k].msg # "recv"}}

-----------------------------------------------------------------------------
(* What the node lets into a block.                                        *)

Codes == {"tx_transfer", "tx_ibc", "tx_bond", "tx_unbond", "tx_redelegate", "tx_withdraw",
          "tx_claim_rewards", "tx_init_proposal", "tx_vote_proposal", "tx_become_validator",
          "tx_deactivate_validator", "tx_reactivate_validator", "tx_change_validator_metadata",
          "tx_change_validator_commission", "tx_reveal_pk", "tx_unjail_validator",
          "tx_init_account"}

IsToken(token) == token \in Seq(STRING) /\ token # <<>>
IsAccounts(accounts) ==
    /\ IsFiniteSet(accounts)
    /\ \A a \in accounts : a = <<a[1], a[2]>> /\ IsToken(a[2])

\* A transfer moves tokens from its sources to its targets; what stays in the pool
\* is not in it.
IsTransfer(i) ==
    /\ IsAccounts(i.sources) /\ IsAccounts(i.targets)
    /\ {a[2] : a \in i.targets} \subseteq {a[2] : a \in i.sources}
    /\ i.shielded /\ (\A a \in i.sources \cup i.targets : a[1] = "masp") =>
          i.sources = {} /\ i.targets = {}

\* A packet's data is shielded if its receiver, or its sender, is the pool.
IsPacket(i) ==
    /\ i.msg \in {"recv", "transfer", "ackError", "ackOk", "timeout"}
    /\ IsToken(i.denom)
    /\ {i.channel, FarEnd[i.channel]} \subseteq STRING
    /\ i.msg = "recv" /\ i.shielded => i.party = "masp"

IsInner(i) ==
    /\ i.code \in Codes
    /\ i.known \in BOOLEAN /\ i.shielded \in BOOLEAN
    /\ i.code = "tx_transfer" => IsTransfer(i)
    /\ i.code = "tx_ibc" => IsPacket(i)

\* A fee is paid out of the pool by a transfer.
IsExecutedWrapper(w) ==
    /\ IsWrapper(w)
    /\ IsToken(w.token)
    /\ Len(w.batch) \in Nat \ {0} /\ DOMAIN w.batch = 1..Len(w.batch)
    /\ \A j \in DOMAIN w.batch : IsInner(w.batch[j])
    /\ {w.atomic, w.paysShielded, w.paid, w.ok} \subseteq BOOLEAN
    /\ w.accepted \in [DOMAIN w.batch -> BOOLEAN]
    /\ w.paysShielded => w.batch[1].code = "tx_transfer"
    /\ Executed(w)
=============================================================================
