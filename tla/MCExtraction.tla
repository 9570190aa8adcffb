---------------------------- MODULE MCExtraction ---------------------------
(***************************************************************************)
(* Transactions for the block extraction: one of each kind that matters,   *)
(* batches of two where the outcome of one decides about the other, fees   *)
(* in NAM and in a voucher.                                                *)
(***************************************************************************)
EXTENDS Extraction

Ends == [c0 |-> "x0", c1 |-> "x1"]
Atom == <<"c0", "atom">>

Transfer(from, to, shielded) ==
    [code |-> "tx_transfer", known |-> TRUE, sources |-> from, targets |-> to,
     shielded |-> shielded]
Packet(msg, denom, channel, party, shielded) ==
    [code |-> "tx_ibc", known |-> TRUE, msg |-> msg, denom |-> denom, channel |-> channel,
     party |-> party, shielded |-> shielded]
Staking(code, source) ==
    [code |-> code, known |-> TRUE, source |-> source, validator |-> "v", shielded |-> FALSE]
Redelegate ==
    [code |-> "tx_redelegate", known |-> TRUE, source |-> "a", validator |-> "v",
     dest |-> "w", shielded |-> FALSE]
By(code) ==
    [code |-> code, known |-> TRUE, source |-> "a", proposal |-> 0, shielded |-> FALSE]
Unknown(inner) == [inner EXCEPT !.known = FALSE]

Unshield == Transfer({<<"masp", Native>>}, {<<"a", Native>>}, TRUE)
Shield == Transfer({<<"a", Atom>>}, {<<"masp", Atom>>}, TRUE)
Mixed == Transfer({<<"a", Native>>, <<"masp", Atom>>}, {<<"b", Atom>>, <<"masp", Native>>}, TRUE)
Shielded == Transfer({}, {}, TRUE)
Pay == Transfer({<<"a", Atom>>}, {<<"b", Atom>>}, FALSE)
PayVoucher == Transfer({<<"a", <<"c0", "y", "nam">>>>}, {<<"b", <<"c0", "y", "nam">>>>}, FALSE)
Propose == By("tx_init_proposal")

Wrapper(batch, atomic, token, shieldedFee, paid, ok, accepted) ==
    [type |-> "wrapper", payer |-> "a", token |-> token, batch |-> batch, atomic |-> atomic,
     paysShielded |-> shieldedFee, paid |-> paid, ok |-> ok, accepted |-> accepted]

\* Every outcome the node can give the batch.
Outcomes(batch, atomic, token, shieldedFee) ==
    {w \in {Wrapper(batch, atomic, token, shieldedFee, paid, ok, accepted) :
               paid \in BOOLEAN, ok \in BOOLEAN, accepted \in [DOMAIN batch -> BOOLEAN]} :
        Executed(w)}
Accepted(inner) == Wrapper(<<inner>>, FALSE, Native, FALSE, TRUE, TRUE, <<TRUE>>)

\* Batches with all their outcomes; single transactions that were accepted.
Contested ==
    Outcomes(<<Unshield, By("tx_vote_proposal")>>, TRUE, Native, TRUE)
        \cup Outcomes(<<Propose, Staking("tx_bond", "a")>>, TRUE, Native, FALSE)
        \cup Outcomes(<<Staking("tx_unbond", "a"), Propose>>, FALSE, Native, FALSE)
        \cup Outcomes(<<Shield>>, TRUE, Atom, FALSE)

Plain ==
    {Accepted(i) : i \in
        {Packet("recv", <<"atom">>, "c0", "a", FALSE), Packet("recv", <<"atom">>, "c0", "masp", TRUE),
         Packet("recv", <<"x0", "nam">>, "c0", "a", FALSE),
         Packet("recv", <<"y", "nam">>, "c0", "a", FALSE),
         Packet("recv", <<"x1", "c0", "atom">>, "c1", "a", FALSE),
         Unknown(Packet("recv", <<"atom">>, "c0", "a", FALSE)),
         Packet("transfer", Atom, "c0", "a", FALSE), Packet("transfer", Atom, "c1", "a", FALSE),
         Packet("transfer", Native, "c0", "a", FALSE), Packet("transfer", Atom, "c0", "b", TRUE),
         Packet("timeout", Atom, "c0", "a", FALSE), Packet("ackError", Native, "c0", "a", FALSE),
         Packet("ackOk", Atom, "c0", "a", FALSE),
         Pay, PayVoucher, Mixed, Shielded, Propose, Unknown(Propose)}}

\* Changes of stake and validators, each of its own kind.
Rest ==
    {Accepted(i) : i \in
        {Staking("tx_withdraw", NoSource), Staking("tx_claim_rewards", "a"), Redelegate,
         By("tx_become_validator"), By("tx_deactivate_validator"), By("tx_reactivate_validator"),
         By("tx_change_validator_metadata"), By("tx_reveal_pk"), By("tx_unjail_validator")}}

MCRaws == {Protocol} \cup Contested \cup Plain \cup Rest
=============================================================================
