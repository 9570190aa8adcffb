------------------------------ MODULE MCChain ------------------------------
(***************************************************************************)
(* Instances of ChainCrawler.  A history names the heights at which the    *)
(* `Staked` pairs are bonded, unbonded in part, drained and withdrawn, and *)
(* at which transactions touch the accounts, by their fees or otherwise;   *)
(* when an epoch begins, the accounts are rewarded or funded.              *)
(***************************************************************************)
EXTENDS ChainCrawler

CONSTANTS
    a1, s1, s2, v1, v2,
    Histories           \* records: the epoch of each height, and the heights at which
                        \* there is a bond, an unbond, ...

Begins(h, epochs) == h > 1 /\ epochs[h - 1] # epochs[h]

At(h, at, S) == IF h \in at THEN S ELSE {}

\* The pairs of the instance that are bonded, unbonded and withdrawn, and the ones
\* that are bonded and partly unbonded by the first block, and left so.
CONSTANTS Staked, Steady

OnePair == {<<s1, v1>>}
OtherPair == {<<s1, v2>>}

\* Two delegators, each with a validator of its own.
Diagonal == {<<s1, v1>>, <<s2, v2>>}

MCChain(x) ==
    [h \in Heights |->
        [epoch |-> x.epochs[h],
         touched |-> At(h, x.touch, Accounts),
         paid |-> At(h, x.fees, Accounts),
         rewarded |-> IF Begins(h, x.epochs) /\ x.begins = "rewards" THEN Accounts ELSE {},
         funded |-> IF Begins(h, x.epochs) /\ x.begins = "funding" THEN Accounts ELSE {},
         bonded |-> At(h, x.bond, Staked) \cup At(h, {1}, Steady),
         unbonded |-> At(h, x.unbond \cup x.drain, Staked) \cup At(h, {1}, Steady),
         drained |-> At(h, x.drain, Staked),
         withdrawn |-> At(h, x.withdraw, Staked)]]

\* A bond unbonded in parts, of which the matured one is withdrawn, across epochs or
\* at two heights of one; a bond that is
\* drained, with a new bond and a withdrawal, or with nothing after it.  An epoch of
\* several blocks may be leapt into, and one of a single block be lagged behind.
Small ==
    {[epochs |-> <<1, 1, 2, 2>>,
      bond |-> {1}, unbond |-> {2, 3}, drain |-> {}, withdraw |-> {4}, touch |-> {1, 4},
      fees |-> {1}, begins |-> "rewards"],
     [epochs |-> <<1, 1, 2, 2>>,
      bond |-> {1, 3}, unbond |-> {}, drain |-> {2}, withdraw |-> {4}, touch |-> {2},
      fees |-> {}, begins |-> "funding"],
     [epochs |-> <<1, 2, 2, 2>>,
      bond |-> {2}, unbond |-> {}, drain |-> {3}, withdraw |-> {}, touch |-> {1, 2, 4},
      fees |-> {1}, begins |-> "rewards"],
     [epochs |-> <<1, 1, 2, 3>>,
      bond |-> {1}, unbond |-> {1, 2}, drain |-> {}, withdraw |-> {3}, touch |-> {1, 3},
      fees |-> {}, begins |-> "funding"]}

\* The code is upgraded whenever an epoch begins, or never.
Upgraded == <<1, 2, 3>>
OneCode == <<1, 1, 1>>

MCChains == {MCChain(x) : x \in Histories}
=============================================================================
